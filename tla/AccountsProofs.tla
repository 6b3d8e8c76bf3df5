---------------------------- MODULE AccountsProofs ----------------------------
(***************************************************************************)
(* Machine-checked proofs about Accounts: that it is well typed, that every  *)
(* merchant exists with his wallet and his warehouse, and that what is good  *)
(* for one use is used once, except by requests that overlap.                *)
(***************************************************************************)
EXTENDS Accounts, FiniteSetTheorems, TLAPS

-------------------------------------------------------------------------------
(* The inductive invariant.                                                 *)

Document == [exists : BOOLEAN, active : BOOLEAN, deleted : BOOLEAN, link : [Kinds -> Nat]]

Token == [owner : Accounts, from : Nat, live : BOOLEAN]

PlainTasks == {"register", "commit", "resend", "forgotten", "session", "remember", "sign out",
               "sign out pending", "bury", "bury pending", "reactivate", "forget"}
LinkTasks == {"activate", "wallet", "session", "reset"}
TokenTasks == {"refresh", "rotate", "rotated"}

PlainCall == [task : PlainTasks, id : Accounts]
LinkCall == [task : LinkTasks, id : Accounts, seen : Nat \ {0}]
TokenCall == [task : TokenTasks, id : Accounts, seen : Nat \ {0}]

AccountCall == {Free} \cup PlainCall \cup LinkCall \cup TokenCall

Typed ==
  /\ account \in [Accounts -> Document]
  /\ mailed \in [Accounts -> [Kinds -> Nat]]
  /\ bound \in Bounds
  /\ tokens \in Seq(Token)
  /\ cached \subseteq Accounts /\ wallets \subseteq Accounts /\ registered \subseteq Accounts
  /\ call \in [Slots -> AccountCall]

\* An account has the last link that was mailed to it, or none; before it exists it
\* has nothing, and then it has its wallet and its warehouse.
Sound(u) ==
  /\ \A kind \in Kinds : /\ account[u].link[kind] \in {0, mailed[u][kind]}
                         /\ mailed[u][kind] <= bound[kind]
  /\ ~account[u].exists => account[u] = Absent /\ \A kind \in Kinds : mailed[u][kind] = 0
  /\ u \in wallets <=> account[u].exists /\ HasWallet(u)
  /\ account[u].exists /\ HasWarehouse(u) => u \in registered

\* The tasks that save the account or open its wallet, having read it.
KnownTasks == {"resend", "forgotten", "activate", "wallet", "reset", "sign out",
               "sign out pending", "bury", "bury pending", "reactivate"}

\* What a request may rely on of what it has read: the account is still there, the
\* warehouse is registered, the link was mailed, the token was issued - and is used
\* up once the request has rotated it.
Informed(k) ==
  /\ call[k].task \in KnownTasks => account[call[k].id].exists
  /\ At(k, "commit") /\ HasWarehouse(call[k].id) => call[k].id \in registered
  /\ At(k, "activate") => call[k].seen <= mailed[call[k].id]["invite"]
  /\ At(k, "reset") => call[k].seen <= mailed[call[k].id]["reset"]
  /\ call[k].task \in TokenTasks => call[k].seen <= Len(tokens)
  /\ At(k, "rotated") => ~tokens[call[k].seen].live

\* The requests under way with token t, and with link l of account u.
TokenHolders(t) == {k \in Slots : call[k].task \in TokenTasks /\ call[k].seen = t}

TaskOf(kind) == IF kind = "invite" THEN "activate" ELSE "reset"

LinkHolders(u, kind, l) ==
  {k \in Slots : At(k, TaskOf(kind)) /\ call[k].id = u /\ call[k].seen = l}

\* Every replacement of a token came from a slot that had read the token live; so
\* long as it is live, it has none.
TokenSpent(t) ==
  /\ tokens[t].from \in 0 .. t - 1
  /\ tokens[t].live => Replacements(t) = {}
  /\ Cardinality(Replacements(t)) + Cardinality(TokenHolders(t)) <= Cardinality(Slots)

\* A link is used by slots that had read it in the document; so long as it is there,
\* or is not mailed yet, it is not used.
LinkSpent(u, kind) ==
  /\ uses[u][kind] = [l \in 1 .. bound[kind] |-> uses[u][kind][l]]
  /\ \A l \in 1 .. bound[kind] :
       /\ uses[u][kind][l] \in Nat
       /\ account[u].link[kind] = l \/ mailed[u][kind] < l => uses[u][kind][l] = 0
       /\ uses[u][kind][l] + Cardinality(LinkHolders(u, kind, l)) <= Cardinality(Slots)

AccountsInv ==
  /\ Typed
  /\ \A u \in Accounts : Sound(u)
  /\ \A k \in Slots : Informed(k)
  /\ \A t \in 1 .. Len(tokens) : TokenSpent(t)
  /\ uses = [u \in Accounts |-> [kind \in Kinds |-> uses[u][kind]]]
  /\ \A u \in Accounts : \A kind \in Kinds : LinkSpent(u, kind)

-------------------------------------------------------------------------------
(* Slots and calls.                                                         *)

\* How far a request has got tells what its slot holds.
LEMMA TaskTells ==
  ASSUME NEW c \in AccountCall
  PROVE  /\ c.task \in TokenTasks => c \in TokenCall
         /\ c.task \in {"activate", "wallet", "reset"} => c \in LinkCall
         /\ c.task \in PlainTasks \ {"session"} => c \in PlainCall
         /\ c # Free => c.id \in Accounts
         /\ c = Free => c.task = "none"
<1>1. Free.task = "none"
  BY DEF Free
<1>2. c \in PlainCall => c.task \in PlainTasks /\ c.id \in Accounts
  BY DEF PlainCall
<1>3. c \in LinkCall => c.task \in LinkTasks /\ c.id \in Accounts
  BY DEF LinkCall
<1>4. c \in TokenCall => c.task \in TokenTasks /\ c.id \in Accounts
  BY DEF TokenCall
<1>5. /\ PlainTasks \cap TokenTasks = {} /\ LinkTasks \cap TokenTasks = {}
      /\ LinkTasks \cap PlainTasks = {"session"} /\ "none" \notin PlainTasks \cup LinkTasks \cup TokenTasks
      /\ {"activate", "wallet", "reset"} \subseteq LinkTasks \ {"session"}
  BY DEF PlainTasks, LinkTasks, TokenTasks
<1>6. QED
  BY <1>1, <1>2, <1>3, <1>4, <1>5 DEF AccountCall

LEMMA CallSet ==
  ASSUME Typed, NEW k \in Slots, NEW new \in AccountCall, call' = [call EXCEPT ![k] = new]
  PROVE  /\ call' \in [Slots -> AccountCall]
         /\ call'[k] = new
         /\ \A j \in Slots \ {k} : call'[j] = call[j]
BY DEF Typed

\* A request arrives in a free slot.
LEMMA Arrives ==
  ASSUME Typed, NEW k \in Slots, NEW task \in PlainTasks, NEW u \in Accounts, Arrive(k, task, u)
  PROVE  \E new \in PlainCall : /\ call' = [call EXCEPT ![k] = new]
                                /\ new.task = task /\ new.id = u
<1> DEFINE new == [task |-> task, id |-> u]
<1>1. new \in PlainCall /\ new.task = task /\ new.id = u
  BY DEF PlainCall
<1>2. QED
  BY <1>1 DEF Arrive

LEMMA ArrivesWith ==
  ASSUME Typed, NEW k \in Slots, NEW task, NEW u \in Accounts, NEW seen \in Nat \ {0},
         task \in LinkTasks \cup TokenTasks, ArriveWith(k, task, u, seen)
  PROVE  \E new \in LinkCall \cup TokenCall :
           /\ call' = [call EXCEPT ![k] = new]
           /\ new.task = task /\ new.id = u /\ new.seen = seen
<1> DEFINE new == [task |-> task, id |-> u, seen |-> seen]
<1>1. new \in LinkCall \cup TokenCall /\ new.task = task /\ new.id = u /\ new.seen = seen
  <2>1. CASE task \in LinkTasks
    BY <2>1 DEF LinkCall
  <2>2. CASE task \in TokenTasks
    BY <2>2 DEF TokenCall
  <2>3. QED
    BY <2>1, <2>2
<1>2. QED
  BY <1>1 DEF ArriveWith

\* A request goes on to its next task, for the same account and with what it has seen.
LEMMA GoesOnPlain ==
  ASSUME Typed, NEW k \in Slots, NEW task \in PlainTasks, call[k] \in PlainCall, Goto(k, task)
  PROVE  \E new \in PlainCall : /\ call' = [call EXCEPT ![k] = new]
                                /\ new.task = task /\ new.id = call[k].id
<1> DEFINE new == [call[k] EXCEPT !.task = task]
<1>1. new \in PlainCall /\ new.task = task /\ new.id = call[k].id
  BY DEF PlainCall
<1>2. call' = [call EXCEPT ![k] = new]
  BY DEF Goto, Typed
<1>3. QED
  BY <1>1, <1>2

LEMMA GoesOnLink ==
  ASSUME Typed, NEW k \in Slots, NEW task \in LinkTasks, call[k] \in LinkCall, Goto(k, task)
  PROVE  \E new \in LinkCall : /\ call' = [call EXCEPT ![k] = new]
                               /\ new.task = task /\ new.id = call[k].id /\ new.seen = call[k].seen
<1> DEFINE new == [call[k] EXCEPT !.task = task]
<1>1. new \in LinkCall /\ new.task = task /\ new.id = call[k].id /\ new.seen = call[k].seen
  BY DEF LinkCall
<1>2. call' = [call EXCEPT ![k] = new]
  BY DEF Goto, Typed
<1>3. QED
  BY <1>1, <1>2

LEMMA GoesOnToken ==
  ASSUME Typed, NEW k \in Slots, NEW task \in TokenTasks, call[k] \in TokenCall, Goto(k, task)
  PROVE  \E new \in TokenCall : /\ call' = [call EXCEPT ![k] = new]
                                /\ new.task = task /\ new.id = call[k].id /\ new.seen = call[k].seen
<1> DEFINE new == [call[k] EXCEPT !.task = task]
<1>1. new \in TokenCall /\ new.task = task /\ new.id = call[k].id /\ new.seen = call[k].seen
  BY DEF TokenCall
<1>2. call' = [call EXCEPT ![k] = new]
  BY DEF Goto, Typed
<1>3. QED
  BY <1>1, <1>2

LEMMA Leaves ==
  ASSUME NEW k \in Slots, Leave(k)
  PROVE  Free \in AccountCall /\ call' = [call EXCEPT ![k] = Free]
BY DEF Leave, AccountCall

-------------------------------------------------------------------------------
(* What a step leaves as it is.                                             *)

\* Nothing that a request has read is taken back.
Kept ==
  /\ \A u \in Accounts : account[u].exists => account[u].exists'
  /\ registered \subseteq registered'
  /\ \A u \in Accounts, kind \in Kinds : mailed[u][kind] <= mailed'[u][kind]
  /\ mailed' \in [Accounts -> [Kinds -> Nat]]
  /\ Len(tokens) <= Len(tokens)'
  /\ Len(tokens)' \in Nat
  /\ \A t \in 1 .. Len(tokens) : ~tokens[t].live => ~tokens[t].live'

LEMMA OthersInformed ==
  ASSUME AccountsInv, Kept, NEW k \in Slots,
         \A j \in Slots \ {k} : call'[j] = call[j],
         Informed(k)'
  PROVE  \A j \in Slots : Informed(j)'
<1> SUFFICES ASSUME NEW j \in Slots \ {k} PROVE Informed(j)'
  OBVIOUS
<1>1. Informed(j) /\ call[j] \in AccountCall /\ call'[j] = call[j]
  BY DEF AccountsInv, Typed
<1>2. /\ call[j].task \in KnownTasks \cup {"commit"} => call[j].id \in Accounts
      /\ call[j].task \in {"activate", "reset"} => call[j].seen \in Nat \ {0} /\ call[j].id \in Accounts
      /\ call[j].task \in TokenTasks => call[j].seen \in Nat \ {0}
  BY <1>1, TaskTells DEF KnownTasks, TokenTasks, LinkCall, TokenCall, Free
<1>3. call[j].task \in KnownTasks => account[call[j].id].exists'
  BY <1>1, <1>2 DEF Informed, Kept
<1>4. At(j, "commit") /\ HasWarehouse(call[j].id) => call[j].id \in registered'
  BY <1>1, <1>2 DEF Informed, Kept
<1>5. /\ At(j, "activate") => call[j].seen <= mailed'[call[j].id]["invite"]
      /\ At(j, "reset") => call[j].seen <= mailed'[call[j].id]["reset"]
  <2>1. \A u \in Accounts, kind \in Kinds :
          mailed[u][kind] \in Nat /\ mailed'[u][kind] \in Nat /\ mailed[u][kind] <= mailed'[u][kind]
    BY DEF AccountsInv, Typed, Kept
  <2>2. QED
    BY <1>1, <1>2, <2>1 DEF Informed, At, Kinds
<1>6. call[j].task \in TokenTasks => call[j].seen <= Len(tokens)'
  <2>1. Len(tokens) \in Nat
    BY DEF AccountsInv, Typed
  <2>2. QED
    BY <1>1, <1>2, <2>1 DEF Informed, Kept
<1>7. At(j, "rotated") => ~tokens[call[j].seen].live'
  <2>1. Len(tokens) \in Nat
    BY DEF AccountsInv, Typed
  <2>2. At(j, "rotated") => call[j].seen \in 1 .. Len(tokens)
    BY <1>1, <1>2, <2>1 DEF Informed, At, TokenTasks
  <2>3. QED
    BY <1>1, <2>2 DEF Informed, Kept
<1>8. QED
  BY <1>1, <1>3, <1>4, <1>5, <1>6, <1>7 DEF Informed, At, HasWarehouse

-------------------------------------------------------------------------------
(* What is good for one use.                                                *)

\* The sets counted are finite.
LEMMA HoldersCount ==
  ASSUME NEW S \in SUBSET Slots
  PROVE  /\ IsFiniteSet(S) /\ Cardinality(S) \in Nat
         /\ Cardinality(Slots) \in Nat /\ Cardinality(S) <= Cardinality(Slots)
         /\ \A T \in SUBSET S : Cardinality(T) \in Nat /\ Cardinality(T) <= Cardinality(S)
         /\ \A k \in S : Cardinality(S \ {k}) = Cardinality(S) - 1
<1>1. IsFiniteSet(Slots) /\ IsFiniteSet(S)
  BY CallsAssumption, FS_Subset
<1>2. \A T \in SUBSET S : IsFiniteSet(T) /\ Cardinality(T) <= Cardinality(S)
  BY <1>1, FS_Subset
<1>3. QED
  BY <1>1, <1>2, FS_Subset, FS_CardinalityType, FS_RemoveElement

LEMMA ReplacementsCount ==
  ASSUME Typed, NEW t
  PROVE  IsFiniteSet(Replacements(t)) /\ Cardinality(Replacements(t)) \in Nat
<1>1. Len(tokens) \in Nat /\ DOMAIN tokens = 1 .. Len(tokens)
  BY DEF Typed
<1>2. IsFiniteSet(1 .. Len(tokens)) /\ Replacements(t) \in SUBSET (1 .. Len(tokens))
  BY <1>1, FS_Interval DEF Replacements
<1>3. QED
  BY <1>2, FS_Subset, FS_CardinalityType

\* The holders of a token, and of a link, do not grow as a request goes on.
LEMMA HoldersFall ==
  ASSUME Typed, NEW k \in Slots, NEW new \in AccountCall, call' = [call EXCEPT ![k] = new],
         new.task \in TokenTasks => call[k].task \in TokenTasks /\ new.seen = call[k].seen
  PROVE  \A t : TokenHolders(t)' \subseteq TokenHolders(t)
<1>1. call'[k] = new /\ \A j \in Slots \ {k} : call'[j] = call[j]
  BY CallSet
<1>2. QED
  BY <1>1 DEF TokenHolders

LEMMA LinkHoldersFall ==
  ASSUME Typed, NEW k \in Slots, NEW new \in AccountCall, call' = [call EXCEPT ![k] = new],
         new.task \notin {"activate", "reset"}
  PROVE  \A u, kind, l : LinkHolders(u, kind, l)' \subseteq LinkHolders(u, kind, l) \ {k}
<1>1. call'[k] = new /\ \A j \in Slots \ {k} : call'[j] = call[j]
  BY CallSet
<1>2. QED
  BY <1>1 DEF LinkHolders, At, TaskOf

\* A step that issues no token: tokens may end, and are read while they are live.
LEMMA TokensKept ==
  ASSUME AccountsInv, tokens' \in Seq(Token), Len(tokens') = Len(tokens),
         NEW t \in 1 .. Len(tokens),
         \A s \in 1 .. Len(tokens) :
           tokens'[s].from = tokens[s].from /\ (tokens'[s].live => tokens[s].live),
         tokens[t].live \/ TokenHolders(t)' \subseteq TokenHolders(t)
  PROVE  TokenSpent(t)'
<1>1. /\ Len(tokens) \in Nat /\ DOMAIN tokens = 1 .. Len(tokens)
      /\ DOMAIN tokens' = 1 .. Len(tokens)
  BY DEF AccountsInv, Typed
<1>2. Replacements(t)' = Replacements(t)
  BY <1>1 DEF Replacements
<1>3. TokenSpent(t)
  BY DEF AccountsInv
<1>4. (tokens[t].from \in 0 .. t - 1)' /\ (tokens[t].live => Replacements(t) = {})'
  BY <1>2, <1>3 DEF TokenSpent
<1>5. TokenHolders(t) \in SUBSET Slots /\ TokenHolders(t)' \in SUBSET Slots
  BY DEF TokenHolders
<1>6. Cardinality(Replacements(t)) + Cardinality(TokenHolders(t)') <= Cardinality(Slots)
  <2>1. Cardinality(Replacements(t)) \in Nat
    BY ReplacementsCount DEF AccountsInv
  <2>2. CASE tokens[t].live
    <3>1. Cardinality(Replacements(t)) = 0
      BY <1>3, <2>2, FS_EmptySet DEF TokenSpent
    <3>2. QED
      BY <3>1, <1>5, HoldersCount
  <2>3. CASE TokenHolders(t)' \subseteq TokenHolders(t)
    BY <2>1, <2>3, <1>3, <1>5, HoldersCount DEF TokenSpent
  <2>4. QED
    BY <2>2, <2>3
<1>7. QED
  BY <1>2, <1>4, <1>6 DEF TokenSpent

\* A step that uses no link: what is in the document, or not mailed yet, was so before.
LEMMA LinksKept ==
  ASSUME AccountsInv, uses' = uses, bound' = bound, NEW u \in Accounts, NEW kind \in Kinds,
         \A l \in 1 .. bound[kind] :
           /\ account'[u].link[kind] = l \/ mailed'[u][kind] < l
                => account[u].link[kind] = l \/ mailed[u][kind] < l
           /\ \/ LinkHolders(u, kind, l)' \subseteq LinkHolders(u, kind, l)
              \/ account[u].link[kind] = l
  PROVE  LinkSpent(u, kind)'
<1>1. LinkSpent(u, kind)
  BY DEF AccountsInv
<1> SUFFICES ASSUME NEW l \in 1 .. bound[kind]
             PROVE  uses[u][kind][l] + Cardinality(LinkHolders(u, kind, l)') <= Cardinality(Slots)
  BY <1>1 DEF LinkSpent
<1>2. LinkHolders(u, kind, l) \in SUBSET Slots /\ LinkHolders(u, kind, l)' \in SUBSET Slots
  BY DEF LinkHolders
<1>3. CASE account[u].link[kind] = l
  <2>1. uses[u][kind][l] = 0
    BY <1>1, <1>3 DEF LinkSpent
  <2>2. QED
    BY <2>1, <1>2, HoldersCount
<1>4. CASE LinkHolders(u, kind, l)' \subseteq LinkHolders(u, kind, l)
  BY <1>1, <1>2, <1>4, HoldersCount DEF LinkSpent
<1>5. QED
  BY <1>3, <1>4

\* A step that leaves the account, its links, its wallet and its warehouse alone.
LEMMA SoundKept ==
  ASSUME AccountsInv, NEW u \in Accounts,
         account'[u] = account[u], mailed'[u] = mailed[u], bound' = bound,
         u \in wallets' <=> u \in wallets, registered \subseteq registered'
  PROVE  Sound(u)'
<1>1. Sound(u)
  BY DEF AccountsInv
<1>2. QED
  BY <1>1 DEF Sound, HasWallet, HasWarehouse, Absent

-------------------------------------------------------------------------------
(* Steps in which a request only reads.                                     *)

storeVars == <<account, mailed, uses, tokens, cached, wallets, registered, bound>>

\* A token that is read is live, and a link that is read is the account's.
Fresh(c, new) ==
  /\ new.task \in TokenTasks =>
       \/ c.task \in TokenTasks /\ new.seen = c.seen
       \/ new.seen \in 1 .. Len(tokens) /\ tokens[new.seen].live
  /\ new.task = "activate" => account[new.id].link["invite"] = new.seen
  /\ new.task = "reset" => account[new.id].link["reset"] = new.seen

LEMMA StoreKept ==
  ASSUME AccountsInv, UNCHANGED storeVars
  PROVE  Kept
BY DEF AccountsInv, Typed, Kept, storeVars

LEMMA OnlyReads ==
  ASSUME AccountsInv, NEW k \in Slots, NEW new \in AccountCall, call' = [call EXCEPT ![k] = new],
         UNCHANGED storeVars, Informed(k)', Fresh(call[k], new)
  PROVE  AccountsInv'
<1>1. Typed' /\ call'[k] = new /\ \A j \in Slots \ {k} : call'[j] = call[j]
  BY CallSet DEF AccountsInv, Typed, storeVars
<1>2. \A u \in Accounts : Sound(u)'
  BY SoundKept DEF storeVars
<1>3. \A j \in Slots : Informed(j)'
  BY <1>1, StoreKept, OthersInformed
<1>4. \A t \in 1 .. Len(tokens) : TokenSpent(t)'
  <2> SUFFICES ASSUME NEW t \in 1 .. Len(tokens) PROVE TokenSpent(t)'
    OBVIOUS
  <2>1. tokens[t].live \/ TokenHolders(t)' \subseteq TokenHolders(t)
    BY <1>1 DEF TokenHolders, Fresh
  <2>2. tokens' = tokens /\ tokens \in Seq(Token)
    BY DEF storeVars, AccountsInv, Typed
  <2>3. QED
    BY <2>1, <2>2, TokensKept
<1>5. \A u \in Accounts, kind \in Kinds : LinkSpent(u, kind)'
  <2> SUFFICES ASSUME NEW u \in Accounts, NEW kind \in Kinds PROVE LinkSpent(u, kind)'
    OBVIOUS
  <2>1. \A l : LinkHolders(u, kind, l)' \subseteq LinkHolders(u, kind, l) \/ account[u].link[kind] = l
    BY <1>1 DEF LinkHolders, At, TaskOf, Fresh, Kinds
  <2>2. QED
    BY <2>1, LinksKept DEF storeVars
<1>6. uses' = [u \in Accounts |-> [kind \in Kinds |-> uses'[u][kind]]] /\ tokens' = tokens
  BY DEF AccountsInv, storeVars
<1>7. QED
  BY <1>1, <1>2, <1>3, <1>4, <1>5, <1>6 DEF AccountsInv

\* A request arrives having read the account.
LEMMA ArrivesInv ==
  ASSUME AccountsInv, NEW k \in Slots, NEW u \in Accounts, NEW task \in PlainTasks,
         Arrive(k, task, u), UNCHANGED storeVars,
         task \in KnownTasks => account[u].exists,
         task # "commit" \/ ~HasWarehouse(u)
  PROVE  AccountsInv'
<1>1. PICK new \in PlainCall : /\ call' = [call EXCEPT ![k] = new]
                               /\ new.task = task /\ new.id = u
  BY Arrives DEF AccountsInv
<1>2. new \in AccountCall /\ call'[k] = new
  BY <1>1, CallSet DEF AccountCall, AccountsInv
<1>3. task \notin TokenTasks \cup {"activate", "reset"}
  BY DEF PlainTasks, TokenTasks
<1>4. Informed(k)' /\ Fresh(call[k], new)
  BY <1>1, <1>2, <1>3 DEF Informed, At, Fresh, storeVars, TokenTasks, HasWarehouse
<1>5. QED
  BY <1>1, <1>2, <1>4, OnlyReads

LEMMA BeginInv ==
  ASSUME AccountsInv, NEW k \in Slots, NEW u \in Accounts, Begin(k, u), UNCHANGED bound
  PROVE  AccountsInv'
<1>1. ASSUME NEW c \in Accounts \cup Staff, Invite(k, c, u) PROVE AccountsInv'
  <2> DEFINE task == IF HasWarehouse(u) THEN "register" ELSE "commit"
  <2>1. /\ task \in PlainTasks \ KnownTasks /\ (task # "commit" \/ ~HasWarehouse(u))
        /\ Arrive(k, task, u) /\ UNCHANGED storeVars
    BY <1>1 DEF Invite, storeVars, PlainTasks, KnownTasks
  <2>2. QED
    BY <2>1, ArrivesInv
<1>2. ASSUME NEW c \in Accounts \cup Staff, ResendInvite(k, c, u) \/ Reactivate(k, c, u)
      PROVE  AccountsInv'
  <2>1. /\ UNCHANGED storeVars /\ account[u].exists
        /\ \E task \in {"resend", "reactivate"} : Arrive(k, task, u)
    BY <1>2 DEF ResendInvite, Reactivate, Reaches, Live, storeVars
  <2>2. QED
    BY <2>1, ArrivesInv DEF PlainTasks
<1>3. ASSUME NEW c \in Accounts \cup Staff, Deactivate(k, c, u) PROVE AccountsInv'
  <2>1. /\ UNCHANGED storeVars /\ account[u].exists
        /\ \E task \in {"sign out", "sign out pending"} : Arrive(k, task, u)
    BY <1>3 DEF Deactivate, Reaches, Live, storeVars
  <2>2. QED
    BY <2>1, ArrivesInv DEF PlainTasks
<1>4. ASSUME NEW c \in Accounts \cup Staff, UpdateUser(k, c, u) PROVE AccountsInv'
  BY <1>4, ArrivesInv DEF UpdateUser, storeVars, PlainTasks, KnownTasks
<1>5. ASSUME ForgotPassword(k, u) PROVE AccountsInv'
  BY <1>5, ArrivesInv DEF ForgotPassword, Enabled, Live, storeVars, PlainTasks
<1>6. ASSUME Login(k, u) PROVE AccountsInv'
  BY <1>6, ArrivesInv DEF Login, storeVars, PlainTasks, KnownTasks
<1>7. ASSUME Authenticate(k, u) PROVE AccountsInv'
  BY <1>7, ArrivesInv DEF Authenticate, storeVars, PlainTasks, KnownTasks
<1>8. ASSUME NEW kind \in Kinds, NEW l \in 1 .. bound[kind],
             ArriveWith(k, TaskOf(kind), u, l), account[u].link[kind] = l, UNCHANGED storeVars
      PROVE  AccountsInv'
  <2>1. bound[kind] \in Nat /\ l \in Nat \ {0} /\ TaskOf(kind) \in LinkTasks
    BY AccountsAssumption DEF AccountsInv, Typed, Kinds, TaskOf, LinkTasks
  <2>2. PICK new \in LinkCall \cup TokenCall : /\ call' = [call EXCEPT ![k] = new]
                                               /\ new.task = TaskOf(kind) /\ new.id = u /\ new.seen = l
    BY <1>8, <2>1, ArrivesWith DEF AccountsInv
  <2>3. new \in AccountCall /\ call'[k] = new
    BY <2>2, CallSet DEF AccountCall, AccountsInv
  <2>4. account[u].exists /\ l = mailed[u][kind]
    BY <1>8, <2>1 DEF AccountsInv, Sound, Absent
  <2>5. l <= mailed[u][kind]
    BY <2>1, <2>4
  <2>6. Informed(k)' /\ Fresh(call[k], new)
    BY <1>8, <2>2, <2>3, <2>4, <2>5 DEF Informed, At, Fresh, TaskOf, Kinds, storeVars, TokenTasks
  <2>7. QED
    BY <1>8, <2>2, <2>3, <2>6, OnlyReads
<1>9. ASSUME NEW l \in 1 .. bound.invite, FollowInvite(k, u, l) PROVE AccountsInv'
  BY <1>8, <1>9 DEF FollowInvite, TaskOf, Kinds, storeVars
<1>10. ASSUME NEW l \in 1 .. bound.reset, FollowReset(k, u, l) PROVE AccountsInv'
  BY <1>8, <1>10 DEF FollowReset, TaskOf, Kinds, storeVars
<1>11. QED
  BY <1>1, <1>2, <1>3, <1>4, <1>5, <1>6, <1>7, <1>9, <1>10 DEF Begin

LEMMA RefreshInv ==
  ASSUME AccountsInv, NEW k \in Slots, NEW t \in DOMAIN tokens, Refresh(k, t), UNCHANGED bound
  PROVE  AccountsInv'
<1>1. /\ Len(tokens) \in Nat /\ t \in 1 .. Len(tokens) /\ t \in Nat \ {0} /\ t <= Len(tokens)
      /\ tokens[t].owner \in Accounts /\ tokens[t].live
  <2>1. Len(tokens) \in Nat /\ DOMAIN tokens = 1 .. Len(tokens)
    BY DEF AccountsInv, Typed
  <2>2. tokens[t] \in Token
    BY <2>1 DEF AccountsInv, Typed
  <2>3. QED
    BY <2>1, <2>2 DEF Token, Refresh, Usable
<1>2. PICK new \in LinkCall \cup TokenCall :
        /\ call' = [call EXCEPT ![k] = new] /\ new.task = "refresh" /\ new.seen = t
  <2>1. Typed /\ "refresh" \in LinkTasks \cup TokenTasks
        /\ ArriveWith(k, "refresh", tokens[t].owner, t)
    BY DEF AccountsInv, TokenTasks, Refresh
  <2>2. QED
    BY <1>1, <2>1, ArrivesWith
<1>3. new \in AccountCall /\ call'[k] = new
  BY <1>2, CallSet DEF AccountCall, AccountsInv
<1>4. UNCHANGED storeVars
  BY DEF Refresh, storeVars
<1>5. Informed(k)' /\ Fresh(call[k], new)
  BY <1>1, <1>2, <1>3, <1>4 DEF Informed, At, Fresh, KnownTasks, storeVars
<1>6. QED
  BY <1>2, <1>3, <1>4, <1>5, OnlyReads

\* A request ends, or is lost.
LEMMA LeavesInv ==
  ASSUME AccountsInv, NEW k \in Slots, Leave(k), UNCHANGED storeVars
  PROVE  AccountsInv'
<1>1. Free \in AccountCall /\ call' = [call EXCEPT ![k] = Free] /\ call'[k] = Free
  BY Leaves, CallSet DEF AccountsInv
<1>2. Free.task = "none"
  BY DEF Free
<1>3. Informed(k)' /\ Fresh(call[k], Free)
  BY <1>1, <1>2 DEF Informed, At, Fresh, KnownTasks, TokenTasks
<1>4. QED
  BY <1>1, <1>3, OnlyReads

LEMMA RefreshUserInv ==
  ASSUME AccountsInv, NEW k \in Slots, NEW u \in Accounts, RefreshUser(k, u), UNCHANGED bound
  PROVE  AccountsInv'
<1>1. UNCHANGED storeVars /\ call[k].task = "refresh" /\ (Goto(k, "rotate") \/ Leave(k))
  BY DEF RefreshUser, storeVars, At
<1>2. CASE Goto(k, "rotate")
  <2>1. call[k] \in TokenCall
    BY <1>1, TaskTells DEF AccountsInv, Typed, TokenTasks
  <2>2. PICK new \in TokenCall : /\ call' = [call EXCEPT ![k] = new]
                                 /\ new.task = "rotate" /\ new.seen = call[k].seen
    BY <1>2, <2>1, GoesOnToken DEF AccountsInv, TokenTasks
  <2>3. new \in AccountCall /\ call'[k] = new
    BY <2>2, CallSet DEF AccountCall, AccountsInv
  <2>4. Informed(k)' /\ Fresh(call[k], new)
    BY <1>1, <2>2, <2>3 DEF AccountsInv, Informed, At, Fresh, KnownTasks, TokenTasks, storeVars
  <2>5. QED
    BY <1>1, <2>2, <2>3, <2>4, OnlyReads
<1>3. QED
  BY <1>1, <1>2, LeavesInv

-------------------------------------------------------------------------------
(* Steps that leave the tokens, or the links, alone.                        *)

LEMMA TokensAlone ==
  ASSUME AccountsInv, NEW k \in Slots, NEW new \in AccountCall, call' = [call EXCEPT ![k] = new],
         new.task \in TokenTasks => call[k].task \in TokenTasks /\ new.seen = call[k].seen,
         tokens' = tokens
  PROVE  \A t \in 1 .. Len(tokens)' : TokenSpent(t)'
<1> SUFFICES ASSUME NEW t \in 1 .. Len(tokens) PROVE TokenSpent(t)'
  OBVIOUS
<1>1. TokenHolders(t)' \subseteq TokenHolders(t)
  BY HoldersFall DEF AccountsInv
<1>2. tokens \in Seq(Token)
  BY DEF AccountsInv, Typed
<1>3. QED
  BY <1>1, <1>2, TokensKept

\* Links are withdrawn, or newly mailed.
LEMMA LinksUnused ==
  ASSUME AccountsInv, NEW k \in Slots, NEW new \in AccountCall, call' = [call EXCEPT ![k] = new],
         new.task \notin {"activate", "reset"}, uses' = uses, bound' = bound,
         \A u \in Accounts, kind \in Kinds :
           /\ mailed'[u][kind] \in Nat /\ mailed[u][kind] <= mailed'[u][kind]
           /\ \/ account'[u].link[kind] \in {0, account[u].link[kind]}
              \/ account'[u].link[kind] \in Nat /\ mailed[u][kind] < account'[u].link[kind]
  PROVE  \A u \in Accounts, kind \in Kinds : LinkSpent(u, kind)'
<1> SUFFICES ASSUME NEW u \in Accounts, NEW kind \in Kinds PROVE LinkSpent(u, kind)'
  OBVIOUS
<1>1. \A l : LinkHolders(u, kind, l)' \subseteq LinkHolders(u, kind, l)
  BY LinkHoldersFall DEF AccountsInv
<1>2. bound[kind] \in Nat /\ mailed[u][kind] \in Nat
  BY AccountsAssumption DEF AccountsInv, Typed, Kinds
<1>3. ASSUME NEW l \in 1 .. bound[kind], account'[u].link[kind] = l \/ mailed'[u][kind] < l
      PROVE  account[u].link[kind] = l \/ mailed[u][kind] < l
  BY <1>2, <1>3
<1>4. QED
  BY <1>1, <1>3, LinksKept

\* A step that leaves the documents and the tokens alone.
LEMMA QuietStep ==
  ASSUME AccountsInv, NEW k \in Slots, NEW new \in AccountCall, call' = [call EXCEPT ![k] = new],
         new.task \notin TokenTasks \cup {"activate", "reset"},
         UNCHANGED <<account, mailed, uses, tokens, wallets, bound>>,
         cached' \subseteq Accounts, registered' \subseteq Accounts, registered \subseteq registered',
         Informed(k)'
  PROVE  AccountsInv'
<1>1. Typed' /\ \A j \in Slots \ {k} : call'[j] = call[j]
  BY CallSet DEF AccountsInv, Typed
<1>2. Kept
  BY DEF AccountsInv, Typed, Kept
<1>3. \A u \in Accounts : Sound(u)'
  BY SoundKept
<1>4. \A j \in Slots : Informed(j)'
  BY <1>1, <1>2, OthersInformed
<1>5. \A t \in 1 .. Len(tokens)' : TokenSpent(t)'
  BY TokensAlone
<1>6. \A u \in Accounts, kind \in Kinds : LinkSpent(u, kind)'
  <2>1. \A u \in Accounts, kind \in Kinds :
          /\ mailed'[u][kind] \in Nat /\ mailed[u][kind] <= mailed'[u][kind]
          /\ account'[u].link[kind] = account[u].link[kind]
    BY DEF AccountsInv, Typed
  <2>2. new.task \notin {"activate", "reset"} /\ uses' = uses /\ bound' = bound
    OBVIOUS
  <2>3. QED
    BY <2>1, <2>2, LinksUnused
<1>7. uses' = [u \in Accounts |-> [kind \in Kinds |-> uses'[u][kind]]]
  BY DEF AccountsInv
<1>8. QED
  BY <1>1, <1>3, <1>4, <1>5, <1>6, <1>7 DEF AccountsInv

LEMMA RegisterInv ==
  ASSUME AccountsInv, NEW k \in Slots, NEW u \in Accounts, call[k].id = u, Register(k, u), UNCHANGED bound
  PROVE  AccountsInv'
<1>1. /\ UNCHANGED <<account, mailed, uses, tokens, cached, wallets, bound>>
      /\ call[k].task = "register" /\ cached \subseteq Accounts
      /\ \/ registered' = registered \cup {u} /\ Goto(k, "commit")
         \/ UNCHANGED registered /\ Leave(k)
  BY DEF Register, At, AccountsInv, Typed
<1>2. CASE registered' = registered \cup {u} /\ Goto(k, "commit")
  <2>1. call[k] \in PlainCall
    BY <1>1, TaskTells DEF AccountsInv, Typed, PlainTasks
  <2>2. PICK new \in PlainCall : /\ call' = [call EXCEPT ![k] = new]
                                 /\ new.task = "commit" /\ new.id = u
    <3>1. "commit" \in PlainTasks /\ Typed
      BY DEF PlainTasks, AccountsInv
    <3>2. QED
      BY <1>2, <2>1, <3>1, GoesOnPlain
  <2>3. new \in AccountCall /\ call'[k] = new
    BY <2>2, CallSet DEF AccountCall, AccountsInv
  <2>4. Informed(k)' /\ registered' \subseteq Accounts /\ new.task \notin TokenTasks
    BY <1>2, <2>2, <2>3 DEF Informed, At, KnownTasks, TokenTasks, AccountsInv, Typed
  <2>5. QED
    BY <1>1, <1>2, <2>2, <2>3, <2>4, QuietStep
<1>3. CASE UNCHANGED registered /\ Leave(k)
  BY <1>1, <1>3, LeavesInv DEF storeVars
<1>4. QED
  BY <1>1, <1>2, <1>3

\* The account a request has read has its wallet already.
LEMMA EnsureWalletInv ==
  ASSUME AccountsInv, NEW k \in Slots, NEW u \in Accounts, call[k].id = u, EnsureWallet(k, u), UNCHANGED bound
  PROVE  AccountsInv'
<1>1. /\ UNCHANGED <<account, mailed, uses, tokens, cached, registered, bound>>
      /\ call[k].task = "wallet" /\ Goto(k, "session")
      /\ cached \subseteq Accounts /\ registered \subseteq Accounts
  BY DEF EnsureWallet, At, AccountsInv, Typed
<1>2. wallets' = wallets
  <2>1. account[u].exists
    BY <1>1 DEF AccountsInv, Informed, KnownTasks
  <2>2. HasWallet(u) => u \in wallets
    BY <2>1 DEF AccountsInv, Sound
  <2>3. QED
    BY <2>2 DEF EnsureWallet
<1>3. call[k] \in LinkCall
  BY <1>1, TaskTells DEF AccountsInv, Typed
<1>4. PICK new \in LinkCall : call' = [call EXCEPT ![k] = new] /\ new.task = "session"
  BY <1>1, <1>3, GoesOnLink DEF AccountsInv, LinkTasks
<1>5. new \in AccountCall /\ call'[k] = new
  BY <1>4, CallSet DEF AccountCall, AccountsInv
<1>6. Informed(k)' /\ new.task \notin TokenTasks
  BY <1>4, <1>5 DEF Informed, At, KnownTasks, TokenTasks
<1>7. QED
  BY <1>1, <1>2, <1>4, <1>5, <1>6, QuietStep

\* The cache of profiles is filled, and emptied.
LEMMA CacheInv ==
  ASSUME AccountsInv, NEW k \in Slots, NEW u \in Accounts, Remember(k, u) \/ Forget(k, u), UNCHANGED bound
  PROVE  AccountsInv'
<1>1. /\ UNCHANGED <<account, mailed, uses, tokens, wallets, registered, bound>>
      /\ cached' \subseteq Accounts /\ registered' \subseteq Accounts /\ Leave(k)
  BY DEF Remember, Forget, AccountsInv, Typed
<1>2. Free.task = "none"
  BY DEF Free
<1>3. Free \in AccountCall /\ call' = [call EXCEPT ![k] = Free] /\ call'[k] = Free
  BY <1>1, Leaves, CallSet DEF AccountsInv
<1>4. Informed(k)' /\ Free.task \notin TokenTasks
  BY <1>2, <1>3 DEF Informed, At, KnownTasks, TokenTasks
<1>5. QED
  BY <1>1, <1>2, <1>3, <1>4, QuietStep

LEMMA ExpireInv ==
  ASSUME AccountsInv, NEW u \in Accounts, Expire(u), UNCHANGED bound
  PROVE  AccountsInv'
<1>1. UNCHANGED <<account, mailed, uses, tokens, wallets, registered, bound, call>> /\ cached' \subseteq Accounts
  BY DEF Expire, AccountsInv, Typed
<1>2. Typed'
  BY <1>1 DEF AccountsInv, Typed
<1>3. \A v \in Accounts : Sound(v)'
  BY <1>1, SoundKept
<1>4. \A j \in Slots : Informed(j)'
  BY <1>1 DEF AccountsInv, Informed, At, HasWarehouse
<1>5. \A t \in 1 .. Len(tokens)' : TokenSpent(t)'
  BY <1>1 DEF AccountsInv, TokenSpent, TokenHolders, Replacements
<1>6. \A v \in Accounts, kind \in Kinds : LinkSpent(v, kind)'
  <2> SUFFICES ASSUME NEW v \in Accounts, NEW kind \in Kinds PROVE LinkSpent(v, kind)'
    OBVIOUS
  <2>1. \A l : LinkHolders(v, kind, l)' = LinkHolders(v, kind, l)
    BY <1>1 DEF LinkHolders, At, TaskOf
  <2>2. QED
    BY <1>1, <2>1 DEF AccountsInv, LinkSpent
<1>7. uses' = [v \in Accounts |-> [kind \in Kinds |-> uses'[v][kind]]]
  BY <1>1 DEF AccountsInv
<1>8. QED
  BY <1>2, <1>3, <1>4, <1>5, <1>6, <1>7 DEF AccountsInv

-------------------------------------------------------------------------------
(* Steps that save an account.                                              *)

\* What a save does: the fields the request changed, over the document.
LEMMA Saves ==
  ASSUME Typed, NEW u \in Accounts, NEW fields, Save(u, fields),
         DOMAIN fields \subseteq {"active", "deleted", "link"},
         "active" \in DOMAIN fields => fields["active"] \in BOOLEAN,
         "deleted" \in DOMAIN fields => fields["deleted"] \in BOOLEAN,
         "link" \in DOMAIN fields => fields["link"] \in [Kinds -> Nat]
  PROVE  \E doc \in Document :
           /\ account' = [account EXCEPT ![u] = doc]
           /\ doc.exists = account[u].exists
           /\ doc.link = IF "link" \in DOMAIN fields THEN fields["link"] ELSE account[u].link
<1> DEFINE doc == [f \in DOMAIN account[u] |-> IF f \in DOMAIN fields THEN fields[f] ELSE account[u][f]]
<1>1. account[u] \in Document
  BY DEF Typed
<1>2. DOMAIN account[u] = {"exists", "active", "deleted", "link"}
  BY <1>1 DEF Document
<1>3. account' = [account EXCEPT ![u] = doc]
  BY DEF Save
<1>4. /\ doc.exists = account[u].exists
      /\ doc.link = IF "link" \in DOMAIN fields THEN fields["link"] ELSE account[u].link
      /\ doc.active \in BOOLEAN /\ doc.deleted \in BOOLEAN /\ doc.link \in [Kinds -> Nat]
      /\ doc.exists \in BOOLEAN
  BY <1>1, <1>2 DEF Document
<1>5. doc = [exists |-> doc.exists, active |-> doc.active, deleted |-> doc.deleted, link |-> doc.link]
  BY <1>2
<1>6. doc \in Document
  BY <1>4, <1>5 DEF Document
<1>7. QED
  BY <1>3, <1>4, <1>6

\* An account that exists is saved, its links kept, withdrawn or newly mailed.
LEMMA SavedStep ==
  ASSUME AccountsInv, NEW k \in Slots, NEW new \in AccountCall, call' = [call EXCEPT ![k] = new],
         new.task \notin TokenTasks \cup {"activate", "reset"}, Informed(k)',
         UNCHANGED <<uses, tokens, cached, wallets, registered, bound>>,
         NEW u \in Accounts, NEW doc \in Document, account' = [account EXCEPT ![u] = doc],
         account[u].exists, doc.exists, mailed' \in [Accounts -> [Kinds -> Nat]],
         \A v \in Accounts \ {u} : mailed'[v] = mailed[v],
         \A kind \in Kinds :
           /\ mailed[u][kind] <= mailed'[u][kind] /\ mailed'[u][kind] <= bound[kind]
           /\ doc.link[kind] \in {0, mailed'[u][kind]}
           /\ doc.link[kind] \in {0, account[u].link[kind]} \/ mailed[u][kind] < doc.link[kind]
  PROVE  AccountsInv'
<1>1. account' \in [Accounts -> Document]
  BY DEF AccountsInv, Typed
<1>2. Typed' /\ \A j \in Slots \ {k} : call'[j] = call[j]
  BY <1>1, CallSet DEF AccountsInv, Typed
<1>3. account'[u] = doc /\ \A v \in Accounts \ {u} : account'[v] = account[v]
  BY DEF AccountsInv, Typed
<1>4. /\ \A v \in Accounts, kind \in Kinds :
           /\ mailed[v][kind] \in Nat /\ mailed'[v][kind] \in Nat /\ account[v].link[kind] \in Nat
           /\ account'[v].link[kind] \in Nat
      /\ Len(tokens) \in Nat
  BY <1>1 DEF AccountsInv, Typed, Document
<1>5. \A v \in Accounts, kind \in Kinds : mailed[v][kind] <= mailed'[v][kind]
  <2> SUFFICES ASSUME NEW v \in Accounts, NEW kind \in Kinds PROVE mailed[v][kind] <= mailed'[v][kind]
    OBVIOUS
  <2>1. CASE v = u
    BY <2>1
  <2>2. CASE v # u
    <3>1. mailed'[v] = mailed[v]
      BY <2>2
    <3>2. QED
      BY <3>1, <1>4
  <2>3. QED
    BY <2>1, <2>2
<1>6. Kept
  BY <1>3, <1>4, <1>5 DEF Kept
<1>7. \A v \in Accounts : Sound(v)'
  <2> SUFFICES ASSUME NEW v \in Accounts PROVE Sound(v)'
    OBVIOUS
  <2>1. CASE v = u
    BY <2>1, <1>3 DEF AccountsInv, Sound, HasWallet, HasWarehouse
  <2>2. CASE v # u
    BY <2>2, <1>3, SoundKept
  <2>3. QED
    BY <2>1, <2>2
<1>8. \A j \in Slots : Informed(j)'
  BY <1>2, <1>6, OthersInformed
<1>9. \A t \in 1 .. Len(tokens)' : TokenSpent(t)'
  BY TokensAlone
<1>10. \A v \in Accounts, kind \in Kinds : LinkSpent(v, kind)'
  <2>1. \A v \in Accounts, kind \in Kinds :
          \/ account'[v].link[kind] \in {0, account[v].link[kind]}
          \/ account'[v].link[kind] \in Nat /\ mailed[v][kind] < account'[v].link[kind]
    BY <1>3, <1>4
  <2>2. new.task \notin {"activate", "reset"} /\ uses' = uses /\ bound' = bound
    OBVIOUS
  <2>3. QED
    BY <1>4, <1>5, <2>1, <2>2, LinksUnused
<1>11. uses' = [v \in Accounts |-> [kind \in Kinds |-> uses'[v][kind]]]
  BY DEF AccountsInv
<1>12. QED
  BY <1>2, <1>7, <1>8, <1>9, <1>10, <1>11 DEF AccountsInv

LEMMA MailedCounts ==
  ASSUME Typed, NEW u \in Accounts, NEW kind \in Kinds
  PROVE  mailed[u][kind] \in Nat /\ mailed[u][kind] <= mailed[u][kind]
BY DEF Typed

\* A deactivation, or a reactivation, saves the account without its links.
LEMMA SavedPlainly ==
  ASSUME AccountsInv, NEW k \in Slots, NEW u \in Accounts, call[k].id = u,
         call[k].task \in {"bury", "bury pending", "reactivate"}, Goto(k, "forget"),
         NEW fields, Save(u, fields), DOMAIN fields \subseteq {"active", "deleted"},
         "active" \in DOMAIN fields => fields["active"] \in BOOLEAN,
         "deleted" \in DOMAIN fields => fields["deleted"] \in BOOLEAN,
         UNCHANGED <<mailed, uses, tokens, cached, wallets, registered, bound>>
  PROVE  AccountsInv'
<1>1. Typed /\ call[k] \in PlainCall /\ "forget" \in PlainTasks
  BY TaskTells DEF AccountsInv, Typed, PlainTasks
<1>2. PICK new \in PlainCall : call' = [call EXCEPT ![k] = new] /\ new.task = "forget"
  BY <1>1, GoesOnPlain
<1>3. new \in AccountCall /\ call'[k] = new
  BY <1>1, <1>2, CallSet DEF AccountCall
<1>4. Informed(k)' /\ new.task \notin TokenTasks \cup {"activate", "reset"}
  BY <1>2, <1>3 DEF Informed, At, KnownTasks, TokenTasks
<1>5. account[u].exists
  BY DEF AccountsInv, Informed, KnownTasks
<1>6. PICK doc \in Document : /\ account' = [account EXCEPT ![u] = doc]
                              /\ doc.exists = account[u].exists /\ doc.link = account[u].link
  <2>1. DOMAIN fields \subseteq {"active", "deleted", "link"} /\ "link" \notin DOMAIN fields
    OBVIOUS
  <2>2. QED
    BY <1>1, <2>1, Saves
<1>7. /\ mailed' \in [Accounts -> [Kinds -> Nat]]
      /\ \A kind \in Kinds :
           /\ mailed[u][kind] <= mailed'[u][kind] /\ mailed'[u][kind] <= bound[kind]
           /\ doc.link[kind] \in {0, mailed'[u][kind]}
           /\ doc.link[kind] \in {0, account[u].link[kind]}
  <2>1. mailed' = mailed /\ mailed \in [Accounts -> [Kinds -> Nat]]
    BY DEF AccountsInv, Typed
  <2>2. \A kind \in Kinds : account[u].link[kind] \in {0, mailed[u][kind]} /\ mailed[u][kind] <= bound[kind]
    BY DEF AccountsInv, Sound
  <2>3. \A kind \in Kinds : mailed[u][kind] <= mailed[u][kind]
    BY <1>1, MailedCounts
  <2>4. QED
    BY <1>6, <2>1, <2>2, <2>3
<1>8. QED
  BY <1>2, <1>3, <1>4, <1>5, <1>6, <1>7, SavedStep

LEMMA BuryInv ==
  ASSUME AccountsInv, NEW k \in Slots, NEW u \in Accounts, call[k].id = u, Bury(k, u), UNCHANGED bound
  PROVE  AccountsInv'
<1>1. CASE At(k, "bury") /\ Save(u, [active |-> FALSE, deleted |-> TRUE])
  <2> DEFINE fields == [active |-> FALSE, deleted |-> TRUE]
  <2>1. DOMAIN fields = {"active", "deleted"} /\ fields["active"] = FALSE /\ fields["deleted"] = TRUE
    OBVIOUS
  <2>2. Save(u, fields)
    BY <1>1
  <2> HIDE DEF fields
  <2>3. QED
    BY <1>1, <2>1, <2>2, SavedPlainly DEF Bury, At
<1>2. CASE At(k, "bury pending") /\ Save(u, [deleted |-> TRUE])
  <2> DEFINE fields == [deleted |-> TRUE]
  <2>1. DOMAIN fields = {"deleted"} /\ fields["deleted"] = TRUE
    OBVIOUS
  <2>2. Save(u, fields)
    BY <1>2
  <2> HIDE DEF fields
  <2>3. QED
    BY <1>2, <2>1, <2>2, SavedPlainly DEF Bury, At
<1>3. QED
  BY <1>1, <1>2 DEF Bury

LEMMA ReactivatedInv ==
  ASSUME AccountsInv, NEW k \in Slots, NEW u \in Accounts, call[k].id = u, Reactivated(k, u), UNCHANGED bound
  PROVE  AccountsInv'
<1> DEFINE fields == [active |-> TRUE]
<1>1. DOMAIN fields = {"active"} /\ fields["active"] = TRUE
  OBVIOUS
<1>2. Save(u, fields)
  BY DEF Reactivated
<1> HIDE DEF fields
<1>3. QED
  BY <1>1, <1>2, SavedPlainly DEF Reactivated, At

\* A new link is mailed, and put in the place of the last one.
LEMMA NewLinkInv ==
  ASSUME AccountsInv, NEW k \in Slots, NEW u \in Accounts, NEW kind \in Kinds, call[k].id = u,
         call[k].task \in {"resend", "forgotten"}, NewLink(u, kind), Leave(k),
         UNCHANGED <<uses, tokens, cached, wallets, registered, bound>>
  PROVE  AccountsInv'
<1> DEFINE l == mailed[u][kind] + 1
           link == [account[u].link EXCEPT ![kind] = l]
           fields == [link |-> link]
<1>1. /\ Typed /\ l \in Nat /\ account[u].link \in [Kinds -> Nat] /\ link \in [Kinds -> Nat]
      /\ \A other \in Kinds : mailed[u][other] \in Nat
  BY DEF AccountsInv, Typed, Document
<1>2. DOMAIN fields = {"link"} /\ fields["link"] = link
  OBVIOUS
<1>3. Save(u, fields) /\ mailed' = [mailed EXCEPT ![u][kind] = l] /\ l <= bound[kind]
  BY DEF NewLink
<1>4. Free.task = "none"
  BY DEF Free
<1>5. Free \in AccountCall /\ call' = [call EXCEPT ![k] = Free] /\ call'[k] = Free
  BY <1>1, Leaves, CallSet
<1>6. Informed(k)' /\ Free.task \notin TokenTasks \cup {"activate", "reset"}
  BY <1>4, <1>5 DEF Informed, At, KnownTasks, TokenTasks
<1>7. account[u].exists
  BY DEF AccountsInv, Informed, KnownTasks
<1>8. link[kind] = l /\ \A other \in Kinds \ {kind} : link[other] = account[u].link[other]
  BY <1>1
<1>9. /\ mailed' \in [Accounts -> [Kinds -> Nat]]
      /\ mailed'[u][kind] = l /\ \A other \in Kinds \ {kind} : mailed'[u][other] = mailed[u][other]
      /\ \A v \in Accounts \ {u} : mailed'[v] = mailed[v]
  BY <1>1, <1>3 DEF Typed
<1>10. mailed[u][kind] < l /\ mailed[u][kind] <= l
  BY <1>1
<1> HIDE DEF l, link
<1>11. PICK doc \in Document : /\ account' = [account EXCEPT ![u] = doc]
                               /\ doc.exists = account[u].exists /\ doc.link = link
  <2> HIDE DEF fields
  <2>1. QED
    BY <1>1, <1>2, <1>3, Saves
<1>12. \A other \in Kinds :
         /\ mailed[u][other] <= mailed'[u][other] /\ mailed'[u][other] <= bound[other]
         /\ doc.link[other] \in {0, mailed'[u][other]}
         /\ doc.link[other] \in {0, account[u].link[other]} \/ mailed[u][other] < doc.link[other]
  <2> SUFFICES ASSUME NEW other \in Kinds
               PROVE  /\ mailed[u][other] <= mailed'[u][other] /\ mailed'[u][other] <= bound[other]
                      /\ link[other] \in {0, mailed'[u][other]}
                      /\ link[other] \in {0, account[u].link[other]} \/ mailed[u][other] < link[other]
    BY <1>11
  <2>1. CASE other = kind
    BY <2>1, <1>3, <1>8, <1>9, <1>10
  <2>2. CASE other # kind
    BY <2>2, <1>1, <1>8, <1>9 DEF AccountsInv, Sound
  <2>3. QED
    BY <2>1, <2>2
<1>13. QED
  BY <1>5, <1>6, <1>7, <1>9, <1>11, <1>12, SavedStep

LEMMA MailInv ==
  ASSUME AccountsInv, NEW k \in Slots, NEW u \in Accounts, call[k].id = u,
         Resend(k, u) \/ MailReset(k, u), UNCHANGED bound
  PROVE  AccountsInv'
BY NewLinkInv DEF Resend, MailReset, Kinds, At

\* The transaction of an invitation commits: the account, its first link, its wallet.
LEMMA CommitInv ==
  ASSUME AccountsInv, NEW k \in Slots, NEW u \in Accounts, call[k].id = u, Commit(k, u), UNCHANGED bound
  PROVE  AccountsInv'
<1>1. Leave(k) /\ At(k, "commit") /\ UNCHANGED <<uses, tokens, cached, registered, bound>>
  BY DEF Commit
<1>2. CASE account[u].exists
  BY <1>1, <1>2, LeavesInv DEF Commit, storeVars
<1>3. CASE ~account[u].exists
  <2> DEFINE doc == [Absent EXCEPT !.exists = TRUE, !.link["invite"] = 1]
  <2>1. /\ account' = [account EXCEPT ![u] = doc] /\ mailed' = [mailed EXCEPT ![u]["invite"] = 1]
        /\ wallets' = wallets \cup {v \in {u} : HasWallet(v)}
    BY <1>3 DEF Commit
  <2>2. doc \in Document /\ doc.exists /\ doc.link["invite"] = 1 /\ doc.link["reset"] = 0
    BY DEF Absent, Document, Kinds
  <2> HIDE DEF doc
  <2>3. /\ account \in [Accounts -> Document] /\ mailed \in [Accounts -> [Kinds -> Nat]]
        /\ wallets \subseteq Accounts /\ Kinds = {"invite", "reset"}
    BY DEF AccountsInv, Typed, Kinds
  <2>4. account'[u] = doc /\ \A v \in Accounts \ {u} : account'[v] = account[v]
    BY <2>1, <2>3
  <2>5. /\ mailed' \in [Accounts -> [Kinds -> Nat]]
        /\ mailed'[u]["invite"] = 1 /\ mailed'[u]["reset"] = mailed[u]["reset"]
        /\ \A v \in Accounts \ {u} : mailed'[v] = mailed[v]
    BY <2>1, <2>3
  <2>6. /\ mailed[u]["invite"] = 0 /\ mailed[u]["reset"] = 0
        /\ bound["invite"] \in Nat \ {0} /\ bound["reset"] \in Nat /\ u \notin wallets
    BY <1>3, AccountsAssumption DEF AccountsInv, Typed, Sound, Kinds
  <2>7. Free.task = "none"
    BY DEF Free
  <2>8. /\ Free \in AccountCall /\ call' = [call EXCEPT ![k] = Free] /\ call'[k] = Free
        /\ \A j \in Slots \ {k} : call'[j] = call[j]
    BY <1>1, Leaves, CallSet DEF AccountsInv
  <2>9. Typed'
    <3>1. account' \in [Accounts -> Document] /\ wallets' \subseteq Accounts
      BY <2>1, <2>2, <2>3
    <3>2. call' \in [Slots -> AccountCall]
      BY <2>8, CallSet DEF AccountsInv
    <3>3. QED
      BY <1>1, <2>5, <3>1, <3>2 DEF AccountsInv, Typed
  <2>10. \A v \in Accounts, kind \in Kinds : mailed[v][kind] <= mailed'[v][kind]
    <3> SUFFICES ASSUME NEW v \in Accounts, NEW kind \in Kinds PROVE mailed[v][kind] <= mailed'[v][kind]
      OBVIOUS
    <3>1. CASE v = u
      BY <3>1, <2>3, <2>5, <2>6
    <3>2. CASE v # u
      BY <3>2, <2>5, MailedCounts DEF AccountsInv
    <3>3. QED
      BY <3>1, <3>2
  <2>11. Kept
    <3>1. tokens' = tokens /\ registered' = registered /\ Len(tokens) \in Nat
      BY <1>1 DEF AccountsInv, Typed
    <3>2. \A v \in Accounts : account[v].exists => account[v].exists'
      BY <1>3, <2>4
    <3>3. QED
      BY <2>5, <2>10, <3>1, <3>2 DEF Kept
  <2>12. \A v \in Accounts : Sound(v)'
    <3> SUFFICES ASSUME NEW v \in Accounts PROVE Sound(v)'
      OBVIOUS
    <3>1. CASE v = u
      <4>1. HasWarehouse(u) => u \in registered
        BY <1>1 DEF AccountsInv, Informed
      <4>2. u \in wallets' <=> HasWallet(u)
        BY <2>1, <2>6
      <4>3. \A kind \in Kinds : /\ doc.link[kind] \in {0, mailed'[u][kind]}
                                /\ mailed'[u][kind] <= bound[kind]
        BY <2>2, <2>3, <2>5, <2>6
      <4>4. QED
        BY <1>1, <2>2, <2>4, <3>1, <4>1, <4>2, <4>3 DEF Sound, HasWallet, HasWarehouse
    <3>2. CASE v # u
      BY <1>1, <2>1, <2>4, <2>5, <3>2, SoundKept
    <3>3. QED
      BY <3>1, <3>2
  <2>13. \A j \in Slots : Informed(j)'
    <3>1. Informed(k)'
      BY <2>7, <2>8 DEF Informed, At, KnownTasks, TokenTasks
    <3>2. QED
      BY <2>8, <2>11, <3>1, OthersInformed
  <2>14. \A t \in 1 .. Len(tokens)' : TokenSpent(t)'
    BY <1>1, <2>7, <2>8, TokensAlone DEF TokenTasks
  <2>15. \A v \in Accounts, kind \in Kinds : LinkSpent(v, kind)'
    <3>1. \A v \in Accounts, kind \in Kinds :
            \/ account'[v].link[kind] \in {0, account[v].link[kind]}
            \/ account'[v].link[kind] \in Nat /\ mailed[v][kind] < account'[v].link[kind]
      BY <2>2, <2>3, <2>4, <2>6
    <3>2. \A v \in Accounts, kind \in Kinds : mailed'[v][kind] \in Nat
      BY <2>5
    <3>3. Free.task \notin {"activate", "reset"} /\ uses' = uses /\ bound' = bound
      BY <1>1, <2>7
    <3>4. QED
      BY <2>8, <2>10, <3>1, <3>2, <3>3, LinksUnused
  <2>16. uses' = [v \in Accounts |-> [kind \in Kinds |-> uses'[v][kind]]]
    BY <1>1 DEF AccountsInv
  <2>17. QED
    BY <2>9, <2>12, <2>13, <2>14, <2>15, <2>16 DEF AccountsInv
<1>4. QED
  BY <1>2, <1>3

-------------------------------------------------------------------------------
(* Steps that end tokens.                                                   *)

LEMMA TokensEnd ==
  ASSUME AccountsInv, tokens' \in Seq(Token), Len(tokens') = Len(tokens),
         \A s \in 1 .. Len(tokens) :
           tokens'[s].from = tokens[s].from /\ (tokens'[s].live => tokens[s].live),
         UNCHANGED <<account, mailed, uses, cached, wallets, registered, bound>>,
         call' \in [Slots -> AccountCall],
         \A t : TokenHolders(t)' \subseteq TokenHolders(t),
         \A u, kind, l : LinkHolders(u, kind, l)' \subseteq LinkHolders(u, kind, l),
         \A j \in Slots : Informed(j)'
  PROVE  AccountsInv'
<1>1. Typed'
  BY DEF AccountsInv, Typed
<1>2. \A u \in Accounts : Sound(u)'
  BY SoundKept
<1>3. \A t \in 1 .. Len(tokens)' : TokenSpent(t)'
  BY TokensKept
<1>4. \A u \in Accounts, kind \in Kinds : LinkSpent(u, kind)'
  BY LinksKept
<1>5. uses' = [u \in Accounts |-> [kind \in Kinds |-> uses'[u][kind]]]
  BY DEF AccountsInv
<1>6. QED
  BY <1>1, <1>2, <1>3, <1>4, <1>5 DEF AccountsInv

\* A request goes on, having ended tokens.
LEMMA EndsTokens ==
  ASSUME AccountsInv, tokens' \in Seq(Token), Len(tokens') = Len(tokens),
         \A s \in 1 .. Len(tokens) :
           tokens'[s].from = tokens[s].from /\ (tokens'[s].live => tokens[s].live),
         UNCHANGED <<account, mailed, uses, cached, wallets, registered, bound>>,
         NEW k \in Slots, NEW new \in AccountCall, call' = [call EXCEPT ![k] = new],
         new.task \in TokenTasks => call[k].task \in TokenTasks /\ new.seen = call[k].seen,
         new.task \notin {"activate", "reset"}, Informed(k)'
  PROVE  AccountsInv'
<1>1. call' \in [Slots -> AccountCall] /\ \A j \in Slots \ {k} : call'[j] = call[j]
  BY CallSet DEF AccountsInv
<1>2. /\ \A t : TokenHolders(t)' \subseteq TokenHolders(t)
      /\ \A u, kind, l : LinkHolders(u, kind, l)' \subseteq LinkHolders(u, kind, l)
  BY HoldersFall, LinkHoldersFall DEF AccountsInv
<1>3. Kept
  BY MailedCounts DEF AccountsInv, Typed, Kept
<1>4. \A j \in Slots : Informed(j)'
  BY <1>1, <1>3, OthersInformed
<1>5. QED
  BY <1>1, <1>2, <1>4, TokensEnd

\* Ending one token.
LEMMA OneEnds ==
  ASSUME Typed, NEW t \in 1 .. Len(tokens), tokens' = [tokens EXCEPT ![t].live = FALSE]
  PROVE  /\ tokens' \in Seq(Token) /\ Len(tokens') = Len(tokens)
         /\ \A s \in 1 .. Len(tokens) :
              tokens'[s].from = tokens[s].from /\ (tokens'[s].live => tokens[s].live)
         /\ ~tokens'[t].live
<1> DEFINE ended == [tokens[t] EXCEPT !.live = FALSE]
<1>1. tokens \in Seq(Token) /\ Len(tokens) \in Nat /\ tokens[t] \in Token
  BY DEF Typed
<1>2. ended \in Token /\ ended.from = tokens[t].from /\ ~ended.live
  BY <1>1 DEF Token
<1>3. tokens' = [tokens EXCEPT ![t] = ended]
  OBVIOUS
<1>4. DOMAIN tokens = 1 .. Len(tokens) /\ \A s \in 1 .. Len(tokens) : tokens[s] \in Token
  BY <1>1
<1> HIDE DEF ended
<1>5. tokens' \in [1 .. Len(tokens) -> Token]
  BY <1>2, <1>3, <1>4
<1>6. tokens' \in Seq(Token) /\ Len(tokens') = Len(tokens)
  BY <1>1, <1>5
<1>7. tokens'[t] = ended /\ \A s \in 1 .. Len(tokens) \ {t} : tokens'[s] = tokens[s]
  BY <1>3, <1>4
<1>8. QED
  BY <1>2, <1>6, <1>7

LEMMA TokenEndsInv ==
  ASSUME AccountsInv, NEW t \in DOMAIN tokens, TokenEnds(t), UNCHANGED bound
  PROVE  AccountsInv'
<1>1. /\ tokens' = [tokens EXCEPT ![t].live = FALSE] /\ t \in 1 .. Len(tokens)
      /\ UNCHANGED <<account, mailed, uses, cached, wallets, registered, bound, call>>
  BY DEF TokenEnds, AccountsInv, Typed
<1>2. /\ tokens' \in Seq(Token) /\ Len(tokens') = Len(tokens)
      /\ \A s \in 1 .. Len(tokens) :
           tokens'[s].from = tokens[s].from /\ (tokens'[s].live => tokens[s].live)
  BY <1>1, OneEnds DEF AccountsInv
<1>3. /\ call' \in [Slots -> AccountCall]
      /\ \A s : TokenHolders(s)' = TokenHolders(s)
      /\ \A u, kind, l : LinkHolders(u, kind, l)' = LinkHolders(u, kind, l)
  BY <1>1 DEF AccountsInv, Typed, TokenHolders, LinkHolders, At
<1>4. \A j \in Slots : Informed(j)'
  <2>1. Kept
    BY <1>1, <1>2, MailedCounts DEF AccountsInv, Typed, Kept
  <2> SUFFICES ASSUME NEW j \in Slots PROVE Informed(j)'
    OBVIOUS
  <2>2. call'[j] = call[j] /\ Informed(j) /\ call[j] \in AccountCall /\ Len(tokens) \in Nat
    BY <1>1 DEF AccountsInv, Typed
  <2>3. At(j, "rotated") => call[j].seen \in 1 .. Len(tokens)
    BY <2>2, TaskTells DEF Informed, At, TokenTasks, TokenCall
  <2>4. QED
    BY <1>1, <1>2, <2>1, <2>2, <2>3 DEF Informed, At, HasWarehouse, Kept
<1>5. QED
  BY <1>1, <1>2, <1>3, <1>4, TokensEnd

LEMMA RotateInv ==
  ASSUME AccountsInv, NEW k \in Slots, Rotate(k), UNCHANGED bound
  PROVE  AccountsInv'
<1>1. /\ call[k].task = "rotate" /\ Goto(k, "rotated")
      /\ tokens' = [tokens EXCEPT ![call[k].seen].live = FALSE]
      /\ UNCHANGED <<account, mailed, uses, cached, wallets, registered, bound>>
  BY DEF Rotate, At
<1>2. /\ Typed /\ call[k] \in TokenCall /\ "rotated" \in TokenTasks
      /\ call[k].seen \in Nat \ {0} /\ Len(tokens) \in Nat
  BY <1>1, TaskTells DEF AccountsInv, Typed, TokenTasks, TokenCall
<1>3. call[k].seen \in 1 .. Len(tokens)
  BY <1>1, <1>2 DEF AccountsInv, Informed, TokenTasks
<1>4. /\ tokens' \in Seq(Token) /\ Len(tokens') = Len(tokens)
      /\ \A s \in 1 .. Len(tokens) :
           tokens'[s].from = tokens[s].from /\ (tokens'[s].live => tokens[s].live)
      /\ ~tokens'[call[k].seen].live
  BY <1>1, <1>2, <1>3, OneEnds
<1>5. PICK new \in TokenCall : /\ call' = [call EXCEPT ![k] = new]
                               /\ new.task = "rotated" /\ new.seen = call[k].seen
  BY <1>1, <1>2, GoesOnToken
<1>6. new \in AccountCall /\ call'[k] = new
  BY <1>2, <1>5, CallSet DEF AccountCall
<1>7. Informed(k)' /\ call[k].task \in TokenTasks
  <2>1. call'[k].task = "rotated" /\ call'[k].seen \in 1 .. Len(tokens') /\ ~tokens'[call'[k].seen].live
    BY <1>3, <1>4, <1>5, <1>6
  <2>2. call'[k].seen <= Len(tokens')
    BY <1>2, <1>4, <2>1
  <2>3. QED
    BY <1>1, <2>1, <2>2 DEF Informed, At, KnownTasks, TokenTasks
<1>8. QED
  BY <1>1, <1>4, <1>5, <1>6, <1>7, EndsTokens

LEMMA SignOutInv ==
  ASSUME AccountsInv, NEW k \in Slots, NEW u \in Accounts, call[k].id = u, SignOut(k, u), UNCHANGED bound
  PROVE  AccountsInv'
<1>1. /\ \E task \in {"bury", "bury pending"} : Goto(k, task)
      /\ call[k].task \in {"sign out", "sign out pending"}
      /\ tokens' = [t \in DOMAIN tokens |-> [tokens[t] EXCEPT !.live = @ /\ tokens[t].owner # u]]
      /\ UNCHANGED <<account, mailed, uses, cached, wallets, registered, bound>>
  BY DEF SignOut, At
<1>2. Typed /\ call[k] \in PlainCall
  BY <1>1, TaskTells DEF AccountsInv, Typed, PlainTasks
<1>3. /\ tokens' \in Seq(Token) /\ Len(tokens') = Len(tokens)
      /\ \A s \in 1 .. Len(tokens) :
           tokens'[s].from = tokens[s].from /\ (tokens'[s].live => tokens[s].live)
  <2> DEFINE ended(t) == [tokens[t] EXCEPT !.live = @ /\ tokens[t].owner # u]
  <2>1. Len(tokens) \in Nat /\ DOMAIN tokens = 1 .. Len(tokens)
    BY <1>2 DEF Typed
  <2>2. ASSUME NEW t \in 1 .. Len(tokens)
        PROVE  ended(t) \in Token /\ ended(t).from = tokens[t].from /\ (ended(t).live => tokens[t].live)
    <3>1. tokens[t] \in Token
      BY <1>2 DEF Typed
    <3>2. QED
      BY <3>1 DEF Token
  <2>3. tokens' = [t \in 1 .. Len(tokens) |-> ended(t)]
    BY <1>1, <2>1
  <2> HIDE DEF ended
  <2>4. QED
    BY <2>1, <2>2, <2>3
<1>4. PICK task \in {"bury", "bury pending"} : Goto(k, task)
  BY <1>1
<1>5. PICK new \in PlainCall : call' = [call EXCEPT ![k] = new] /\ new.task = task /\ new.id = u
  <2>1. task \in PlainTasks
    BY DEF PlainTasks
  <2>2. QED
    BY <1>2, <1>4, <2>1, GoesOnPlain
<1>6. new \in AccountCall /\ call'[k] = new
  BY <1>2, <1>5, CallSet DEF AccountCall
<1>7. account[u].exists
  BY <1>1 DEF AccountsInv, Informed, KnownTasks
<1>8. Informed(k)' /\ new.task \notin TokenTasks \cup {"activate", "reset"}
  BY <1>1, <1>5, <1>6, <1>7 DEF Informed, At, KnownTasks, TokenTasks
<1>9. QED
  BY <1>1, <1>3, <1>5, <1>6, <1>8, EndsTokens

-------------------------------------------------------------------------------
(* Steps that issue a token.                                                *)

\* A token is issued at a sign-in, or replaces one that the request has ended.
LEMMA IssueInv ==
  ASSUME AccountsInv, NEW k \in Slots, NEW u \in Accounts, NEW from \in 0 .. Len(tokens),
         from # 0 => ~tokens[from].live /\ k \in TokenHolders(from),
         Issue(u, from), Leave(k),
         UNCHANGED <<account, mailed, uses, cached, wallets, registered, bound>>
  PROVE  AccountsInv'
<1> DEFINE n == Len(tokens) + 1
           token == [owner |-> u, from |-> from, live |-> TRUE]
<1>1. /\ Typed /\ tokens \in Seq(Token) /\ Len(tokens) \in Nat /\ n \in Nat /\ from \in Nat
      /\ DOMAIN tokens = 1 .. Len(tokens)
  BY DEF AccountsInv, Typed
<1>2. tokens' = Append(tokens, token) /\ token \in Token /\ token.from = from
  BY <1>1 DEF Issue, Token
<1> HIDE DEF token
<1>3. /\ tokens' \in Seq(Token) /\ Len(tokens') = n /\ tokens'[n] = token /\ DOMAIN tokens' = 1 .. n
      /\ \A t \in 1 .. Len(tokens) : tokens'[t] = tokens[t]
  BY <1>1, <1>2
<1>4. Free.task = "none"
  BY DEF Free
<1>5. /\ Free \in AccountCall /\ call' = [call EXCEPT ![k] = Free] /\ call'[k] = Free
      /\ call' \in [Slots -> AccountCall] /\ \A j \in Slots \ {k} : call'[j] = call[j]
  BY <1>1, Leaves, CallSet
<1>6. Typed'
  BY <1>1, <1>3, <1>5 DEF Typed
<1>7. \A v \in Accounts : Sound(v)'
  BY SoundKept
<1>8. \A j \in Slots : Informed(j)'
  <2>1. \A v \in Accounts, kind \in Kinds : mailed[v][kind] <= mailed'[v][kind]
    BY <1>1, MailedCounts
  <2>2. /\ mailed' \in [Accounts -> [Kinds -> Nat]] /\ Len(tokens) <= Len(tokens') /\ Len(tokens') \in Nat
        /\ account' = account /\ registered' = registered
    BY <1>1, <1>3 DEF Typed
  <2>3. Kept
    BY <1>3, <2>1, <2>2 DEF Kept
  <2>4. Informed(k)'
    BY <1>4, <1>5 DEF Informed, At, KnownTasks, TokenTasks
  <2>5. QED
    BY <1>5, <2>3, <2>4, OthersInformed
<1>9. \A t : TokenHolders(t)' = TokenHolders(t) \ {k}
  BY <1>4, <1>5 DEF TokenHolders, TokenTasks
<1>10. ASSUME NEW t \in 1 .. Len(tokens)', t = n PROVE TokenSpent(t)'
  <2>1. Replacements(t)' = {}
    <3>1. \A s \in 1 .. Len(tokens) : tokens[s].from \in 0 .. s - 1
      BY DEF AccountsInv, TokenSpent
    <3>2. \A s \in 1 .. n : tokens'[s].from # n
      BY <1>1, <1>2, <1>3, <3>1
    <3>3. QED
      BY <1>3, <1>10, <3>2 DEF Replacements
  <2>2. Cardinality(Replacements(t)') = 0 /\ TokenHolders(t)' \in SUBSET Slots
    BY <2>1, FS_EmptySet DEF TokenHolders
  <2>3. Cardinality(Replacements(t)') + Cardinality(TokenHolders(t)') <= Cardinality(Slots)
    BY <2>2, HoldersCount
  <2>4. from \in 0 .. n - 1
    BY <1>1
  <2>5. QED
    BY <1>2, <1>3, <1>10, <2>1, <2>3, <2>4 DEF TokenSpent
<1>11. ASSUME NEW t \in 1 .. Len(tokens), t # from PROVE TokenSpent(t)'
  <2>1. Replacements(t)' = Replacements(t)
    BY <1>1, <1>2, <1>3, <1>11 DEF Replacements
  <2>2. TokenHolders(t)' \subseteq TokenHolders(t) /\ TokenHolders(t) \in SUBSET Slots
    BY <1>9 DEF TokenHolders
  <2>3. Cardinality(Replacements(t)) \in Nat
    BY <1>1, ReplacementsCount
  <2>4. TokenSpent(t)
    BY DEF AccountsInv
  <2>5. Cardinality(Replacements(t)) + Cardinality(TokenHolders(t)') <= Cardinality(Slots)
    BY <2>2, <2>3, <2>4, HoldersCount DEF TokenSpent
  <2>6. QED
    BY <1>3, <2>1, <2>4, <2>5 DEF TokenSpent
<1>12. ASSUME NEW t \in 1 .. Len(tokens), t = from PROVE TokenSpent(t)'
  <2>1. ~tokens[t].live /\ k \in TokenHolders(t) /\ TokenHolders(t) \in SUBSET Slots
    BY <1>1, <1>12 DEF TokenHolders
  <2>2. Replacements(t)' = Replacements(t) \cup {n} /\ n \notin Replacements(t)
    BY <1>1, <1>2, <1>3, <1>12 DEF Replacements
  <2>3. IsFiniteSet(Replacements(t)) /\ Cardinality(Replacements(t)) \in Nat
    BY <1>1, ReplacementsCount
  <2>4. Cardinality(Replacements(t)') = Cardinality(Replacements(t)) + 1
    BY <2>2, <2>3, FS_AddElement
  <2>5. /\ Cardinality(TokenHolders(t)') = Cardinality(TokenHolders(t)) - 1
        /\ Cardinality(TokenHolders(t)) \in Nat /\ Cardinality(Slots) \in Nat
    BY <1>9, <2>1, HoldersCount
  <2>6. TokenSpent(t)
    BY DEF AccountsInv
  <2>7. Cardinality(Replacements(t)') + Cardinality(TokenHolders(t)') <= Cardinality(Slots)
    BY <2>3, <2>4, <2>5, <2>6 DEF TokenSpent
  <2>8. QED
    BY <1>3, <2>1, <2>6, <2>7 DEF TokenSpent
<1>13. \A t \in 1 .. Len(tokens)' : TokenSpent(t)'
  BY <1>1, <1>3, <1>10, <1>11, <1>12
<1>14. \A v \in Accounts, kind \in Kinds : LinkSpent(v, kind)'
  <2>1. \A v \in Accounts, kind \in Kinds :
          /\ mailed'[v][kind] \in Nat /\ mailed[v][kind] <= mailed'[v][kind]
          /\ account'[v].link[kind] = account[v].link[kind]
    BY <1>1, MailedCounts
  <2>2. Free.task \notin {"activate", "reset"} /\ uses' = uses /\ bound' = bound
    BY <1>4
  <2>3. QED
    BY <1>5, <2>1, <2>2, LinksUnused
<1>15. uses' = [v \in Accounts |-> [kind \in Kinds |-> uses'[v][kind]]]
  BY DEF AccountsInv
<1>16. QED
  BY <1>6, <1>7, <1>8, <1>13, <1>14, <1>15 DEF AccountsInv

LEMMA CreateSessionInv ==
  ASSUME AccountsInv, NEW k \in Slots, NEW u \in Accounts, CreateSession(k, u), UNCHANGED bound
  PROVE  AccountsInv'
<1>1. Len(tokens) \in Nat /\ 0 \in 0 .. Len(tokens)
  BY DEF AccountsInv, Typed
<1>2. QED
  BY <1>1, IssueInv DEF CreateSession

LEMMA ReissueInv ==
  ASSUME AccountsInv, NEW k \in Slots, NEW u \in Accounts, Reissue(k, u), UNCHANGED bound
  PROVE  AccountsInv'
<1>1. call[k].task = "rotated" /\ call[k] \in TokenCall /\ Len(tokens) \in Nat
  BY TaskTells DEF Reissue, At, AccountsInv, Typed, TokenTasks
<1>2. call[k].seen \in 0 .. Len(tokens) /\ ~tokens[call[k].seen].live /\ k \in TokenHolders(call[k].seen)
  BY <1>1 DEF AccountsInv, Informed, At, TokenTasks, TokenCall, TokenHolders
<1>3. QED
  BY <1>2, IssueInv DEF Reissue

-------------------------------------------------------------------------------
(* Steps that use a link.                                                   *)

\* What the use of a link does to the counts.
LEMMA UsesAfter ==
  ASSUME AccountsInv, NEW u \in Accounts, NEW kind \in Kinds, NEW l \in 1 .. bound[kind],
         SetsPassword(u, kind, l), bound' = bound
  PROVE  /\ uses' = [v \in Accounts |-> [other \in Kinds |-> uses'[v][other]]]
         /\ \A v \in Accounts, other \in Kinds : v # u \/ other # kind => uses'[v][other] = uses[v][other]
         /\ uses'[u][kind] = [m \in 1 .. bound[kind] |-> uses'[u][kind][m]]
         /\ uses'[u][kind][l] = uses[u][kind][l] + 1
         /\ \A m \in 1 .. bound[kind] : m # l => uses'[u][kind][m] = uses[u][kind][m]
<1>1. /\ uses = [v \in Accounts |-> [other \in Kinds |-> uses[v][other]]]
      /\ uses[u][kind] = [m \in 1 .. bound[kind] |-> uses[u][kind][m]]
  BY DEF AccountsInv, LinkSpent
<1>2. DOMAIN uses = Accounts /\ DOMAIN uses[u] = Kinds /\ DOMAIN uses[u][kind] = 1 .. bound[kind]
  BY <1>1
<1> DEFINE now == [uses[u][kind] EXCEPT ![l] = @ + 1]
           ofU == [uses[u] EXCEPT ![kind] = now]
<1>3. uses' = [uses EXCEPT ![u] = ofU]
  BY DEF SetsPassword
<1>4. /\ now = [m \in 1 .. bound[kind] |-> now[m]]
      /\ now[l] = uses[u][kind][l] + 1
      /\ \A m \in 1 .. bound[kind] : m # l => now[m] = uses[u][kind][m]
  BY <1>2
<1> HIDE DEF now
<1>5. ofU[kind] = now /\ \A other \in Kinds : other # kind => ofU[other] = uses[u][other]
  BY <1>2
<1>6. DOMAIN ofU = Kinds /\ ofU = [other \in Kinds |-> ofU[other]]
  BY <1>2
<1> HIDE DEF ofU
<1>7. uses'[u] = ofU /\ \A v \in Accounts : v # u => uses'[v] = uses[v]
  BY <1>2, <1>3
<1>8. \A v \in Accounts : uses'[v] = [other \in Kinds |-> uses'[v][other]]
  <2> SUFFICES ASSUME NEW v \in Accounts PROVE uses'[v] = [other \in Kinds |-> uses'[v][other]]
    OBVIOUS
  <2>1. CASE v = u
    BY <1>6, <1>7, <2>1
  <2>2. CASE v # u
    <3>1. uses[v] = [other \in Kinds |-> uses[v][other]]
      BY <1>1
    <3>2. QED
      BY <1>7, <2>2, <3>1
  <2>3. QED
    BY <2>1, <2>2
<1>9. uses' = [v \in Accounts |-> uses'[v]]
  BY <1>2, <1>3
<1>10. QED
  BY <1>4, <1>5, <1>7, <1>8, <1>9

\* A request uses the link it has read, and withdraws what link the account has.
LEMMA UsedStep ==
  ASSUME AccountsInv, NEW k \in Slots, NEW u \in Accounts, NEW kind \in Kinds,
         call[k].id = u, call[k].task = TaskOf(kind),
         SetsPassword(u, kind, call[k].seen),
         NEW doc \in Document, account' = [account EXCEPT ![u] = doc], doc.exists = account[u].exists,
         doc.link = [account[u].link EXCEPT ![kind] = 0],
         NEW new \in AccountCall, call' = [call EXCEPT ![k] = new],
         new.task \notin TokenTasks \cup {"activate", "reset", "commit"},
         new.task \in KnownTasks => new.id = u,
         UNCHANGED <<mailed, tokens, cached, wallets, registered, bound>>
  PROVE  AccountsInv'
<1>0. PICK l : l = call[k].seen
  OBVIOUS
<1>1. /\ Typed /\ account \in [Accounts -> Document] /\ account' \in [Accounts -> Document]
      /\ account[u].link \in [Kinds -> Nat] /\ Len(tokens) \in Nat
  BY DEF AccountsInv, Typed, Document
<1>2. account[u].exists
  BY DEF AccountsInv, Informed, KnownTasks, TaskOf
<1>3. l \in Nat \ {0} /\ l <= mailed[u][kind] /\ l <= bound[kind] /\ l \in 1 .. bound[kind]
  <2>1. call[k] \in LinkCall
    BY <1>1, TaskTells DEF Typed, TaskOf
  <2>2. l <= mailed[u][kind] /\ mailed[u][kind] <= bound[kind]
    BY <1>0 DEF AccountsInv, Informed, At, TaskOf, Sound, Kinds
  <2>3. l \in Nat \ {0} /\ mailed[u][kind] \in Nat /\ bound[kind] \in Nat
    BY <1>0, <1>1, <2>1, MailedCounts, AccountsAssumption DEF LinkCall, Typed, Kinds
  <2>4. QED
    BY <2>2, <2>3
<1>4. /\ call' \in [Slots -> AccountCall] /\ call'[k] = new
      /\ \A j \in Slots \ {k} : call'[j] = call[j]
  BY <1>1, CallSet
<1>5. /\ account'[u] = doc /\ \A v \in Accounts \ {u} : account'[v] = account[v]
      /\ doc.link[kind] = 0 /\ \A other \in Kinds : other # kind => doc.link[other] = account[u].link[other]
  BY <1>1
<1>6. Typed'
  BY <1>1, <1>4 DEF Typed
<1>7. \A v \in Accounts : Sound(v)'
  <2> SUFFICES ASSUME NEW v \in Accounts PROVE Sound(v)'
    OBVIOUS
  <2>1. CASE v = u
    <3>1. \A other \in Kinds : /\ doc.link[other] \in {0, mailed[u][other]}
                               /\ mailed[u][other] <= bound[other]
      BY <1>5 DEF AccountsInv, Sound
    <3>2. /\ u \in wallets <=> account[u].exists /\ HasWallet(u)
          /\ account[u].exists /\ HasWarehouse(u) => u \in registered
      BY DEF AccountsInv, Sound
    <3>3. QED
      BY <1>2, <1>5, <2>1, <3>1, <3>2 DEF Sound, HasWallet, HasWarehouse
  <2>2. CASE v # u
    BY <1>5, <2>2, SoundKept
  <2>3. QED
    BY <2>1, <2>2
<1>8. \A j \in Slots : Informed(j)'
  <2>1. \A v \in Accounts, other \in Kinds : mailed[v][other] <= mailed'[v][other]
    BY <1>1, MailedCounts
  <2>2. Kept
    <3>1. \A v \in Accounts : account[v].exists => account[v].exists'
      BY <1>2, <1>5
    <3>2. mailed' \in [Accounts -> [Kinds -> Nat]] /\ tokens' = tokens /\ registered' = registered
      BY <1>1 DEF Typed
    <3>3. QED
      BY <1>1, <2>1, <3>1, <3>2 DEF Kept
  <2>3. Informed(k)'
    <3>1. account'[u].exists
      BY <1>2, <1>5
    <3>2. QED
      BY <1>4, <3>1 DEF Informed, At, TokenTasks
  <2>4. QED
    BY <1>4, <2>2, <2>3, OthersInformed
<1>9. \A t \in 1 .. Len(tokens)' : TokenSpent(t)'
  BY TokensAlone
<1>10. \A v, other, m : LinkHolders(v, other, m)' \subseteq LinkHolders(v, other, m) \ {k}
  BY <1>1, LinkHoldersFall
<1>11. /\ uses' = [v \in Accounts |-> [other \in Kinds |-> uses'[v][other]]]
       /\ \A v \in Accounts, other \in Kinds : v # u \/ other # kind => uses'[v][other] = uses[v][other]
       /\ uses'[u][kind] = [m \in 1 .. bound[kind] |-> uses'[u][kind][m]]
       /\ uses'[u][kind][l] = uses[u][kind][l] + 1
       /\ \A m \in 1 .. bound[kind] : m # l => uses'[u][kind][m] = uses[u][kind][m]
  <2>1. SetsPassword(u, kind, l) /\ bound' = bound
    BY <1>0
  <2>2. QED
    BY <1>3, <2>1, UsesAfter
<1>12. \A v \in Accounts, other \in Kinds : LinkSpent(v, other)'
  <2> SUFFICES ASSUME NEW v \in Accounts, NEW other \in Kinds PROVE LinkSpent(v, other)'
    OBVIOUS
  <2>1. LinkSpent(v, other) /\ mailed' = mailed /\ bound' = bound
    BY DEF AccountsInv
  <2>2. CASE v = u /\ other = kind
    <3>1. ASSUME NEW m \in 1 .. bound[kind], m = l
          PROVE  /\ uses'[u][kind][m] \in Nat
                 /\ uses'[u][kind][m] + Cardinality(LinkHolders(u, kind, m)') <= Cardinality(Slots)
                 /\ account'[u].link[kind] # m /\ ~(mailed[u][kind] < m)
      <4>1. k \in LinkHolders(u, kind, l) /\ LinkHolders(u, kind, l) \in SUBSET Slots
        BY <1>0 DEF LinkHolders, At
      <4>2. LinkHolders(u, kind, l)' \subseteq LinkHolders(u, kind, l) \ {k}
            /\ LinkHolders(u, kind, l) \ {k} \in SUBSET Slots
        BY <1>10, <4>1
      <4>3. /\ Cardinality(LinkHolders(u, kind, l)') <= Cardinality(LinkHolders(u, kind, l) \ {k})
            /\ Cardinality(LinkHolders(u, kind, l)') \in Nat
        BY <4>2, HoldersCount
      <4>4. /\ Cardinality(LinkHolders(u, kind, l) \ {k}) = Cardinality(LinkHolders(u, kind, l)) - 1
            /\ Cardinality(LinkHolders(u, kind, l)) \in Nat /\ Cardinality(Slots) \in Nat
        BY <4>1, HoldersCount
      <4>5. /\ uses[u][kind][l] \in Nat
            /\ uses[u][kind][l] + Cardinality(LinkHolders(u, kind, l)) <= Cardinality(Slots)
        BY <1>3, <2>1, <2>2 DEF LinkSpent
      <4>6. mailed[u][kind] \in Nat
        BY <1>1, MailedCounts
      <4>7. uses'[u][kind][l] \in Nat
            /\ uses'[u][kind][l] + Cardinality(LinkHolders(u, kind, l)') <= Cardinality(Slots)
        <5>1. uses'[u][kind][l] = uses[u][kind][l] + 1
          BY <1>11
        <5>2. QED
          BY <4>3, <4>4, <4>5, <5>1
      <4>8. account'[u].link[kind] # l /\ ~(mailed[u][kind] < l)
        <5>1. account'[u].link[kind] = 0
          BY <1>5
        <5>2. l \in Nat \ {0} /\ l <= mailed[u][kind]
          BY <1>3
        <5>3. QED
          BY <4>6, <5>1, <5>2
      <4>9. QED
        BY <3>1, <4>7, <4>8
    <3>2. ASSUME NEW m \in 1 .. bound[kind], m # l
          PROVE  /\ uses'[u][kind][m] \in Nat
                 /\ uses'[u][kind][m] + Cardinality(LinkHolders(u, kind, m)') <= Cardinality(Slots)
                 /\ account'[u].link[kind] = m \/ mailed[u][kind] < m => uses'[u][kind][m] = 0
      <4>1. LinkHolders(u, kind, m) \in SUBSET Slots /\ LinkHolders(u, kind, m)' \subseteq LinkHolders(u, kind, m)
        <5>1. LinkHolders(u, kind, m) \in SUBSET Slots
          BY DEF LinkHolders
        <5>2. QED
          BY <1>10, <5>1
      <4>2. /\ Cardinality(LinkHolders(u, kind, m)') <= Cardinality(LinkHolders(u, kind, m))
            /\ Cardinality(LinkHolders(u, kind, m)') \in Nat
            /\ Cardinality(LinkHolders(u, kind, m)) \in Nat /\ Cardinality(Slots) \in Nat
        BY <4>1, HoldersCount
      <4>3. /\ uses[u][kind][m] \in Nat
            /\ uses[u][kind][m] + Cardinality(LinkHolders(u, kind, m)) <= Cardinality(Slots)
            /\ mailed[u][kind] < m => uses[u][kind][m] = 0
        BY <2>1, <2>2 DEF LinkSpent
      <4>4. uses'[u][kind][m] = uses[u][kind][m] /\ account'[u].link[kind] # m
        <5>1. bound[kind] \in Nat
          BY AccountsAssumption DEF AccountsInv, Typed, Kinds
        <5>2. uses'[u][kind][m] = uses[u][kind][m]
          BY <1>11, <3>2
        <5>3. account'[u].link[kind] = 0
          BY <1>5
        <5>4. m # 0
          BY <5>1
        <5>5. QED
          BY <5>2, <5>3, <5>4
      <4>5. QED
        BY <4>2, <4>3, <4>4
    <3>3. QED
      <4>1. uses'[u][kind] = [m \in 1 .. bound[kind] |-> uses'[u][kind][m]]
        BY <1>11
      <4>2. \A m \in 1 .. bound[kind] :
              /\ uses'[u][kind][m] \in Nat
              /\ uses'[u][kind][m] + Cardinality(LinkHolders(u, kind, m)') <= Cardinality(Slots)
              /\ account'[u].link[kind] = m \/ mailed[u][kind] < m => uses'[u][kind][m] = 0
        BY <3>1, <3>2
      <4>3. LinkSpent(u, kind)'
        BY <2>1, <4>1, <4>2 DEF LinkSpent
      <4>4. QED
        BY <2>2, <4>3
  <2>3. CASE v # u \/ other # kind
    <3>1. uses'[v][other] = uses[v][other]
      BY <1>11, <2>3
    <3>2. account'[v].link[other] = account[v].link[other]
      <4>1. CASE v = u
        <5>1. other # kind
          BY <2>3, <4>1
        <5>2. doc.link[other] = account[u].link[other] /\ account'[u] = doc
          BY <1>5, <5>1
        <5>3. QED
          BY <4>1, <5>2
      <4>2. CASE v # u
        BY <1>5, <4>2
      <4>3. QED
        BY <4>1, <4>2
    <3>3. ASSUME NEW m \in 1 .. bound[other]
          PROVE  uses[v][other][m] + Cardinality(LinkHolders(v, other, m)') <= Cardinality(Slots)
      <4>1. LinkHolders(v, other, m) \in SUBSET Slots /\ LinkHolders(v, other, m)' \subseteq LinkHolders(v, other, m)
        <5>1. LinkHolders(v, other, m) \in SUBSET Slots
          BY DEF LinkHolders
        <5>2. QED
          BY <1>10, <5>1
      <4>2. /\ Cardinality(LinkHolders(v, other, m)') <= Cardinality(LinkHolders(v, other, m))
            /\ Cardinality(LinkHolders(v, other, m)') \in Nat
            /\ Cardinality(LinkHolders(v, other, m)) \in Nat /\ Cardinality(Slots) \in Nat
        BY <4>1, HoldersCount
      <4>3. /\ uses[v][other][m] \in Nat
            /\ uses[v][other][m] + Cardinality(LinkHolders(v, other, m)) <= Cardinality(Slots)
        BY <2>1 DEF LinkSpent
      <4>4. QED
        BY <4>2, <4>3
    <3>4. QED
      BY <2>1, <3>1, <3>2, <3>3 DEF LinkSpent
  <2>4. QED
    BY <2>2, <2>3
<1>13. QED
  BY <1>6, <1>7, <1>8, <1>9, <1>11, <1>12 DEF AccountsInv

LEMMA ActivateInv ==
  ASSUME AccountsInv, NEW k \in Slots, NEW u \in Accounts, call[k].id = u, Activate(k, u), UNCHANGED bound
  PROVE  AccountsInv'
<1> DEFINE link == [account[u].link EXCEPT !["invite"] = 0]
           fields == [active |-> TRUE, link |-> link]
<1>1. /\ call[k].task = "activate" /\ SetsPassword(u, "invite", call[k].seen) /\ Goto(k, "wallet")
      /\ Save(u, fields) /\ UNCHANGED <<mailed, tokens, cached, wallets, registered, bound>>
  BY DEF Activate, At
<1>2. /\ Typed /\ link \in [Kinds -> Nat] /\ call[k] \in LinkCall
      /\ "wallet" \in LinkTasks /\ "invite" \in Kinds /\ TaskOf("invite") = "activate"
  BY <1>1, TaskTells DEF AccountsInv, Typed, Document, LinkTasks, Kinds, TaskOf
<1>3. DOMAIN fields = {"active", "link"} /\ fields["active"] = TRUE /\ fields["link"] = link
  OBVIOUS
<1> HIDE DEF link, fields
<1>4. PICK doc \in Document : /\ account' = [account EXCEPT ![u] = doc]
                              /\ doc.exists = account[u].exists /\ doc.link = link
  BY <1>1, <1>2, <1>3, Saves
<1>5. PICK new \in LinkCall : /\ call' = [call EXCEPT ![k] = new]
                              /\ new.task = "wallet" /\ new.id = u
  BY <1>1, <1>2, GoesOnLink
<1>6. /\ new \in AccountCall /\ doc.link = [account[u].link EXCEPT !["invite"] = 0]
      /\ new.task \notin TokenTasks \cup {"activate", "reset", "commit"}
  BY <1>4, <1>5 DEF AccountCall, TokenTasks, link
<1>7. QED
  BY <1>1, <1>2, <1>4, <1>5, <1>6, UsedStep

LEMMA ResetPasswordInv ==
  ASSUME AccountsInv, NEW k \in Slots, NEW u \in Accounts, call[k].id = u, ResetPassword(k, u), UNCHANGED bound
  PROVE  AccountsInv'
<1> DEFINE link == [account[u].link EXCEPT !["reset"] = 0]
           fields == [link |-> link]
<1>1. /\ call[k].task = "reset" /\ SetsPassword(u, "reset", call[k].seen) /\ Leave(k)
      /\ Save(u, fields) /\ UNCHANGED <<mailed, tokens, cached, wallets, registered, bound>>
  BY DEF ResetPassword, At
<1>2. /\ Typed /\ link \in [Kinds -> Nat] /\ "reset" \in Kinds /\ TaskOf("reset") = "reset"
  BY DEF AccountsInv, Typed, Document, Kinds, TaskOf
<1>3. DOMAIN fields = {"link"} /\ fields["link"] = link
  OBVIOUS
<1> HIDE DEF link, fields
<1>4. PICK doc \in Document : /\ account' = [account EXCEPT ![u] = doc]
                              /\ doc.exists = account[u].exists /\ doc.link = link
  BY <1>1, <1>2, <1>3, Saves
<1>5. Free.task = "none"
  BY DEF Free
<1>6. /\ Free \in AccountCall /\ call' = [call EXCEPT ![k] = Free]
      /\ Free.task \notin TokenTasks \cup {"activate", "reset", "commit"} /\ Free.task \notin KnownTasks
      /\ doc.link = [account[u].link EXCEPT !["reset"] = 0]
  BY <1>1, <1>4, <1>5, Leaves DEF TokenTasks, KnownTasks, link
<1>7. QED
  BY <1>1, <1>2, <1>4, <1>6, UsedStep

-------------------------------------------------------------------------------
(* The theorems.                                                            *)

LEMMA InitInv == AccountsInit => AccountsInv
<1> SUFFICES ASSUME AccountsInit PROVE AccountsInv
  OBVIOUS
<1>1. Absent \in Document /\ Absent.exists = FALSE /\ \A kind \in Kinds : Absent.link[kind] = 0
  BY DEF Absent, Document, Kinds
<1>2. /\ account = [u \in Accounts |-> Absent]
      /\ mailed = [u \in Accounts |-> [kind \in Kinds |-> 0]]
      /\ bound \in Bounds
      /\ uses = [u \in Accounts |-> [kind \in Kinds |-> [l \in 1 .. bound[kind] |-> 0]]]
      /\ tokens = <<>> /\ cached = {} /\ wallets = {} /\ registered = {}
      /\ call = [k \in Slots |-> Free]
  BY DEF AccountsInit, CallsInit
<1>3. Typed
  BY <1>1, <1>2 DEF Typed, AccountCall
<1>4. \A kind \in Kinds : bound[kind] \in Nat
  BY <1>2, AccountsAssumption DEF Kinds
<1>5. \A u \in Accounts : Sound(u)
  BY <1>1, <1>2, <1>4 DEF Sound
<1>6. Free.task = "none"
  BY DEF Free
<1>7. \A k \in Slots : Informed(k)
  BY <1>2, <1>6 DEF Informed, At, KnownTasks, TokenTasks
<1>8. \A t \in 1 .. Len(tokens) : TokenSpent(t)
  BY <1>2
<1>9. uses = [u \in Accounts |-> [kind \in Kinds |-> uses[u][kind]]]
  BY <1>2
<1>10. \A u \in Accounts : \A kind \in Kinds : LinkSpent(u, kind)
  <2> SUFFICES ASSUME NEW u \in Accounts, NEW kind \in Kinds PROVE LinkSpent(u, kind)
    OBVIOUS
  <2>1. uses[u][kind] = [l \in 1 .. bound[kind] |-> 0]
    BY <1>2
  <2>2. \A l : LinkHolders(u, kind, l) \in SUBSET Slots
    BY DEF LinkHolders
  <2>3. \A l : Cardinality(LinkHolders(u, kind, l)) \in Nat
               /\ 0 + Cardinality(LinkHolders(u, kind, l)) <= Cardinality(Slots)
    BY <2>2, HoldersCount
  <2>4. QED
    BY <2>1, <2>3 DEF LinkSpent
<1>11. QED
  BY <1>3, <1>5, <1>7, <1>8, <1>9, <1>10 DEF AccountsInv

LEMMA ContinueInv ==
  ASSUME AccountsInv, NEW k \in Slots, NEW u \in Accounts, Continue(k, u), UNCHANGED bound
  PROVE  AccountsInv'
<1>1. call[k].id = u
  BY DEF Continue
<1>2. CASE \/ Register(k, u) \/ Commit(k, u) \/ Resend(k, u) \/ MailReset(k, u)
           \/ Activate(k, u) \/ EnsureWallet(k, u) \/ ResetPassword(k, u)
  BY <1>1, <1>2, RegisterInv, CommitInv, MailInv, ActivateInv, EnsureWalletInv, ResetPasswordInv
<1>3. CASE \/ CreateSession(k, u) \/ RefreshUser(k, u) \/ Rotate(k) \/ Reissue(k, u)
  BY <1>3, CreateSessionInv, RefreshUserInv, RotateInv, ReissueInv
<1>4. CASE \/ Remember(k, u) \/ Forget(k, u) \/ SignOut(k, u) \/ Bury(k, u) \/ Reactivated(k, u)
  BY <1>1, <1>4, CacheInv, SignOutInv, BuryInv, ReactivatedInv
<1>5. QED
  BY <1>2, <1>3, <1>4 DEF Continue

LEMMA StepInv == AccountsInv /\ [Next]_accountVars => AccountsInv'
<1> SUFFICES ASSUME AccountsInv, [Next]_accountVars PROVE AccountsInv'
  OBVIOUS
<1>1. CASE Next
  <2>1. UNCHANGED bound
    BY <1>1 DEF Next
  <2>2. CASE \E k \in Slots, u \in Accounts : Begin(k, u) \/ Continue(k, u)
    BY <2>1, <2>2, BeginInv, ContinueInv
  <2>3. CASE \E k \in Slots, t \in DOMAIN tokens : Refresh(k, t)
    BY <2>1, <2>3, RefreshInv
  <2>4. CASE \E t \in DOMAIN tokens : TokenEnds(t)
    BY <2>1, <2>4, TokenEndsInv
  <2>5. CASE \E u \in Accounts : Expire(u)
    BY <2>1, <2>5, ExpireInv
  <2>6. CASE \E k \in Slots :
               Drop(k) /\ UNCHANGED <<account, mailed, uses, tokens, cached, wallets, registered>>
    BY <2>1, <2>6, LeavesInv DEF Drop, storeVars
  <2>7. QED
    BY <1>1, <2>2, <2>3, <2>4, <2>5, <2>6 DEF Next, AccountsStep
<1>2. CASE UNCHANGED accountVars
  <2>1. /\ UNCHANGED storeVars /\ call' = call
    BY <1>2 DEF accountVars, storeVars
  <2>2. Typed'
    BY <2>1 DEF AccountsInv, Typed, storeVars
  <2>3. \A u \in Accounts : Sound(u)'
    BY <2>1, SoundKept DEF storeVars
  <2>4. \A k \in Slots : Informed(k)'
    BY <2>1 DEF AccountsInv, Informed, At, HasWarehouse, storeVars
  <2>5. \A t \in 1 .. Len(tokens)' : TokenSpent(t)'
    BY <2>1 DEF AccountsInv, TokenSpent, TokenHolders, Replacements, storeVars
  <2>6. \A u \in Accounts, kind \in Kinds : LinkSpent(u, kind)'
    <3> SUFFICES ASSUME NEW u \in Accounts, NEW kind \in Kinds PROVE LinkSpent(u, kind)'
      OBVIOUS
    <3>1. \A l : LinkHolders(u, kind, l)' = LinkHolders(u, kind, l)
      BY <2>1 DEF LinkHolders, At, TaskOf
    <3>2. QED
      BY <2>1, <3>1 DEF AccountsInv, LinkSpent, storeVars
  <2>7. uses' = [u \in Accounts |-> [kind \in Kinds |-> uses'[u][kind]]]
    BY <2>1 DEF AccountsInv, storeVars
  <2>8. QED
    BY <2>2, <2>3, <2>4, <2>5, <2>6, <2>7 DEF AccountsInv
<1>3. QED
  BY <1>1, <1>2

LEMMA SpecInv == Spec => []AccountsInv
BY InitInv, StepInv, PTL DEF Spec

\* Accounts, links, tokens and caches stay within their types; a link in a document is
\* one that was mailed, and an account that does not exist has nothing.
THEOREM TypeCorrect == Spec => []TypeOK
<1>1. AccountsInv => TypeOK
  <2> SUFFICES ASSUME AccountsInv PROVE TypeOK
    OBVIOUS
  <2>1. /\ account \in [Accounts -> Document] /\ tokens \in Seq(Token) /\ DOMAIN tokens = 1 .. Len(tokens)
        /\ cached \subseteq Accounts /\ wallets \subseteq Accounts /\ registered \subseteq Accounts
    BY DEF AccountsInv, Typed
  <2>2. \A u \in Accounts, kind \in Kinds :
          account[u].link[kind] <= mailed[u][kind] /\ mailed[u][kind] <= bound[kind]
    <3> SUFFICES ASSUME NEW u \in Accounts, NEW kind \in Kinds
                 PROVE  account[u].link[kind] <= mailed[u][kind] /\ mailed[u][kind] <= bound[kind]
      OBVIOUS
    <3>1. mailed[u][kind] \in Nat
      BY MailedCounts DEF AccountsInv
    <3>2. account[u].link[kind] \in {0, mailed[u][kind]} /\ mailed[u][kind] <= bound[kind]
      BY DEF AccountsInv, Sound
    <3>3. QED
      BY <3>1, <3>2
  <2>3. \A t \in DOMAIN tokens : tokens[t].owner \in Accounts /\ tokens[t].from \in 0 .. (t - 1)
    <3> SUFFICES ASSUME NEW t \in 1 .. Len(tokens)
                 PROVE  tokens[t].owner \in Accounts /\ tokens[t].from \in 0 .. (t - 1)
      BY <2>1
    <3>1. tokens[t] \in Token /\ TokenSpent(t)
      BY <2>1 DEF AccountsInv
    <3>2. QED
      BY <3>1 DEF Token, TokenSpent
  <2>4. \A u \in Accounts : ~account[u].exists => account[u] = Absent
    BY DEF AccountsInv, Sound
  <2>5. QED
    BY <2>1, <2>2, <2>3, <2>4 DEF TypeOK, Document
<1>2. QED
  BY <1>1, SpecInv, PTL

\* Registration, invitation and activation, in whatever order the requests run and
\* wherever one of them is lost, leave no merchant without his wallet or with a
\* warehouse the carrier does not know, and no wallet without its owner.
THEOREM MerchantsExistWhole == Spec => []MerchantsAreWhole
<1>1. AccountsInv => MerchantsAreWhole
  BY DEF AccountsInv, Sound, MerchantsAreWhole
<1>2. QED
  BY <1>1, SpecInv, PTL

\* A refresh token is replaced, and a mailed link is used, at most as often as there
\* are requests that can have read it at one time: for any number of slots, tokens
\* and links, and wherever requests are lost.
THEOREM UsedOnceUnlessOverlapping == Spec => []SingleUseUnlessOverlapping
<1>1. AccountsInv => SingleUseUnlessOverlapping
  <2> SUFFICES ASSUME AccountsInv PROVE SingleUseUnlessOverlapping
    OBVIOUS
  <2>1. ASSUME NEW t \in DOMAIN tokens PROVE Cardinality(Replacements(t)) <= Cardinality(Slots)
    <3>1. t \in 1 .. Len(tokens) /\ TokenSpent(t)
      BY DEF AccountsInv, Typed
    <3>2. Cardinality(Replacements(t)) \in Nat
      BY ReplacementsCount DEF AccountsInv
    <3>3. TokenHolders(t) \in SUBSET Slots
      BY DEF TokenHolders
    <3>4. Cardinality(TokenHolders(t)) \in Nat /\ Cardinality(Slots) \in Nat
      BY <3>3, HoldersCount
    <3>5. QED
      BY <3>1, <3>2, <3>4 DEF TokenSpent
  <2>2. ASSUME NEW u \in Accounts, NEW kind \in Kinds, NEW l \in 1 .. bound[kind]
        PROVE  uses[u][kind][l] <= Cardinality(Slots)
    <3>1. LinkHolders(u, kind, l) \in SUBSET Slots
      BY DEF LinkHolders
    <3>2. Cardinality(LinkHolders(u, kind, l)) \in Nat /\ Cardinality(Slots) \in Nat
      BY <3>1, HoldersCount
    <3>3. /\ uses[u][kind][l] \in Nat
          /\ uses[u][kind][l] + Cardinality(LinkHolders(u, kind, l)) <= Cardinality(Slots)
      BY DEF AccountsInv, LinkSpent
    <3>4. QED
      BY <3>2, <3>3
  <2>3. QED
    BY <2>1, <2>2 DEF SingleUseUnlessOverlapping
<1>2. QED
  BY <1>1, SpecInv, PTL

===============================================================================
