------------------------------- MODULE Accounts -------------------------------
(***************************************************************************)
(* Accounts and their sessions: an account is invited, activated through a   *)
(* mailed link, signs in, rotates its refresh token, and is deactivated.     *)
(* Each request saves only the fields it changed, and the profile cache is   *)
(* filled and emptied without a lock.                                        *)
(***************************************************************************)
EXTENDS Calls, Sequences

CONSTANTS
  Accounts,     \* accounts that may be invited
  Role,         \* the role each will have, and that of each of the staff
  Staff,        \* Super Admin and distributors, signed in throughout
  Inviter,      \* who of the staff invites an account
  Bounds        \* bounds on refresh tokens and on mailed links of each kind;
                \* each behaviour keeps to one of them; an account comes with a link

ASSUME AccountsAssumption ==
  /\ Accounts \cap Staff = {}
  /\ Role \in [Accounts \cup Staff -> {"SUPER_ADMIN", "DISTRIBUTOR", "MERCHANT", "WAREHOUSE"}]
  /\ Inviter \in [Accounts -> Staff]
  /\ Bounds \subseteq [tokens : Nat, invite : Nat \ {0}, reset : Nat]

VARIABLES
  account,      \* the documents: active, deleted, the live invite and reset link
  mailed,       \* links mailed so far, of each kind
  uses,         \* uses[u][kind][l]: times link l of u set a password
  tokens,       \* refresh tokens, oldest first; from: the token it replaced, or 0
  cached,       \* accounts whose profile is in the cache of the process
  wallets,      \* accounts that have a wallet
  registered,   \* accounts whose warehouse the carrier knows
  bound         \* the bounds of this behaviour

accountVars == <<account, mailed, uses, tokens, cached, wallets, registered, bound, call>>

Kinds == {"invite", "reset"}

Absent == [exists |-> FALSE, active |-> FALSE, deleted |-> FALSE,
           link |-> [kind \in Kinds |-> 0]]

AccountsInit ==
  /\ account = [u \in Accounts |-> Absent]
  /\ mailed = [u \in Accounts |-> [kind \in Kinds |-> 0]]
  /\ bound \in Bounds
  /\ uses = [u \in Accounts |-> [kind \in Kinds |-> [l \in 1..bound[kind] |-> 0]]]
  /\ tokens = <<>>
  /\ cached = {} /\ wallets = {} /\ registered = {}
  /\ CallsInit

\* Faulty variant: null is not told from a document that is not deleted.
UnlessDeleted(u) == ~account[u].deleted

Live(u) == account[u].exists /\ ~account[u].deleted
Enabled(u) == Live(u) /\ account[u].active

HasWallet(u) == Role[u] \in {"DISTRIBUTOR", "MERCHANT"}
HasWarehouse(u) == Role[u] = "MERCHANT"

Invitable == [SUPER_ADMIN |-> {"DISTRIBUTOR", "MERCHANT", "WAREHOUSE"},
              DISTRIBUTOR |-> {"MERCHANT", "WAREHOUSE"},
              MERCHANT    |-> {},
              WAREHOUSE   |-> {}]

\* The profile a request is served under: from the cache, or read and filtered.
Admitted(c) == c \in Staff \cup cached \cup {u \in Accounts : Enabled(u)}

\* findUserWithAccess: the Super Admin reaches everyone, a distributor those he
\* invited, a merchant himself; a deactivated account is not found.
Reaches(c, u) ==
  /\ Admitted(c)
  /\ Live(u)
  /\ CASE Role[c] = "SUPER_ADMIN" -> TRUE
       [] Role[c] = "DISTRIBUTOR" -> Inviter[u] = c /\ Role[u] \in {"MERCHANT", "WAREHOUSE"}
       [] Role[c] = "MERCHANT"    -> u = c
       [] OTHER                     -> FALSE

\* A document's save writes the fields the request changed since it read them.
Save(u, fields) ==
  account' = [account EXCEPT ![u] = [f \in DOMAIN @ |-> IF f \in DOMAIN fields THEN fields[f] ELSE @[f]]]

NewLink(u, kind) ==
  LET l == mailed[u][kind] + 1 IN
    /\ l <= bound[kind]
    /\ mailed' = [mailed EXCEPT ![u][kind] = l]
    /\ Save(u, [link |-> [account[u].link EXCEPT ![kind] = l]])

-------------------------------------------------------------------------------
(* Invitation: the account, its wallet and its warehouse are one transaction, *)
(* in which the carrier is called.                                            *)

Invite(k, c, u) ==
  /\ Admitted(c) /\ Inviter[u] = c
  /\ Role[u] \in Invitable[Role[c]]
  /\ ~account[u].exists
  /\ Arrive(k, IF HasWarehouse(u) THEN "register" ELSE "commit", u)
  /\ UNCHANGED <<account, mailed, uses, tokens, cached, wallets, registered>>

\* Faulty variant: the wallet is created outside the transaction's session.
RegisterBesideWallet(k, u) ==
  /\ At(k, "register")
  /\ wallets' = wallets \cup {u}
  /\ \/ registered' = registered \cup {u} /\ Goto(k, "commit")
     \/ UNCHANGED registered /\ Leave(k)
  /\ UNCHANGED <<account, mailed, uses, tokens, cached>>

\* The carrier registers the warehouse, or its refusal aborts the transaction.
Register(k, u) ==
  /\ At(k, "register")
  /\ \/ registered' = registered \cup {u} /\ Goto(k, "commit")
     \/ UNCHANGED registered /\ Leave(k)
  /\ UNCHANGED <<account, mailed, uses, tokens, cached, wallets>>

\* Two invitations of one address: the second commit violates the unique index.
Commit(k, u) ==
  /\ At(k, "commit")
  /\ Leave(k)
  /\ IF account[u].exists
     THEN UNCHANGED <<account, mailed, wallets>>
     ELSE /\ account' = [account EXCEPT ![u] = [Absent EXCEPT !.exists = TRUE, !.link["invite"] = 1]]
          /\ mailed' = [mailed EXCEPT ![u]["invite"] = 1]
          /\ wallets' = wallets \cup {v \in {u} : HasWallet(v)}
  /\ UNCHANGED <<uses, tokens, cached, registered>>

ResendInvite(k, c, u) ==
  /\ Reaches(c, u) /\ ~account[u].active
  /\ Arrive(k, "resend", u)
  /\ UNCHANGED <<account, mailed, uses, tokens, cached, wallets, registered>>

Resend(k, u) ==
  /\ At(k, "resend")
  /\ NewLink(u, "invite")
  /\ Leave(k)
  /\ UNCHANGED <<uses, tokens, cached, wallets, registered>>

-------------------------------------------------------------------------------
(* Links: what is looked up by the hash of a link is any account that has it,  *)
(* a deactivated one included.                                                *)

FollowInvite(k, u, l) ==
  /\ account[u].link["invite"] = l
  /\ ~account[u].active
  /\ ArriveWith(k, "activate", u, l)
  /\ UNCHANGED <<account, mailed, uses, tokens, cached, wallets, registered>>

SetsPassword(u, kind, l) == uses' = [uses EXCEPT ![u][kind][l] = @ + 1]

Activate(k, u) ==
  /\ At(k, "activate")
  /\ Save(u, [active |-> TRUE, link |-> [account[u].link EXCEPT !["invite"] = 0]])
  /\ SetsPassword(u, "invite", call[k].seen)
  /\ Goto(k, "wallet")
  /\ UNCHANGED <<mailed, tokens, cached, wallets, registered>>

\* The wallet is created in case it is missing; an error is only logged.
EnsureWallet(k, u) ==
  /\ At(k, "wallet")
  /\ wallets' = wallets \cup {v \in {u} : HasWallet(v)}
  /\ Goto(k, "session")
  /\ UNCHANGED <<account, mailed, uses, tokens, cached, registered>>

ForgotPassword(k, u) ==
  /\ Enabled(u)
  /\ Arrive(k, "forgotten", u)
  /\ UNCHANGED <<account, mailed, uses, tokens, cached, wallets, registered>>

MailReset(k, u) ==
  /\ At(k, "forgotten")
  /\ NewLink(u, "reset")
  /\ Leave(k)
  /\ UNCHANGED <<uses, tokens, cached, wallets, registered>>

FollowReset(k, u, l) ==
  /\ account[u].link["reset"] = l
  /\ ArriveWith(k, "reset", u, l)
  /\ UNCHANGED <<account, mailed, uses, tokens, cached, wallets, registered>>

ResetPassword(k, u) ==
  /\ At(k, "reset")
  /\ Save(u, [link |-> [account[u].link EXCEPT !["reset"] = 0]])
  /\ SetsPassword(u, "reset", call[k].seen)
  /\ Leave(k)
  /\ UNCHANGED <<mailed, tokens, cached, wallets, registered>>

-------------------------------------------------------------------------------
(* Sessions. *)

Login(k, u) ==
  /\ Enabled(u)
  /\ Arrive(k, "session", u)
  /\ UNCHANGED <<account, mailed, uses, tokens, cached, wallets, registered>>

Issue(u, from) ==
  /\ Len(tokens) < bound.tokens
  /\ tokens' = Append(tokens, [owner |-> u, from |-> from, live |-> TRUE])

CreateSession(k, u) ==
  /\ At(k, "session")
  /\ Issue(u, 0)
  /\ Leave(k)
  /\ UNCHANGED <<account, mailed, uses, cached, wallets, registered>>

\* Faulty variant: the token is looked up, and not tested.
UsableOnceKnown(t) == TRUE

Usable(t) == tokens[t].live

Refresh(k, t) ==
  /\ Usable(t)
  /\ ArriveWith(k, "refresh", tokens[t].owner, t)
  /\ UNCHANGED <<account, mailed, uses, tokens, cached, wallets, registered>>

RefreshUser(k, u) ==
  /\ At(k, "refresh")
  /\ IF Enabled(u) THEN Goto(k, "rotate") ELSE Leave(k)
  /\ UNCHANGED <<account, mailed, uses, tokens, cached, wallets, registered>>

Rotate(k) ==
  /\ At(k, "rotate")
  /\ tokens' = [tokens EXCEPT ![call[k].seen].live = FALSE]
  /\ Goto(k, "rotated")
  /\ UNCHANGED <<account, mailed, uses, cached, wallets, registered>>

Reissue(k, u) ==
  /\ At(k, "rotated")
  /\ Issue(u, call[k].seen)
  /\ Leave(k)
  /\ UNCHANGED <<account, mailed, uses, cached, wallets, registered>>

\* Sign-out, and the token's thirty days.
TokenEnds(t) ==
  /\ tokens[t].live
  /\ tokens' = [tokens EXCEPT ![t].live = FALSE]
  /\ UNCHANGED <<account, mailed, uses, cached, wallets, registered, call>>

-------------------------------------------------------------------------------
(* Requests of an account that has signed in. *)

\* Faulty variant: the lookup without the filter on deletedAt.
ActiveOnly(u) == account[u].exists /\ account[u].active

ReadProfile(u) == Enabled(u)

\* A request with an access token: the profile is cached, or is read and cached.
Authenticate(k, u) ==
  /\ \E t \in DOMAIN tokens : tokens[t].owner = u
  /\ u \notin cached
  /\ ReadProfile(u)
  /\ Arrive(k, "remember", u)
  /\ UNCHANGED <<account, mailed, uses, tokens, cached, wallets, registered>>

Remember(k, u) ==
  /\ At(k, "remember")
  /\ cached' = cached \cup {u}
  /\ Leave(k)
  /\ UNCHANGED <<account, mailed, uses, tokens, wallets, registered>>

\* The five minutes of a cached profile are over.
Expire(u) ==
  /\ u \in cached
  /\ cached' = cached \ {u}
  /\ UNCHANGED <<account, mailed, uses, tokens, wallets, registered, call>>

-------------------------------------------------------------------------------
(* The life of an account. *)

\* isActive is among the fields a deactivation saves if it was set when read.
Deactivate(k, c, u) ==
  /\ Reaches(c, u) /\ c # u /\ Role[c] # "MERCHANT"
  /\ Arrive(k, IF account[u].active THEN "sign out" ELSE "sign out pending", u)
  /\ UNCHANGED <<account, mailed, uses, tokens, cached, wallets, registered>>

SignOut(k, u) ==
  /\ \/ At(k, "sign out") /\ Goto(k, "bury")
     \/ At(k, "sign out pending") /\ Goto(k, "bury pending")
  /\ tokens' = [t \in DOMAIN tokens |-> [tokens[t] EXCEPT !.live = @ /\ tokens[t].owner # u]]
  /\ UNCHANGED <<account, mailed, uses, cached, wallets, registered>>

Bury(k, u) ==
  /\ \/ At(k, "bury") /\ Save(u, [active |-> FALSE, deleted |-> TRUE])
     \/ At(k, "bury pending") /\ Save(u, [deleted |-> TRUE])
  /\ Goto(k, "forget")
  /\ UNCHANGED <<mailed, uses, tokens, cached, wallets, registered>>

\* A deactivated account is not found: what is reactivated is one that was
\* never activated.
Reactivate(k, c, u) ==
  /\ Reaches(c, u) /\ ~account[u].active
  /\ Arrive(k, "reactivate", u)
  /\ UNCHANGED <<account, mailed, uses, tokens, cached, wallets, registered>>

Reactivated(k, u) ==
  /\ At(k, "reactivate")
  /\ Save(u, [active |-> TRUE])
  /\ Goto(k, "forget")
  /\ UNCHANGED <<mailed, uses, tokens, cached, wallets, registered>>

\* A profile's fields are saved, and the cached profile dropped.
UpdateUser(k, c, u) ==
  /\ Reaches(c, u) /\ u \in cached
  /\ Arrive(k, "forget", u)
  /\ UNCHANGED <<account, mailed, uses, tokens, cached, wallets, registered>>

Forget(k, u) ==
  /\ At(k, "forget")
  /\ cached' = cached \ {u}
  /\ Leave(k)
  /\ UNCHANGED <<account, mailed, uses, tokens, wallets, registered>>

-------------------------------------------------------------------------------

Begin(k, u) ==
  \/ \E c \in Accounts \cup Staff :
       \/ Invite(k, c, u) \/ ResendInvite(k, c, u)
       \/ Deactivate(k, c, u) \/ Reactivate(k, c, u) \/ UpdateUser(k, c, u)
  \/ \E l \in 1..bound.invite : FollowInvite(k, u, l)
  \/ \E l \in 1..bound.reset : FollowReset(k, u, l)
  \/ ForgotPassword(k, u) \/ Login(k, u) \/ Authenticate(k, u)

Continue(k, u) ==
  /\ call[k].id = u
  /\ \/ Register(k, u) \/ Commit(k, u) \/ Resend(k, u)
     \/ Activate(k, u) \/ EnsureWallet(k, u) \/ MailReset(k, u) \/ ResetPassword(k, u)
     \/ CreateSession(k, u) \/ RefreshUser(k, u) \/ Rotate(k) \/ Reissue(k, u)
     \/ Remember(k, u)
     \/ SignOut(k, u) \/ Bury(k, u) \/ Reactivated(k, u) \/ Forget(k, u)

AccountsStep ==
  \/ \E k \in Slots, u \in Accounts : Begin(k, u) \/ Continue(k, u)
  \/ \E k \in Slots, t \in DOMAIN tokens : Refresh(k, t)
  \/ \E t \in DOMAIN tokens : TokenEnds(t)
  \/ \E u \in Accounts : Expire(u)
  \/ \E k \in Slots : Drop(k) /\ UNCHANGED <<account, mailed, uses, tokens, cached, wallets, registered>>

Next == AccountsStep /\ UNCHANGED bound

Spec == AccountsInit /\ [][Next]_accountVars

\* The store deletes what has expired.
FairSpec == Spec /\ \A u \in Accounts : WF_accountVars(Expire(u) /\ UNCHANGED bound)

-------------------------------------------------------------------------------

TypeOK ==
  /\ account \in [Accounts -> [exists : BOOLEAN, active : BOOLEAN, deleted : BOOLEAN,
                               link : [Kinds -> Nat]]]
  /\ \A u \in Accounts, kind \in Kinds :
       account[u].link[kind] <= mailed[u][kind] /\ mailed[u][kind] <= bound[kind]
  /\ \A t \in DOMAIN tokens : tokens[t].owner \in Accounts /\ tokens[t].from \in 0..(t - 1)
  /\ cached \subseteq Accounts /\ wallets \subseteq Accounts /\ registered \subseteq Accounts
  /\ \A u \in Accounts : ~account[u].exists => account[u] = Absent

Replacements(t) == {s \in DOMAIN tokens : tokens[s].from = t}

\* A refresh token is replaced by one token, and a mailed link sets one
\* password, except as far as requests with it overlapped: what was used is
\* refused to every request that comes later.
SingleUseUnlessOverlapping ==
  /\ \A t \in DOMAIN tokens : Cardinality(Replacements(t)) <= Cardinality(Slots)
  /\ \A u \in Accounts, kind \in Kinds : \A l \in 1..bound[kind] :
       uses[u][kind][l] <= Cardinality(Slots)

\* A merchant or distributor who exists has his wallet, nobody else has one, and
\* the carrier knows the warehouse of every merchant who exists.
MerchantsAreWhole ==
  \A u \in Accounts :
    /\ u \in wallets <=> account[u].exists /\ HasWallet(u)
    /\ account[u].exists /\ HasWarehouse(u) => u \in registered

\* A deactivated account is shut out in the end, and for good: a profile cached
\* by a request that had read it before is not cached again.
ShutOut == \A u \in Accounts : <>[](account[u].deleted => u \notin cached)

===============================================================================
