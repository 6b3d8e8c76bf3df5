-------------------------- MODULE WalletLedgerProofs --------------------------
(***************************************************************************)
(* Machine-checked proofs about WalletLedger, for every set of wallets and  *)
(* requests, every sequence of legs and every bound.                        *)
(***************************************************************************)
EXTENDS WalletLedger, TLAPS

-------------------------------------------------------------------------------
(* Type correctness, in both modes.                                         *)

\* A request that is inside applyTransaction is working on one of its legs.
LegOK ==
  \A r \in Requests :
    pc[r] \in {"wallet", "reference", "update", "insert"} => leg[r] \in 1 .. Len(Legs[r])

TypeInv == TypeOK /\ LegOK

\* A request between its first leg and its commit works on one of its legs.
LEMMA CallIsLeg ==
  ASSUME NEW r \in Requests, LegOK,
         pc[r] \in {"wallet", "reference", "update", "insert"}
  PROVE  /\ Call(r) \in Leg
         /\ Call(r).wallet \in Wallets
         /\ Call(r).type \in TransactionTypes
         /\ Call(r).amount \in Nat \ {0}
         /\ Call(r).ref \in References
<1>1. leg[r] \in 1 .. Len(Legs[r])
  BY DEF LegOK
<1>2. Legs[r] \in Seq(Leg)
  BY LegsAssumption
<1>3. Legs[r][leg[r]] \in Leg
  BY <1>1, <1>2
<1>4. QED
  BY <1>3 DEF Call, Leg

\* The initial state has the types.
LEMMA InitTypeInv == Init => TypeInv
<1>1. InitialStore \in Store
  <2>1. \A w \in Wallets : InitialBalance[w] \in Int /\ InitialEscrow[w] \in Int
    BY InitialAssumption
  <2>2. /\ InitialBalance \in [Wallets -> Int]
        /\ InitialEscrow \in [Wallets -> Int]
    BY <2>1, InitialAssumption
  <2>3. [w \in Wallets |-> << >>] \in [Wallets -> Seq(Entry)]
    OBVIOUS
  <2>4. QED
    BY <2>2, <2>3 DEF InitialStore, Store
<1>2. QED
  BY <1>1 DEF Init, TypeInv, TypeOK, LegOK, Open, NoDoc

\* The store a request reads is a store.
LEMMA SeeType ==
  ASSUME TypeOK, NEW r \in Requests
  PROVE  See(r) \in Store
BY DEF TypeOK, See

\* The $inc of a leg gives a store.
LEMMA MovedType ==
  ASSUME TypeInv, NEW r \in Requests, pc[r] \in {"reference", "update", "insert"}
  PROVE  Moved(r) \in Store
<1> DEFINE w == Call(r).wallet
           a == Call(r).amount
           s == See(r)
<1>1. w \in Wallets /\ a \in Int /\ Effect(Call(r).type, a) \in Int
  BY CallIsLeg DEF TypeInv, Effect
<1>2. s \in Store
  BY SeeType DEF TypeInv
<1>3. [s.balance EXCEPT ![w] = @ + Effect(Call(r).type, a)] \in [Wallets -> Int]
  BY <1>1, <1>2 DEF Store
<1>4. [s.escrow EXCEPT ![w] = IF Call(r).type = "COD_CREDIT" THEN @ - a ELSE @]
        \in [Wallets -> Int]
  BY <1>1, <1>2 DEF Store
<1>5. QED
  BY <1>2, <1>3, <1>4 DEF Moved, Store

\* What createWalletTransaction inserts is a Transaction document.
LEMMA NewEntryType ==
  ASSUME TypeInv, NEW r \in Requests, pc[r] = "insert"
  PROVE  NewEntry(r) \in Entry
BY CallIsLeg DEF TypeInv, TypeOK, NewEntry, Entry

\* The insert gives a store.
LEMMA InsertedType ==
  ASSUME TypeInv, NEW r \in Requests, pc[r] = "insert"
  PROVE  Inserted(r) \in Store
<1> DEFINE w == Call(r).wallet
           s == See(r)
<1>1. s \in Store
  BY SeeType DEF TypeInv
<1>2. NewEntry(r) \in Entry
  BY NewEntryType
<1>3. w \in Wallets
  BY CallIsLeg DEF TypeInv
<1>4. [s.ledger EXCEPT ![w] = Append(@, NewEntry(r))] \in [Wallets -> Seq(Entry)]
  BY <1>1, <1>2, <1>3 DEF Store
<1>5. QED
  BY <1>1, <1>4 DEF Store, Inserted

\* What commitTransaction writes is a store.
LEMMA CommittedType ==
  ASSUME TypeInv, NEW r \in Requests
  PROVE  Committed(r) \in Store
<1>1. view[r] \in Store /\ db \in Store
  BY DEF TypeInv, TypeOK
<1>2. QED
  BY <1>1 DEF Committed, Store

\* A write keeps the types of the store and of the views.
LEMMA PutType ==
  ASSUME TypeOK, NEW r \in Requests, NEW s \in Store, Put(r, s)
  PROVE  db' \in Store /\ view' \in [Requests -> Store]
BY DEF TypeOK, Put

\* Going on to the next leg keeps the types of pc and leg.
LEMMA AfterLegType ==
  ASSUME TypeInv, NEW r \in Requests, AfterLeg(r),
         pc[r] \in {"reference", "insert"}
  PROVE  /\ pc' \in [Requests -> {"idle", "done", "failed"} \cup Open]
         /\ leg' \in [Requests -> Nat]
         /\ LegOK'
<1>1. leg[r] \in 1 .. Len(Legs[r]) /\ Len(Legs[r]) \in Nat
  BY LegsAssumption DEF TypeInv, LegOK
<1>2. CASE leg[r] < Len(Legs[r])
  <2>1. /\ leg' = [leg EXCEPT ![r] = leg[r] + 1]
        /\ pc' = [pc EXCEPT ![r] = "wallet"]
    BY <1>2 DEF AfterLeg
  <2>2. leg[r] + 1 \in 1 .. Len(Legs[r]) /\ leg[r] + 1 \in Nat
    BY <1>1, <1>2
  <2>3. QED
    BY <2>1, <2>2 DEF TypeInv, TypeOK, LegOK, Open
<1>3. CASE ~(leg[r] < Len(Legs[r]))
  <2>1. pc' = [pc EXCEPT ![r] = "commit"] /\ leg' = leg
    BY <1>3 DEF AfterLeg
  <2>2. QED
    BY <2>1 DEF TypeInv, TypeOK, LegOK, Open
<1>4. QED
  BY <1>2, <1>3

\* Every step keeps the types.
LEMMA NextTypeInv == TypeInv /\ [Next]_vars => TypeInv'
<1> SUFFICES ASSUME TypeInv, [Next]_vars
             PROVE  TypeInv'
  OBVIOUS
<1>0. TypeOK /\ LegOK
  BY DEF TypeInv
<1> USE DEF Open
<1>1. ASSUME NEW r \in Requests, Begin(r)
      PROVE  TypeInv'
  <2>1. Len(Legs[r]) \in Nat /\ (Legs[r] # << >> => 1 \in 1 .. Len(Legs[r]))
    BY LegsAssumption
  <2>2. QED
    BY <1>0, <1>1, <2>1 DEF TypeInv, TypeOK, LegOK, Begin
<1>2. ASSUME NEW r \in Requests, FindWallet(r)
      PROVE  TypeInv'
  <2>1. Call(r).wallet \in Wallets /\ See(r) \in Store
    BY <1>0, <1>2, CallIsLeg, SeeType DEF FindWallet
  <2>2. See(r).balance[Call(r).wallet] \in Int /\ See(r).escrow[Call(r).wallet] \in Int
    BY <2>1 DEF Store
  <2>3. QED
    BY <1>0, <1>2, <2>2 DEF TypeInv, TypeOK, LegOK, FindWallet
<1>3. ASSUME NEW r \in Requests, Abort(r)
      PROVE  TypeInv'
  BY <1>0, <1>3 DEF TypeInv, TypeOK, LegOK, Abort
<1>4. ASSUME NEW r \in Requests, SkipPosted(r)
      PROVE  TypeInv'
  <2>1. /\ pc' \in [Requests -> {"idle", "done", "failed"} \cup Open]
        /\ leg' \in [Requests -> Nat]
        /\ LegOK'
    BY <1>4, AfterLegType DEF SkipPosted
  <2>2. QED
    BY <1>0, <1>4, <2>1 DEF TypeInv, TypeOK, SkipPosted
<1>5. ASSUME NEW r \in Requests, NotPosted(r)
      PROVE  TypeInv'
  BY <1>0, <1>5 DEF TypeInv, TypeOK, LegOK, NotPosted
<1>6. ASSUME NEW r \in Requests, UpdateWallet(r)
      PROVE  TypeInv'
  <2>1. Moved(r) \in Store /\ Call(r).wallet \in Wallets
    BY <1>0, <1>6, MovedType, CallIsLeg DEF UpdateWallet
  <2>2. Moved(r).balance[Call(r).wallet] \in Int
    BY <2>1 DEF Store
  <2>3. db' \in Store /\ view' \in [Requests -> Store]
    BY <1>0, <1>6, <2>1, PutType DEF UpdateWallet
  <2>4. wrote' \in [Requests -> SUBSET Wallets]
    BY <1>0, <1>6, <2>1 DEF TypeOK, UpdateWallet
  <2>5. doc' \in [Requests -> [before : Int, escrow : Int, after : Int]]
    BY <1>0, <1>6, <2>2 DEF TypeOK, UpdateWallet
  <2>6. /\ pc' \in [Requests -> {"idle", "done", "failed"} \cup Open]
        /\ LegOK' /\ UNCHANGED <<leg, missed, failures, retries, deliveries>>
    BY <1>0, <1>6 DEF TypeOK, LegOK, UpdateWallet
  <2>7. QED
    BY <1>0, <2>3, <2>4, <2>5, <2>6 DEF TypeInv, TypeOK
<1>7. ASSUME NEW r \in Requests, InsertEntry(r)
      PROVE  TypeInv'
  <2>1. db' \in Store /\ view' \in [Requests -> Store]
    BY <1>0, <1>7, InsertedType, PutType DEF InsertEntry
  <2>2. /\ pc' \in [Requests -> {"idle", "done", "failed"} \cup Open]
        /\ leg' \in [Requests -> Nat]
        /\ LegOK'
    BY <1>7, AfterLegType DEF InsertEntry
  <2>3. QED
    BY <1>0, <1>7, <2>1, <2>2 DEF TypeInv, TypeOK, InsertEntry
<1>8. ASSUME NEW r \in Requests, Commit(r)
      PROVE  TypeInv'
  <2>1. db' \in Store
    BY <1>0, <1>8, CommittedType DEF TypeOK, Commit
  <2>2. QED
    BY <1>0, <1>8, <2>1 DEF TypeInv, TypeOK, LegOK, Commit
<1>9. ASSUME NEW r \in Requests, Fail(r)
      PROVE  TypeInv'
  BY <1>0, <1>9 DEF TypeInv, TypeOK, LegOK, Fail
<1>10. ASSUME NEW r \in Requests, Retry(r)
       PROVE  TypeInv'
  BY <1>0, <1>10 DEF TypeInv, TypeOK, LegOK, Retry
<1>11. ASSUME NEW w \in Wallets, DeliverCOD(w)
       PROVE  TypeInv'
  <2>1. [db.escrow EXCEPT ![w] = @ + CodAmount] \in [Wallets -> Int]
    BY <1>0, WalletLedgerAssumption DEF TypeOK, Store
  <2>2. db' \in Store
    BY <1>0, <1>11, <2>1 DEF TypeOK, Store, DeliverCOD
  <2>3. QED
    BY <1>0, <1>11, <2>2 DEF TypeInv, TypeOK, LegOK, DeliverCOD
<1>12. CASE UNCHANGED vars
  BY <1>0, <1>12 DEF TypeInv, TypeOK, LegOK, vars
<1>13. QED
  BY <1>1, <1>2, <1>3, <1>4, <1>5, <1>6, <1>7, <1>8, <1>9, <1>10, <1>11, <1>12
     DEF Next, Step, WalletUnusable, EscrowTooLow, UpdateRefused

\* Every variable keeps its type, in both modes.
THEOREM TypeCorrect == Spec => []TypeOK
BY InitTypeInv, NextTypeInv, PTL DEF Spec, TypeInv

-------------------------------------------------------------------------------
(* No balance and no escrow goes below zero, in both modes.                 *)

Covers(store) ==
  \A w \in Wallets : store.balance[w] >= 0 /\ store.escrow[w] >= 0

Solvent == Covers(db) /\ \A r \in Requests : Covers(view[r])

\* Nobody starts with a negative balance.
LEMMA InitSolvent == Init => Solvent
BY InitialAssumption DEF Init, InitialStore, Solvent, Covers

\* The filter of the conditional update is what makes the new amounts non-negative.
LEMMA MovedCovers ==
  ASSUME TypeInv, Solvent, NEW r \in Requests, pc[r] = "update", Covered(r)
  PROVE  Covers(Moved(r))
<1> DEFINE w == Call(r).wallet
           a == Call(r).amount
           s == See(r)
<1>1. /\ w \in Wallets /\ a \in Nat \ {0}
      /\ s \in Store /\ Covers(s)
  BY CallIsLeg, SeeType DEF TypeInv, Solvent, See
<1>2. s.balance[w] + Effect(Call(r).type, a) >= 0
  BY <1>1 DEF Covered, Effect, Covers, Store
<1>3. (IF Call(r).type = "COD_CREDIT" THEN s.escrow[w] - a ELSE s.escrow[w]) >= 0
  BY <1>1 DEF Covered, Covers, Store
<1>4. QED
  BY <1>1, <1>2, <1>3 DEF Moved, Covers, Store

\* Every step keeps balances and escrows at zero or above, in both modes.
LEMMA NextSolvent == TypeInv /\ Solvent /\ [Next]_vars => Solvent'
<1> SUFFICES ASSUME TypeInv, Solvent, [Next]_vars
             PROVE  Solvent'
  OBVIOUS
<1>0. TypeOK
  BY DEF TypeInv
<1>1. ASSUME NEW r \in Requests, UpdateWallet(r)
      PROVE  Solvent'
  <2>1. Covers(Moved(r))
    BY <1>1, MovedCovers DEF UpdateWallet
  <2>2. QED
    BY <1>0, <1>1, <2>1 DEF UpdateWallet, Put, Solvent, Covers, TypeOK
<1>2. ASSUME NEW r \in Requests, InsertEntry(r)
      PROVE  Solvent'
  <2>1. See(r) \in Store /\ Covers(See(r))
    BY <1>0, SeeType DEF Solvent, See
  <2>2. Covers(Inserted(r))
    BY <2>1 DEF Inserted, Store, Covers
  <2>3. QED
    BY <1>0, <1>2, <2>2 DEF InsertEntry, Put, Solvent, Covers, TypeOK
<1>3. ASSUME NEW r \in Requests, Commit(r)
      PROVE  Solvent'
  <2>1. Covers(Committed(r))
    BY DEF Committed, Solvent, Covers
  <2>2. QED
    BY <1>3, <2>1 DEF Commit, Solvent, Covers
<1>4. ASSUME NEW w \in Wallets, DeliverCOD(w)
      PROVE  Solvent'
  <2>1. \A v \in Wallets : db.balance[v] \in Int /\ db.escrow[v] \in Int
    BY <1>0 DEF TypeOK, Store
  <2>2. /\ db'.balance = db.balance
        /\ db'.escrow = [db.escrow EXCEPT ![w] = @ + CodAmount]
    BY <1>0, <1>4 DEF DeliverCOD, TypeOK, Store
  <2>3. \A v \in Wallets : db'.escrow[v] >= 0
    BY <1>0, <2>1, <2>2, WalletLedgerAssumption DEF Solvent, Covers, TypeOK, Store
  <2>4. QED
    BY <1>4, <2>2, <2>3 DEF DeliverCOD, Solvent, Covers
<1>5. ASSUME NEW r \in Requests, Begin(r)
      PROVE  Solvent'
  BY <1>0, <1>5 DEF Begin, Solvent, Covers, TypeOK
<1>6. ASSUME NEW r \in Requests,
             \/ FindWallet(r) \/ WalletUnusable(r)
             \/ SkipPosted(r) \/ NotPosted(r) \/ EscrowTooLow(r)
             \/ UpdateRefused(r) \/ Fail(r) \/ Retry(r)
      PROVE  Solvent'
  BY <1>6 DEF Solvent, Covers, FindWallet, WalletUnusable, SkipPosted, NotPosted,
              EscrowTooLow, UpdateRefused, Fail, Retry, Abort
<1>7. CASE UNCHANGED vars
  BY <1>7 DEF Solvent, Covers, vars
<1>8. QED
  BY <1>1, <1>2, <1>3, <1>4, <1>5, <1>6, <1>7 DEF Next, Step

\* Whatever the interleaving of debits, a balance or an escrow never goes below
\* zero, with transactions and without.
THEOREM BalancesNeverOverdrawn == Spec => []NeverOverdrawn
<1>1. Solvent => NeverOverdrawn
  BY DEF Solvent, Covers, NeverOverdrawn
<1>2. QED
  BY InitTypeInv, NextTypeInv, InitSolvent, NextSolvent, <1>1, PTL DEF Spec

-------------------------------------------------------------------------------
(* Sequences of entries.                                                    *)

\* One more entry that starts at the balance and ends at the new one keeps the chain.
LEMMA LinkedAppend ==
  ASSUME NEW s \in Seq(Entry), NEW start \in Int, NEW end \in Int, NEW e \in Entry,
         Linked(s, start, end),
         e.before = end,
         e.after = e.before + Effect(e.type, e.amount)
  PROVE  Linked(Append(s, e), start, e.after)
<1> DEFINE t == Append(s, e)
<1>1. /\ t \in Seq(Entry) /\ Len(t) = Len(s) + 1 /\ Len(s) \in Nat
      /\ t[Len(s) + 1] = e
      /\ \A i \in 1 .. Len(s) : t[i] = s[i]
  OBVIOUS
<1>2. t # << >> /\ t[Len(t)].after = e.after
  BY <1>1
<1>3. t[1].before = start
  <2>1. CASE s = << >>
    BY <2>1, <1>1 DEF Linked
  <2>2. CASE s # << >>
    BY <2>2, <1>1 DEF Linked
  <2>3. QED
    BY <2>1, <2>2
<1>4. ASSUME NEW i \in 1 .. Len(t) - 1
      PROVE  t[i + 1].before = t[i].after
  <2>1. CASE i = Len(s)
    BY <2>1, <1>1 DEF Linked
  <2>2. CASE i # Len(s)
    <3>1. i \in 1 .. Len(s) - 1 /\ i + 1 \in 1 .. Len(s) /\ i \in 1 .. Len(s)
      BY <2>2, <1>1
    <3>2. QED
      BY <3>1, <1>1 DEF Linked
  <2>3. QED
    BY <2>1, <2>2
<1>5. ASSUME NEW i \in 1 .. Len(t)
      PROVE  t[i].after = t[i].before + Effect(t[i].type, t[i].amount)
  <2>1. CASE i = Len(s) + 1
    BY <2>1, <1>1
  <2>2. CASE i # Len(s) + 1
    <3>1. i \in 1 .. Len(s)
      BY <2>2, <1>1
    <3>2. QED
      BY <3>1, <1>1 DEF Linked
  <2>3. QED
    BY <2>1, <2>2
<1>6. QED
  BY <1>2, <1>3, <1>4, <1>5 DEF Linked

\* One more entry under a new reference keeps references unique.
LEMMA PostedOnceAppend ==
  ASSUME NEW s \in Seq(Entry), NEW e \in Entry, PostedOnce(s),
         \A i \in 1 .. Len(s) : s[i].ref # e.ref
  PROVE  PostedOnce(Append(s, e))
<1>1. /\ Len(Append(s, e)) = Len(s) + 1 /\ Len(s) \in Nat
      /\ Append(s, e)[Len(s) + 1] = e
      /\ \A i \in 1 .. Len(s) : Append(s, e)[i] = s[i]
  OBVIOUS
<1>2. \A i \in 1 .. Len(s) + 1 : i = Len(s) + 1 \/ i \in 1 .. Len(s)
  BY <1>1
<1>3. QED
  BY <1>1, <1>2 DEF PostedOnce

\* Extends is reflexive.
LEMMA ExtendsRefl == \A s \in Seq(Entry) : Extends(s, s)
BY DEF Extends

\* Extends is transitive.
LEMMA ExtendsTrans ==
  ASSUME NEW s \in Seq(Entry), NEW t \in Seq(Entry), NEW u \in Seq(Entry),
         Extends(t, s), Extends(u, t)
  PROVE  Extends(u, s)
BY DEF Extends

\* Appending extends.
LEMMA ExtendsAppend ==
  ASSUME NEW s \in Seq(Entry), NEW t \in Seq(Entry), NEW e \in Entry, Extends(t, s)
  PROVE  Extends(Append(t, e), s)
<1>1. Extends(Append(t, e), t)
  BY DEF Extends
<1>2. Append(t, e) \in Seq(Entry)
  OBVIOUS
<1>3. QED
  BY <1>1, <1>2, ExtendsTrans

\* What is recorded stays recorded when entries are added.
LEMMA RecordedExtends ==
  ASSUME NEW s \in Seq(Entry), NEW t \in Seq(Entry), NEW lg \in Leg,
         Extends(t, s), RecordedIn(s, lg)
  PROVE  RecordedIn(t, lg)
<1>1. PICK i \in 1 .. Len(s) : s[i].ref = lg.ref /\ s[i].type = lg.type /\ s[i].amount = lg.amount
  BY DEF RecordedIn
<1>2. i \in 1 .. Len(t) /\ t[i] = s[i]
  BY DEF Extends
<1>3. QED
  BY <1>1, <1>2 DEF RecordedIn

\* An entry that was just appended records its leg.
LEMMA RecordedAppend ==
  ASSUME NEW s \in Seq(Entry), NEW e \in Entry
  PROVE  RecordedIn(Append(s, e), e)
<1>1. Len(s) + 1 \in 1 .. Len(Append(s, e)) /\ Append(s, e)[Len(s) + 1] = e
  OBVIOUS
<1>2. QED
  BY <1>1 DEF RecordedIn

-------------------------------------------------------------------------------
(* The inductive invariant of the transactional mode.                       *)

\* The chain of entries in r's view ends in the view's balance or, between the
\* $inc and the insert of the current leg, in the balance read before it.
ViewLinked(r) ==
  \A w \in Wallets :
    Linked(view[r].ledger[w], InitialBalance[w],
           IF pc[r] = "insert" /\ w = Call(r).wallet
             THEN doc[r].before ELSE view[r].balance[w])

\* The document in memory agrees with the view.
DocAgrees(r) ==
  LET w == Call(r).wallet IN
  /\ pc[r] \in {"reference", "update"} => doc[r].before = view[r].balance[w]
  /\ pc[r] = "insert" =>
       /\ doc[r].after = view[r].balance[w]
       /\ doc[r].after = doc[r].before + Effect(Call(r).type, Call(r).amount)

\* The reference of the current leg is still free when the leg moves money.
ReferenceFree(r) ==
  pc[r] \in {"update", "insert"} =>
    \A w \in Wallets : \A i \in 1 .. Len(view[r].ledger[w]) :
      view[r].ledger[w][i].ref # Call(r).ref

AllPostedOnce(store) == \A w \in Wallets : PostedOnce(store.ledger[w])

\* Every entry records a leg of some request on that wallet.
EveryEntryIsALeg(store) ==
  \A w \in Wallets : \A i \in 1 .. Len(store.ledger[w]) :
    \E q \in Requests : IsLegOf(store.ledger[w][i], q, w)

\* The legs request r has finished are recorded in its view.
LegsBehindRecorded(r) ==
  \A i \in 1 .. Len(Legs[r]) :
    i < leg[r] \/ pc[r] = "commit" =>
      RecordedIn(view[r].ledger[Legs[r][i].wallet], Legs[r][i])

ViewInv(r) ==
  pc[r] \in Open =>
    /\ ViewLinked(r)
    /\ DocAgrees(r)
    /\ ReferenceFree(r)
    /\ AllPostedOnce(view[r])
    /\ EveryEntryIsALeg(view[r])
    /\ LegsBehindRecorded(r)

\* How r's view relates to the store: the wallets r has written hold its
\* additions to what is committed, the others an earlier state of it.
Isolated(r) ==
  pc[r] \in Open =>
    /\ \A w \in wrote[r] : /\ w \notin missed[r]
                           /\ Extends(view[r].ledger[w], db.ledger[w])
    /\ \A w \in Wallets \ wrote[r] :
         /\ Extends(db.ledger[w], view[r].ledger[w])
         /\ w \notin missed[r] => view[r].ledger[w] = db.ledger[w]
    /\ \A w \in Wallets : \A k \in Len(db.ledger[w]) + 1 .. Len(view[r].ledger[w]) :
         IsLegOf(view[r].ledger[w][k], r, w)
    /\ pc[r] = "insert" => Call(r).wallet \in wrote[r]

WriteLocks ==
  /\ \A r, q \in Requests : r # q => wrote[r] \cap wrote[q] = {}
  /\ \A r \in Requests : pc[r] \notin Open => wrote[r] = {}

StoreInv ==
  /\ \A w \in Wallets : Linked(db.ledger[w], InitialBalance[w], db.balance[w])
  /\ AllPostedOnce(db)
  /\ EveryEntryIsALeg(db)
  /\ \A r \in Requests : pc[r] = "done" =>
       \A i \in 1 .. Len(Legs[r]) :
         RecordedIn(db.ledger[Legs[r][i].wallet], Legs[r][i])

TxnInv ==
  /\ StoreInv
  /\ WriteLocks
  /\ \A r \in Requests : ViewInv(r)
  /\ \A r \in Requests : Isolated(r)

\* The initial state satisfies the invariant of transactional mode.
LEMMA InitTxnInv == Init => TxnInv
<1> SUFFICES ASSUME Init
             PROVE  TxnInv
  OBVIOUS
<1> USE DEF Init, InitialStore, Open
<1>1. StoreInv
  BY DEF StoreInv, Linked, AllPostedOnce, PostedOnce, EveryEntryIsALeg
<1>2. WriteLocks
  BY DEF WriteLocks
<1>3. \A r \in Requests : ViewInv(r) /\ Isolated(r)
  BY DEF ViewInv, Isolated
<1>4. QED
  BY <1>1, <1>2, <1>3 DEF TxnInv

\* A step that leaves a request's own variables alone leaves its view alone.
LEMMA ViewFrame ==
  ASSUME NEW q \in Requests, ViewInv(q),
         view'[q] = view[q], pc'[q] = pc[q], leg'[q] = leg[q], doc'[q] = doc[q]
  PROVE  ViewInv(q)'
BY DEF ViewInv, ViewLinked, DocAgrees, ReferenceFree, AllPostedOnce,
       EveryEntryIsALeg, LegsBehindRecorded, Call

\* A step that leaves what a request wrote and missed alone leaves its isolation.
LEMMA IsolatedFrame ==
  ASSUME NEW q \in Requests, Isolated(q),
         view'[q] = view[q], pc'[q] = pc[q], leg'[q] = leg[q],
         wrote'[q] = wrote[q], missed'[q] = missed[q], db' = db
  PROVE  Isolated(q)'
BY DEF Isolated, Call

\* A step that leaves the store alone leaves what is known of it.
LEMMA StoreFrame ==
  ASSUME StoreInv, db' = db,
         \A q \in Requests : pc'[q] = "done" => pc[q] = "done"
  PROVE  StoreInv'
BY DEF StoreInv, AllPostedOnce, EveryEntryIsALeg

\* A request that is not open has nothing to say about its view.
LEMMA ClosedViewInv ==
  ASSUME NEW r \in Requests, pc'[r] \notin Open
  PROVE  ViewInv(r)' /\ Isolated(r)'
BY DEF ViewInv, Isolated

\* The parts of TypeInv that the steps below use.
LEMMA TypeFacts ==
  ASSUME TypeInv
  PROVE  /\ db \in Store
         /\ view \in [Requests -> Store]
         /\ pc \in [Requests -> {"idle", "done", "failed"} \cup Open]
         /\ leg \in [Requests -> Nat]
         /\ doc \in [Requests -> [before : Int, escrow : Int, after : Int]]
         /\ wrote \in [Requests -> SUBSET Wallets]
         /\ missed \in [Requests -> SUBSET Wallets]
         /\ \A w \in Wallets : /\ db.ledger[w] \in Seq(Entry)
                                /\ db.balance[w] \in Int
         /\ \A r \in Requests, w \in Wallets : /\ view[r].ledger[w] \in Seq(Entry)
                                                /\ view[r].balance[w] \in Int
BY DEF TypeInv, TypeOK, Store

\* An abort or a failure closes the request and changes nothing in the store.
LEMMA CloseTxnInv ==
  ASSUME TypeInv, TxnInv, NEW r \in Requests,
         pc' = [pc EXCEPT ![r] = "failed"],
         wrote' = [wrote EXCEPT ![r] = {}],
         UNCHANGED <<db, view, leg, doc, missed>>
  PROVE  TxnInv'
<1> USE TypeFacts DEF TxnInv
<1>1. StoreInv'
  BY StoreFrame
<1>2. WriteLocks'
  BY DEF WriteLocks, Open
<1>3. ASSUME NEW q \in Requests
      PROVE  ViewInv(q)' /\ Isolated(q)'
  <2>1. CASE q = r
    BY <2>1, ClosedViewInv DEF Open
  <2>2. CASE q # r
    BY <2>2, ViewFrame, IsolatedFrame
  <2>3. QED
    BY <2>1, <2>2
<1>4. QED
  BY <1>1, <1>2, <1>3

\* Begin: the snapshot is the store, so the request has missed nothing.
LEMMA BeginTxnInv ==
  ASSUME TypeInv, TxnInv, Transactional, NEW r \in Requests, Begin(r)
  PROVE  TxnInv'
<1> USE TypeFacts DEF TxnInv
<1>1. /\ view'[r] = db /\ view' \in [Requests -> Store]
      /\ leg'[r] = 1 /\ missed'[r] = {} /\ wrote' = wrote /\ wrote[r] = {}
      /\ pc'[r] = IF Legs[r] = << >> THEN "commit" ELSE "wallet"
      /\ db' = db /\ doc' = doc
      /\ \A q \in Requests \ {r} : /\ view'[q] = view[q] /\ pc'[q] = pc[q]
                                    /\ leg'[q] = leg[q] /\ missed'[q] = missed[q]
  BY DEF Begin, WriteLocks, Open
<1>2. StoreInv'
  BY <1>1, StoreFrame
<1>3. WriteLocks'
  BY <1>1 DEF WriteLocks, Begin, Open
<1>4. ViewInv(r)'
  <2>1. ViewLinked(r)' /\ DocAgrees(r)' /\ ReferenceFree(r)'
    BY <1>1 DEF StoreInv, ViewLinked, DocAgrees, ReferenceFree
  <2>2. AllPostedOnce(view[r])' /\ EveryEntryIsALeg(view[r])'
    BY <1>1 DEF StoreInv, AllPostedOnce, EveryEntryIsALeg
  <2>3. LegsBehindRecorded(r)'
    BY <1>1, LegsAssumption DEF LegsBehindRecorded
  <2>4. QED
    BY <2>1, <2>2, <2>3 DEF ViewInv
<1>5. Isolated(r)'
  <2>1. \A w \in Wallets : Extends(db.ledger[w], db.ledger[w])
    BY ExtendsRefl
  <2>2. ASSUME NEW w \in Wallets, NEW k \in Len(db.ledger[w]) + 1 .. Len(db.ledger[w])
        PROVE  FALSE
    <3>1. db.ledger[w] \in Seq(Entry)
      BY TypeFacts
    <3>2. Len(db.ledger[w]) \in Nat
      BY <3>1
    <3>3. QED
      BY <3>2
  <2>3. QED
    BY <1>1, <2>1, <2>2 DEF Isolated
<1>6. ASSUME NEW q \in Requests \ {r}
      PROVE  ViewInv(q)' /\ Isolated(q)'
  BY <1>1, ViewFrame, IsolatedFrame
<1>7. QED
  BY <1>2, <1>3, <1>4, <1>5, <1>6

\* FindWallet: the document in memory is that of the snapshot.
LEMMA FindWalletTxnInv ==
  ASSUME TypeInv, TxnInv, Transactional, NEW r \in Requests, FindWallet(r)
  PROVE  TxnInv'
<1> USE TypeFacts DEF TxnInv
<1>1. /\ pc[r] = "wallet" /\ pc'[r] = "reference"
      /\ doc'[r].before = view[r].balance[Call(r).wallet]
      /\ UNCHANGED <<db, view, leg, wrote, missed>>
      /\ \A q \in Requests \ {r} : pc'[q] = pc[q] /\ doc'[q] = doc[q]
  BY DEF FindWallet, See
<1>2. StoreInv' /\ WriteLocks'
  BY <1>1, StoreFrame DEF WriteLocks, Open
<1>3. ViewInv(r)'
  BY <1>1 DEF ViewInv, ViewLinked, DocAgrees, ReferenceFree, AllPostedOnce,
              EveryEntryIsALeg, LegsBehindRecorded, Call, Open
<1>4. Isolated(r)'
  BY <1>1 DEF Isolated, Open
<1>5. ASSUME NEW q \in Requests \ {r}
      PROVE  ViewInv(q)' /\ Isolated(q)'
  BY <1>1, ViewFrame, IsolatedFrame
<1>6. QED
  BY <1>2, <1>3, <1>4, <1>5

\* NotPosted: the reference of the leg is not in the snapshot.
LEMMA NotPostedTxnInv ==
  ASSUME TypeInv, TxnInv, Transactional, NEW r \in Requests, NotPosted(r)
  PROVE  TxnInv'
<1> USE TypeFacts DEF TxnInv
<1>1. /\ pc[r] = "reference" /\ pc'[r] = "update"
      /\ UNCHANGED <<db, view, leg, doc, wrote, missed>>
      /\ \A q \in Requests \ {r} : pc'[q] = pc[q]
      /\ \A w \in Wallets : \A i \in 1 .. Len(view[r].ledger[w]) :
           view[r].ledger[w][i].ref # Call(r).ref
  BY DEF NotPosted, AlreadyPosted, See
<1>2. StoreInv' /\ WriteLocks'
  BY <1>1, StoreFrame DEF WriteLocks, Open
<1>3. ViewInv(r)'
  BY <1>1 DEF ViewInv, ViewLinked, DocAgrees, ReferenceFree, AllPostedOnce,
              EveryEntryIsALeg, LegsBehindRecorded, Call, Open
<1>4. Isolated(r)'
  BY <1>1 DEF Isolated, Open
<1>5. ASSUME NEW q \in Requests \ {r}
      PROVE  ViewInv(q)' /\ Isolated(q)'
  BY <1>1, ViewFrame, IsolatedFrame
<1>6. QED
  BY <1>2, <1>3, <1>4, <1>5

\* What AfterLeg does to request r, and to nobody else.
LEMMA AfterLegEffect ==
  ASSUME TypeInv, NEW r \in Requests, AfterLeg(r), pc[r] \in {"reference", "insert"}
  PROVE  /\ pc'[r] \in {"wallet", "commit"}
         /\ \A q \in Requests \ {r} : pc'[q] = pc[q] /\ leg'[q] = leg[q]
         /\ \A i \in 1 .. Len(Legs[r]) :
              i < leg'[r] \/ pc'[r] = "commit" => i < leg[r] \/ i = leg[r]
<1>1. leg[r] \in 1 .. Len(Legs[r]) /\ Len(Legs[r]) \in Nat
  BY LegsAssumption DEF TypeInv, LegOK
<1>2. QED
  BY <1>1, TypeFacts DEF AfterLeg

\* A reference found in the view records the very leg that looks for it,
\* because a reference names one leg.
LEMMA FoundIsRecorded ==
  ASSUME ReferenceNamesOneLeg, TypeInv, TxnInv, Transactional,
         NEW r \in Requests, pc[r] = "reference", AlreadyPosted(r)
  PROVE  RecordedIn(view[r].ledger[Call(r).wallet], Call(r))
<1>0. PICK w \in Wallets : \E i \in 1 .. Len(view[r].ledger[w]) :
        view[r].ledger[w][i].ref = Call(r).ref
  BY DEF AlreadyPosted, See
<1>1. PICK i \in 1 .. Len(view[r].ledger[w]) :
        view[r].ledger[w][i].ref = Call(r).ref
  BY <1>0
<1>2. EveryEntryIsALeg(view[r])
  BY DEF TxnInv, ViewInv, Open
<1>3. PICK q \in Requests : IsLegOf(view[r].ledger[w][i], q, w)
  BY <1>1, <1>2 DEF EveryEntryIsALeg
<1>4. PICK j \in 1 .. Len(Legs[q]) :
        /\ Legs[q][j].wallet = w
        /\ view[r].ledger[w][i].ref = Legs[q][j].ref
        /\ view[r].ledger[w][i].type = Legs[q][j].type
        /\ view[r].ledger[w][i].amount = Legs[q][j].amount
  BY <1>3 DEF IsLegOf
<1>5. leg[r] \in DOMAIN Legs[r] /\ j \in DOMAIN Legs[q]
  BY LegsAssumption DEF TypeInv, LegOK
<1>6. Legs[q][j] = Call(r)
  BY <1>1, <1>4, <1>5 DEF ReferenceNamesOneLeg, Call
<1>7. QED
  BY <1>1, <1>4, <1>6 DEF RecordedIn

\* SkipPosted: the leg is recorded already.
LEMMA SkipPostedTxnInv ==
  ASSUME ReferenceNamesOneLeg, TypeInv, TxnInv, Transactional,
         NEW r \in Requests, SkipPosted(r)
  PROVE  TxnInv'
<1> USE TypeFacts DEF TxnInv
<1>1. /\ pc[r] = "reference" /\ AfterLeg(r) /\ AlreadyPosted(r)
      /\ UNCHANGED <<db, view, doc, wrote, missed>>
  BY DEF SkipPosted
<1>2. /\ pc'[r] \in {"wallet", "commit"}
      /\ \A q \in Requests \ {r} : pc'[q] = pc[q] /\ leg'[q] = leg[q]
      /\ \A i \in 1 .. Len(Legs[r]) :
           i < leg'[r] \/ pc'[r] = "commit" => i < leg[r] \/ i = leg[r]
  BY <1>1, AfterLegEffect
<1>3. StoreInv' /\ WriteLocks'
  BY <1>1, <1>2, StoreFrame DEF WriteLocks, Open
<1>4. ViewInv(r)'
  <2>1. ViewInv(r) /\ pc[r] \in Open
    BY <1>1 DEF Open
  <2>2. LegsBehindRecorded(r)'
    <3>1. RecordedIn(view[r].ledger[Call(r).wallet], Call(r))
      BY <1>1, FoundIsRecorded
    <3>2. QED
      BY <1>1, <1>2, <2>1, <3>1 DEF ViewInv, LegsBehindRecorded, Call
  <2>3. ViewLinked(r)' /\ DocAgrees(r)' /\ ReferenceFree(r)'
    BY <1>1, <1>2, <2>1 DEF ViewInv, ViewLinked, DocAgrees, ReferenceFree
  <2>4. AllPostedOnce(view[r])' /\ EveryEntryIsALeg(view[r])'
    BY <1>1, <2>1 DEF ViewInv, AllPostedOnce, EveryEntryIsALeg
  <2>5. QED
    BY <2>2, <2>3, <2>4 DEF ViewInv
<1>5. Isolated(r)'
  BY <1>1, <1>2 DEF Isolated, Open
<1>6. ASSUME NEW q \in Requests \ {r}
      PROVE  ViewInv(q)' /\ Isolated(q)'
  BY <1>1, <1>2, ViewFrame, IsolatedFrame
<1>7. QED
  BY <1>3, <1>4, <1>5, <1>6

\* UpdateWallet: no other open request has written the wallet.
LEMMA UpdateWalletTxnInv ==
  ASSUME TypeInv, TxnInv, Transactional, NEW r \in Requests, UpdateWallet(r)
  PROVE  TxnInv'
<1> USE TypeFacts DEF TxnInv
<1> DEFINE w == Call(r).wallet
<1>1. /\ pc[r] = "update" /\ pc'[r] = "insert" /\ w \in Wallets
      /\ w \notin missed[r] /\ \A q \in Requests \ {r} : w \notin wrote[q]
      /\ view' = [view EXCEPT ![r] = Moved(r)]
      /\ doc'[r].before = doc[r].before
      /\ doc'[r].after = Moved(r).balance[w]
      /\ wrote' = [wrote EXCEPT ![r] = @ \cup {w}]
      /\ UNCHANGED <<db, leg, missed>>
      /\ \A q \in Requests \ {r} : pc'[q] = pc[q] /\ doc'[q] = doc[q]
  BY CallIsLeg DEF UpdateWallet, WriteConflict, Put, TypeInv
<1>2. /\ Moved(r).ledger = view[r].ledger
      /\ Moved(r).balance[w] = view[r].balance[w] + Effect(Call(r).type, Call(r).amount)
      /\ \A v \in Wallets \ {w} : Moved(r).balance[v] = view[r].balance[v]
  BY <1>1 DEF Moved, See, Store
<1>3. view'[r].ledger = view[r].ledger /\ view'[r].balance = Moved(r).balance
      /\ (Call(r))' = Call(r)
  BY <1>1, <1>2 DEF Call
<1>4. StoreInv'
  BY <1>1, StoreFrame
<1>5. WriteLocks'
  BY <1>1 DEF WriteLocks, Open
<1>6. ViewInv(r)'
  <2>1. ViewInv(r) /\ pc[r] \in Open
    BY <1>1 DEF Open
  <2>2. ViewLinked(r)'
    BY <1>1, <1>2, <1>3, <2>1 DEF ViewInv, ViewLinked, DocAgrees
  <2>3. DocAgrees(r)'
    BY <1>1, <1>2, <1>3, <2>1 DEF ViewInv, DocAgrees
  <2>4. ReferenceFree(r)' /\ LegsBehindRecorded(r)'
    BY <1>1, <1>3, <2>1 DEF ViewInv, ReferenceFree, LegsBehindRecorded
  <2>5. AllPostedOnce(view[r])' /\ EveryEntryIsALeg(view[r])'
    BY <1>3, <2>1 DEF ViewInv, AllPostedOnce, EveryEntryIsALeg
  <2>6. QED
    BY <2>2, <2>3, <2>4, <2>5 DEF ViewInv
<1>7. Isolated(r)'
  <2>1. Isolated(r) /\ pc[r] \in Open
    BY <1>1 DEF Open
  <2>2. Extends(view'[r].ledger[w], db'.ledger[w])
    <3>1. CASE w \in wrote[r]
      BY <3>1, <1>1, <1>3, <2>1 DEF Isolated
    <3>2. CASE w \notin wrote[r]
      <4>1. view[r].ledger[w] = db.ledger[w]
        BY <3>2, <1>1, <2>1 DEF Isolated
      <4>2. QED
        BY <4>1, <1>1, <1>3, ExtendsRefl
    <3>3. QED
      BY <3>1, <3>2
  <2>3. wrote'[r] = wrote[r] \cup {w}
    BY <1>1
  <2>4. QED
    BY <1>1, <1>3, <2>1, <2>2, <2>3 DEF Isolated
<1>8. ASSUME NEW q \in Requests \ {r}
      PROVE  ViewInv(q)' /\ Isolated(q)'
  BY <1>1, ViewFrame, IsolatedFrame
<1>9. QED
  BY <1>4, <1>5, <1>6, <1>7, <1>8

\* Length and elements of a sequence with one more element.
LEMMA AppendFacts ==
  ASSUME NEW s \in Seq(Entry), NEW e \in Entry
  PROVE  /\ Len(s) \in Nat /\ Len(Append(s, e)) = Len(s) + 1
         /\ Append(s, e) \in Seq(Entry)
         /\ Append(s, e)[Len(s) + 1] = e
         /\ \A i \in 1 .. Len(s) : Append(s, e)[i] = s[i]
         /\ \A i \in 1 .. Len(s) + 1 : i = Len(s) + 1 \/ i \in 1 .. Len(s)
<1>1. Len(s) \in Nat
  OBVIOUS
<1>2. \A i \in 1 .. Len(s) + 1 : i = Len(s) + 1 \/ i \in 1 .. Len(s)
  BY <1>1
<1>3. QED
  BY <1>1, <1>2

\* Every leg of a request is a leg, on a wallet.
LEMMA LegType ==
  ASSUME NEW r \in Requests, NEW i \in 1 .. Len(Legs[r])
  PROVE  Legs[r][i] \in Leg /\ Legs[r][i].wallet \in Wallets
<1>1. Legs[r] \in Seq(Leg)
  BY LegsAssumption
<1>2. Legs[r][i] \in Leg
  BY <1>1
<1>3. QED
  BY <1>2 DEF Leg

\* InsertEntry: the new entry links the old balance to the new one.
LEMMA InsertEntryTxnInv ==
  ASSUME TypeInv, TxnInv, Transactional, NEW r \in Requests, InsertEntry(r)
  PROVE  TxnInv'
<1> USE TypeFacts DEF TxnInv
<1> DEFINE w == Call(r).wallet
           e == NewEntry(r)
           old == view[r].ledger[w]
<1>1. /\ pc[r] = "insert" /\ AfterLeg(r)
      /\ w \in Wallets /\ e \in Entry /\ old \in Seq(Entry)
      /\ view' = [view EXCEPT ![r] = Inserted(r)]
      /\ UNCHANGED <<db, doc, wrote, missed>>
  BY CallIsLeg, NewEntryType DEF InsertEntry, Put, TypeInv
<1>2. /\ view'[r].balance = view[r].balance
      /\ view'[r].ledger[w] = Append(old, e)
      /\ \A v \in Wallets \ {w} : view'[r].ledger[v] = view[r].ledger[v]
      /\ \A q \in Requests \ {r} : view'[q] = view[q]
  BY <1>1 DEF Inserted, See, Store
<1>3. /\ pc'[r] \in {"wallet", "commit"}
      /\ \A q \in Requests \ {r} : pc'[q] = pc[q] /\ leg'[q] = leg[q]
      /\ \A i \in 1 .. Len(Legs[r]) :
           i < leg'[r] \/ pc'[r] = "commit" => i < leg[r] \/ i = leg[r]
  BY <1>1, AfterLegEffect
<1>4. /\ ViewInv(r) /\ Isolated(r) /\ pc[r] \in Open
      /\ e.ref = Call(r).ref /\ e.type = Call(r).type /\ e.amount = Call(r).amount
      /\ e.before = doc[r].before /\ e.after = doc[r].after
  BY <1>1 DEF Open, NewEntry
<1>5. /\ Len(old) \in Nat /\ Len(Append(old, e)) = Len(old) + 1
      /\ Append(old, e)[Len(old) + 1] = e
      /\ \A i \in 1 .. Len(old) : Append(old, e)[i] = old[i]
      /\ \A i \in 1 .. Len(old) + 1 : i = Len(old) + 1 \/ i \in 1 .. Len(old)
  BY <1>1, AppendFacts
<1>6. IsLegOf(e, r, w)
  BY <1>1, <1>4 DEF IsLegOf, Call, TypeInv, LegOK
<1>7. StoreInv' /\ WriteLocks'
  BY <1>1, <1>3, StoreFrame DEF WriteLocks, Open
<1>8. ViewInv(r)'
  <2>1. ViewLinked(r)'
    <3>1. Linked(old, InitialBalance[w], doc[r].before)
      BY <1>1, <1>4 DEF ViewInv, ViewLinked
    <3>2. doc[r].before \in Int /\ InitialBalance[w] \in Int
      BY <1>1, InitialAssumption
    <3>3. e.after = e.before + Effect(e.type, e.amount) /\ e.after = view[r].balance[w]
      BY <1>1, <1>4 DEF ViewInv, DocAgrees
    <3>4. Linked(Append(old, e), InitialBalance[w], e.after)
      BY <3>1, <3>2, <3>3, <1>1, <1>4, LinkedAppend
    <3>5. Linked(view'[r].ledger[w], InitialBalance[w], view'[r].balance[w])
      BY <3>3, <3>4, <1>2
    <3>6. ASSUME NEW v \in Wallets \ {w}
          PROVE  Linked(view'[r].ledger[v], InitialBalance[v], view'[r].balance[v])
      BY <1>2, <1>4 DEF ViewInv, ViewLinked
    <3>7. pc'[r] # "insert"
      BY <1>3
    <3>8. QED
      BY <3>5, <3>6, <3>7 DEF ViewLinked
  <2>2. DocAgrees(r)' /\ ReferenceFree(r)'
    BY <1>3 DEF DocAgrees, ReferenceFree
  <2>3. AllPostedOnce(view[r])'
    <3>1. \A i \in 1 .. Len(old) : old[i].ref # e.ref
      BY <1>1, <1>4 DEF ViewInv, ReferenceFree
    <3>2. PostedOnce(old)
      BY <1>1, <1>4 DEF ViewInv, AllPostedOnce
    <3>3. PostedOnce(Append(old, e))
      BY <3>1, <3>2, <1>1, PostedOnceAppend
    <3>4. QED
      BY <3>3, <1>2, <1>4 DEF ViewInv, AllPostedOnce
  <2>4. EveryEntryIsALeg(view[r])'
    <3>1. EveryEntryIsALeg(view[r])
      BY <1>4 DEF ViewInv
    <3>2. ASSUME NEW i \in 1 .. Len(Append(old, e))
          PROVE  \E q \in Requests : IsLegOf(Append(old, e)[i], q, w)
      BY <3>1, <1>1, <1>5, <1>6 DEF EveryEntryIsALeg
    <3>3. QED
      BY <3>1, <3>2, <1>2 DEF EveryEntryIsALeg
  <2>5. LegsBehindRecorded(r)'
    <3> SUFFICES ASSUME NEW i \in 1 .. Len(Legs[r]), i < leg'[r] \/ pc'[r] = "commit"
                 PROVE  RecordedIn(view'[r].ledger[Legs[r][i].wallet], Legs[r][i])
      BY DEF LegsBehindRecorded
    <3>1. Legs[r][i] \in Leg /\ Legs[r][i].wallet \in Wallets
      BY LegType
    <3>2. CASE i = leg[r]
      <4>1. RecordedIn(Append(old, e), e)
        BY <1>1, RecordedAppend
      <4>2. RecordedIn(Append(old, e), Call(r))
        BY <4>1, <1>4 DEF RecordedIn
      <4>3. QED
        BY <4>2, <3>2, <1>2 DEF Call
    <3>3. CASE i < leg[r]
      <4>1. RecordedIn(view[r].ledger[Legs[r][i].wallet], Legs[r][i])
        BY <3>3, <1>4 DEF ViewInv, LegsBehindRecorded
      <4>2. Extends(Append(old, e), old) /\ Append(old, e) \in Seq(Entry)
        BY <1>1, <1>5 DEF Extends
      <4>3. CASE Legs[r][i].wallet = w
        <5>1. RecordedIn(Append(old, e), Legs[r][i])
          BY <4>1, <4>2, <4>3, <3>1, <1>1, RecordedExtends
        <5>2. QED
          BY <5>1, <4>3, <1>2
      <4>4. CASE Legs[r][i].wallet # w
        BY <4>1, <4>4, <3>1, <1>2
      <4>5. QED
        BY <4>3, <4>4
    <3>4. QED
      BY <3>2, <3>3, <1>3
  <2>6. QED
    BY <2>1, <2>2, <2>3, <2>4, <2>5 DEF ViewInv
<1>9. Isolated(r)'
  <2>1. w \in wrote[r]
    BY <1>1, <1>4 DEF Isolated
  <2>2. \A v \in wrote[r] : v \in Wallets
    OBVIOUS
  <2>3. Extends(Append(old, e), db.ledger[w])
    BY <2>1, <1>1, <1>4, ExtendsAppend DEF Isolated
  <2>4. ASSUME NEW v \in wrote[r]
        PROVE  v \notin missed[r] /\ Extends(view'[r].ledger[v], db.ledger[v])
    <3>1. v \notin missed[r] /\ Extends(view[r].ledger[v], db.ledger[v]) /\ v \in Wallets
      BY <2>2, <1>4 DEF Isolated
    <3>2. CASE v = w
      BY <3>1, <3>2, <2>3, <1>2
    <3>3. CASE v # w
      BY <3>1, <3>3, <1>2
    <3>4. QED
      BY <3>2, <3>3
  <2>5. ASSUME NEW v \in Wallets \ wrote[r]
        PROVE  /\ Extends(db.ledger[v], view'[r].ledger[v])
               /\ v \notin missed[r] => view'[r].ledger[v] = db.ledger[v]
    BY <2>1, <1>2, <1>4 DEF Isolated
  <2>6. ASSUME NEW v \in Wallets,
               NEW k \in Len(db.ledger[v]) + 1 .. Len(view'[r].ledger[v])
        PROVE  IsLegOf(view'[r].ledger[v][k], r, v)
    <3>1. Len(db.ledger[v]) \in Nat
      BY TypeFacts
    <3>2. CASE v = w
      <4>1. k \in 1 .. Len(old) + 1
        BY <3>1, <3>2, <1>2, <1>5
      <4>2. CASE k = Len(old) + 1
        BY <4>2, <3>2, <1>2, <1>5, <1>6
      <4>3. CASE k # Len(old) + 1
        <5>1. k \in 1 .. Len(old) /\ k \in Len(db.ledger[v]) + 1 .. Len(old)
          BY <4>1, <4>3, <1>5, <3>1
        <5>2. IsLegOf(old[k], r, w)
          BY <5>1, <3>2, <1>4 DEF Isolated
        <5>3. QED
          BY <5>1, <5>2, <3>2, <1>2, <1>5
      <4>4. QED
        BY <4>2, <4>3
    <3>3. CASE v # w
      BY <3>3, <1>2, <1>4 DEF Isolated
    <3>4. QED
      BY <3>2, <3>3
  <2>7. QED
    BY <2>4, <2>5, <2>6, <1>1, <1>3 DEF Isolated
<1>10. ASSUME NEW q \in Requests \ {r}
       PROVE  ViewInv(q)' /\ Isolated(q)'
  BY <1>1, <1>2, <1>3, ViewFrame, IsolatedFrame
<1>11. QED
  BY <1>7, <1>8, <1>9, <1>10

\* What a commit does to the store.
LEMMA CommitEffect ==
  ASSUME TypeInv, TxnInv, Transactional, NEW r \in Requests, Commit(r)
  PROVE  /\ \A w \in wrote[r] : /\ w \in Wallets
                               /\ db'.ledger[w] = view[r].ledger[w]
                               /\ db'.balance[w] = view[r].balance[w]
         /\ \A w \in Wallets \ wrote[r] : /\ db'.ledger[w] = db.ledger[w]
                                         /\ db'.balance[w] = db.balance[w]
         /\ \A w \in Wallets : /\ db'.ledger[w] \in Seq(Entry)
                              /\ Extends(db'.ledger[w], db.ledger[w])
         /\ pc[r] = "commit" /\ pc[r] \in Open
         /\ pc' = [pc EXCEPT ![r] = "done"]
         /\ wrote' = [wrote EXCEPT ![r] = {}]
         /\ missed' = [q \in Requests |-> missed[q] \cup wrote[r]]
         /\ UNCHANGED <<view, leg, doc>>
<1> USE TypeFacts
<1>1. /\ db' = Committed(r) /\ pc[r] = "commit" /\ pc[r] \in Open
      /\ wrote[r] \subseteq Wallets
  BY DEF Commit, Open
<1>2. \A w \in wrote[r] : /\ db'.ledger[w] = view[r].ledger[w]
                         /\ db'.balance[w] = view[r].balance[w]
  BY <1>1 DEF Committed
<1>3. \A w \in Wallets \ wrote[r] : /\ db'.ledger[w] = db.ledger[w]
                                   /\ db'.balance[w] = db.balance[w]
  BY <1>1 DEF Committed
<1>4. ASSUME NEW w \in Wallets
      PROVE  db'.ledger[w] \in Seq(Entry) /\ Extends(db'.ledger[w], db.ledger[w])
  <2>1. CASE w \in wrote[r]
    BY <2>1, <1>1, <1>2 DEF TxnInv, Isolated
  <2>2. CASE w \notin wrote[r]
    BY <2>2, <1>3, ExtendsRefl
  <2>3. QED
    BY <2>1, <2>2
<1>5. QED
  BY <1>1, <1>2, <1>3, <1>4 DEF Commit

\* Commit: the wallets written were not written by others since the snapshot.
LEMMA CommitTxnInv ==
  ASSUME TypeInv, TxnInv, Transactional, NEW r \in Requests, Commit(r)
  PROVE  TxnInv'
<1> USE TypeFacts, CommitEffect DEF TxnInv
<1>1. ViewInv(r) /\ Isolated(r) /\ StoreInv
  OBVIOUS
<1>2. StoreInv'
  <2>1. ASSUME NEW w \in Wallets
        PROVE  /\ Linked(db'.ledger[w], InitialBalance[w], db'.balance[w])
               /\ PostedOnce(db'.ledger[w])
               /\ \A i \in 1 .. Len(db'.ledger[w]) :
                    \E q \in Requests : IsLegOf(db'.ledger[w][i], q, w)
    <3>1. CASE w \in wrote[r]
      <4>1. /\ Linked(view[r].ledger[w], InitialBalance[w], view[r].balance[w])
            /\ PostedOnce(view[r].ledger[w])
            /\ \A i \in 1 .. Len(view[r].ledger[w]) :
                 \E q \in Requests : IsLegOf(view[r].ledger[w][i], q, w)
        BY <1>1 DEF ViewInv, ViewLinked, AllPostedOnce, EveryEntryIsALeg
      <4>2. db'.ledger[w] = view[r].ledger[w] /\ db'.balance[w] = view[r].balance[w]
        BY <3>1
      <4>3. QED
        BY ONLY <4>1, <4>2
    <3>2. CASE w \notin wrote[r]
      <4>1. /\ Linked(db.ledger[w], InitialBalance[w], db.balance[w])
            /\ PostedOnce(db.ledger[w])
            /\ \A i \in 1 .. Len(db.ledger[w]) :
                 \E q \in Requests : IsLegOf(db.ledger[w][i], q, w)
        BY <1>1 DEF StoreInv, AllPostedOnce, EveryEntryIsALeg
      <4>2. db'.ledger[w] = db.ledger[w] /\ db'.balance[w] = db.balance[w]
        BY <3>2
      <4>3. QED
        BY ONLY <4>1, <4>2
    <3>3. QED
      BY <3>1, <3>2
  <2>2. ASSUME NEW q \in Requests, pc'[q] = "done", NEW i \in 1 .. Len(Legs[q])
        PROVE  RecordedIn(db'.ledger[Legs[q][i].wallet], Legs[q][i])
    <3> DEFINE w == Legs[q][i].wallet
    <3>1. Legs[q][i] \in Leg /\ w \in Wallets
      BY LegType
    <3>2. CASE q = r
      <4>1. RecordedIn(view[r].ledger[w], Legs[r][i])
        BY <3>2, <1>1 DEF ViewInv, LegsBehindRecorded
      <4>2. CASE w \in wrote[r]
        BY <4>1, <4>2, <3>2
      <4>3. CASE w \notin wrote[r]
        <5>1. Extends(db.ledger[w], view[r].ledger[w])
          BY <4>3, <3>1, <1>1 DEF Isolated
        <5>2. RecordedIn(db.ledger[w], Legs[r][i])
          BY <4>1, <5>1, <3>1, <3>2, RecordedExtends
        <5>3. QED
          BY <5>2, <4>3, <3>1, <3>2
      <4>4. QED
        BY <4>2, <4>3
    <3>3. CASE q # r
      <4>1. pc[q] = "done"
        BY <2>2, <3>3
      <4>2. RecordedIn(db.ledger[w], Legs[q][i])
        BY <4>1, <1>1 DEF StoreInv
      <4>3. QED
        BY <4>2, <3>1, RecordedExtends
    <3>4. QED
      BY <3>2, <3>3
  <2>3. QED
    BY <2>1, <2>2 DEF StoreInv, AllPostedOnce, EveryEntryIsALeg
<1>3. WriteLocks'
  <2>1. WriteLocks /\ wrote' = [wrote EXCEPT ![r] = {}] /\ pc' = [pc EXCEPT ![r] = "done"]
    OBVIOUS
  <2>2. wrote'[r] = {} /\ \A q \in Requests \ {r} : wrote'[q] = wrote[q] /\ pc'[q] = pc[q]
    BY <2>1
  <2>3. QED
    BY ONLY <2>1, <2>2 DEF WriteLocks
<1>4. ViewInv(r)' /\ Isolated(r)'
  BY ClosedViewInv DEF Open
<1>5. ASSUME NEW q \in Requests \ {r}
      PROVE  ViewInv(q)' /\ Isolated(q)'
  <2>1. /\ pc'[q] = pc[q] /\ wrote'[q] = wrote[q] /\ view' = view /\ leg' = leg
        /\ missed'[q] = missed[q] \cup wrote[r] /\ (Call(q))' = Call(q)
    BY DEF Call
  <2>2. wrote[q] \cap wrote[r] = {}
    BY DEF WriteLocks
  <2>3. ViewInv(q)'
    BY <2>1, ViewFrame
  <2>4. Isolated(q)'
    <3> SUFFICES ASSUME pc[q] \in Open
                 PROVE  Isolated(q)'
      BY <2>1 DEF Isolated
    <3>1. Isolated(q)
      OBVIOUS
    <3>2. ASSUME NEW w \in wrote[q]
          PROVE  w \notin missed'[q] /\ Extends(view[q].ledger[w], db'.ledger[w])
      BY <3>1, <2>1, <2>2 DEF Isolated
    <3>3. ASSUME NEW w \in Wallets \ wrote[q]
          PROVE  /\ Extends(db'.ledger[w], view[q].ledger[w])
                 /\ w \notin missed'[q] => view[q].ledger[w] = db'.ledger[w]
      <4>1. Extends(db.ledger[w], view[q].ledger[w])
        BY <3>1 DEF Isolated
      <4>2. Extends(db'.ledger[w], view[q].ledger[w])
        BY <4>1, ExtendsTrans
      <4>3. w \notin missed'[q] => view[q].ledger[w] = db'.ledger[w]
        BY <3>1, <2>1 DEF Isolated
      <4>4. QED
        BY <4>2, <4>3
    <3>4. ASSUME NEW w \in Wallets,
                 NEW k \in Len(db'.ledger[w]) + 1 .. Len(view[q].ledger[w])
          PROVE  IsLegOf(view[q].ledger[w][k], q, w)
      <4>0. /\ db.ledger[w] \in Seq(Entry) /\ db'.ledger[w] \in Seq(Entry)
            /\ view[q].ledger[w] \in Seq(Entry)
            /\ Extends(db'.ledger[w], db.ledger[w])
        OBVIOUS
      <4>1. /\ Len(db.ledger[w]) \in Nat /\ Len(db'.ledger[w]) \in Nat
            /\ Len(view[q].ledger[w]) \in Nat
            /\ Len(db.ledger[w]) <= Len(db'.ledger[w])
        BY ONLY <4>0 DEF Extends
      <4>2. /\ k \in Int /\ Len(db'.ledger[w]) + 1 <= k /\ k <= Len(view[q].ledger[w])
        BY ONLY <3>4, <4>1
      <4>3. k \in Len(db.ledger[w]) + 1 .. Len(view[q].ledger[w])
        BY ONLY <4>1, <4>2
      <4>4. QED
        BY <4>3, <3>1 DEF Isolated
    <3>5. pc[q] = "insert" => Call(q).wallet \in wrote[q]
      BY <3>1 DEF Isolated
    <3>6. QED
      BY <2>1, <3>2, <3>3, <3>4, <3>5 DEF Isolated
  <2>5. QED
    BY <2>3, <2>4
<1>6. QED
  BY <1>2, <1>3, <1>4, <1>5

\* DeliverCOD: escrow only, and open requests miss the wallet.
LEMMA DeliverCODTxnInv ==
  ASSUME TypeInv, TxnInv, NEW w \in Wallets, DeliverCOD(w)
  PROVE  TxnInv'
<1> USE TypeFacts DEF TxnInv
<1>1. /\ db'.ledger = db.ledger /\ db'.balance = db.balance
      /\ missed' = [r \in Requests |-> missed[r] \cup {w}]
      /\ \A r \in Requests : w \notin wrote[r]
      /\ UNCHANGED <<view, pc, leg, doc, wrote>>
  BY DEF DeliverCOD, Store
<1>2. StoreInv'
  BY <1>1 DEF StoreInv, AllPostedOnce, EveryEntryIsALeg
<1>3. WriteLocks'
  BY <1>1 DEF WriteLocks
<1>4. ASSUME NEW q \in Requests
      PROVE  ViewInv(q)' /\ Isolated(q)'
  <2>1. ViewInv(q)'
    BY <1>1, ViewFrame
  <2>2. Isolated(q)'
    BY <1>1 DEF Isolated, Call
  <2>3. QED
    BY <2>1, <2>2
<1>5. QED
  BY <1>2, <1>3, <1>4

\* Retry: the request starts again from nothing.
LEMMA RetryTxnInv ==
  ASSUME TypeInv, TxnInv, NEW r \in Requests, Retry(r)
  PROVE  TxnInv'
<1> USE TypeFacts DEF TxnInv
<1>1. /\ pc' = [pc EXCEPT ![r] = "idle"] /\ pc[r] \notin Open
      /\ UNCHANGED <<db, view, leg, doc, wrote, missed>>
  BY DEF Retry, Open
<1>2. StoreInv'
  BY <1>1, StoreFrame
<1>3. WriteLocks'
  BY <1>1 DEF WriteLocks, Open
<1>4. ASSUME NEW q \in Requests
      PROVE  ViewInv(q)' /\ Isolated(q)'
  <2>1. CASE q = r
    BY <2>1, <1>1, ClosedViewInv DEF Open
  <2>2. CASE q # r
    BY <2>2, <1>1, ViewFrame, IsolatedFrame
  <2>3. QED
    BY <2>1, <2>2
<1>5. QED
  BY <1>2, <1>3, <1>4

\* Every step keeps the invariant of transactional mode.
LEMMA NextTxnInv ==
  ASSUME ReferenceNamesOneLeg, Transactional, TypeInv, TxnInv, [Next]_vars
  PROVE  TxnInv'
<1>1. ASSUME NEW r \in Requests, Abort(r)
      PROVE  TxnInv'
  BY <1>1, CloseTxnInv DEF Abort
<1>2. ASSUME NEW r \in Requests, Fail(r)
      PROVE  TxnInv'
  BY <1>2, CloseTxnInv DEF Fail
<1>3. CASE UNCHANGED vars
  <2>1. StoreInv' /\ WriteLocks'
    BY <1>3, StoreFrame DEF vars, TxnInv, WriteLocks
  <2>2. \A q \in Requests : ViewInv(q)' /\ Isolated(q)'
    BY <1>3, ViewFrame, IsolatedFrame DEF vars, TxnInv
  <2>3. QED
    BY <2>1, <2>2 DEF TxnInv
<1>4. QED
  BY <1>1, <1>2, <1>3, BeginTxnInv, FindWalletTxnInv, SkipPostedTxnInv, NotPostedTxnInv,
     UpdateWalletTxnInv, InsertEntryTxnInv, CommitTxnInv, RetryTxnInv, DeliverCODTxnInv
     DEF Next, Step, WalletUnusable, EscrowTooLow, UpdateRefused

\* Against a replica set, with references that each name one leg, the
\* transactional invariant holds in every state.
LEMMA TxnInvariant ==
  ASSUME ReferenceNamesOneLeg, Transactional
  PROVE  Spec => [](TypeInv /\ TxnInv)
<1>1. Init => TypeInv /\ TxnInv
  BY InitTypeInv, InitTxnInv
<1>2. TypeInv /\ TxnInv /\ [Next]_vars => (TypeInv /\ TxnInv)'
  BY NextTypeInv, NextTxnInv
<1>3. QED
  BY <1>1, <1>2, PTL DEF Spec

\* The entries of each wallet are a gapless chain from its opening balance to
\* its balance, under any interleaving, abort and retry.
THEOREM BalanceIsExplained ==
  ASSUME ReferenceNamesOneLeg, Transactional
  PROVE  Spec => []LedgerExplainsBalance
<1>1. TypeInv /\ TxnInv => LedgerExplainsBalance
  BY DEF TxnInv, StoreInv, LedgerExplainsBalance
<1>2. QED
  BY <1>1, TxnInvariant, PTL

\* A reference is posted at most once on a wallet.
THEOREM PostedAtMostOnce ==
  ASSUME ReferenceNamesOneLeg, Transactional
  PROVE  Spec => []NoDoublePosting
<1>1. TypeInv /\ TxnInv => NoDoublePosting
  BY DEF TxnInv, StoreInv, AllPostedOnce, NoDoublePosting
<1>2. QED
  BY <1>1, TxnInvariant, PTL

\* A request that was answered "done" has every leg posted.
THEOREM AcknowledgedMeansPosted ==
  ASSUME ReferenceNamesOneLeg, Transactional
  PROVE  Spec => []AcknowledgedIsPosted
<1>1. TypeInv /\ TxnInv => AcknowledgedIsPosted
  BY DEF TxnInv, StoreInv, AcknowledgedIsPosted
<1>2. QED
  BY <1>1, TxnInvariant, PTL

-------------------------------------------------------------------------------
(* The ledger only grows, and grows by whole requests.                      *)

\* Only a commit changes a balance or the entries.
LEMMA OnlyCommitPosts ==
  ASSUME Transactional, TypeInv, [Next]_vars, ~(\E r \in Requests : Commit(r))
  PROVE  db'.ledger = db.ledger /\ db'.balance = db.balance
<1>1. ASSUME NEW r \in Requests, Begin(r) \/ Step(r) \/ Fail(r) \/ Retry(r)
      PROVE  db' = db
  BY <1>1 DEF Step, Begin, FindWallet, WalletUnusable, SkipPosted, NotPosted, EscrowTooLow,
              UpdateWallet, UpdateRefused, InsertEntry, Fail, Retry, Abort, Put
<1>2. ASSUME NEW w \in Wallets, DeliverCOD(w)
      PROVE  db'.ledger = db.ledger /\ db'.balance = db.balance
  BY <1>2, TypeFacts DEF DeliverCOD, Store
<1>3. CASE UNCHANGED vars
  BY <1>3 DEF vars
<1>4. QED
  BY <1>1, <1>2, <1>3 DEF Next

\* No commit overwrites an entry that another request has posted.
THEOREM LedgerIsAppendOnly ==
  ASSUME ReferenceNamesOneLeg, Transactional
  PROVE  Spec => AppendOnly
<1>1. TypeInv /\ TxnInv /\ [Next]_vars
        => [\A w \in Wallets : Extends(db'.ledger[w], db.ledger[w])]_vars
  <2> SUFFICES ASSUME TypeInv, TxnInv, [Next]_vars, NEW w \in Wallets
               PROVE  Extends(db'.ledger[w], db.ledger[w])
    OBVIOUS
  <2>1. CASE \E r \in Requests : Commit(r)
    BY <2>1, CommitEffect
  <2>2. CASE ~(\E r \in Requests : Commit(r))
    BY <2>2, OnlyCommitPosts, TypeFacts, ExtendsRefl
  <2>3. QED
    BY <2>1, <2>2
<1>2. QED
  BY <1>1, TxnInvariant, PTL DEF Spec, AppendOnly

\* A commit is one atomic posting of the whole request.
LEMMA CommitPosts ==
  ASSUME ReferenceNamesOneLeg, Transactional, TypeInv, TxnInv, TypeInv', TxnInv', Solvent',
         NEW r \in Requests, Commit(r)
  PROVE  L!Post(r)
<1> USE TypeFacts, CommitEffect
<1>1. \A w \in Wallets : Extends(db'.ledger[w], db.ledger[w])
  OBVIOUS
<1>2. ASSUME NEW w \in Wallets, NEW k \in Len(db.ledger[w]) + 1 .. Len(db'.ledger[w])
      PROVE  IsLegOf(db'.ledger[w][k], r, w)
  <2>1. CASE w \in wrote[r]
    <3>1. db'.ledger[w] = view[r].ledger[w]
      BY <2>1
    <3>2. \A j \in Len(db.ledger[w]) + 1 .. Len(view[r].ledger[w]) :
            IsLegOf(view[r].ledger[w][j], r, w)
      BY DEF TxnInv, Isolated
    <3>3. QED
      BY ONLY <1>2, <3>1, <3>2
  <2>2. CASE w \notin wrote[r]
    <3>1. db'.ledger[w] = db.ledger[w] /\ db.ledger[w] \in Seq(Entry)
      BY <2>2
    <3>2. Len(db.ledger[w]) \in Nat
      BY ONLY <3>1
    <3>3. QED
      BY ONLY <1>2, <3>1, <3>2
  <2>3. QED
    BY <2>1, <2>2
<1>3. \A i \in 1 .. Len(Legs[r]) :
        RecordedIn(db'.ledger[Legs[r][i].wallet], Legs[r][i])
  BY DEF TxnInv, StoreInv
<1>4. \A w \in Wallets : /\ Linked(db'.ledger[w], InitialBalance[w], db'.balance[w])
                        /\ PostedOnce(db'.ledger[w])
  BY DEF TxnInv, StoreInv, AllPostedOnce
<1>5. \A w \in Wallets : db'.balance[w] \in Nat
  BY DEF Solvent, Covers, TypeInv, TypeOK, Store
<1>6. QED
  BY ONLY <1>1, <1>2, <1>3, <1>4, <1>5
     DEF L!Post, L!InOrder, L!Extends, L!IsLegOf, L!RecordedIn, L!Linked, L!PostedOnce,
         L!Effect, L!DebitTypes,
         Extends, IsLegOf, RecordedIn, Linked, PostedOnce, Effect, DebitTypes

\* Against a replica set the interleaved, aborting and retried requests of
\* applyTransaction implement the abstract ledger, where one step posts one
\* whole request.
THEOREM WalletLedgerImplementsLedger ==
  ASSUME ReferenceNamesOneLeg, Transactional
  PROVE  Spec => ImplementsLedger
<1>1. Init => L!LedgerInit
  BY DEF Init, InitialStore, L!LedgerInit
<1>2. /\ TypeInv /\ TxnInv /\ TypeInv' /\ TxnInv' /\ Solvent' /\ [Next]_vars
      => [L!LedgerNext]_(L!ledgerVars)
  <2> SUFFICES ASSUME TypeInv, TxnInv, TypeInv', TxnInv', Solvent', [Next]_vars
               PROVE  [L!LedgerNext]_(L!ledgerVars)
    OBVIOUS
  <2>1. CASE \E r \in Requests : Commit(r)
    BY <2>1, CommitPosts DEF L!LedgerNext
  <2>2. CASE ~(\E r \in Requests : Commit(r))
    BY <2>2, OnlyCommitPosts DEF L!ledgerVars
  <2>3. QED
    BY <2>1, <2>2
<1>3. Spec => []Solvent
  BY InitTypeInv, NextTypeInv, InitSolvent, NextSolvent, PTL DEF Spec
<1>4. QED
  BY <1>1, <1>2, <1>3, TxnInvariant, PTL DEF Spec, ImplementsLedger, L!LedgerSpec

===============================================================================
