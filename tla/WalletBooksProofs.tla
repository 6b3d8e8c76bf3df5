--------------------------- MODULE WalletBooksProofs ---------------------------
(***************************************************************************)
(* What the documents of WalletLedger add up to: against a replica set no    *)
(* COD money is lost or made, and against a standalone server, while nothing *)
(* fails, the books balance.  The sums are over the entries of a wallet and  *)
(* over all wallets, for any number of them.                                *)
(***************************************************************************)
EXTENDS WalletLedgerProofs, Sums

-------------------------------------------------------------------------------
(* Totals.                                                                  *)

LEMMA TotalIsSum == ASSUME NEW f PROVE Total(f) = Sum(f, DOMAIN f)
BY DEF Total, Sum

\* One more entry adds its amount.
LEMMA TotalAppend ==
  ASSUME NEW n \in Nat, NEW f, NEW g, DOMAIN f = 1 .. n, DOMAIN g = 1 .. n + 1,
         \A i \in 1 .. n : f[i] = g[i], \A i \in 1 .. n + 1 : g[i] \in Int
  PROVE  Total(g) = Total(f) + g[n + 1]
<1>1. 1 .. n + 1 = (1 .. n) \cup {n + 1} /\ n + 1 \notin 1 .. n
  OBVIOUS
<1>2. IsFiniteSet(1 .. n)
  BY FS_Interval
<1> DEFINE S == 1 .. n
           x == n + 1
<1>3. \A y \in S \cup {x} : g[y] \in Int
  BY <1>1
<1>4. x \notin S /\ IsFiniteSet(S)
  BY <1>1, <1>2
<1> HIDE DEF S, x
<1>5. Sum(g, S \cup {x}) = Sum(g, S) + g[x]
  BY <1>3, <1>4, SumAddInt
<1>6. \A i \in S : f[i] = g[i]
  BY DEF S
<1>7. Sum(f, S) = Sum(g, S)
  BY <1>4, <1>6, SumAgrees
<1>8. Total(g) = Sum(g, S \cup {x}) /\ Total(f) = Sum(f, S)
  BY <1>1, TotalIsSum DEF S, x
<1>9. QED
  BY <1>5, <1>7, <1>8 DEF x

LEMMA TotalOfNone == ASSUME NEW f, DOMAIN f = {} PROVE Total(f) = 0
BY TotalIsSum, SumOfNone

\* What an entry does to the balance and to the escrow.
LEMMA ChangesAppend ==
  ASSUME NEW s \in Seq(Entry), NEW e \in Entry
  PROVE  Total(Changes(Append(s, e))) = Total(Changes(s)) + Effect(e.type, e.amount)
<1> DEFINE n == Len(s)
           f == Changes(s)
           g == Changes(Append(s, e))
<1>1. n \in Nat /\ DOMAIN f = 1 .. n /\ DOMAIN g = 1 .. n + 1
  BY DEF Changes
<1>2. \A i \in 1 .. n : f[i] = g[i]
  BY DEF Changes
<1>3. \A x \in Entry : Effect(x.type, x.amount) \in Int
  BY DEF Entry, Effect
<1>4. \A i \in 1 .. n + 1 : Append(s, e)[i] \in Entry
  OBVIOUS
<1>5. \A i \in 1 .. n + 1 : g[i] \in Int
  BY <1>3, <1>4 DEF Changes
<1>6. g[n + 1] = Effect(e.type, e.amount)
  BY DEF Changes
<1> HIDE DEF n, f, g
<1>7. Total(g) = Total(f) + g[n + 1]
  BY <1>1, <1>2, <1>5, TotalAppend
<1>8. QED
  BY <1>6, <1>7 DEF f, g

Release(e) == IF e.type = "COD_CREDIT" THEN e.amount ELSE 0

LEMMA ReleasesAppend ==
  ASSUME NEW s \in Seq(Entry), NEW e \in Entry
  PROVE  Total(Releases(Append(s, e))) = Total(Releases(s)) + Release(e)
<1> DEFINE n == Len(s)
           f == Releases(s)
           g == Releases(Append(s, e))
<1>1. n \in Nat /\ DOMAIN f = 1 .. n /\ DOMAIN g = 1 .. n + 1
  BY DEF Releases
<1>2. \A i \in 1 .. n : f[i] = g[i]
  BY DEF Releases
<1>3. \A x \in Entry : Release(x) \in Int
  BY DEF Entry, Release
<1>4. \A i \in 1 .. n + 1 : Append(s, e)[i] \in Entry /\ g[i] = Release(Append(s, e)[i])
  BY DEF Releases, Release
<1>5. \A i \in 1 .. n + 1 : g[i] \in Int
  BY <1>3, <1>4
<1>6. g[n + 1] = Release(e)
  BY DEF Releases, Release
<1> HIDE DEF n, f, g
<1>7. Total(g) = Total(f) + g[n + 1]
  BY <1>1, <1>2, <1>5, TotalAppend
<1>8. QED
  BY <1>6, <1>7 DEF f, g

LEMMA TotalsAreInt ==
  ASSUME NEW s \in Seq(Entry)
  PROVE  Total(Changes(s)) \in Int /\ Total(Releases(s)) \in Int
<1>1. IsFiniteSet(1 .. Len(s))
  BY FS_Interval
<1>2. /\ DOMAIN Changes(s) = 1 .. Len(s) /\ DOMAIN Releases(s) = 1 .. Len(s)
      /\ \A i \in 1 .. Len(s) : s[i] \in Entry
  BY DEF Changes, Releases
<1>3. \A i \in 1 .. Len(s) : Changes(s)[i] \in Int
  BY <1>2 DEF Changes, Entry, Effect
<1>4. \A i \in 1 .. Len(s) : Releases(s)[i] \in Int
  BY <1>2 DEF Releases, Entry
<1>5. QED
  BY <1>1, <1>2, <1>3, <1>4, TotalIsSum, SumIsInt

-------------------------------------------------------------------------------
(* Escrow, against a replica set.                                           *)

\* COD money of wallet w in a store: in escrow, or released by an entry.
Held(store, w) == store.escrow[w] + Total(Releases(store.ledger[w]))

\* Between the $inc and the insert of a COD_CREDIT its amount is in neither.
InHand(r, w) ==
  IF pc[r] = "insert" /\ Call(r).wallet = w THEN Release(Call(r)) ELSE 0

\* The snapshot of an open request holds of every wallet that it has not missed a
\* commit of what the store holds, and it has written no other wallet.
SnapshotHolds(r) ==
  pc[r] \in Open =>
    /\ wrote[r] \cap missed[r] = {}
    /\ \A w \in Wallets \ missed[r] : Held(view[r], w) + InHand(r, w) = Held(db, w)

EscrowInv ==
  /\ WriteLocks
  /\ \A r \in Requests : SnapshotHolds(r)
  /\ EscrowAccountedFor

HeldBy(store) == [w \in Wallets |-> Held(store, w)]

LEMMA EscrowIsHeld ==
  EscrowAccountedFor <=> Sum(HeldBy(db), Wallets) = Total(InitialEscrow) + deliveries * CodAmount
<1>1. HeldBy(db) = [w \in Wallets |-> db.escrow[w] + Total(Releases(db.ledger[w]))]
  BY DEF HeldBy, Held
<1>2. Total(HeldBy(db)) = Sum(HeldBy(db), Wallets)
  BY TotalIsSum DEF HeldBy
<1>3. QED
  BY <1>1, <1>2 DEF EscrowAccountedFor

LEMMA HeldIsInt ==
  ASSUME NEW store \in Store, NEW w \in Wallets
  PROVE  Held(store, w) \in Int
<1>1. store.ledger[w] \in Seq(Entry) /\ store.escrow[w] \in Int
  BY DEF Store
<1>2. QED
  BY <1>1, TotalsAreInt DEF Held

LEMMA EscrowInitInv == Init => EscrowInv
<1> SUFFICES ASSUME Init PROVE EscrowInv
  OBVIOUS
<1>1. /\ db = InitialStore /\ deliveries = 0
      /\ WriteLocks /\ \A r \in Requests : SnapshotHolds(r)
  BY DEF Init, Open, WriteLocks, SnapshotHolds
<1>2. DOMAIN Releases(<< >>) = {}
  BY DEF Releases
<1>3. \A w \in Wallets : Held(db, w) = InitialEscrow[w]
  <2> SUFFICES ASSUME NEW w \in Wallets PROVE Held(db, w) = InitialEscrow[w]
    OBVIOUS
  <2>1. db.ledger[w] = << >> /\ db.escrow[w] = InitialEscrow[w] /\ InitialEscrow[w] \in Int
    BY <1>1, InitialAssumption DEF InitialStore
  <2>2. QED
    BY <1>2, <2>1, TotalOfNone DEF Held
<1>4. HeldBy(db) = InitialEscrow /\ DOMAIN InitialEscrow = Wallets
  BY <1>3, InitialAssumption DEF HeldBy
<1>5. IsFiniteSet(Wallets) /\ \A w \in Wallets : InitialEscrow[w] \in Int
  BY WalletLedgerAssumption, InitialAssumption
<1>6. Total(InitialEscrow) \in Int /\ Total(InitialEscrow) = Sum(HeldBy(db), Wallets)
  BY <1>4, <1>5, TotalIsSum, SumIsInt
<1>7. deliveries * CodAmount = 0
  BY <1>1, WalletLedgerAssumption
<1>8. EscrowAccountedFor
  BY <1>6, <1>7, EscrowIsHeld
<1>9. QED
  BY <1>1, <1>8 DEF EscrowInv

\* What the store holds of no wallet changes, so the total does not.
LEMMA TotalKept ==
  ASSUME EscrowAccountedFor, deliveries' = deliveries,
         \A w \in Wallets : Held(db, w)' = Held(db, w)
  PROVE  EscrowAccountedFor'
<1>1. HeldBy(db)' = HeldBy(db)
  BY DEF HeldBy
<1>2. QED
  BY <1>1, EscrowIsHeld DEF EscrowAccountedFor, HeldBy, Held

LEMMA SnapshotKept ==
  ASSUME NEW q \in Requests, SnapshotHolds(q), UNCHANGED db, pc'[q] = pc[q], view'[q] = view[q],
         wrote'[q] = wrote[q], missed'[q] = missed[q], leg'[q] = leg[q]
  PROVE  SnapshotHolds(q)'
BY DEF SnapshotHolds, Held, InHand, Call, Release

\* The write locks are those of the transactional invariant.
LEMMA LocksKept ==
  ASSUME Transactional, TypeInv, WriteLocks, [Next]_vars
  PROVE  WriteLocks'
<1> USE TypeFacts DEF WriteLocks
<1>1. ASSUME NEW r \in Requests, UpdateWallet(r) PROVE WriteLocks'
  <2>1. /\ wrote' = [wrote EXCEPT ![r] = @ \cup {Call(r).wallet}]
        /\ pc' = [pc EXCEPT ![r] = "insert"]
        /\ \A q \in Requests \ {r} : Call(r).wallet \notin wrote[q]
    BY <1>1 DEF UpdateWallet, WriteConflict
  <2>2. "insert" \in Open
    BY DEF Open
  <2>3. QED
    BY <2>1, <2>2
<1>2. ASSUME NEW r \in Requests, Abort(r) \/ Fail(r) \/ Commit(r) PROVE WriteLocks'
  BY <1>2 DEF Abort, Fail, Commit, Open
<1>3. ASSUME NEW r \in Requests,
             Begin(r) \/ FindWallet(r) \/ SkipPosted(r) \/ NotPosted(r) \/ InsertEntry(r) \/ Retry(r)
      PROVE  WriteLocks'
  <2>1. wrote' = wrote /\ \A q \in Requests \ {r} : pc'[q] = pc[q]
    BY <1>3 DEF Begin, FindWallet, SkipPosted, NotPosted, InsertEntry, Retry, AfterLeg
  <2>2. pc'[r] \in Open \/ pc[r] \notin Open
    BY <1>3 DEF Begin, FindWallet, SkipPosted, NotPosted, InsertEntry, Retry, AfterLeg, Open
  <2>3. QED
    BY <2>1, <2>2
<1>4. ASSUME NEW w \in Wallets, DeliverCOD(w) PROVE WriteLocks'
  BY <1>4 DEF DeliverCOD
<1>5. CASE UNCHANGED vars
  BY <1>5 DEF vars
<1>6. QED
  BY <1>1, <1>2, <1>3, <1>4, <1>5 DEF Next, Step, WalletUnusable, EscrowTooLow, UpdateRefused

LEMMA StoreKeepsHeld ==
  ASSUME UNCHANGED db
  PROVE  \A w \in Wallets : Held(db, w)' = Held(db, w)
BY DEF Held

\* The $inc takes from the escrow what the request then has in hand.
LEMMA UpdateSnapshot ==
  ASSUME Transactional, TypeInv, EscrowInv, NEW r \in Requests, UpdateWallet(r)
  PROVE  UNCHANGED db /\ \A q \in Requests : SnapshotHolds(q)'
<1> USE TypeFacts
<1> DEFINE c == Call(r)
           v == c.wallet
<1>1. /\ pc[r] = "update" /\ v \notin missed[r]
      /\ UNCHANGED <<db, leg, missed, deliveries>>
      /\ view' = [view EXCEPT ![r] = Moved(r)]
      /\ wrote' = [wrote EXCEPT ![r] = @ \cup {v}]
      /\ pc' = [pc EXCEPT ![r] = "insert"]
  BY DEF UpdateWallet, WriteConflict, Put
<1>2. c \in Leg /\ v \in Wallets /\ c.amount \in Nat
  BY <1>1, CallIsLeg DEF TypeInv
<1>3. Moved(r).ledger = view[r].ledger
      /\ Moved(r).escrow = [view[r].escrow EXCEPT ![v] = @ - Release(c)]
  <2>1. view[r] \in Store /\ See(r) = view[r]
    BY DEF See
  <2>2. view[r].escrow \in [Wallets -> Int]
    BY <2>1 DEF Store
  <2>3. \A a \in Int : a - 0 = a
    OBVIOUS
  <2>4. (IF c.type = "COD_CREDIT" THEN view[r].escrow[v] - c.amount ELSE view[r].escrow[v])
          = view[r].escrow[v] - Release(c)
    BY <1>2, <2>2, <2>3 DEF Release
  <2>5. Moved(r).escrow = [view[r].escrow EXCEPT ![v] =
                             IF c.type = "COD_CREDIT" THEN @ - c.amount ELSE @]
        /\ Moved(r).ledger = view[r].ledger
    BY <2>1 DEF Moved, Store
  <2> HIDE DEF c, v
  <2>6. QED
    BY <1>2, <2>2, <2>4, <2>5
<1>4. SnapshotHolds(r)'
  <2>1. "update" \in Open /\ SnapshotHolds(r)
    BY DEF Open, EscrowInv
  <2>2. wrote'[r] \cap missed'[r] = {}
    BY <1>1, <2>1 DEF SnapshotHolds
  <2>3. ASSUME NEW w \in Wallets \ missed[r]
        PROVE  Held(view'[r], w) + InHand(r, w)' = Held(db, w)
    <3>1. Held(view[r], w) + InHand(r, w) = Held(db, w)
      BY <1>1, <2>1, <2>3 DEF SnapshotHolds
    <3>2. InHand(r, w) = 0 /\ InHand(r, w)' = IF v = w THEN Release(c) ELSE 0
      BY <1>1 DEF InHand, Call, Release
    <3>3. /\ view[r].escrow[w] \in Int /\ Release(c) \in Int
          /\ Total(Releases(view[r].ledger[w])) \in Int
      <4>1. view[r] \in Store /\ w \in Wallets
        BY <2>3
      <4>2. view[r].escrow[w] \in Int /\ view[r].ledger[w] \in Seq(Entry)
        BY <4>1 DEF Store
      <4>3. QED
        BY <1>2, <4>2, TotalsAreInt DEF Release
    <3>4. view'[r].ledger[w] = view[r].ledger[w]
          /\ view'[r].escrow[w] = IF v = w THEN view[r].escrow[w] - Release(c) ELSE view[r].escrow[w]
      <4>1. view'[r] = Moved(r) /\ view[r] \in Store /\ w \in Wallets
        BY <1>1, <2>3
      <4>2. view[r].escrow \in [Wallets -> Int]
        BY <4>1 DEF Store
      <4> HIDE DEF c, v
      <4>3. QED
        BY <1>2, <1>3, <4>1, <4>2
    <3> DEFINE e == view[r].escrow[w]
               t == Total(Releases(view[r].ledger[w]))
               m == Release(c)
    <3>5. Held(view[r], w) = e + t /\ Held(view'[r], w) = (IF v = w THEN e - m ELSE e) + t
      BY <3>4 DEF Held
    <3>6. e \in Int /\ t \in Int /\ m \in Int
      BY <3>3
    <3>7. InHand(r, w)' = IF v = w THEN m ELSE 0
      BY <3>2
    <3> HIDE DEF e, t, m, v, c
    <3>8. (e + t) + 0 = Held(db, w)
      BY <3>1, <3>2, <3>5
    <3>9. CASE v = w
      BY <3>5, <3>6, <3>7, <3>8, <3>9
    <3>10. CASE v # w
      BY <3>5, <3>6, <3>7, <3>8, <3>10
    <3>11. QED
      BY <3>9, <3>10
  <2>4. QED
    BY <1>1, <2>2, <2>3 DEF SnapshotHolds, Held
<1>5. ASSUME NEW q \in Requests, q # r PROVE SnapshotHolds(q)'
  BY <1>1, <1>5, SnapshotKept DEF EscrowInv
<1>6. QED
  BY <1>1, <1>4, <1>5

\* The insert releases what the request had in hand.
LEMMA InsertSnapshot ==
  ASSUME Transactional, TypeInv, EscrowInv, NEW r \in Requests, InsertEntry(r)
  PROVE  UNCHANGED db /\ \A q \in Requests : SnapshotHolds(q)'
<1> USE TypeFacts
<1> DEFINE c == Call(r)
           v == c.wallet
<1>1. /\ pc[r] = "insert" /\ UNCHANGED <<db, wrote, missed>>
      /\ view' = [view EXCEPT ![r] = Inserted(r)]
      /\ \A q \in Requests \ {r} : pc'[q] = pc[q] /\ leg'[q] = leg[q]
      /\ pc'[r] \in {"wallet", "commit"}
  BY DEF InsertEntry, Put, AfterLeg
<1>2. c \in Leg /\ v \in Wallets /\ c.amount \in Nat /\ NewEntry(r) \in Entry
  BY <1>1, CallIsLeg, NewEntryType DEF TypeInv
<1>3. Inserted(r).escrow = view[r].escrow
      /\ Inserted(r).ledger = [view[r].ledger EXCEPT ![v] = Append(@, NewEntry(r))]
  BY DEF Inserted, See, Store
<1>4. Release(NewEntry(r)) = Release(c)
  BY DEF Release, NewEntry
<1>5. SnapshotHolds(r)'
  <2>1. "insert" \in Open /\ SnapshotHolds(r)
    BY DEF Open, EscrowInv
  <2>2. ASSUME NEW w \in Wallets \ missed[r]
        PROVE  Held(view'[r], w) + InHand(r, w)' = Held(db, w)
    <3>1. Held(view[r], w) + InHand(r, w) = Held(db, w)
      BY <1>1, <2>1, <2>2 DEF SnapshotHolds
    <3>2. InHand(r, w)' = 0 /\ InHand(r, w) = IF v = w THEN Release(c) ELSE 0
      BY <1>1 DEF InHand
    <3>3. view[r].escrow[w] \in Int /\ view[r].ledger[w] \in Seq(Entry) /\ Release(c) \in Int
      BY <1>2, <2>2 DEF Store, Release
    <3>4. view'[r].escrow[w] = view[r].escrow[w]
          /\ view'[r].ledger[w] = IF v = w THEN Append(view[r].ledger[w], NewEntry(r))
                                  ELSE view[r].ledger[w]
      <4>1. view'[r] = Inserted(r) /\ w \in Wallets /\ view[r].ledger \in [Wallets -> Seq(Entry)]
        BY <1>1, <2>2 DEF Store
      <4> HIDE DEF c, v
      <4>2. QED
        BY <1>2, <1>3, <4>1
    <3> DEFINE e == view[r].escrow[w]
               t == Total(Releases(view[r].ledger[w]))
               m == Release(c)
    <3>5. Held(view[r], w) = e + t /\ Held(view'[r], w) = e + (IF v = w THEN t + m ELSE t)
      BY <1>2, <1>4, <3>3, <3>4, ReleasesAppend DEF Held
    <3>6. e \in Int /\ t \in Int /\ m \in Int
      BY <3>3, TotalsAreInt
    <3>7. InHand(r, w) = IF v = w THEN m ELSE 0
      BY <3>2
    <3>8. InHand(r, w)' = 0
      BY <3>2
    <3> HIDE DEF e, t, m, v, c
    <3>9. CASE v = w
      <4>1. (e + t) + m = Held(db, w)
        BY <3>1, <3>5, <3>7, <3>9
      <4>2. Held(view'[r], w) = e + (t + m)
        BY <3>5, <3>9
      <4>3. QED
        BY <3>6, <3>8, <4>1, <4>2
    <3>10. CASE v # w
      <4>1. (e + t) + 0 = Held(db, w)
        BY <3>1, <3>5, <3>7, <3>10
      <4>2. Held(view'[r], w) = e + t
        BY <3>5, <3>10
      <4>3. QED
        BY <3>8, <4>1, <4>2
    <3>11. QED
      BY <3>9, <3>10
  <2>3. wrote'[r] \cap missed'[r] = {}
    BY <1>1, <2>1 DEF SnapshotHolds
  <2>4. QED
    BY <1>1, <2>2, <2>3 DEF SnapshotHolds, Held
<1>6. ASSUME NEW q \in Requests, q # r PROVE SnapshotHolds(q)'
  <2>1. view'[q] = view[q] /\ pc'[q] = pc[q] /\ leg'[q] = leg[q]
    BY <1>1, <1>6
  <2>2. QED
    BY <1>1, <2>1, SnapshotKept DEF EscrowInv
<1>7. QED
  BY <1>1, <1>5, <1>6

\* A commit writes only wallets of which the store still holds what it held.
LEMMA CommitSnapshot ==
  ASSUME Transactional, TypeInv, EscrowInv, NEW r \in Requests, Commit(r)
  PROVE  /\ \A w \in Wallets : Held(db, w)' = Held(db, w)
         /\ \A q \in Requests : SnapshotHolds(q)'
<1> USE TypeFacts
<1>1. /\ pc[r] = "commit" /\ db' = Committed(r) /\ UNCHANGED <<view, leg>>
      /\ missed' = [q \in Requests |-> missed[q] \cup wrote[r]]
      /\ wrote' = [wrote EXCEPT ![r] = {}]
      /\ pc' = [pc EXCEPT ![r] = "done"]
  BY DEF Commit
<1>2. \A w \in Wallets :
        /\ db'.escrow[w] = IF w \in wrote[r] THEN view[r].escrow[w] ELSE db.escrow[w]
        /\ db'.ledger[w] = IF w \in wrote[r] THEN view[r].ledger[w] ELSE db.ledger[w]
  BY <1>1 DEF Committed
<1>3. ASSUME NEW w \in Wallets PROVE Held(db, w)' = Held(db, w)
  <2>1. Held(db, w)' = Held(IF w \in wrote[r] THEN view[r] ELSE db, w)
    BY <1>2 DEF Held
  <2>2. w \in wrote[r] => Held(view[r], w) = Held(db, w)
    <3> SUFFICES ASSUME w \in wrote[r] PROVE Held(view[r], w) = Held(db, w)
      OBVIOUS
    <3>1. w \notin missed[r] /\ InHand(r, w) = 0 /\ Held(view[r], w) + InHand(r, w) = Held(db, w)
      BY <1>1 DEF EscrowInv, SnapshotHolds, Open, InHand
    <3>2. Held(view[r], w) \in Int
      BY HeldIsInt
    <3>3. QED
      BY <3>1, <3>2
  <2>3. QED
    BY <2>1, <2>2
<1>4. ASSUME NEW q \in Requests PROVE SnapshotHolds(q)'
  <2>1. CASE q = r
    BY <1>1, <2>1 DEF SnapshotHolds, Open
  <2>2. CASE q # r
    <3>1. pc'[q] = pc[q] /\ wrote'[q] = wrote[q] /\ missed'[q] = missed[q] \cup wrote[r]
      BY <1>1, <2>2
    <3>2. wrote[q] \cap wrote[r] = {}
      BY <2>2 DEF EscrowInv, WriteLocks
    <3>3. \A w : InHand(q, w)' = InHand(q, w)
      BY <1>1, <3>1 DEF InHand, Call
    <3>4. SnapshotHolds(q)
      BY DEF EscrowInv
    <3>5. \A w \in Wallets : Held(db', w) = Held(db, w) /\ Held(view'[q], w) = Held(view[q], w)
      BY <1>1, <1>3 DEF Held
    <3>6. ASSUME pc[q] \in Open
          PROVE  /\ wrote'[q] \cap missed'[q] = {}
                 /\ \A w \in Wallets \ missed'[q] : Held(view'[q], w) + InHand(q, w)' = Held(db', w)
      BY <3>1, <3>2, <3>3, <3>4, <3>5, <3>6 DEF SnapshotHolds
    <3>7. QED
      BY <3>1, <3>6 DEF SnapshotHolds, Held
  <2>3. QED
    BY <2>1, <2>2
<1>5. QED
  BY <1>3, <1>4

\* A delivery adds its amount to what one wallet holds.
LEMMA DeliverySnapshot ==
  ASSUME Transactional, TypeInv, EscrowInv, NEW v \in Wallets, DeliverCOD(v)
  PROVE  EscrowAccountedFor' /\ \A q \in Requests : SnapshotHolds(q)'
<1> USE TypeFacts
<1>1. /\ db' = [db EXCEPT !.escrow[v] = @ + CodAmount] /\ deliveries' = deliveries + 1
      /\ missed' = [q \in Requests |-> missed[q] \cup {v}]
      /\ \A q \in Requests : v \notin wrote[q]
      /\ UNCHANGED <<view, pc, leg, wrote>>
  BY DEF DeliverCOD
<1>2. \A w \in Wallets : /\ db'.ledger[w] = db.ledger[w]
                         /\ db'.escrow[w] = IF w = v THEN db.escrow[w] + CodAmount ELSE db.escrow[w]
  BY <1>1 DEF Store
<1>3. \A w \in Wallets : w # v => Held(db, w)' = Held(db, w)
  BY <1>2 DEF Held
<1>4. Held(db, v)' = Held(db, v) + CodAmount
  <2>1. /\ db.escrow[v] \in Int /\ Total(Releases(db.ledger[v])) \in Int /\ CodAmount \in Int
    BY TotalsAreInt, WalletLedgerAssumption DEF Store
  <2>2. Held(db, v)' = (db.escrow[v] + CodAmount) + Total(Releases(db.ledger[v]))
    BY <1>2 DEF Held
  <2>3. \A a, b, c \in Int : (a + b) + c = (a + c) + b
    OBVIOUS
  <2>4. QED
    BY <2>1, <2>2, <2>3 DEF Held
<1>5. EscrowAccountedFor'
  <2> DEFINE f == HeldBy(db)
             g == HeldBy(db)'
  <2>1. IsFiniteSet(Wallets) /\ CodAmount \in Nat /\ deliveries \in Nat
    BY WalletLedgerAssumption DEF TypeInv, TypeOK
  <2>2. db' \in Store
    <3>1. [db.escrow EXCEPT ![v] = @ + CodAmount] \in [Wallets -> Int]
      BY <2>1 DEF Store
    <3>2. QED
      BY <1>1, <3>1 DEF Store
  <2>3. \A w \in Wallets : f[w] = Held(db, w) /\ g[w] = Held(db', w)
    BY DEF HeldBy
  <2>4. \A w \in Wallets : f[w] \in Int /\ g[w] \in Int
    BY <2>2, <2>3, HeldIsInt
  <2>5. \A w \in Wallets : w # v => f[w] = g[w]
    BY <1>3, <2>3 DEF Held
  <2>6. g[v] = f[v] + CodAmount
    BY <1>4, <2>3 DEF Held
  <2> HIDE DEF f, g
  <2>7. Sum(g, Wallets) = Sum(f, Wallets) + (g[v] - f[v])
    BY <2>1, <2>4, <2>5, SumChange
  <2>8. f[v] \in Int /\ CodAmount \in Int /\ Sum(f, Wallets) \in Int
    BY <2>1, <2>4, SumIsInt
  <2>9. g[v] - f[v] = CodAmount
    BY <2>6, <2>8
  <2>10. Sum(f, Wallets) = Total(InitialEscrow) + deliveries * CodAmount
    BY EscrowIsHeld DEF EscrowInv, f
  <2>11. Total(InitialEscrow) \in Int
    BY <2>1, InitialAssumption, TotalIsSum, SumIsInt
  <2>12. deliveries' * CodAmount = deliveries * CodAmount + CodAmount
         /\ deliveries * CodAmount \in Int
    <3>1. \A d, c \in Nat : (d + 1) * c = d * c + c /\ d * c \in Int
      OBVIOUS
    <3>2. QED
      BY <1>1, <2>1, <3>1
  <2>13. \A a, b, c \in Int : (a + b) + c = a + (b + c)
    OBVIOUS
  <2>14. Sum(g, Wallets) = Total(InitialEscrow) + deliveries' * CodAmount
    BY <2>7, <2>8, <2>9, <2>10, <2>11, <2>12, <2>13
  <2>15. g = [w \in Wallets |-> db'.escrow[w] + Total(Releases(db'.ledger[w]))]
         /\ Total(g) = Sum(g, Wallets)
    BY TotalIsSum DEF g, HeldBy, Held
  <2>16. QED
    BY <2>14, <2>15 DEF EscrowAccountedFor
<1>6. ASSUME NEW q \in Requests PROVE SnapshotHolds(q)'
  <2>1. \A w : InHand(q, w)' = InHand(q, w)
    BY <1>1 DEF InHand, Call
  <2>2. SnapshotHolds(q)
    BY DEF EscrowInv
  <2>3. missed'[q] = missed[q] \cup {v}
    BY <1>1
  <2>4. \A w \in Wallets \ missed'[q] : Held(db', w) = Held(db, w)
    BY <1>3, <2>3 DEF Held
  <2>5. pc[q] \in Open => \A w \in Wallets \ missed'[q] :
          Held(view'[q], w) + InHand(q, w)' = Held(db', w)
    BY <1>1, <2>1, <2>2, <2>3, <2>4 DEF SnapshotHolds
  <2>6. pc[q] \in Open => wrote'[q] \cap missed'[q] = {}
    BY <1>1, <2>2, <2>3 DEF SnapshotHolds
  <2>7. QED
    BY <1>1, <2>5, <2>6 DEF SnapshotHolds, Held
<1>7. QED
  BY <1>5, <1>6

LEMMA EscrowStepInv ==
  ASSUME Transactional, TypeInv, EscrowInv, [Next]_vars
  PROVE  EscrowInv'
<1> USE TypeFacts
<1>0. WriteLocks'
  BY LocksKept DEF EscrowInv
<1>1. ASSUME UNCHANGED <<db, deliveries>>, \A q \in Requests : SnapshotHolds(q)'
      PROVE  EscrowInv'
  BY <1>0, <1>1, StoreKeepsHeld, TotalKept DEF EscrowInv
<1>2. ASSUME NEW r \in Requests, UpdateWallet(r) PROVE EscrowInv'
  BY <1>1, <1>2, UpdateSnapshot DEF UpdateWallet
<1>3. ASSUME NEW r \in Requests, InsertEntry(r) PROVE EscrowInv'
  BY <1>1, <1>3, InsertSnapshot DEF InsertEntry
<1>4. ASSUME NEW r \in Requests, Commit(r) PROVE EscrowInv'
  BY <1>0, <1>4, CommitSnapshot, TotalKept DEF Commit, EscrowInv
<1>5. ASSUME NEW w \in Wallets, DeliverCOD(w) PROVE EscrowInv'
  BY <1>0, <1>5, DeliverySnapshot DEF EscrowInv
<1>6. ASSUME NEW r \in Requests, Begin(r) PROVE EscrowInv'
  <2>1. /\ pc[r] = "idle" /\ pc'[r] \in {"wallet", "commit"}
        /\ view'[r] = db /\ missed'[r] = {} /\ wrote' = wrote /\ UNCHANGED <<db, deliveries>>
        /\ \A q \in Requests \ {r} : /\ pc'[q] = pc[q] /\ leg'[q] = leg[q] /\ view'[q] = view[q]
                                     /\ missed'[q] = missed[q]
    BY <1>6 DEF Begin
  <2>2. SnapshotHolds(r)'
    <3>1. \A w \in Wallets : Held(view'[r], w) + InHand(r, w)' = Held(db', w)
      <4> TAKE w \in Wallets
      <4>1. InHand(r, w)' = 0 /\ view'[r] = db /\ db' = db
        BY <2>1 DEF InHand
      <4>2. Held(db, w) \in Int
        BY HeldIsInt
      <4>3. QED
        BY <4>1, <4>2
    <3>2. QED
      BY <2>1, <3>1 DEF SnapshotHolds, Held
  <2>3. ASSUME NEW q \in Requests, q # r PROVE SnapshotHolds(q)'
    BY <2>1, <2>3, SnapshotKept DEF EscrowInv
  <2>4. QED
    BY <1>1, <2>1, <2>2, <2>3
<1>7. ASSUME NEW r \in Requests,
             \/ Abort(r) \/ Fail(r) \/ Retry(r)
             \/ FindWallet(r) \/ SkipPosted(r) \/ NotPosted(r)
      PROVE  EscrowInv'
  <2>1. /\ UNCHANGED <<db, deliveries, view, missed>>
        /\ \A q \in Requests \ {r} : /\ pc'[q] = pc[q] /\ leg'[q] = leg[q]
                                     /\ wrote'[q] = wrote[q]
    BY <1>7 DEF Abort, Fail, Retry, FindWallet, SkipPosted, NotPosted, AfterLeg
  <2>2. ASSUME NEW q \in Requests, q # r PROVE SnapshotHolds(q)'
    BY <2>1, <2>2, SnapshotKept DEF EscrowInv
  <2>3. SnapshotHolds(r)'
    <3>1. CASE pc'[r] \notin Open
      BY <3>1 DEF SnapshotHolds
    <3>2. CASE pc'[r] \in Open
      <4>1. pc[r] \in Open /\ pc[r] # "insert" /\ pc'[r] # "insert" /\ wrote' = wrote
        BY <1>7, <3>2 DEF Abort, Fail, Retry, FindWallet, SkipPosted, NotPosted, AfterLeg, Open
      <4>2. \A w : InHand(r, w)' = InHand(r, w)
        BY <4>1 DEF InHand
      <4>3. QED
        BY <2>1, <4>1, <4>2 DEF EscrowInv, SnapshotHolds, Held
    <3>3. QED
      BY <3>1, <3>2
  <2>4. QED
    BY <1>1, <2>1, <2>2, <2>3
<1>8. CASE UNCHANGED vars
  <2>1. \A q \in Requests : SnapshotHolds(q)'
    BY <1>8, SnapshotKept DEF vars, EscrowInv
  <2>2. QED
    BY <1>1, <1>8, <2>1 DEF vars
<1>9. QED
  BY <1>2, <1>3, <1>4, <1>5, <1>6, <1>7, <1>8
     DEF Next, Step, WalletUnusable, EscrowTooLow, UpdateRefused

\* Against a replica set COD money is neither lost nor made, for any number of
\* wallets, requests, deliveries, aborts and repeats: what was in escrow and what
\* came in is in escrow still, or a COD_CREDIT entry has released it.
THEOREM EscrowIsAccountedFor ==
  ASSUME Transactional
  PROVE  Spec => []EscrowAccountedFor
<1>1. Init => TypeInv /\ EscrowInv
  BY InitTypeInv, EscrowInitInv
<1>2. TypeInv /\ EscrowInv /\ [Next]_vars => (TypeInv /\ EscrowInv)'
  BY NextTypeInv, EscrowStepInv
<1>3. TypeInv /\ EscrowInv => EscrowAccountedFor
  BY DEF EscrowInv
<1>4. QED
  BY <1>1, <1>2, <1>3, PTL DEF Spec

-------------------------------------------------------------------------------
(* The books of a standalone server, while nothing fails.                   *)

\* The requests between their $inc and their insert, and what they have yet to
\* enter for wallet w.
AtInsert == {r \in Requests : pc[r] = "insert"}

Unentered(w) ==
  [r \in Requests |-> IF Call(r).wallet = w THEN Effect(Call(r).type, Call(r).amount) ELSE 0]

Booked(w) == InitialBalance[w] + Total(Changes(db.ledger[w]))

BooksInv ==
  /\ IsFiniteSet(AtInsert)
  /\ \A w \in Wallets : db.balance[w] = Booked(w) + Sum(Unentered(w), AtInsert)

LEMMA UnenteredIsInt ==
  ASSUME TypeInv
  PROVE  \A w : \A r \in AtInsert : Unentered(w)[r] \in Int
<1> SUFFICES ASSUME NEW w, NEW r \in AtInsert PROVE Unentered(w)[r] \in Int
  OBVIOUS
<1>1. r \in Requests /\ pc[r] = "insert"
  BY DEF AtInsert
<1>2. Call(r).amount \in Int
  BY <1>1, CallIsLeg DEF TypeInv
<1>3. QED
  BY <1>1, <1>2 DEF Unentered, Effect

LEMMA BookedIsInt == ASSUME TypeInv PROVE \A w \in Wallets : Booked(w) \in Int
<1> SUFFICES ASSUME NEW w \in Wallets PROVE Booked(w) \in Int
  OBVIOUS
<1>1. db.ledger[w] \in Seq(Entry)
  BY TypeFacts
<1>2. QED
  BY <1>1, TotalsAreInt, InitialAssumption DEF Booked

LEMMA BooksAtRest == TypeInv /\ BooksInv => BooksBalanceAtRest
<1> SUFFICES ASSUME TypeInv, BooksInv, \A r \in Requests : pc[r] # "insert", NEW w \in Wallets
             PROVE  db.balance[w] = Booked(w)
  BY DEF BooksBalanceAtRest, Booked
<1>1. AtInsert = {}
  BY DEF AtInsert
<1>2. Sum(Unentered(w), AtInsert) = 0
  BY <1>1, SumOfNone
<1>3. db.balance[w] = Booked(w) + 0 /\ Booked(w) \in Int
  BY <1>2, BookedIsInt DEF BooksInv
<1>4. QED
  BY <1>3

LEMMA BooksInitInv == Init => BooksInv
<1> SUFFICES ASSUME Init PROVE BooksInv
  OBVIOUS
<1>1. AtInsert = {} /\ db = InitialStore
  BY DEF Init, AtInsert
<1>2. IsFiniteSet(AtInsert)
  BY <1>1, FS_EmptySet
<1>3. ASSUME NEW w \in Wallets PROVE db.balance[w] = Booked(w) + Sum(Unentered(w), AtInsert)
  <2>1. DOMAIN Changes(<< >>) = {}
    BY DEF Changes
  <2>2. db.ledger[w] = << >> /\ db.balance[w] = InitialBalance[w] /\ InitialBalance[w] \in Int
    BY <1>1, InitialAssumption DEF InitialStore
  <2>3. Total(Changes(db.ledger[w])) = 0
    BY <2>1, <2>2, TotalOfNone
  <2>4. Sum(Unentered(w), AtInsert) = 0
    BY <1>1, SumOfNone
  <2>5. QED
    BY <2>2, <2>3, <2>4 DEF Booked
<1>4. QED
  BY <1>2, <1>3 DEF BooksInv

\* A step away from the balances, the entries and the requests at their insert.
LEMMA BooksKept ==
  ASSUME TypeInv, BooksInv, db'.balance = db.balance, db'.ledger = db.ledger,
         AtInsert' = AtInsert, \A r \in AtInsert : Call(r)' = Call(r)
  PROVE  BooksInv'
<1> SUFFICES ASSUME NEW w \in Wallets
             PROVE  db'.balance[w] = Booked(w)' + Sum(Unentered(w), AtInsert)'
  BY DEF BooksInv
<1>1. db.balance[w] = Booked(w) + Sum(Unentered(w), AtInsert) /\ IsFiniteSet(AtInsert)
  BY DEF BooksInv
<1>2. Booked(w)' = Booked(w)
  BY DEF Booked
<1> DEFINE f == Unentered(w)
           g == Unentered(w)'
           S == AtInsert
<1>3. \A r \in S : f[r] = g[r]
  BY DEF Unentered, AtInsert
<1> HIDE DEF f, g, S
<1>4. Sum(f, S) = Sum(g, S)
  BY <1>1, <1>3, SumAgrees DEF S
<1>5. Sum(Unentered(w), AtInsert)' = Sum(g, S)
  BY DEF Sum, MapThenSumSet, MapThenFoldSet, g, S
<1>6. QED
  BY <1>1, <1>2, <1>4, <1>5 DEF f, S

LEMMA UpdateBooks ==
  ASSUME ~Transactional, TypeInv, BooksInv, NEW r \in Requests, UpdateWallet(r)
  PROVE  BooksInv'
<1> USE TypeFacts
<1> DEFINE c == Call(r)
           v == c.wallet
           m == Effect(c.type, c.amount)
<1>1. /\ pc[r] = "update" /\ db' = Moved(r) /\ leg' = leg
      /\ pc' = [pc EXCEPT ![r] = "insert"]
  BY DEF UpdateWallet, Put
<1>2. c \in Leg /\ v \in Wallets /\ m \in Int
  BY <1>1, CallIsLeg DEF TypeInv, Effect
<1>3. db'.ledger = db.ledger /\ db'.balance = [db.balance EXCEPT ![v] = @ + m]
  BY <1>1 DEF Moved, See, Store
<1>4. AtInsert' = AtInsert \cup {r} /\ r \notin AtInsert
  BY <1>1 DEF AtInsert
<1>5. IsFiniteSet(AtInsert) /\ IsFiniteSet(AtInsert')
  BY <1>4, FS_AddElement DEF BooksInv
<1>6. ASSUME NEW w \in Wallets
      PROVE  db'.balance[w] = Booked(w)' + Sum(Unentered(w), AtInsert)'
  <2> DEFINE f == Unentered(w)
             S == AtInsert
  <2>1. Unentered(w)' = f /\ f[r] = IF v = w THEN m ELSE 0
    BY <1>1 DEF Unentered, Call
  <2>2. \A q \in S \cup {r} : f[q] \in Int
    BY <1>2, <2>1, UnenteredIsInt
  <2> HIDE DEF f, S
  <2>3. Sum(f, S \cup {r}) = Sum(f, S) + f[r] /\ Sum(f, S) \in Int
    BY <1>4, <1>5, <2>2, SumAddInt, SumIsInt DEF S
  <2>4. Sum(Unentered(w), AtInsert)' = Sum(f, S \cup {r})
    BY <1>4, <2>1 DEF Sum, MapThenSumSet, MapThenFoldSet, S
  <2>5. Booked(w)' = Booked(w) /\ Booked(w) \in Int
    BY <1>3, BookedIsInt DEF Booked
  <2>6. db.balance[w] = Booked(w) + Sum(f, S)
    BY DEF BooksInv, f, S
  <2>7. db.balance \in [Wallets -> Int]
    BY DEF Store
  <2> DEFINE k == Booked(w)
             t == Sum(f, S)
  <2> HIDE DEF c, v, m, k, t
  <2>8. db'.balance[w] = (k + t) + IF v = w THEN m ELSE 0
    <3>1. db'.balance[w] = IF v = w THEN db.balance[w] + m ELSE db.balance[w]
      BY <1>2, <1>3, <2>7
    <3>2. db.balance[w] = k + t /\ k \in Int /\ t \in Int
      BY <2>3, <2>5, <2>6 DEF k, t
    <3>3. QED
      BY <3>1, <3>2
  <2>9. Booked(w)' + Sum(Unentered(w), AtInsert)' = k + (t + IF v = w THEN m ELSE 0)
    BY <2>1, <2>3, <2>4, <2>5 DEF k, t
  <2>10. k \in Int /\ t \in Int /\ (IF v = w THEN m ELSE 0) \in Int
    BY <1>2, <2>3, <2>5 DEF k, t
  <2>11. \A a, b, d \in Int : (a + b) + d = a + (b + d)
    OBVIOUS
  <2>12. QED
    BY <2>8, <2>9, <2>10, <2>11
<1>7. QED
  BY <1>5, <1>6 DEF BooksInv

LEMMA InsertBooks ==
  ASSUME ~Transactional, TypeInv, BooksInv, NEW r \in Requests, InsertEntry(r)
  PROVE  BooksInv'
<1> USE TypeFacts
<1> DEFINE c == Call(r)
           v == c.wallet
           m == Effect(c.type, c.amount)
<1>1. /\ pc[r] = "insert" /\ db' = Inserted(r)
      /\ \A q \in Requests \ {r} : pc'[q] = pc[q] /\ leg'[q] = leg[q]
      /\ pc'[r] \in {"wallet", "commit"}
  BY DEF InsertEntry, Put, AfterLeg
<1>2. c \in Leg /\ v \in Wallets /\ m \in Int /\ NewEntry(r) \in Entry
  BY <1>1, CallIsLeg, NewEntryType DEF TypeInv, Effect
<1>3. db'.balance = db.balance
      /\ db'.ledger = [db.ledger EXCEPT ![v] = Append(@, NewEntry(r))]
  BY <1>1 DEF Inserted, See, Store
<1>4. AtInsert' = AtInsert \ {r} /\ r \in AtInsert
  BY <1>1 DEF AtInsert
<1>5. IsFiniteSet(AtInsert) /\ IsFiniteSet(AtInsert')
  BY <1>4, FS_Subset DEF BooksInv
<1>6. ASSUME NEW w \in Wallets
      PROVE  db'.balance[w] = Booked(w)' + Sum(Unentered(w), AtInsert)'
  <2> DEFINE f == Unentered(w)
             g == Unentered(w)'
             S == AtInsert
             R == S \ {r}
  <2>1. f[r] = IF v = w THEN m ELSE 0
    BY DEF Unentered
  <2>2. \A q \in R : f[q] = g[q]
    BY <1>1 DEF Unentered, Call, AtInsert
  <2>3. \A q \in S : f[q] \in Int
    BY UnenteredIsInt
  <2>4. r \in S /\ IsFiniteSet(S) /\ IsFiniteSet(R) /\ AtInsert' = R
    BY <1>4, <1>5
  <2> HIDE DEF f, g, S
  <2>5. Sum(f, S) = f[r] + Sum(f, R)
    BY <2>3, <2>4, SumWithout
  <2> HIDE DEF R
  <2>6. Sum(f, R) = Sum(g, R)
    BY <2>2, <2>4, SumAgrees
  <2>7. \A q \in R : f[q] \in Int
    BY <2>3 DEF R
  <2>8. Sum(f, R) \in Int
    BY <2>4, <2>7, SumIsInt
  <2>9. Sum(Unentered(w), AtInsert)' = Sum(g, R)
    BY <2>4 DEF Sum, MapThenSumSet, MapThenFoldSet, g
  <2>10. db.balance[w] = Booked(w) + Sum(f, S)
    BY DEF BooksInv, f, S
  <2> DEFINE k == Total(Changes(db.ledger[w]))
             i == InitialBalance[w]
             t == Sum(f, R)
             d == IF v = w THEN m ELSE 0
  <2>11. Total(Changes(db'.ledger[w])) = k + d
    <3>1. db.ledger[w] \in Seq(Entry) /\ k \in Int
      BY TotalsAreInt
    <3>2. Effect(NewEntry(r).type, NewEntry(r).amount) = m
      BY DEF NewEntry
    <3>3. CASE v = w
      <4>1. db'.ledger[w] = Append(db.ledger[w], NewEntry(r))
        BY <1>2, <1>3, <3>3 DEF Store
      <4>2. Total(Changes(db'.ledger[w])) = k + Effect(NewEntry(r).type, NewEntry(r).amount)
        BY <1>2, <3>1, <4>1, ChangesAppend
      <4>3. QED
        BY <3>2, <3>3, <4>2
    <3>4. CASE v # w
      <4>1. db'.ledger[w] = db.ledger[w]
        BY <1>2, <1>3, <3>4 DEF Store
      <4>2. Total(Changes(db'.ledger[w])) = k
        BY <4>1
      <4> HIDE DEF k
      <4>3. QED
        BY <3>1, <3>4, <4>2
    <3>5. QED
      BY <3>3, <3>4
  <2>12. k \in Int /\ i \in Int /\ t \in Int /\ d \in Int
    BY <1>2, <2>8, TotalsAreInt, InitialAssumption
  <2>13. Booked(w)' = i + (k + d) /\ Booked(w) = i + k
    BY <2>11 DEF Booked
  <2>14. db'.balance[w] = (i + k) + (d + t)
    BY <1>3, <2>1, <2>5, <2>10, <2>13
  <2>15. Sum(Unentered(w), AtInsert)' = t
    BY <2>6, <2>9
  <2> HIDE DEF k, i, t, d
  <2>16. \A x1, x2, x3, x4 \in Int : (x1 + x2) + (x3 + x4) = (x1 + (x2 + x3)) + x4
    OBVIOUS
  <2>17. QED
    BY <2>12, <2>13, <2>14, <2>15, <2>16
<1>7. QED
  BY <1>5, <1>6 DEF BooksInv

LEMMA BooksStepInv ==
  ASSUME ~Transactional, MaxFailures = 0, TypeInv, BooksInv, [Next]_vars
  PROVE  BooksInv'
<1> USE TypeFacts
<1>1. ASSUME NEW r \in Requests,
             \/ Begin(r) \/ (Abort(r) /\ pc[r] # "insert") \/ Retry(r) \/ Commit(r)
             \/ FindWallet(r) \/ SkipPosted(r) \/ NotPosted(r)
      PROVE  BooksInv'
  <2>1. /\ db' = db
        /\ \A q \in Requests \ {r} : pc'[q] = pc[q] /\ leg'[q] = leg[q]
        /\ pc[r] # "insert" /\ pc'[r] # "insert"
    BY <1>1 DEF Begin, Abort, Retry, Commit, FindWallet, SkipPosted, NotPosted, AfterLeg
  <2>2. AtInsert' = AtInsert /\ \A q \in AtInsert : Call(q)' = Call(q)
    BY <2>1 DEF AtInsert, Call
  <2>3. QED
    BY <2>1, <2>2, BooksKept
<1>2. ASSUME NEW r \in Requests, Fail(r) PROVE FALSE
  <2>1. failures \in Nat /\ failures < 0
    BY <1>2 DEF Fail, TypeInv, TypeOK
  <2>2. QED
    BY <2>1
<1>3. ASSUME NEW w \in Wallets, DeliverCOD(w) PROVE BooksInv'
  <2>1. db'.balance = db.balance /\ db'.ledger = db.ledger /\ UNCHANGED <<pc, leg>>
    BY <1>3 DEF DeliverCOD, Store
  <2>2. AtInsert' = AtInsert /\ \A q \in AtInsert : Call(q)' = Call(q)
    BY <2>1 DEF AtInsert, Call
  <2>3. QED
    BY <2>1, <2>2, BooksKept
<1>4. CASE UNCHANGED vars
  <2>1. UNCHANGED <<db, pc, leg>>
    BY <1>4 DEF vars
  <2>2. AtInsert' = AtInsert /\ \A q \in AtInsert : Call(q)' = Call(q)
    BY <2>1 DEF AtInsert, Call
  <2>3. QED
    BY <2>1, <2>2, BooksKept
<1>5. QED
  BY <1>1, <1>2, <1>3, <1>4, UpdateBooks, InsertBooks
     DEF Next, Step, WalletUnusable, EscrowTooLow, UpdateRefused

\* Against a standalone server, where no statement is rolled back, the conditional
\* $inc alone keeps the books as long as nothing fails: whenever no request is
\* between its $inc and its insert, the entries of each wallet add up to its
\* balance, however many requests run, are refused and are repeated.
THEOREM BooksBalance ==
  ASSUME ~Transactional, MaxFailures = 0
  PROVE  Spec => []BooksBalanceAtRest
<1>1. Init => TypeInv /\ BooksInv
  BY InitTypeInv, BooksInitInv
<1>2. TypeInv /\ BooksInv /\ [Next]_vars => (TypeInv /\ BooksInv)'
  BY NextTypeInv, BooksStepInv
<1>3. QED
  BY <1>1, <1>2, BooksAtRest, PTL DEF Spec

===============================================================================
