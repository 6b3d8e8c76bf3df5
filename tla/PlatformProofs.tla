---------------------------- MODULE PlatformProofs ----------------------------
(***************************************************************************)
(* Machine-checked proofs about Platform: that an operation with an          *)
(* idempotency key takes effect once, for any number of requests; that the   *)
(* caches answer under the right key; that the validation cache's running    *)
(* total and limits hold; that a quoted price is the one charged; and that   *)
(* what a form's check lets through is the normal form of what was given.    *)
(***************************************************************************)
EXTENDS Platform, Sums

-------------------------------------------------------------------------------
(* The idempotency middleware.                                              *)

IsRunning(r) == pc[r] = "running"

\* One request holds the key while its route runs, and nothing is on its way to
\* the record; from then on the record and the update on its way say what the
\* route answered.
HoldsTheKey ==
  /\ \A r, s \in Requests : IsRunning(r) /\ IsRunning(s) => r = s
  /\ \A r \in Requests : IsRunning(r) => record = "inFlight" /\ saving = {} /\ answers = 0

RecordTells ==
  /\ record = "none" => answers = 0 /\ saving = {}
  /\ record = "done" => answers = 1 /\ saving = {}

SavingTells ==
  /\ "done" \in saving => answers = 1 /\ saving = {"done"} /\ record = "inFlight"
  /\ "none" \in saving => answers = 0 /\ saving = {"none"} /\ record = "inFlight"

IdemInv ==
  /\ IdemTypeOK
  /\ answers <= 1
  /\ HoldsTheKey /\ RecordTells /\ SavingTells

LEMMA IdemInitInv == IdemInit => IdemInv
BY DEF IdemInit, IdemInv, IdemTypeOK, HoldsTheKey, IsRunning, RecordTells, SavingTells, Sleeping

\* Sending and looking up leave all that the middleware keeps as it is.
LEMMA IdemWaiting ==
  ASSUME IdemInv, NEW r \in Requests, Send(r) \/ LookUp(r)
  PROVE  IdemInv'
<1>1. /\ UNCHANGED <<record, saving, answers>>
      /\ \E next \in Sleeping \cup {"lookUp", "acquire"} : pc' = [pc EXCEPT ![r] = next]
  BY DEF Send, LookUp, Proceed, Sleeping, IdemInv, IdemTypeOK
<1>2. IdemTypeOK' /\ \A s \in Requests : IsRunning(s)' => IsRunning(s)
  BY <1>1 DEF IdemInv, IdemTypeOK, IsRunning, Sleeping
<1>3. QED
  BY <1>1, <1>2 DEF IdemInv, HoldsTheKey, RecordTells, SavingTells

LEMMA IdemAcquire ==
  ASSUME IdemInv, NEW r \in Requests, Acquire(r)
  PROVE  IdemInv'
<1>1. CASE KeyFree
  <2>1. \A s \in Requests : ~IsRunning(s)
    BY <1>1 DEF KeyFree, IdemInv, HoldsTheKey
  <2>2. record' = "inFlight" /\ pc' = [pc EXCEPT ![r] = "running"]
        /\ UNCHANGED <<saving, answers>> /\ saving = {} /\ answers = 0
    BY <1>1 DEF Acquire, KeyFree, Proceed, IdemInv, RecordTells
  <2>3. IdemTypeOK' /\ \A s \in Requests : IsRunning(s)' => s = r
    BY <2>1, <2>2 DEF IdemInv, IdemTypeOK, IsRunning
  <2>4. QED
    BY <2>2, <2>3 DEF IdemInv, HoldsTheKey, RecordTells, SavingTells
<1>2. CASE ~KeyFree
  <2>1. UNCHANGED <<record, saving, answers>> /\ pc' = [pc EXCEPT ![r] = "conflict"]
    BY <1>2 DEF Acquire, Proceed
  <2>2. IdemTypeOK' /\ \A s \in Requests : IsRunning(s)' => IsRunning(s)
    BY <2>1 DEF IdemInv, IdemTypeOK, IsRunning, Sleeping
  <2>3. QED
    BY <2>1, <2>2 DEF IdemInv, HoldsTheKey, RecordTells, SavingTells
<1>3. QED
  BY <1>1, <1>2

\* The route ends: with an answer, a server error, or its process.
LEMMA IdemRouteEnds ==
  ASSUME IdemInv, NEW r \in Requests, Answer(r) \/ AnswerError(r) \/ Die(r)
  PROVE  IdemInv'
<1>1. IsRunning(r) /\ record = "inFlight" /\ saving = {} /\ answers = 0
  BY DEF Answer, AnswerError, Die, IsRunning, IdemInv, HoldsTheKey
<1>2. \E next \in {"answered", "failed"} : pc' = [pc EXCEPT ![r] = next]
  BY DEF Answer, AnswerError, Die, Proceed
<1>3. /\ pc' \in [Requests -> Sleeping \cup {"lookUp", "acquire", "running"}]
      /\ \A s \in Requests : ~IsRunning(s)'
  BY <1>1, <1>2 DEF IdemInv, IdemTypeOK, HoldsTheKey, IsRunning, Sleeping
<1>4. record' = record
      /\ <<saving', answers'>> \in {<<{"done"}, 1>>, <<{"none"}, 0>>, <<{}, 0>>}
  BY <1>1 DEF Answer, AnswerError, Die
<1>5. QED
  BY <1>1, <1>3, <1>4 DEF IdemInv, IdemTypeOK, HoldsTheKey, RecordTells, SavingTells

\* The update reaches the database, or fails.
LEMMA IdemSave ==
  ASSUME IdemInv, NEW new \in {"done", "none"}, SaveRecord(new) \/ SaveFails(new)
  PROVE  IdemInv'
<1>1. /\ pc' = pc /\ answers' = answers /\ saving = {new} /\ saving' = {}
      /\ record = "inFlight" /\ record' \in {"inFlight", new}
      /\ answers = IF new = "done" THEN 1 ELSE 0
      /\ \A s \in Requests : ~IsRunning(s)
  BY DEF SaveRecord, SaveFails, IdemInv, SavingTells, HoldsTheKey
<1>2. QED
  BY <1>1 DEF IdemInv, IdemTypeOK, HoldsTheKey, IsRunning, RecordTells, SavingTells

LEMMA IdemExpire ==
  ASSUME IdemInv, Expire
  PROVE  IdemInv'
BY DEF Expire, IdemInv, IdemTypeOK, HoldsTheKey, IsRunning, RecordTells, SavingTells, Sleeping

LEMMA IdemStepInv == IdemInv /\ [Next]_vars => IdemInv'
<1> SUFFICES ASSUME IdemInv, [Next]_vars PROVE IdemInv'
  OBVIOUS
<1>1. CASE UNCHANGED idemVars
  BY <1>1 DEF idemVars, IdemInv, IdemTypeOK, HoldsTheKey, IsRunning, RecordTells, SavingTells
<1>2. CASE IdemStep
  <2>1. CASE \E r \in Requests : Send(r) \/ Handle(r) \/ Die(r)
    BY <2>1, IdemWaiting, IdemAcquire, IdemRouteEnds DEF Handle
  <2>2. CASE \E new \in {"done", "none"} : SaveRecord(new) \/ SaveFails(new)
    BY <2>2, IdemSave
  <2>3. QED
    BY <1>2, <2>1, <2>2, IdemExpire DEF IdemStep
<1>3. QED
  BY <1>1, <1>2 DEF Next, Repeating, Quoting, Remembering, Submit, vars

LEMMA IdemInvHolds == Spec => []IdemInv
<1>1. Init => IdemInv
  BY IdemInitInv DEF Init
<1>2. QED
  BY <1>1, IdemStepInv, PTL DEF Spec

\* Requests with one idempotency key, however many they are and however they
\* race, are resent, fail or find the record half saved, give one answer that
\* may have moved money and never run the route at the same time: the unique
\* index of the Idempotency collection is all that the middleware needs.
THEOREM EffectHappensOnce == Spec => []EffectOnce
<1>1. IdemInv => EffectOnce
  <2> SUFFICES ASSUME IdemInv PROVE EffectOnce
    OBVIOUS
  <2> DEFINE R == {r \in Requests : pc[r] = "running"}
  <2>1. CASE R = {}
    BY <2>1, FS_EmptySet DEF EffectOnce, IdemInv
  <2>2. CASE R # {}
    <3>1. PICK r \in R : TRUE
      BY <2>2
    <3>2. R = {r}
      BY <3>1 DEF IdemInv, HoldsTheKey, IsRunning
    <3>3. Cardinality(R) = 1
      BY <3>2, FS_Singleton
    <3>4. QED
      BY <3>3 DEF EffectOnce, IdemInv
  <2>3. QED
    BY <2>1, <2>2
<1>2. QED
  BY <1>1, IdemInvHolds, PTL

\* An answer that is replayed to a repeated request was given to an earlier one.
THEOREM ReplaysAreTrue == Spec => ReplayedWasGiven
<1> DEFINE Fact == \A r \in Requests :
                     pc'[r] = "replayed" /\ pc[r] # "replayed" => answers = 1
<1>1. ASSUME IdemInv, [Next]_vars PROVE [Fact]_idemVars
  <2> SUFFICES ASSUME IdemStep, NEW q \in Requests,
                      pc'[q] = "replayed", pc[q] # "replayed"
               PROVE  answers = 1
    BY <1>1 DEF Next, Repeating, Quoting, Remembering, Submit, vars, idemVars
  <2>1. pc \in [Requests -> Sleeping \cup {"lookUp", "acquire", "running"}]
    BY <1>1 DEF IdemInv, IdemTypeOK
  <2>2. ASSUME NEW r \in Requests, NEW next, pc' = [pc EXCEPT ![r] = next]
        PROVE  r = q /\ next = "replayed"
    BY <2>1, <2>2
  <2>3. LookUp(q)
    BY <2>1, <2>2 DEF IdemStep, Send, Handle, LookUp, Acquire, Answer, AnswerError, Die,
      Proceed, SaveRecord, SaveFails, Expire
  <2>4. record = "done"
    BY <1>1, <2>1, <2>2, <2>3 DEF LookUp, Proceed, IdemInv, IdemTypeOK
  <2>5. QED
    BY <1>1, <2>4 DEF IdemInv, RecordTells
<1>2. QED
  BY <1>1, IdemInvHolds, PTL DEF Spec, ReplayedWasGiven

-------------------------------------------------------------------------------
(* The answers kept in a cache.                                             *)

Answers == [question : Questions, version : Nat]

\* What a key holds answers a question that is asked under this key, as of a
\* version that there was.
StoredOK ==
  /\ stored \in [CacheKeys -> Answers \cup {Nothing}]
  /\ \A key \in CacheKeys : stored[key] = Nothing
       \/ (KeyOf[stored[key].question] = key /\ stored[key].version <= version)

\* What a request computes is the answer to its own question.
ComputingOK ==
  \A k \in Slots :
    /\ "task" \in DOMAIN call[k]
    /\ call[k].task = "compute" => call[k].id \in Questions
    /\ call[k].task = "store" =>
         call[k].id \in Questions /\ call[k].at \in Nat /\ call[k].at <= version

CacheInv ==
  /\ version \in 0 .. Edits
  /\ StoredOK
  /\ DOMAIN call = Slots /\ call = [k \in Slots |-> call[k]]
  /\ ComputingOK

\* The type invariant of the cache follows.
LEMMA CacheInvType == CacheInv => CacheTypeOK
BY DEF CacheInv, StoredOK, CacheTypeOK

LEMMA CacheInitInv == CacheInit /\ CallsInit => CacheInv
<1> SUFFICES ASSUME CacheInit, CallsInit PROVE CacheInv
  OBVIOUS
<1>1. version \in 0 .. Edits
  BY QuoteAssumption DEF CacheInit
<1>2. StoredOK
  BY DEF CacheInit, StoredOK
<1>3. DOMAIN call = Slots /\ call = [k \in Slots |-> call[k]]
  BY DEF CallsInit
<1>4. ComputingOK
  BY DEF CallsInit, ComputingOK, Free
<1>5. QED
  BY <1>1, <1>2, <1>3, <1>4 DEF CacheInv

\* A request comes, goes on or goes, and the cache is left alone.
LEMMA CacheUntouched ==
  ASSUME CacheInv, UNCHANGED cacheVars, NEW k \in Slots, NEW new,
         call' = [call EXCEPT ![k] = new],
         "task" \in DOMAIN new,
         new.task = "compute" => new.id \in Questions,
         new.task = "store" => new.id \in Questions /\ new.at = version
  PROVE  CacheInv'
<1>1. StoredOK' /\ version' \in 0 .. Edits /\ version' = version /\ version \in Nat
  BY QuoteAssumption DEF CacheInv, StoredOK, cacheVars
<1>2. /\ DOMAIN call' = Slots /\ call' = [j \in Slots |-> call'[j]]
      /\ \A j \in Slots : call'[j] = IF j = k THEN new ELSE call[j]
  BY DEF CacheInv
<1>3. ComputingOK'
  BY <1>1, <1>2 DEF CacheInv, ComputingOK
<1>4. QED
  BY <1>1, <1>2, <1>3 DEF CacheInv

\* Storing an answer puts it under the key of its own question.
LEMMA CacheStore ==
  ASSUME CacheInv, NEW k \in Slots, Store(k)
  PROVE  CacheInv'
<1> DEFINE q == call[k].id
           a == [question |-> q, version |-> call[k].at]
<1>1. q \in Questions /\ a \in Answers /\ a.version <= version /\ version' = version
  BY DEF CacheInv, ComputingOK, Store, At, Answers
<1>2. stored' = [stored EXCEPT ![KeyOf[q]] = a] /\ KeyOf[q] \in CacheKeys
  BY <1>1 DEF Store, CacheKeys
<1>3. StoredOK'
  BY <1>1, <1>2 DEF CacheInv, StoredOK, CacheKeys
<1>4. DOMAIN call' = Slots /\ call' = [j \in Slots |-> call'[j]]
  BY DEF CacheInv, Store, Goto
<1>5. /\ "task" \in DOMAIN call'[k]
      /\ \A j \in Slots : IF j = k THEN call'[j].task = "answered" ELSE call'[j] = call[j]
  BY DEF CacheInv, ComputingOK, Store, Goto
<1>6. ComputingOK'
  BY <1>1, <1>5 DEF CacheInv, ComputingOK
<1>7. QED
  BY <1>1, <1>3, <1>4, <1>6 DEF CacheInv

LEMMA CacheEdit ==
  ASSUME CacheInv, NEW k \in Slots, Edit(k)
  PROVE  CacheInv'
<1>1. version' \in 0 .. Edits /\ version' = version + 1 /\ version \in Nat
  BY QuoteAssumption DEF CacheInv, Edit
<1>2. StoredOK'
  BY <1>1 DEF CacheInv, StoredOK, Edit, Answers, Nothing
<1>3. /\ DOMAIN call' = Slots /\ call' = [j \in Slots |-> call'[j]]
      /\ "task" \in DOMAIN call'[k]
      /\ \A j \in Slots : IF j = k THEN call'[j].task = "delete" ELSE call'[j] = call[j]
  BY DEF CacheInv, Edit, Arrive
<1>4. ComputingOK'
  BY <1>1, <1>3 DEF CacheInv, ComputingOK
<1>5. QED
  BY <1>1, <1>2, <1>3, <1>4 DEF CacheInv

LEMMA CacheDelete ==
  ASSUME CacheInv, NEW k \in Slots, DeleteKeys(k)
  PROVE  CacheInv'
<1>1. StoredOK' /\ version' = version
  BY DEF CacheInv, StoredOK, DeleteKeys
<1>2. /\ DOMAIN call' = Slots /\ call' = [j \in Slots |-> call'[j]]
      /\ "task" \in DOMAIN call'[k]
      /\ \A j \in Slots : IF j = k THEN call'[j].task = "none" ELSE call'[j] = call[j]
  BY DEF CacheInv, DeleteKeys, Leave, Free
<1>3. ComputingOK'
  BY <1>1, <1>2 DEF CacheInv, ComputingOK
<1>4. QED
  BY <1>1, <1>2, <1>3 DEF CacheInv

LEMMA CacheExpire ==
  ASSUME CacheInv, NEW key \in CacheKeys, ExpireKey(key)
  PROVE  CacheInv'
<1>1. StoredOK'
  BY DEF CacheInv, StoredOK, ExpireKey
<1>2. QED
  BY <1>1 DEF CacheInv, ComputingOK, ExpireKey

LEMMA CacheStepInv == CacheInv /\ [Next]_vars => CacheInv'
<1> SUFFICES ASSUME CacheInv, [Next]_vars PROVE CacheInv'
  OBVIOUS
<1>1. CASE UNCHANGED <<cacheVars, call>>
  BY <1>1 DEF CacheInv, StoredOK, ComputingOK, cacheVars
<1>2. CASE CacheStep
  <2>1. ASSUME NEW k \in Slots, NEW q \in Questions, Ask(k, q) PROVE CacheInv'
    <3>1. CASE Hit(q)
      <4> DEFINE new == [task |-> "answered", id |-> q, seen |-> stored[KeyOf[q]].question]
      <4>1. call' = [call EXCEPT ![k] = new] /\ UNCHANGED cacheVars
        BY <2>1, <3>1 DEF Ask, ArriveWith
      <4>2. "task" \in DOMAIN new /\ new.task = "answered"
        OBVIOUS
      <4> HIDE DEF new
      <4>3. QED
        BY <4>1, <4>2, CacheUntouched
    <3>2. CASE ~Hit(q)
      <4> DEFINE new == [task |-> "compute", id |-> q, seen |-> q]
      <4>1. call' = [call EXCEPT ![k] = new] /\ UNCHANGED cacheVars
        BY <2>1, <3>2 DEF Ask, ArriveWith
      <4>2. "task" \in DOMAIN new /\ new.task = "compute" /\ new.id \in Questions
        OBVIOUS
      <4> HIDE DEF new
      <4>3. QED
        BY <4>1, <4>2, CacheUntouched
    <3>3. QED
      BY <3>1, <3>2
  <2>2. ASSUME NEW k \in Slots, Compute(k) PROVE CacheInv'
    <3> DEFINE new == [task |-> "store", id |-> call[k].id, seen |-> call[k].id, at |-> version]
    <3>1. call' = [call EXCEPT ![k] = new]
      BY <2>2 DEF Compute
    <3>2. "task" \in DOMAIN new /\ new.task = "store" /\ new.id \in Questions /\ new.at = version
      BY <2>2 DEF Compute, At, CacheInv, ComputingOK
    <3>3. UNCHANGED cacheVars
      BY <2>2 DEF Compute
    <3> HIDE DEF new
    <3>4. QED
      BY <3>1, <3>2, <3>3, CacheUntouched
  <2>3. ASSUME NEW k \in Slots, Leave(k), UNCHANGED cacheVars PROVE CacheInv'
    <3>1. call' = [call EXCEPT ![k] = Free] /\ "task" \in DOMAIN Free /\ Free.task = "none"
      BY <2>3 DEF Leave, Free
    <3> HIDE DEF Free
    <3>2. QED
      BY <2>3, <3>1, CacheUntouched
  <2>4. QED
    BY <1>2, <2>1, <2>2, <2>3, CacheStore, CacheEdit, CacheDelete, CacheExpire DEF CacheStep, Drop
<1>3. QED
  BY <1>1, <1>2 DEF Next, Repeating, Quoting, Remembering, Submit, vars

\* Whatever questions, edits, deletes and expiries overlap, a key of the cache
\* holds nothing but an answer to a question that is asked under it, computed
\* from data that there was - never from data that is yet to come.
THEOREM CachesAnswerUnderTheirKey == Spec => []CacheTypeOK
<1>1. Init => CacheInv
  BY CacheInitInv DEF Init
<1>2. Spec => []CacheInv
  BY <1>1, CacheStepInv, PTL DEF Spec
<1>3. QED
  BY <1>2, CacheInvType, PTL

-------------------------------------------------------------------------------
(* The validation library's cache.                                          *)

Book(es) == IsBook(es) /\ IsFiniteSet(Held(es))

\* What is left of es: some of its entries, each of its old size.
PartOf(fs, es) ==
  Book(fs) /\ Held(fs) \subseteq Held(es) /\ \A k \in Held(fs) : fs[k].size = es[k].size

LEMMA BookHas ==
  ASSUME NEW es, Book(es)
  PROVE  /\ \A k \in Held(es) : es[k] \in Entry /\ SizeOf(es)[k] = es[k].size /\ es[k].size \in Nat
         /\ \A K \in SUBSET Held(es) : IsFiniteSet(K) /\ Cardinality(K) \in Nat
         /\ Count(es) \in Nat
<1>1. \A k \in Held(es) : es[k] \in Entry
  BY DEF Book, IsBook
<1>2. \A k \in Held(es) : SizeOf(es)[k] = es[k].size
  BY DEF SizeOf
<1>3. \A K \in SUBSET Held(es) : IsFiniteSet(K) /\ Cardinality(K) \in Nat
  BY FS_Subset, FS_CardinalityType DEF Book
<1>4. QED
  BY <1>1, <1>2, <1>3 DEF Entry, Count

LEMMA BytesIsSum == ASSUME NEW es PROVE Bytes(es) = Sum(SizeOf(es), Held(es))
BY DEF Bytes, Sum

LEMMA BytesIsNat == ASSUME NEW es, Book(es) PROVE Bytes(es) \in Nat
BY BookHas, BytesIsSum, SumIsNat DEF Book

LEMMA EmptyBook == Book(Empty) /\ Held(Empty) = {} /\ Bytes(Empty) = 0 /\ Count(Empty) = 0
<1>1. Held(Empty) = {}
  BY DEF Held, Empty
<1>2. Book(Empty)
  BY <1>1, FS_EmptySet DEF Book, IsBook, Held, Empty
<1>3. QED
  BY <1>1, <1>2, BytesIsSum, SumOfNone, FS_EmptySet DEF Count

\* Removing entries leaves a part, the entries as they were but for their place.
LEMMA KeptIsPart ==
  ASSUME NEW es, Book(es), NEW K \in SUBSET Held(es)
  PROVE  PartOf(Kept(es, K), es) /\ Held(Kept(es, K)) = K
<1> DEFINE fs == Kept(es, K)
           place(k) == Cardinality({j \in K : es[j].place <= es[k].place})
<1>1. Held(fs) = K
  BY DEF Held, Kept
<1>2. ASSUME NEW k \in K PROVE fs[k] \in Entry /\ fs[k].size = es[k].size
  <2>1. es[k] \in Entry
    BY BookHas
  <2>2. place(k) \in Nat
    BY BookHas
  <2>3. fs[k] = [es[k] EXCEPT !.place = place(k)]
    BY DEF Kept
  <2> HIDE DEF place, fs
  <2>4. QED
    BY <2>1, <2>2, <2>3 DEF Entry
<1>3. fs = [k \in K |-> fs[k]]
  BY DEF Kept
<1>4. IsFiniteSet(K) /\ K \subseteq EntryKeys
  BY BookHas DEF Book, IsBook
<1> HIDE DEF fs
<1>5. QED
  BY <1>1, <1>2, <1>3, <1>4 DEF PartOf, Book, IsBook, fs

LEMMA PartsOfParts ==
  ASSUME NEW es, NEW fs, NEW gs, PartOf(fs, es), PartOf(gs, fs)
  PROVE  PartOf(gs, es)
BY DEF PartOf

LEMMA WholeIsPart == ASSUME NEW es, Book(es) PROVE PartOf(es, es)
BY DEF PartOf

\* A part weighs what its entries weigh in the whole.
LEMMA PartWeighs ==
  ASSUME NEW es, NEW fs, Book(es), PartOf(fs, es)
  PROVE  /\ Bytes(fs) = Sum(SizeOf(es), Held(fs))
         /\ Bytes(es) = Bytes(fs) + Sum(SizeOf(es), Held(es) \ Held(fs))
         /\ Bytes(fs) \in Nat /\ Bytes(es) \in Nat /\ Bytes(fs) <= Bytes(es)
         /\ Count(fs) \in Nat /\ Count(es) \in Nat /\ Count(fs) <= Count(es)
<1>1. Book(fs) /\ Held(fs) \in SUBSET Held(es)
  BY DEF PartOf
<1>2. \A k \in Held(fs) : SizeOf(fs)[k] = SizeOf(es)[k]
  BY <1>1, BookHas DEF PartOf
<1>3. Bytes(fs) = Sum(SizeOf(es), Held(fs))
  BY <1>1, <1>2, BytesIsSum, SumAgrees DEF Book
<1>4. \A k \in Held(es) : SizeOf(es)[k] \in Nat /\ SizeOf(es)[k] \in Int
  BY BookHas
<1>5. Bytes(es) = Bytes(fs) + Sum(SizeOf(es), Held(es) \ Held(fs))
  BY <1>1, <1>3, <1>4, BytesIsSum, SumOfPieces DEF Book
<1>6. Sum(SizeOf(es), Held(es) \ Held(fs)) \in Nat
  <2>1. IsFiniteSet(Held(es) \ Held(fs))
    BY BookHas
  <2>2. QED
    BY <2>1, <1>4, SumIsNat
<1>7. Bytes(fs) \in Nat /\ Bytes(es) \in Nat
  BY <1>1, BytesIsNat
<1>8. Count(fs) \in Nat /\ Count(es) \in Nat /\ Count(fs) <= Count(es)
  BY <1>1, BookHas, FS_Subset DEF Count, Book
<1>9. Bytes(fs) <= Bytes(es)
  BY <1>5, <1>6, <1>7
<1>10. QED
  BY <1>3, <1>5, <1>7, <1>8, <1>9

\* Entries that go behind others add their weight and their number.
LEMMA BehindAdds ==
  ASSUME NEW es, NEW new, Book(es), Book(new), Held(es) \cap Held(new) = {}
  PROVE  /\ Book(Behind(es, new))
         /\ Held(Behind(es, new)) = Held(es) \cup Held(new)
         /\ Bytes(Behind(es, new)) = Bytes(es) + Bytes(new)
         /\ Count(Behind(es, new)) = Count(es) + Count(new)
<1> DEFINE all == Behind(es, new)
           H == Held(es)
           N == Held(new)
<1>1. Held(all) = H \cup N
  BY DEF Behind, Held
<1>2. IsFiniteSet(H) /\ IsFiniteSet(N) /\ IsFiniteSet(H \cup N)
  BY FS_Union DEF Book
<1>3. ASSUME NEW k \in H PROVE all[k] \in Entry /\ all[k].size = es[k].size
  BY <1>3, BookHas DEF Behind
<1>4. ASSUME NEW k \in N PROVE all[k] \in Entry /\ all[k].size = new[k].size
  <2>1. new[k] \in Entry /\ Count(es) \in Nat
    BY BookHas
  <2>2. all[k] = [new[k] EXCEPT !.place = @ + Count(es)]
    BY DEF Behind
  <2>3. new[k].place + Count(es) \in Nat
    BY <2>1 DEF Entry
  <2> HIDE DEF all
  <2>4. QED
    BY <2>1, <2>2, <2>3 DEF Entry
<1>5. Book(all)
  <2>1. all = [k \in H \cup N |-> all[k]]
    BY DEF Behind
  <2>2. H \cup N \subseteq EntryKeys
    BY DEF Book, IsBook
  <2> HIDE DEF all
  <2>3. QED
    BY <1>1, <1>2, <1>3, <1>4, <2>1, <2>2 DEF Book, IsBook
<1> HIDE DEF all
<1>6. /\ \A k \in H \cup N : SizeOf(all)[k] \in Int
      /\ \A k \in H : SizeOf(all)[k] = SizeOf(es)[k]
      /\ \A k \in N : SizeOf(all)[k] = SizeOf(new)[k]
  BY <1>1, <1>3, <1>4, <1>5, BookHas
<1>7. Sum(SizeOf(all), H \cup N) = Sum(SizeOf(all), H) + Sum(SizeOf(all), (H \cup N) \ H)
  BY <1>2, <1>6, SumOfPieces
<1>8. (H \cup N) \ H = N
  OBVIOUS
<1>9. Sum(SizeOf(all), H) = Bytes(es) /\ Sum(SizeOf(all), N) = Bytes(new)
  BY <1>2, <1>6, SumAgrees, BytesIsSum
<1>10. Bytes(all) = Bytes(es) + Bytes(new)
  BY <1>1, <1>7, <1>8, <1>9, BytesIsSum
<1>11. Count(all) = Count(es) + Count(new)
  <2>1. Cardinality(H \cup N) = Cardinality(H) + Cardinality(N) - Cardinality(H \cap N)
    BY <1>2, FS_Union
  <2>2. Cardinality(H \cap N) = 0 /\ Cardinality(H) \in Nat /\ Cardinality(N) \in Nat
    BY <1>2, FS_EmptySet, FS_CardinalityType
  <2>3. QED
    BY <1>1, <2>1, <2>2 DEF Count
<1>12. QED
  BY <1>1, <1>5, <1>10, <1>11 DEF all

LEMMA WithoutIsPart ==
  ASSUME NEW es, Book(es), NEW K
  PROVE  PartOf(Without(es, K), es) /\ Held(Without(es, K)) = Held(es) \ K
BY KeptIsPart DEF Without

LEMMA UnexpiredIsPart == ASSUME NEW es, Book(es) PROVE PartOf(Unexpired(es), es)
BY KeptIsPart DEF Unexpired

LEMMA EvictIsPart == ASSUME NEW es, Book(es), NEW n PROVE PartOf(Evict(es, n), es)
BY WithoutIsPart DEF Evict

\* An eviction finds an entry to evict, unless the strategy looks at none but those
\* that expire: of the entries of least rank, the one that was inserted first.
LEMMA EvictTakesOne ==
  ASSUME NEW es, Book(es), Held(es) # {}, strategy \in {"LRU", "LFU", "FIFO"}
  PROVE  Count(Evict(es, 1)) < Count(es)
<1>1. Candidates(es) = Held(es)
  BY DEF Candidates
<1>2. \A k \in Held(es) : Rank(es[k]) \in Nat /\ es[k].place \in Nat
  BY BookHas DEF Rank, Entry
<1>3. PICK r \in {Rank(es[k]) : k \in Held(es)} : \A k \in Held(es) : r <= Rank(es[k])
  <2> DEFINE N == {Rank(es[k]) : k \in Held(es)}
  <2>1. N \in SUBSET Nat /\ N # {}
    BY <1>2
  <2>2. \E r \in N : \A m \in N : r <= m
    <3> HIDE DEF N
    <3> QED BY <2>1, LeastNumber
  <2>3. QED
    BY <2>2
<1>4. PICK p \in {es[k].place : k \in {j \in Held(es) : Rank(es[j]) = r}} :
             \A k \in {j \in Held(es) : Rank(es[j]) = r} : p <= es[k].place
  <2> DEFINE L == {j \in Held(es) : Rank(es[j]) = r}
             N == {es[k].place : k \in L}
  <2>1. N \in SUBSET Nat /\ N # {}
    BY <1>2, <1>3
  <2>2. \E q \in N : \A m \in N : q <= m
    <3> HIDE DEF N
    <3> QED BY <2>1, LeastNumber
  <2>3. QED
    BY <2>2
<1>5. PICK k \in Held(es) : Rank(es[k]) = r /\ es[k].place = p
  BY <1>4
<1>6. {j \in Candidates(es) : Before(es[j], es[k])} = {}
  BY <1>1, <1>2, <1>3, <1>4, <1>5 DEF Before
<1>7. Held(Evict(es, 1)) \subseteq Held(es) \ {k}
  <2> DEFINE gone == {c \in Candidates(es) :
                        Cardinality({d \in Candidates(es) : Before(es[d], es[c])}) < 1}
  <2>1. k \in gone
    BY <1>1, <1>6, FS_EmptySet
  <2>2. Evict(es, 1) = Without(es, gone)
    BY DEF Evict
  <2> HIDE DEF gone
  <2>3. QED
    BY <2>1, <2>2, WithoutIsPart
<1>8. IsFiniteSet(Held(es)) /\ IsFiniteSet(Held(es) \ {k})
  BY BookHas DEF Book
<1>9. Cardinality(Held(es) \ {k}) = Cardinality(Held(es)) - 1
  BY <1>8, FS_RemoveElement
<1>10. Cardinality(Held(Evict(es, 1))) <= Cardinality(Held(es) \ {k})
  BY <1>7, <1>8, FS_Subset
<1>11. Cardinality(Held(Evict(es, 1))) \in Nat /\ Cardinality(Held(es)) \in Nat
  BY <1>7, BookHas
<1>12. QED
  BY <1>9, <1>10, <1>11 DEF Count


EntryInv ==
  /\ strategy \in {"LRU", "LFU", "FIFO", "TTL"}
  /\ Book(entries) /\ Book(backup)
  /\ touches \in Nat /\ clock \in Nat /\ overwritten \in Int
  /\ CacheKeepsItsBooks

LEMMA EntryInitInv == EntryCacheInit => EntryInv
BY EmptyBook, ValidationCacheAssumption DEF EntryCacheInit, EntryInv, CacheKeepsItsBooks

\* Removing entries, whichever, keeps the books.
LEMMA PartKeepsBooks ==
  ASSUME EntryInv, PartOf(entries', entries), memoryUsage' = Freed(entries, entries'),
         UNCHANGED <<strategy, clock, backup, imported, overwritten>>, touches' \in Nat
  PROVE  EntryInv'
<1>1. Book(entries) /\ Book(entries') /\ Book(backup)'
  BY DEF EntryInv, PartOf
<1>2. /\ Bytes(entries)' = Bytes(entries') /\ Count(entries)' = Count(entries')
      /\ Book(entries)' = Book(entries')
  OBVIOUS
<1>3. /\ Bytes(entries) \in Nat /\ Bytes(entries') \in Nat /\ Bytes(entries') <= Bytes(entries)
      /\ Count(entries) \in Nat /\ Count(entries') \in Nat /\ Count(entries') <= Count(entries)
  BY <1>1, PartWeighs
<1>4. /\ memoryUsage = Bytes(entries) + overwritten /\ overwritten \in Int
      /\ memoryUsage' = memoryUsage - (Bytes(entries) - Bytes(entries'))
  BY DEF EntryInv, CacheKeepsItsBooks, Freed
<1>5. memoryUsage' = Bytes(entries') + overwritten /\ memoryUsage' <= memoryUsage
      /\ memoryUsage \in Int /\ memoryUsage' \in Int
  BY <1>3, <1>4
<1>6. ~imported => memoryUsage' <= MemoryLimit
  BY <1>5, ValidationCacheAssumption DEF EntryInv, CacheKeepsItsBooks
<1>7. ~imported /\ strategy # "TTL" => Count(entries') <= MaxSize
  BY <1>3, ValidationCacheAssumption DEF EntryInv, CacheKeepsItsBooks
<1>8. QED
  BY <1>1, <1>2, <1>5, <1>6, <1>7 DEF EntryInv, CacheKeepsItsBooks

LEMMA RemoveKeepsBooks ==
  ASSUME EntryInv, NEW K, RemoveEntries(K)
  PROVE  EntryInv'
<1>1. entries' = Without(entries, K) /\ PartOf(Without(entries, K), entries)
  BY WithoutIsPart DEF RemoveEntries, EntryInv
<1>2. QED
  BY <1>1, PartKeepsBooks DEF RemoveEntries, EntryInv

\* Under its limit the cache takes one entry more and is not above it.
LEMMA RoomIsMade ==
  ASSUME EntryInv, NEW es, PartOf(es, entries)
  PROVE  /\ PartOf(RoomFor(es), es)
         /\ ~imported /\ strategy # "TTL" => Count(RoomFor(es)) + 1 <= MaxSize
<1>1. Book(es) /\ Book(entries)
  BY DEF PartOf, EntryInv
<1>2. Count(es) \in Nat /\ Count(entries) \in Nat /\ Count(es) <= Count(entries)
  BY <1>1, PartWeighs
<1>3. MaxSize \in Nat \ {0}
  BY ValidationCacheAssumption
<1>4. CASE Count(es) >= MaxSize
  <2>1. RoomFor(es) = Evict(es, 1)
    BY <1>4 DEF RoomFor
  <2>2. Held(es) # {}
    BY <1>2, <1>3, <1>4, FS_EmptySet DEF Count
  <2>3. ~imported /\ strategy # "TTL" => Count(es) <= MaxSize /\ Count(Evict(es, 1)) < Count(es)
    BY <1>1, <1>2, <1>3, <2>2, EvictTakesOne DEF EntryInv, CacheKeepsItsBooks
  <2>4. PartOf(Evict(es, 1), es) /\ Count(Evict(es, 1)) \in Nat
    BY <1>1, EvictIsPart, PartWeighs
  <2>5. QED
    BY <1>2, <1>3, <2>1, <2>3, <2>4
<1>5. CASE ~ (Count(es) >= MaxSize)
  BY <1>1, <1>2, <1>3, <1>5, WholeIsPart DEF RoomFor
<1>6. QED
  BY <1>4, <1>5

LEMMA SetKeepsBooks ==
  ASSUME EntryInv, NEW k \in EntryKeys, NEW size \in Sizes, SetEntry(k, size)
  PROVE  EntryInv'
<1> DEFINE Evicted == Evict(entries, Tenth(entries))
<1>1. PICK relieved : relieved = Relieved(size)
  OBVIOUS
<1>2. PICK kept : kept = RoomFor(Without(relieved, {k}))
  OBVIOUS
<1>3. PICK new : new = [size |-> size, ttl |-> LifeOf[k], created |-> clock,
                        accessed |-> touches + 1, count |-> 1, place |-> 1]
  OBVIOUS
<1>4. /\ IF Freed(entries, relieved) + size > MemoryLimit
         THEN entries' = relieved /\ memoryUsage' = Freed(entries, relieved) /\ touches' = touches
         ELSE /\ touches' = touches + 1
              /\ entries' = Behind(kept, [j \in {k} |-> new])
              /\ memoryUsage' = Freed(entries, kept) + size
      /\ UNCHANGED <<strategy, clock, backup, imported, overwritten>>
  BY <1>1, <1>2, <1>3 DEF SetEntry, Touch
<1>5. Book(entries) /\ PartOf(relieved, entries)
  BY <1>1, EvictIsPart, WholeIsPart DEF Relieved, EntryInv
<1>6. CASE Freed(entries, relieved) + size > MemoryLimit
  BY <1>4, <1>5, <1>6, PartKeepsBooks DEF EntryInv
<1>7. CASE ~ (Freed(entries, relieved) + size > MemoryLimit)
  <2>1. /\ entries' = Behind(kept, [j \in {k} |-> new]) /\ touches' = touches + 1
        /\ memoryUsage' = Freed(entries, kept) + size
    BY <1>4, <1>7
  <2>2. PICK rest : rest = Without(relieved, {k})
    OBVIOUS
  <2>3. PartOf(rest, relieved) /\ k \notin Held(rest) /\ PartOf(rest, entries)
    BY <1>5, <2>2, WithoutIsPart, PartsOfParts DEF PartOf
  <2>4. /\ PartOf(kept, rest) /\ PartOf(kept, relieved) /\ PartOf(kept, entries)
        /\ k \notin Held(kept)
        /\ ~imported /\ strategy # "TTL" => Count(kept) + 1 <= MaxSize
    <3>1. PartOf(kept, rest) /\ (~imported /\ strategy # "TTL" => Count(kept) + 1 <= MaxSize)
      BY <1>2, <2>2, <2>3, RoomIsMade
    <3>2. PartOf(kept, relieved)
      BY <2>3, <3>1, PartsOfParts
    <3>3. PartOf(kept, entries)
      BY <1>5, <3>2, PartsOfParts
    <3>4. k \notin Held(kept)
      BY <2>3, <3>1 DEF PartOf
    <3>5. QED
      BY <3>1, <3>2, <3>3, <3>4
  <2>5. PICK one : one = [j \in {k} |-> new]
    OBVIOUS
  <2>6. Held(one) = {k} /\ Book(one) /\ Bytes(one) = size /\ Count(one) = 1 /\ size \in Nat
    <3>1. Held(one) = {k} /\ one[k] = new
      BY <2>5 DEF Held
    <3>2. new \in Entry /\ size \in Nat /\ new.size = size
      BY <1>3, ValidationCacheAssumption DEF Entry, EntryInv
    <3>3. Book(one)
      BY <2>5, <3>1, <3>2, FS_Singleton DEF Book, IsBook
    <3>4. Sum(SizeOf(one), {k}) = size
      <4>1. {k} = {} \cup {k} /\ IsFiniteSet({}) /\ SizeOf(one)[k] = size
        BY <3>1, <3>2, FS_EmptySet DEF SizeOf
      <4>2. Sum(SizeOf(one), {} \cup {k}) = Sum(SizeOf(one), {}) + size
        BY <4>1, <3>2, SumAdd
      <4>3. QED
        BY <4>1, <4>2, <3>2, SumOfNone
    <3>5. QED
      BY <3>1, <3>2, <3>3, <3>4, BytesIsSum, FS_Singleton DEF Count
  <2>7. /\ Book(entries') /\ Bytes(entries') = Bytes(kept) + size
        /\ Count(entries') = Count(kept) + 1
    <3>1. Book(kept) /\ Held(kept) \cap Held(one) = {}
      BY <2>4, <2>6 DEF PartOf
    <3>2. QED
      BY <2>1, <2>5, <2>6, <3>1, BehindAdds
  <2>8. /\ Bytes(kept) \in Nat /\ Bytes(relieved) \in Nat /\ Bytes(entries) \in Nat
        /\ Bytes(kept) <= Bytes(relieved)
    BY <1>5, <2>4, PartWeighs DEF PartOf
  <2>9. /\ memoryUsage = Bytes(entries) + overwritten /\ overwritten \in Int
        /\ memoryUsage' = memoryUsage - (Bytes(entries) - Bytes(kept)) + size
        /\ memoryUsage - (Bytes(entries) - Bytes(relieved)) + size <= MemoryLimit
    <3>1. Freed(entries, relieved) \in Int
      BY <2>8 DEF Freed, EntryInv, CacheKeepsItsBooks
    <3>2. MemoryLimit \in Nat /\ Freed(entries, relieved) + size <= MemoryLimit
      BY <1>7, <2>6, <3>1, ValidationCacheAssumption
    <3>3. QED
      BY <2>1, <3>2 DEF Freed, EntryInv, CacheKeepsItsBooks
  <2>10. memoryUsage' = Bytes(entries') + overwritten /\ memoryUsage' <= MemoryLimit
    BY <2>6, <2>7, <2>8, <2>9, ValidationCacheAssumption
  <2>11. Bytes(entries)' = Bytes(entries') /\ Count(entries)' = Count(entries')
         /\ Book(entries)' = Book(entries') /\ Book(backup)' /\ touches' \in Nat
    BY <1>4, <2>1 DEF EntryInv
  <2>12. QED
    BY <1>4, <2>4, <2>7, <2>10, <2>11 DEF EntryInv, CacheKeepsItsBooks
<1>8. QED
  BY <1>6, <1>7

\* A read that hits changes what the strategies look at, and no size.
LEMMA GetKeepsBooks ==
  ASSUME EntryInv, NEW k \in EntryKeys, GetEntry(k)
  PROVE  EntryInv'
<1>1. k \in Held(entries) /\ Book(entries)
  BY DEF GetEntry, EntryInv
<1>2. CASE Expired(entries[k])
  BY <1>2, RemoveKeepsBooks DEF GetEntry
<1>3. CASE ~Expired(entries[k])
  <2>1. /\ entries' = [entries EXCEPT ![k].accessed = touches + 1, ![k].count = @ + 1]
        /\ touches' = touches + 1
        /\ UNCHANGED <<strategy, memoryUsage, clock, backup, imported, overwritten>>
    BY <1>3 DEF GetEntry, Touch
  <2>2. Held(entries') = Held(entries)
    BY <2>1 DEF Held
  <2>3. \A j \in Held(entries) : entries'[j] \in Entry /\ entries'[j].size = entries[j].size
    <3>1. \A j \in Held(entries) : entries[j] \in Entry
      BY <1>1, BookHas
    <3>2. touches + 1 \in Nat /\ entries[k].count + 1 \in Nat
      BY <1>1, <3>1 DEF EntryInv, Entry
    <3>3. \A j \in Held(entries) : j # k => entries'[j] = entries[j]
      BY <2>1 DEF Held
    <3>4. entries'[k] = [entries[k] EXCEPT !.accessed = touches + 1, !.count = @ + 1]
      BY <2>1, <1>1 DEF Held
    <3>5. entries'[k] \in Entry /\ entries'[k].size = entries[k].size
      BY <1>1, <3>1, <3>2, <3>4 DEF Entry
    <3>6. QED
      BY <3>1, <3>3, <3>5
  <2>4. Book(entries')
    <3>1. entries' = [j \in Held(entries) |-> entries'[j]]
      BY <2>1, <1>1 DEF Book, IsBook
    <3>2. QED
      BY <1>1, <2>2, <2>3, <3>1 DEF Book, IsBook
  <2>5. PartOf(entries', entries) /\ PartOf(entries, entries')
    BY <1>1, <2>2, <2>3, <2>4 DEF PartOf
  <2>6. Bytes(entries') = Bytes(entries) /\ Bytes(entries) \in Nat
    <3>1. /\ Bytes(entries') \in Nat /\ Bytes(entries) \in Nat
          /\ Bytes(entries') <= Bytes(entries) /\ Bytes(entries) <= Bytes(entries')
      BY <1>1, <2>4, <2>5, PartWeighs
    <3>2. QED
      BY <3>1
  <2>7. memoryUsage' = Freed(entries, entries')
    BY <2>1, <2>6 DEF Freed, EntryInv, CacheKeepsItsBooks
  <2>8. QED
    BY <2>1, <2>5, <2>7, PartKeepsBooks DEF EntryInv
<1>4. QED
  BY <1>2, <1>3

LEMMA ClearKeepsBooks == ASSUME EntryInv, Clear PROVE EntryInv'
<1>1. /\ entries' = Empty /\ memoryUsage' = 0 /\ overwritten' = 0 /\ imported' = FALSE
      /\ UNCHANGED <<strategy, touches, clock, backup>>
  BY DEF Clear
<1>2. Bytes(entries)' = 0 /\ Count(entries)' = 0 /\ Book(entries)'
  BY <1>1, EmptyBook
<1>3. QED
  BY <1>1, <1>2, ValidationCacheAssumption DEF EntryInv, CacheKeepsItsBooks

LEMMA ExportKeepsBooks == ASSUME EntryInv, Export PROVE EntryInv'
<1>1. /\ backup' = Unexpired(entries)
      /\ UNCHANGED <<strategy, entries, memoryUsage, touches, clock, imported, overwritten>>
  BY DEF Export
<1>2. Book(Unexpired(entries))
  BY UnexpiredIsPart DEF EntryInv, PartOf
<1>3. QED
  BY <1>1, <1>2 DEF EntryInv, CacheKeepsItsBooks

\* What an import replaces stays in the total: that is what overwritten counts.
LEMMA ImportKeepsBooks == ASSUME EntryInv, Import PROVE EntryInv'
<1>1. PICK fresh : fresh = Unexpired(backup)
  OBVIOUS
<1>2. PICK replaced : replaced = Held(fresh) \cap Held(entries)
  OBVIOUS
<1>3. PICK over : over = [k \in Held(entries) |->
                            IF k \in replaced THEN [fresh[k] EXCEPT !.place = entries[k].place]
                            ELSE entries[k]]
  OBVIOUS
<1>4. PICK new : new = Without(fresh, replaced)
  OBVIOUS
<1>5. PICK rest : rest = Without(entries, replaced)
  OBVIOUS
<1>6. /\ entries' = Behind(over, new)
      /\ memoryUsage' = memoryUsage + Bytes(fresh)
      /\ overwritten' = overwritten + Bytes(entries) - Bytes(rest)
      /\ imported' = TRUE
      /\ UNCHANGED <<strategy, touches, clock, backup>>
  BY <1>1, <1>2, <1>3, <1>4, <1>5 DEF Import
<1>7. Book(entries) /\ Book(fresh)
  BY <1>1, UnexpiredIsPart DEF EntryInv, PartOf
<1>8. /\ PartOf(new, fresh) /\ Held(new) = Held(fresh) \ replaced
      /\ PartOf(rest, entries) /\ Held(rest) = Held(entries) \ replaced
  BY <1>4, <1>5, <1>7, WithoutIsPart
<1>9. /\ Held(over) = Held(entries)
      /\ \A k \in replaced : over[k] \in Entry /\ over[k].size = fresh[k].size
      /\ \A k \in Held(entries) \ replaced : over[k] = entries[k]
  <2>1. Held(over) = Held(entries)
    BY <1>3 DEF Held
  <2>2. \A k \in Held(entries) \ replaced : over[k] = entries[k]
    BY <1>3
  <2>3. ASSUME NEW k \in replaced PROVE over[k] \in Entry /\ over[k].size = fresh[k].size
    <3>1. over[k] = [fresh[k] EXCEPT !.place = entries[k].place]
      BY <1>2, <1>3, <2>3
    <3>2. fresh[k] \in Entry /\ entries[k] \in Entry
      BY <1>2, <1>7, <2>3, BookHas
    <3>3. QED
      BY <3>1, <3>2 DEF Entry
  <2>4. QED
    BY <2>1, <2>2, <2>3
<1>10. Book(over)
  <2>1. \A k \in Held(entries) : over[k] \in Entry
    BY <1>7, <1>9, BookHas
  <2>2. over = [k \in Held(entries) |-> over[k]]
    BY <1>3
  <2>3. QED
    BY <1>7, <1>9, <2>1, <2>2 DEF Book, IsBook
<1>11. /\ Book(entries') /\ Bytes(entries') = Bytes(over) + Bytes(new)
  <2>1. Book(new) /\ Held(over) \cap Held(new) = {}
    BY <1>2, <1>8, <1>9 DEF PartOf
  <2>2. QED
    BY <1>6, <1>10, <2>1, BehindAdds
\* The parts of over: what was kept weighs what it did, the rest is from the backup.
<1>12. PartOf(rest, over)
  BY <1>8, <1>9 DEF PartOf
<1>13. Bytes(over) = Bytes(rest) + Sum(SizeOf(over), replaced)
  <2>1. Held(over) \ Held(rest) = replaced
    BY <1>2, <1>8, <1>9
  <2>2. QED
    BY <1>10, <1>12, <2>1, PartWeighs
<1>14. Bytes(fresh) = Bytes(new) + Sum(SizeOf(fresh), replaced)
  <2>1. Held(fresh) \ Held(new) = replaced
    BY <1>2, <1>8
  <2>2. QED
    BY <1>7, <1>8, <2>1, PartWeighs
<1>15. Sum(SizeOf(over), replaced) = Sum(SizeOf(fresh), replaced)
  <2>1. IsFiniteSet(replaced)
    BY <1>2, <1>7, BookHas
  <2>2. \A k \in replaced : SizeOf(over)[k] = SizeOf(fresh)[k]
    BY <1>2, <1>9 DEF SizeOf
  <2>3. QED
    BY <2>1, <2>2, SumAgrees
<1>16. /\ Bytes(rest) \in Nat /\ Bytes(new) \in Nat /\ Bytes(fresh) \in Nat /\ Bytes(over) \in Nat
       /\ Bytes(entries) \in Nat
  BY <1>7, <1>8, <1>10, BytesIsNat DEF PartOf
<1>17. Sum(SizeOf(fresh), replaced) \in Nat
  <2>1. IsFiniteSet(replaced) /\ \A k \in replaced : SizeOf(fresh)[k] \in Nat
    BY <1>2, <1>7, BookHas
  <2>2. QED
    BY <2>1, SumIsNat
<1>18. Bytes(entries') = Bytes(rest) + Bytes(fresh)
  BY <1>11, <1>13, <1>14, <1>15, <1>16, <1>17
<1>19. memoryUsage = Bytes(entries) + overwritten /\ overwritten \in Int
  BY DEF EntryInv, CacheKeepsItsBooks
<1>20. memoryUsage' = Bytes(entries') + overwritten' /\ overwritten' \in Int
  BY <1>6, <1>16, <1>18, <1>19
<1>21. Bytes(entries)' = Bytes(entries') /\ Book(entries)' = Book(entries') /\ Book(backup)'
  BY <1>6 DEF EntryInv
<1>22. QED
  BY <1>6, <1>11, <1>20, <1>21 DEF EntryInv, CacheKeepsItsBooks

LEMMA EntryStepInv == EntryInv /\ [Next]_vars => EntryInv'
<1> SUFFICES ASSUME EntryInv, [Next]_vars PROVE EntryInv'
  OBVIOUS
<1>1. CASE UNCHANGED entryVars
  BY <1>1 DEF entryVars, EntryInv, CacheKeepsItsBooks
<1>2. CASE EntryCacheStep
  <2>1. ASSUME NEW k \in EntryKeys, HasEntry(k) \/ DeleteEntry(k) PROVE EntryInv'
    BY <2>1, RemoveKeepsBooks DEF HasEntry, DeleteEntry
  <2>2. CASE CollectGarbage
    BY <2>2, RemoveKeepsBooks DEF CollectGarbage
  <2>3. CASE Tick
    BY <2>3 DEF Tick, EntryInv, CacheKeepsItsBooks
  <2>4. QED
    BY <1>2, <2>1, <2>2, <2>3, SetKeepsBooks, GetKeepsBooks, ClearKeepsBooks, ExportKeepsBooks,
       ImportKeepsBooks DEF EntryCacheStep
<1>3. QED
  BY <1>1, <1>2 DEF Next, Repeating, Quoting, Remembering, Submit, vars

LEMMA EntryInvHolds == Spec => []EntryInv
<1>1. Init => EntryInv
  BY EntryInitInv DEF Init
<1>2. QED
  BY <1>1, EntryStepInv, PTL DEF Spec

\* Whatever keys are written, read, evicted, expired, exported and imported, in
\* whatever order and under each strategy: memoryUsage is what the entries weigh and
\* what imports overwrote, and without imports both limits are kept - except the
\* number of entries under TTL.
THEOREM CacheKeepsBooks == Spec => []CacheKeepsItsBooks
<1>1. EntryInv => CacheKeepsItsBooks
  BY DEF EntryInv
<1>2. QED
  BY <1>1, EntryInvHolds, PTL

\* What is submitted is one of the forms.
LEMMA FormIsSubmitted == Spec => [](form \in Forms \cup {NoForm})
<1>1. Init => form \in Forms \cup {NoForm}
  BY DEF Init
<1>2. form \in Forms \cup {NoForm} /\ [Next]_vars => (form \in Forms \cup {NoForm})'
  BY DEF Next, Repeating, Quoting, Remembering, Submit, vars
<1>3. QED
  BY <1>1, <1>2, PTL DEF Spec

\* Every state of the middleware, the caches and the forms is well typed.
THEOREM TypeCorrect == Spec => []TypeOK
<1>1. Spec => [](form \in Forms \cup {NoForm})
  BY FormIsSubmitted
<1>2. IdemInv => IdemTypeOK
  BY DEF IdemInv
<1>3. EntryInv => EntryCacheTypeOK
  BY DEF EntryInv, EntryCacheTypeOK, Book
<1>4. IdemTypeOK /\ CacheTypeOK /\ EntryCacheTypeOK /\ form \in Forms \cup {NoForm} => TypeOK
  BY DEF TypeOK
<1>5. QED
  BY <1>1, <1>2, <1>3, <1>4, IdemInvHolds, CachesAnswerUnderTheirKey, EntryInvHolds, PTL

-------------------------------------------------------------------------------
(* Prices.                                                                  *)

\* A search among slabs that there are finds one of them.
LEMMA SlabIsFound ==
  ASSUME NEW slabs \in Seq(Slab), slabs # <<>>, NEW fitting \in SUBSET DOMAIN slabs
  PROVE  FirstFitting(slabs, fitting) \in Slab
<1> DEFINE D == DOMAIN slabs
           Up == {x \in D \X D : Lower(slabs, x[1], x[2])}
           Down == {x \in D \X D : Lower(slabs, x[2], x[1])}
<1>1. /\ D = 1 .. Len(slabs) /\ Len(slabs) \in Nat /\ D # {}
      /\ \A i \in D : slabs[i] \in Slab /\ slabs[i].upTo \in Nat /\ i \in Nat
  <2>1. /\ DOMAIN slabs = 1 .. Len(slabs) /\ Len(slabs) \in Nat
        /\ \A i \in 1 .. Len(slabs) : slabs[i] \in Slab
    OBVIOUS
  <2>2. Len(slabs) # 0
    OBVIOUS
  <2>3. 1 \in 1 .. Len(slabs)
    BY <2>1, <2>2
  <2>4. \A l \in Slab : l.upTo \in Nat
    BY DEF Slab
  <2>5. QED
    BY <2>1, <2>3, <2>4
<1>2. IsFiniteSet(D) /\ IsFiniteSet(fitting)
  <2>1. IsFiniteSet(1 .. Len(slabs))
    BY <1>1, FS_Interval
  <2>2. IsFiniteSet(D)
    BY <1>1, <2>1
  <2>3. QED
    BY <2>2, FS_Subset
<1>3. /\ \A i, j \in D : i # j => Lower(slabs, i, j) \/ Lower(slabs, j, i)
      /\ \A i, j, l \in D : Lower(slabs, i, j) /\ Lower(slabs, j, l) => Lower(slabs, i, l)
  BY <1>1 DEF Lower
<1>4. \E i \in D : \A j \in D \ {i} : Lower(slabs, j, i)
  <2>1. /\ \A i, j \in D : i # j => <<i, j>> \in Down \/ <<j, i>> \in Down
        /\ \A i, j, l \in D : <<i, j>> \in Down /\ <<j, l>> \in Down => <<i, l>> \in Down
    BY <1>3
  <2>2. \E i \in D : \A j \in D \ {i} : <<i, j>> \in Down
    <3>1. IsFiniteSet(D) /\ D # {}
      BY <1>1, <1>2
    <3> HIDE DEF D, Down
    <3>2. QED
      BY <2>1, <3>1, FirstExists
  <2>3. QED
    BY <2>2
<1>5. fitting # {} => \E i \in fitting : \A j \in fitting \ {i} : Lower(slabs, i, j)
  <2> SUFFICES ASSUME fitting # {} PROVE \E i \in fitting : \A j \in fitting \ {i} : Lower(slabs, i, j)
    OBVIOUS
  <2>1. /\ \A i, j \in fitting : i # j => <<i, j>> \in Up \/ <<j, i>> \in Up
        /\ \A i, j, l \in fitting : <<i, j>> \in Up /\ <<j, l>> \in Up => <<i, l>> \in Up
    BY <1>3
  <2>2. \E i \in fitting : \A j \in fitting \ {i} : <<i, j>> \in Up
    <3> HIDE DEF D, Up
    <3> QED BY <1>2, <2>1, FirstExists
  <2>3. QED
    BY <2>2
<1>6. CASE fitting = {}
  <2>1. PICK i : i = CHOOSE l \in D : \A j \in D \ {l} : Lower(slabs, j, l)
    OBVIOUS
  <2>2. i \in D
    BY <1>4, <2>1
  <2>3. FirstFitting(slabs, fitting) = slabs[i]
    BY <1>6, <2>1 DEF FirstFitting
  <2>4. QED
    BY <1>1, <2>2, <2>3
<1>7. CASE fitting # {}
  <2>1. PICK i : i = CHOOSE l \in fitting : \A j \in fitting \ {l} : Lower(slabs, l, j)
    OBVIOUS
  <2>2. i \in fitting
    BY <1>5, <1>7, <2>1
  <2>3. FirstFitting(slabs, fitting) = slabs[i]
    BY <1>7, <2>1 DEF FirstFitting
  <2>4. QED
    BY <1>1, <2>2, <2>3
<1>8. QED
  BY <1>6, <1>7

\* A carrier's charge is a whole number of hundredths of a paisa.
LEMMA ChargeIsWhole ==
  ASSUME NEW card \in RateCard, NEW p \in Parcel
  PROVE  CarrierCharge(card, FindMatchingSlab(card.weightSlabs, p.weight), p.weight, p) \in Int
<1>1. PICK slab : slab = FindMatchingSlab(card.weightSlabs, p.weight)
  OBVIOUS
<1>2. slab \in Slab
  BY <1>1, SlabIsFound DEF FindMatchingSlab, RateCard
<1>3. /\ slab.baseRate \in Int /\ slab.ratePerKg \in Int /\ p.weight \in Int /\ p.codAmount \in Int
      /\ card.fuelSurcharge \in Int /\ card.codCharge \in Int /\ card.codPercent \in Int
  BY <1>2 DEF Slab, RateCard, Parcel
<1>4. CarrierCharge(card, slab, p.weight, p) \in Int
  <2>1. (slab.baseRate + slab.ratePerKg * p.weight) * (100 + card.fuelSurcharge) \in Int
    BY <1>3
  <2>2. 100 * card.codCharge + p.codAmount * card.codPercent \in Int
    BY <1>3
  <2>3. QED
    BY <2>1, <2>2 DEF CarrierCharge
<1>5. QED
  BY <1>1, <1>4

\* A rounding errs by half a unit.
LEMMA NearestErr ==
  ASSUME NEW n \in Int, NEW d \in Nat \ {0}, NEW q \in Nearest(n, d)
  PROVE  q \in Int /\ 2 * (n - q * d) <= d /\ 2 * (q * d - n) <= d
<1>1. n \div d \in Int
  OBVIOUS
<1>2. QED
  BY <1>1 DEF Nearest

\* A factor that is not negative raises a bound.
LEMMA Scaled ==
  ASSUME NEW a \in Nat, NEW x \in Int, NEW b \in Int, x <= b
  PROVE  a * x <= a * b
OBVIOUS

\* The errors of the two roundings of a booking up to the distributor's price, in
\* ten thousandths.
LEMMA TwoRoundings ==
  ASSUME NEW T \in Int, NEW A \in Nat, NEW c \in Nearest(T, 100), NEW m \in Nearest(c * A, 100)
  PROVE  /\ c \in Int /\ m \in Int
         /\ 2 * (T * A - 10000 * m) <= 100 * A + 10000
         /\ 2 * (10000 * m - T * A) <= 100 * A + 10000
<1>1. c \in Int /\ 2 * (T - c * 100) <= 100 /\ 2 * (c * 100 - T) <= 100
  BY NearestErr
<1>2. c * A \in Int
  BY <1>1
<1>3. m \in Int /\ 2 * (c * A - m * 100) <= 100 /\ 2 * (m * 100 - c * A) <= 100
  BY <1>2, NearestErr
<1>4. A * (2 * (T - c * 100)) <= A * 100 /\ A * (2 * (c * 100 - T)) <= A * 100
  BY <1>1, Scaled
<1>5. PICK ta \in Int, ca \in Int : ta = T * A /\ ca = c * A
  BY <1>1
<1>6. A * (2 * (T - c * 100)) = 2 * (ta - 100 * ca) /\ A * (2 * (c * 100 - T)) = 2 * (100 * ca - ta)
  BY <1>1, <1>5
<1>7. /\ 2 * (ta - 100 * ca) <= 100 * A /\ 2 * (100 * ca - ta) <= 100 * A
      /\ 2 * (ca - m * 100) <= 100 /\ 2 * (m * 100 - ca) <= 100
  BY <1>3, <1>4, <1>5, <1>6
<1>8. 2 * (ta - 10000 * m) <= 100 * A + 10000 /\ 2 * (10000 * m - ta) <= 100 * A + 10000
  BY <1>3, <1>5, <1>7
<1>9. QED
  BY <1>1, <1>3, <1>5, <1>8

\* What an enquiry, rounded once, says of it.
LEMMA OneAgainstTwo ==
  ASSUME NEW T \in Int, NEW A \in Nat, NEW c \in Nearest(T, 100), NEW m \in Nearest(c * A, 100),
         NEW q \in Nearest(T * A, 10000)
  PROVE  Within(q, m, 200 + A, 200)
<1>1. PICK ta \in Int : ta = T * A
  OBVIOUS
<1>2. q \in Int /\ 2 * (ta - q * 10000) <= 10000 /\ 2 * (q * 10000 - ta) <= 10000
  BY <1>1, NearestErr
<1>3. /\ m \in Int
      /\ 2 * (ta - 10000 * m) <= 100 * A + 10000 /\ 2 * (10000 * m - ta) <= 100 * A + 10000
  BY <1>1, TwoRoundings
<1>4. 200 * (q - m) <= 200 + A /\ 200 * (m - q) <= 200 + A
  BY <1>2, <1>3
<1>5. QED
  BY <1>2, <1>3, <1>4 DEF Within

\* And with the distributor's margin on top, which a booking rounds a third time.
LEMMA OneAgainstThree ==
  ASSUME NEW T \in Int, NEW A \in Nat, NEW K \in Nat, NEW flat \in Int,
         NEW c \in Nearest(T, 100), NEW m \in Nearest(c * A, 100),
         NEW l \in Nearest(m * K, 100), NEW q \in Nearest(T * A * K, 1000000)
  PROVE  Within(q + flat, l + flat, 20000 + K * (A + 100), 20000)
<1>1. PICK ta \in Int : ta = T * A
  OBVIOUS
<1>2. /\ m \in Int
      /\ 2 * (ta - 10000 * m) <= 100 * A + 10000 /\ 2 * (10000 * m - ta) <= 100 * A + 10000
  BY <1>1, TwoRoundings
<1>3. PICK tak \in Int, mk \in Int, ka \in Int : tak = ta * K /\ mk = m * K /\ ka = K * (A + 100)
  BY <1>2
<1>4. q \in Int /\ 2 * (tak - q * 1000000) <= 1000000 /\ 2 * (q * 1000000 - tak) <= 1000000
  BY <1>1, <1>3, NearestErr
<1>5. l \in Int /\ 2 * (mk - l * 100) <= 100 /\ 2 * (l * 100 - mk) <= 100
  BY <1>3, NearestErr
<1>6. /\ K * (2 * (ta - 10000 * m)) <= K * (100 * A + 10000)
      /\ K * (2 * (10000 * m - ta)) <= K * (100 * A + 10000)
  BY <1>2, Scaled
<1>7. /\ K * (2 * (ta - 10000 * m)) = 2 * (tak - 10000 * mk)
      /\ K * (2 * (10000 * m - ta)) = 2 * (10000 * mk - tak)
      /\ K * (100 * A + 10000) = 100 * ka
  BY <1>2, <1>3
<1>8. 2 * (tak - 10000 * mk) <= 100 * ka /\ 2 * (10000 * mk - tak) <= 100 * ka
  BY <1>6, <1>7
<1>9. 20000 * (q - l) <= 20000 + ka /\ 20000 * (l - q) <= 20000 + ka
  BY <1>3, <1>4, <1>5, <1>8
<1>10. (q + flat) - (l + flat) = q - l
  BY <1>4, <1>5
<1>11. QED
  BY <1>3, <1>4, <1>5, <1>9, <1>10 DEF Within

LEMMA PricesAreClose ==
  ASSUME NEW card \in RateCard, NEW margin \in MarginConfig, NEW p \in Parcel
  PROVE  QuoteIsCharged(card, margin, p)
<1> DEFINE T == CarrierCharge(card, FindMatchingSlab(card.weightSlabs, p.weight), p.weight, p)
           A == 100 + Markup(card)
           K == 100 + margin.percent
<1>1. T \in Int
  BY ChargeIsWhole
<1>2. A \in Nat /\ K \in Nat /\ margin.flat \in Int /\ Markup(card) \in Nat
  BY PricingAssumption DEF Markup, RateCard, MarginConfig, Unset
<1> SUFFICES ASSUME ~Heavier(p), NEW via \in BOOLEAN,
                    NEW cost \in CalculateShippingCost(card, margin, via, p)
             PROVE  /\ \A q \in CalculateRate(card, margin, "SUPER_ADMIN", p) :
                         Within(q, cost.carrierCost, 1, 1)
                    /\ \A q \in CalculateRate(card, margin, "DISTRIBUTOR", p) :
                         via => Within(q, cost.distributorCost, 200 + A, 200)
                    /\ \A q \in CalculateRate(card, margin, "DIRECT_MERCHANT", p) :
                         ~via => Within(q, cost.merchantCost, 200 + A, 200)
                    /\ \A q \in CalculateRate(card, margin, "MERCHANT", p) :
                         via => Within(q, cost.merchantCost,
                                       20000 + K * (200 + Markup(card)), 20000)
  BY DEF QuoteIsCharged
\* What the booking did.
<1>3. cost \in Costs(card, margin, via, p.weight, p)
  BY DEF CalculateShippingCost, Heavier, BillingWeight
<1>4. PICK c \in Nearest(T, 100) : \E m \in Raised(c, Markup(card)) :
        \E l \in IF via THEN {x + margin.flat : x \in Raised(m, margin.percent)} ELSE {m} :
          /\ cost.carrierCost = c /\ cost.merchantCost = l
          /\ cost.distributorCost = IF via THEN m ELSE c
  BY <1>3 DEF Costs
<1>5. PICK m \in Raised(c, Markup(card)) :
        \E l \in IF via THEN {x + margin.flat : x \in Raised(m, margin.percent)} ELSE {m} :
          /\ cost.carrierCost = c /\ cost.merchantCost = l
          /\ cost.distributorCost = IF via THEN m ELSE c
  BY <1>4
<1>6. m \in Nearest(c * A, 100)
  BY DEF Raised
\* What the enquiry said.
<1>7. QuoteSlab(card.weightSlabs, p.weight) = FindMatchingSlab(card.weightSlabs, p.weight)
  BY DEF QuoteSlab, FindMatchingSlab
<1>8. /\ CalculateRate(card, margin, "SUPER_ADMIN", p) = Nearest(T, 100)
      /\ CalculateRate(card, margin, "DISTRIBUTOR", p) = Nearest(T * A, 10000)
      /\ CalculateRate(card, margin, "DIRECT_MERCHANT", p) = Nearest(T * A, 10000)
      /\ CalculateRate(card, margin, "MERCHANT", p) =
           {x + margin.flat : x \in Nearest(T * A * K, 1000000)}
  BY <1>7 DEF CalculateRate
<1> HIDE DEF T, A, K
<1>9. ASSUME NEW q \in Nearest(T, 100) PROVE Within(q, cost.carrierCost, 1, 1)
  <2>1. /\ q \in Int /\ 2 * (T - q * 100) <= 100 /\ 2 * (q * 100 - T) <= 100
        /\ c \in Int /\ 2 * (T - c * 100) <= 100 /\ 2 * (c * 100 - T) <= 100
    BY <1>1, NearestErr
  <2>2. q - c <= 1 /\ c - q <= 1
    BY <1>1, <2>1
  <2>3. QED
    BY <1>5, <2>1, <2>2 DEF Within
<1>10. ASSUME NEW q \in Nearest(T * A, 10000) PROVE Within(q, m, 200 + A, 200)
  BY <1>1, <1>2, <1>6, OneAgainstTwo
<1>11. ASSUME NEW q \in CalculateRate(card, margin, "MERCHANT", p), via
       PROVE  Within(q, cost.merchantCost, 20000 + K * (200 + Markup(card)), 20000)
  <2>1. PICK x \in Nearest(T * A * K, 1000000) : q = x + margin.flat
    BY <1>8, <1>11
  <2>2. PICK l \in Raised(m, margin.percent) : cost.merchantCost = l + margin.flat
    BY <1>5, <1>11
  <2>3. l \in Nearest(m * K, 100)
    BY <2>2 DEF Raised, K
  <2>4. Within(x + margin.flat, l + margin.flat, 20000 + K * (A + 100), 20000)
    BY <1>1, <1>2, <1>6, <2>1, <2>3, OneAgainstThree
  <2>5. A + 100 = 200 + Markup(card)
    BY <1>2 DEF A
  <2>6. QED
    BY <2>1, <2>2, <2>4, <2>5
<1>12. QED
  BY <1>5, <1>8, <1>9, <1>10, <1>11

\* The quote is the charge, to the rounding: for any rate card and margin that the
\* DTOs let in and any parcel that is not bulkier than heavy.
THEOREM QuotesAreCharged == Spec => []PricesAgree
<1>1. TypeOK => PricesAgree
  BY PlatformAssumption, PricesAreClose DEF TypeOK, PricesAgree, NoForm
<1>2. QED
  BY <1>1, TypeCorrect, PTL

-------------------------------------------------------------------------------
(* Money.                                                                   *)

OnStep(v, p) == \E q \in Int : v = q * StepOf(p)

LEMMA StepsOf ==
  ASSUME NEW v \in Int, NEW p \in {0, 2}
  PROVE  /\ StepOf(p) = (IF p = 0 THEN 1000 ELSE 10)
         /\ p = 0 => (OnStep(v, p) <=> v % 1000 = 0)
         /\ p = 2 => (OnStep(v, p) <=> v % 10 = 0)
<1>1. v % 1000 = 0 <=> \E q \in Int : v = q * 1000
  <2>1. v % 1000 = 0 => v = (v \div 1000) * 1000 /\ v \div 1000 \in Int
    OBVIOUS
  <2>2. QED
    BY <2>1
<1>2. v % 10 = 0 <=> \E q \in Int : v = q * 10
  <2>1. v % 10 = 0 => v = (v \div 10) * 10 /\ v \div 10 \in Int
    OBVIOUS
  <2>2. QED
    BY <2>1
<1>3. QED
  BY <1>1, <1>2 DEF OnStep, StepOf

\* Rounding takes the nearest step, and leaves what stands on a step.
LEMMA RoundingIsNear ==
  ASSUME NEW v \in Int, NEW p \in {0, 2}
  PROVE  /\ StepOf(p) \in {10, 1000}
         /\ RoundTo(v, p) \in Int /\ OnStep(RoundTo(v, p), p)
         /\ 2 * (RoundTo(v, p) - v) <= StepOf(p) /\ 2 * (v - RoundTo(v, p)) < StepOf(p)
         /\ OnStep(v, p) => RoundTo(v, p) = v
         /\ OnStep(v, p) => \A d \in Drift : RoundTo(v + d, p) = v
<1>1. CASE p = 0
  <2>1. StepOf(p) = 1000 /\ RoundTo(v, p) = ((v + 500) \div 1000) * 1000
    BY <1>1 DEF StepOf, RoundTo
  <2>2. PICK q \in Int : q = (v + 500) \div 1000
    OBVIOUS
  <2>3. 1000 * q <= v + 500 /\ v + 500 < 1000 * q + 1000
    BY <2>2
  <2>4. OnStep(q * 1000, p)
    BY <1>1, <2>2 DEF OnStep, StepOf
  <2>5. OnStep(v, p) => q * 1000 = v
    BY <1>1, <2>3, StepsOf
  <2>6. ASSUME OnStep(v, p), NEW d \in Drift PROVE RoundTo(v + d, p) = v
    <3>1. v % 1000 = 0 /\ d \in {-1, 0, 1}
      BY <1>1, <2>6, StepsOf DEF Drift
    <3>2. RoundTo(v + d, p) = ((v + d + 500) \div 1000) * 1000
      BY <1>1 DEF StepOf, RoundTo
    <3>3. QED
      BY <3>1, <3>2
  <2>7. QED
    BY <2>1, <2>2, <2>3, <2>4, <2>5, <2>6, StepsOf
<1>2. CASE p = 2
  <2>1. StepOf(p) = 10 /\ RoundTo(v, p) = ((v + 5) \div 10) * 10
    BY <1>2 DEF StepOf, RoundTo
  <2>2. PICK q \in Int : q = (v + 5) \div 10
    OBVIOUS
  <2>3. 10 * q <= v + 5 /\ v + 5 < 10 * q + 10
    BY <2>2
  <2>4. OnStep(q * 10, p)
    BY <1>2, <2>2 DEF OnStep, StepOf
  <2>5. OnStep(v, p) => q * 10 = v
    BY <1>2, <2>3, StepsOf
  <2>6. ASSUME OnStep(v, p), NEW d \in Drift PROVE RoundTo(v + d, p) = v
    <3>1. v % 10 = 0 /\ d \in {-1, 0, 1}
      BY <1>2, <2>6, StepsOf DEF Drift
    <3>2. RoundTo(v + d, p) = ((v + d + 5) \div 10) * 10
      BY <1>2 DEF StepOf, RoundTo
    <3>3. QED
      BY <3>1, <3>2
  <2>7. QED
    BY <2>1, <2>2, <2>3, <2>4, <2>5, <2>6, StepsOf
<1>3. QED
  BY <1>1, <1>2

\* An amount has no more decimals than the currency when it stands on a step.
LEMMA PreciseOnSteps ==
  ASSUME NEW v \in Int, NEW p \in {0, 2}
  PROVE  /\ Size(v) \in Nat /\ DecimalPlaces(Size(v)) \in 0..3
         /\ Precise(Size(v), p) <=> OnStep(v, p)
         /\ Precise(v, p) <=> OnStep(v, p)
         /\ DecimalPlaces(Size(v)) <= p <=> OnStep(v, p)
<1>1. Size(v) \in Nat /\ Size(Size(v)) = Size(v)
  BY DEF Size
<1>2. DecimalPlaces(Size(v)) \in 0..3
  BY <1>1 DEF DecimalPlaces
<1>3. /\ Size(v) % 1000 = 0 <=> v % 1000 = 0
      /\ Size(v) % 10 = 0 <=> v % 10 = 0
  BY DEF Size
<1>4. DecimalPlaces(Size(v)) <= p <=> Size(v) % StepOf(p) = 0
  BY <1>1 DEF DecimalPlaces, StepOf
<1>5. QED
  BY <1>1, <1>2, <1>3, <1>4, StepsOf DEF Precise, StepOf

\* A step that the code rounded to is safe where the amount was.
LEMMA RoundedIsSafe ==
  ASSUME NEW v \in Int, NEW p \in {0, 2}, Safe(v)
  PROVE  Safe(RoundTo(v, p))
<1>1. CASE p = 2
  <2>1. v % 10 = 0 /\ StepOf(p) = 10
    BY <1>1 DEF Safe, StepOf
  <2>2. OnStep(v, p)
    BY <1>1, <2>1, StepsOf
  <2>3. RoundTo(v, p) = v
    BY <2>2, RoundingIsNear
  <2>4. QED
    BY <2>3
<1>2. CASE p = 0
  <2>1. PICK a \in Int : a = RoundTo(v, p)
    BY RoundingIsNear
  <2>2. a % 1000 = 0
    BY <1>2, <2>1, RoundingIsNear, StepsOf
  <2>3. a % 10 = 0 /\ (Size(a) \div 10) % 100 = 0
    BY <2>1, <2>2 DEF Size
  <2>4. QED
    BY <2>1, <2>3, MoneyAssumption DEF Safe
<1>3. QED
  BY <1>1, <1>2

LEMMA CurrencyHas ==
  ASSUME NEW c \in DOMAIN Currencies
  PROVE  /\ Currencies[c].precision \in {0, 2}
         /\ Currencies[c].subunitRatio = IF Currencies[c].precision = 0 THEN 1 ELSE 100
         /\ Currencies[c].minAmount \in Nat /\ Currencies[c].maxAmount \in Nat
BY MoneyAssumption

LEMMA AcceptedMoney ==
  ASSUME NEW input, NEW c, NEW opts
  PROVE  ValidateMoney(input, c, opts).isValid => MoneyError(input, c, opts) = "none"
BY DEF ValidateMoney, Refused

\* What no check refuses.
LEMMA MoneyPasses ==
  ASSUME NEW input, IsAmount(input), NEW c, NEW opts
  PROVE  MoneyError(input, c, opts) = "none" <=>
           /\ c \in DOMAIN Currencies
           /\ ParseError(input) = "none"
           /\ input.value \in Int /\ Safe(input.value)
           /\ ~(input.value < 0 /\ ~opts.allowNegative)
           /\ ~(input.value = 0 /\ ~opts.allowZero)
           /\ ~(~Precise(input.value, Currencies[c].precision) /\ ~opts.autoRound /\ opts.strict)
           /\ ~(Size(AutoRounded(input.value, c, opts)) < Currencies[c].minAmount)
           /\ ~(Size(AutoRounded(input.value, c, opts)) > Currencies[c].maxAmount)
BY DEF MoneyError, IsAmount

\* What is let through is a step of the currency, near what was given.
LEMMA LetThrough ==
  ASSUME NEW input, IsAmount(input), NEW c, NEW opts \in MoneyOptions,
         MoneySchema(input, c, opts).isValid
  PROVE  /\ c \in DOMAIN Currencies /\ input.value \in Int /\ ParseError(input) = "none"
         /\ MoneyError(input, c, opts) = "none" /\ MoneyError(input, c, Rounding(opts)) = "none"
         /\ MoneySchema(input, c, opts) =
              LET a == RoundTo(input.value, Currencies[c].precision)
              IN [isValid |-> TRUE, amount |-> a, subunits |-> ToSubunits(a, c),
                  decimals |-> DecimalPlaces(Size(a))]
<1>1. ValidateMoney(input, c, opts).isValid /\ ValidateMoney(input, c, Rounding(opts)).isValid
      /\ MoneySchema(input, c, opts) = ValidateMoney(input, c, Rounding(opts))
  BY DEF MoneySchema, NormalizeMoney
<1>2. MoneyError(input, c, opts) = "none" /\ MoneyError(input, c, Rounding(opts)) = "none"
  BY <1>1, AcceptedMoney
<1>3. c \in DOMAIN Currencies /\ input.value \in Int /\ ParseError(input) = "none"
  BY <1>2, MoneyPasses
<1>4. Rounding(opts).autoRound
  BY DEF Rounding, MoneyOptions
<1>5. PICK a \in Int : a = RoundTo(input.value, Currencies[c].precision)
  BY <1>3, CurrencyHas, RoundingIsNear
<1>6. RoundTo(a, Currencies[c].precision) = a
  BY <1>3, <1>5, CurrencyHas, RoundingIsNear
<1>7. AutoRounded(input.value, c, Rounding(opts)) = a
  BY <1>4, <1>5 DEF AutoRounded
<1>8. ValidateMoney(input, c, Rounding(opts)) =
        [isValid |-> TRUE, amount |-> a, subunits |-> ToSubunits(a, c),
         decimals |-> DecimalPlaces(Size(a))]
  BY <1>2, <1>6, <1>7 DEF ValidateMoney
<1>9. QED
  BY <1>1, <1>2, <1>3, <1>5, <1>8

LEMMA MoneyCanonical ==
  ASSUME NEW input, IsAmount(input), NEW c, NEW opts \in MoneyOptions
  PROVE  MoneyIsCanonical(input, c, opts)
<1> SUFFICES ASSUME MoneySchema(input, c, opts).isValid
             PROVE  LET result == MoneySchema(input, c, opts) IN
                      /\ 2 * (result.amount - input.value) <= StepOf(PrecisionOf(c))
                      /\ 2 * (input.value - result.amount) < StepOf(PrecisionOf(c))
                      /\ result.decimals <= PrecisionOf(c)
                      /\ FromSubunits(result.subunits, c) = result.amount
                      /\ result.amount # 0 \/ opts.allowZero =>
                           MoneySchema(Number(result.amount), c, opts) = result
  BY DEF MoneyIsCanonical
<1>0. /\ c \in DOMAIN Currencies
      /\ Currencies[c].subunitRatio = IF Currencies[c].precision = 0 THEN 1 ELSE 100
  BY LetThrough, CurrencyHas
<1>1. PICK p \in {0, 2} : p = Currencies[c].precision /\ PrecisionOf(c) = p
  BY LetThrough, CurrencyHas DEF PrecisionOf
<1>2. PICK v \in Int : v = input.value
  BY LetThrough
<1>3. PICK a \in Int : a = RoundTo(v, p)
  BY RoundingIsNear
<1>4. /\ OnStep(a, p) /\ StepOf(p) \in {10, 1000}
      /\ 2 * (a - v) <= StepOf(p) /\ 2 * (v - a) < StepOf(p) /\ RoundTo(a, p) = a
  <2>1. /\ OnStep(a, p) /\ StepOf(p) \in {10, 1000}
        /\ 2 * (a - v) <= StepOf(p) /\ 2 * (v - a) < StepOf(p)
    <3>1. /\ OnStep(RoundTo(v, p), p) /\ StepOf(p) \in {10, 1000}
          /\ 2 * (RoundTo(v, p) - v) <= StepOf(p) /\ 2 * (v - RoundTo(v, p)) < StepOf(p)
      BY RoundingIsNear
    <3>2. QED
      BY <1>3, <3>1
  <2>2. RoundTo(a, p) = a
    BY <2>1, RoundingIsNear
  <2>3. QED
    BY <2>1, <2>2
<1>5. MoneySchema(input, c, opts) =
        [isValid |-> TRUE, amount |-> a, subunits |-> ToSubunits(a, c),
         decimals |-> DecimalPlaces(Size(a))]
  BY <1>1, <1>2, <1>3, LetThrough
<1>6. 2 * (a - v) <= StepOf(p) /\ 2 * (v - a) < StepOf(p)
  BY <1>4
<1>7. DecimalPlaces(Size(a)) <= p
  BY <1>4, PreciseOnSteps
<1>8. FromSubunits(ToSubunits(a, c), c) = a
  <2>1. CASE p = 0
    <3>1. a % 1000 = 0 /\ Currencies[c].subunitRatio = 1
      BY <1>0, <1>1, <1>4, <2>1, StepsOf
    <3>2. ((a * 1) \div 1000) * 1000 = a
      BY <3>1
    <3>3. PICK n \in Int : n = (a * 1) \div 1000
      OBVIOUS
    <3>4. (n * 1000) \div 1 = n * 1000
      OBVIOUS
    <3>5. QED
      BY <3>1, <3>2, <3>3, <3>4 DEF FromSubunits, ToSubunits
  <2>2. CASE p = 2
    <3>1. a % 10 = 0 /\ Currencies[c].subunitRatio = 100
      BY <1>0, <1>1, <1>4, <2>2, StepsOf
    <3>2. PICK n \in Int : a = 10 * n
      BY <3>1
    <3>3. (a * 100) \div 1000 = n /\ (n * 1000) \div 100 = 10 * n
      BY <3>2
    <3>4. QED
      BY <3>1, <3>2, <3>3 DEF FromSubunits, ToSubunits
  <2>3. QED
    BY <2>1, <2>2
<1>9. ASSUME a # 0 \/ opts.allowZero
      PROVE  MoneySchema(Number(a), c, opts) = MoneySchema(input, c, opts)
  <2>1. /\ Number(a).value = a /\ ParseError(Number(a)) = "none" /\ IsAmount(Number(a))
    BY DEF Number, ParseError, ParseErrors, IsAmount
  <2>2. /\ c \in DOMAIN Currencies /\ Safe(v)
        /\ ~(v < 0 /\ ~opts.allowNegative)
        /\ ~(v = 0 /\ ~opts.allowZero)
        /\ ~(Size(AutoRounded(v, c, Rounding(opts))) < Currencies[c].minAmount)
        /\ ~(Size(AutoRounded(v, c, Rounding(opts))) > Currencies[c].maxAmount)
    BY <1>2, LetThrough, MoneyPasses
  <2>3. Safe(a)
    BY <1>3, <2>2, RoundedIsSafe
  <2>4. ~(a < 0 /\ ~opts.allowNegative)
    <3>1. PICK q \in Int : a = q * StepOf(p)
      BY <1>4 DEF OnStep
    <3>2. v >= 0 => q >= 0
      BY <1>4, <3>1
    <3>3. q >= 0 => a >= 0
      BY <1>4, <3>1
    <3>4. QED
      BY <2>2, <3>2, <3>3
  <2>5. AutoRounded(v, c, Rounding(opts)) = a
    BY <1>1, <1>3 DEF AutoRounded, Rounding, MoneyOptions
  <2>6. Precise(a, Currencies[c].precision)
    BY <1>1, <1>4, PreciseOnSteps
  <2>7. AutoRounded(a, c, opts) = a /\ AutoRounded(a, c, Rounding(opts)) = a
    BY <1>1, <1>4 DEF AutoRounded
  <2>8. MoneyError(Number(a), c, opts) = "none"
    BY <1>9, <2>1, <2>2, <2>3, <2>4, <2>5, <2>6, <2>7, MoneyPasses
  <2>9. Rounding(opts).allowNegative = opts.allowNegative /\ Rounding(opts).allowZero = opts.allowZero
    BY DEF Rounding, MoneyOptions
  <2>10. MoneyError(Number(a), c, Rounding(opts)) = "none"
    BY <1>9, <2>1, <2>2, <2>3, <2>4, <2>5, <2>6, <2>7, <2>9, MoneyPasses
  <2>11. MoneySchema(Number(a), c, opts).isValid
    BY <2>8, <2>10 DEF MoneySchema, NormalizeMoney, ValidateMoney
  <2>12. QED
    BY <1>1, <1>4, <1>5, <2>1, <2>11, LetThrough
<1>10. QED
  BY <1>1, <1>2, <1>5, <1>6, <1>7, <1>8, <1>9

\* Sums and differences of steps need no rounding.
LEMMA SumsExact ==
  ASSUME NEW v \in Int, NEW w \in Int, NEW c
  PROVE  SumsAreExact(v, w, c)
<1>1. PICK p \in {0, 2} : p = PrecisionOf(c)
  BY CurrencyHas DEF PrecisionOf
<1> SUFFICES ASSUME OnStep(v, p), OnStep(w, p), NEW d \in Drift, NEW e \in Drift
             PROVE  /\ SubtractAmounts(AddAmounts(v, w, c, d), w, c, e) = v
                    /\ CompareAmounts(v, w, c, d, e)
                         = CompareAmounts(SubtractAmounts(v, w, c, d), 0, c, e, d)
                    /\ MultiplyAmount(v, 2, c, d) = AddAmounts(v, v, c, e)
  BY <1>1, PreciseOnSteps DEF SumsAreExact
<1>2. OnStep(v + w, p) /\ OnStep(v - w, p) /\ OnStep(v + v, p) /\ OnStep(0, p)
  BY StepsOf
<1>3. /\ v + w \in Int /\ v - w \in Int /\ v + v \in Int /\ 0 \in Int
      /\ (v + w) - w = v /\ v * 2 = v + v
  OBVIOUS
<1>4. ASSUME NEW x \in Int, OnStep(x, p), NEW f \in Drift
      PROVE  RoundTo(x + f, p) = x
  BY <1>4, RoundingIsNear
<1>5. SubtractAmounts(AddAmounts(v, w, c, d), w, c, e) = v
  <2>1. AddAmounts(v, w, c, d) = v + w
    BY <1>1, <1>2, <1>3, <1>4 DEF AddAmounts
  <2>2. RoundTo(((v + w) - w) + e, p) = v
    BY <1>3, <1>4
  <2>3. QED
    BY <1>1, <2>1, <2>2 DEF SubtractAmounts
<1>6. CompareAmounts(v, w, c, d, e) = CompareAmounts(SubtractAmounts(v, w, c, d), 0, c, e, d)
  <2>1. /\ RoundTo(v + d, p) = v /\ RoundTo(w + e, p) = w
        /\ RoundTo((v - w) + d, p) = v - w /\ RoundTo((v - w) + e, p) = v - w
        /\ RoundTo(0 + d, p) = 0
    BY <1>2, <1>3, <1>4
  <2>2. SubtractAmounts(v, w, c, d) = v - w
    BY <1>1, <2>1 DEF SubtractAmounts
  <2>3. /\ CompareAmounts(v, w, c, d, e) = IF v < w THEN -1 ELSE IF v > w THEN 1 ELSE 0
        /\ CompareAmounts(v - w, 0, c, e, d)
             = IF v - w < 0 THEN -1 ELSE IF v - w > 0 THEN 1 ELSE 0
    BY <1>1, <2>1 DEF CompareAmounts
  <2>4. QED
    BY <2>2, <2>3
<1>7. MultiplyAmount(v, 2, c, d) = AddAmounts(v, v, c, e)
  <2>1. RoundTo(v * 2 + d, p) = v + v /\ RoundTo(v + v + e, p) = v + v
    BY <1>2, <1>3, <1>4
  <2>2. QED
    BY <1>1, <2>1 DEF MultiplyAmount, AddAmounts
<1>8. QED
  BY <1>5, <1>6, <1>7

-------------------------------------------------------------------------------
(* Pincodes.                                                                *)

LEMMA PincodePasses ==
  ASSUME NEW input, input.digits \in Seq(0..9), NEW opts
  PROVE  /\ PincodeError(input, opts) = "none" <=> IsPincode(input.digits)
         /\ ValidatePincode(input, opts).isValid <=> IsPincode(input.digits)
         /\ IsPincode(input.digits) =>
              ValidatePincode(input, opts) =
                [isValid |-> TRUE, normalized |-> input.digits, region |-> input.digits[1],
                 special |-> input.digits \in SpecialPincodes]
<1>1. PICK digits \in Seq(0..9) : digits = input.digits
  OBVIOUS
<1>2. CleanPincode(input).digits = digits
  BY <1>1 DEF CleanPincode, Pin
<1>3. /\ IsPincode(digits) => digits # <<>> /\ Region(digits) = digits[1] /\ digits[1] # 0
      /\ PincodeFormat(digits) = "none" <=> IsPincode(digits)
  BY DEF IsPincode, Region, PincodeFormat
<1>4. PincodeError(input, opts) = "none" <=> IsPincode(digits)
  BY <1>2, <1>3 DEF PincodeError
<1>5. QED
  BY <1>1, <1>2, <1>3, <1>4 DEF ValidatePincode, Bad

LEMMA PincodeCanonical ==
  ASSUME NEW input \in PincodeInput, NEW opts
  PROVE  PincodeIsCanonical(input, opts)
<1>1. input.digits \in Seq(0..9)
  BY DEF PincodeInput
<1>2. PICK digits \in Seq(0..9) : digits = input.digits
  BY <1>1
<1>3. IsPincode(digits) <=> Len(digits) = 6 /\ digits[1] # 0
  BY DEF IsPincode
<1>4. CleanPincode(input).digits = digits /\ Grouped(digits).digits = digits
  BY <1>2 DEF CleanPincode, Grouped, Pin
<1>5. PICK clean : clean = CleanPincode(input) /\ clean.digits = digits
  BY <1>4
<1>6. PICK grouped : grouped = Grouped(digits) /\ grouped.digits = digits
  BY <1>4
<1>7. ValidatePincode(input, opts).isValid <=> IsPincode(digits)
  BY <1>1, <1>2, PincodePasses
<1>8. ASSUME IsPincode(digits)
      PROVE  LET result == ValidatePincode(input, opts) IN
               /\ result.region = digits[1]
               /\ PincodeSchema(input, opts) = result
               /\ ValidatePincode(Grouped(result.normalized), opts) = result
  <2>1. ValidatePincode(input, opts) =
          [isValid |-> TRUE, normalized |-> digits, region |-> digits[1],
           special |-> digits \in SpecialPincodes]
    BY <1>1, <1>2, <1>8, PincodePasses
  <2>2. ValidatePincode(clean, opts) = ValidatePincode(input, opts)
    BY <1>5, <1>8, <2>1, PincodePasses
  <2>3. ValidatePincode(grouped, opts) = ValidatePincode(input, opts)
    BY <1>6, <1>8, <2>1, PincodePasses
  <2>4. QED
    BY <1>5, <1>6, <2>1, <2>2, <2>3 DEF PincodeSchema
<1>9. QED
  BY <1>2, <1>3, <1>7, <1>8 DEF PincodeIsCanonical

-------------------------------------------------------------------------------
(* Phone numbers.                                                           *)

LEMMA PrefixIs ==
  ASSUME NEW s \in Seq(Int), NEW head \in Seq(Int)
  PROVE  IsPrefix(s, head) <=> Len(s) <= Len(head) /\ \A i \in 1..Len(s) : head[i] = s[i]
<1>1. CASE Len(s) <= Len(head)
  <2>1. /\ SubSeq(s, 1, Len(s)) = [i \in 1..Len(s) |-> s[i]]
        /\ SubSeq(head, 1, Len(s)) = [i \in 1..Len(s) |-> head[i]]
    BY <1>1
  <2>2. QED
    BY <1>1, <2>1 DEF IsPrefix
<1>2. QED
  BY <1>1 DEF IsPrefix

\* Numbers in which no letter stands, also those that cleaning makes of them.
Numbers == [plus : BOOLEAN, head : Seq(0..9), length : Int]

LEMMA HeadOf ==
  ASSUME NEW p \in Numbers
  PROVE  /\ p.plus \in BOOLEAN /\ p.head \in Seq(0..9) /\ p.head \in Seq(Int) /\ p.length \in Int
         /\ Len(p.head) \in Nat /\ ~Contains(p.head, Letter)
         /\ p = [plus |-> p.plus, head |-> p.head, length |-> p.length]
<1>1. p.plus \in BOOLEAN /\ p.head \in Seq(0..9) /\ p.length \in Int
      /\ p = [plus |-> p.plus, head |-> p.head, length |-> p.length]
  BY DEF Numbers
<1>2. PICK h \in Seq(0..9) : h = p.head
  BY <1>1
<1>3. h \in Seq(Int) /\ Len(h) \in Nat /\ \A i \in 1..Len(h) : h[i] \in 0..9
  OBVIOUS
<1>4. ~Contains(h, Letter)
  BY <1>3 DEF Contains, Letter
<1>5. QED
  BY <1>1, <1>2, <1>3, <1>4

LEMMA StripIs ==
  ASSUME NEW p \in Numbers, NEW n \in 1..4, Len(p.head) >= n
  PROVE  /\ Strip(p, n) \in Numbers /\ ~Strip(p, n).plus /\ Strip(p, n).length = p.length - n
         /\ Len(Strip(p, n).head) = Len(p.head) - n
         /\ \A i \in 1 .. Len(p.head) - n : Strip(p, n).head[i] = p.head[i + n]
<1>1. PICK h \in Seq(0..9) : h = p.head
  BY HeadOf
<1>2. PICK t : t = SubSeq(h, n + 1, Len(h))
  OBVIOUS
<1>3. /\ t \in Seq(0..9) /\ Len(t) = Len(h) - n
      /\ \A i \in 1 .. Len(h) - n : t[i] = h[i + n]
  BY <1>1, <1>2
<1>4. Strip(p, n) = [plus |-> FALSE, head |-> t, length |-> p.length - n]
  BY <1>1, <1>2 DEF Strip, Digits
<1>5. p.length - n \in Int
  BY HeadOf
<1>6. QED
  BY <1>1, <1>3, <1>4, <1>5 DEF Numbers

LEMMA WithCodeIs ==
  ASSUME NEW p \in Numbers
  PROVE  /\ WithCode(p) \in Numbers /\ WithCode(p).plus /\ WithCode(p).length = p.length + 2
         /\ Len(WithCode(p).head) = Len(p.head) + 2
         /\ WithCode(p).head[1] = 9 /\ WithCode(p).head[2] = 1
         /\ \A i \in 1..Len(p.head) : WithCode(p).head[i + 2] = p.head[i]
<1>1. PICK h \in Seq(0..9) : h = p.head
  BY HeadOf
<1>2. PICK t : t = <<9, 1>> \o h
  OBVIOUS
<1>3. /\ <<9, 1>> \in Seq(0..9) /\ Len(<<9, 1>>) = 2 /\ <<9, 1>>[1] = 9 /\ <<9, 1>>[2] = 1
      /\ Len(h) \in Nat
  OBVIOUS
<1>4. /\ t \in Seq(0..9) /\ Len(t) = Len(h) + 2 /\ t[1] = 9 /\ t[2] = 1
      /\ \A i \in 1..Len(h) : t[i + 2] = h[i]
  BY <1>2, <1>3
<1>5. WithCode(p) = [plus |-> TRUE, head |-> t, length |-> p.length + 2] /\ p.length + 2 \in Int
  BY <1>1, <1>2, HeadOf DEF WithCode, Digits
<1>6. QED
  BY <1>1, <1>4, <1>5 DEF Numbers

\* Two numbers with the same digits are the same number.
LEMMA SameNumber ==
  ASSUME NEW p \in Numbers, NEW q \in Numbers, p.plus = q.plus, p.length = q.length,
         Len(p.head) = Len(q.head), \A i \in 1..Len(p.head) : p.head[i] = q.head[i]
  PROVE  p = q
<1>1. p.head = q.head
  BY HeadOf
<1>2. QED
  BY <1>1, HeadOf

\* The tests of the first digits, without prefixes.
LEMMA StartsIs ==
  ASSUME NEW p \in Numbers
  PROVE  /\ Starts(p, <<0>>) <=> ~p.plus /\ Len(p.head) >= 1 /\ p.head[1] = 0
         /\ Starts(p, <<9, 1>>) <=> ~p.plus /\ Len(p.head) >= 2 /\ p.head[1] = 9 /\ p.head[2] = 1
         /\ IsPrefix(<<9, 1>>, p.head) <=> Len(p.head) >= 2 /\ p.head[1] = 9 /\ p.head[2] = 1
         /\ Starts(p, <<0, 9, 1>>) <=>
              ~p.plus /\ Len(p.head) >= 3 /\ p.head[1] = 0 /\ p.head[2] = 9 /\ p.head[3] = 1
         /\ Starts(p, <<0, 0, 9, 1>>) <=>
              ~p.plus /\ Len(p.head) >= 4 /\ p.head[1] = 0 /\ p.head[2] = 0
                      /\ p.head[3] = 9 /\ p.head[4] = 1
<1>1. PICK h \in Seq(Int) : h = p.head
  BY HeadOf
<1>2. IsPrefix(<<0>>, h) <=> Len(h) >= 1 /\ h[1] = 0
  <2>1. <<0>> \in Seq(Int) /\ Len(<<0>>) = 1
    OBVIOUS
  <2>2. <<0>>[1] = 0
    OBVIOUS
  <2>3. PICK s \in Seq(Int) : s = <<0>> /\ Len(s) = 1 /\ s[1] = 0
    BY <2>1, <2>2, Zenon
  <2>4. IsPrefix(s, h) <=> Len(s) <= Len(h) /\ \A i \in 1..Len(s) : h[i] = s[i]
    BY PrefixIs
  <2>5. 1..1 = {1} /\ Len(h) \in Nat
    OBVIOUS
  <2>6. (\A i \in 1..1 : h[i] = s[i]) <=> h[1] = 0
    BY <2>3, <2>5
  <2>7. QED
    BY <2>3, <2>4, <2>5, <2>6
<1>3. IsPrefix(<<9, 1>>, h) <=> Len(h) >= 2 /\ h[1] = 9 /\ h[2] = 1
  <2>1. <<9, 1>> \in Seq(Int) /\ Len(<<9, 1>>) = 2
    OBVIOUS
  <2>2. <<9, 1>>[1] = 9 /\ <<9, 1>>[2] = 1
    OBVIOUS
  <2>3. PICK s \in Seq(Int) : s = <<9, 1>> /\ Len(s) = 2 /\ s[1] = 9 /\ s[2] = 1
    BY <2>1, <2>2, Zenon
  <2>4. IsPrefix(s, h) <=> Len(s) <= Len(h) /\ \A i \in 1..Len(s) : h[i] = s[i]
    BY PrefixIs
  <2>5. 1..2 = {1, 2} /\ Len(h) \in Nat
    OBVIOUS
  <2>6. (\A i \in 1..2 : h[i] = s[i]) <=> h[1] = 9 /\ h[2] = 1
    BY <2>3, <2>5
  <2>7. QED
    BY <2>3, <2>4, <2>5, <2>6
<1>4. IsPrefix(<<0, 9, 1>>, h) <=> Len(h) >= 3 /\ h[1] = 0 /\ h[2] = 9 /\ h[3] = 1
  <2>1. <<0, 9, 1>> \in Seq(Int) /\ Len(<<0, 9, 1>>) = 3
    OBVIOUS
  <2>2. <<0, 9, 1>>[1] = 0 /\ <<0, 9, 1>>[2] = 9 /\ <<0, 9, 1>>[3] = 1
    OBVIOUS
  <2>3. PICK s \in Seq(Int) : s = <<0, 9, 1>> /\ Len(s) = 3 /\ s[1] = 0 /\ s[2] = 9 /\ s[3] = 1
    BY <2>1, <2>2, Zenon
  <2>4. IsPrefix(s, h) <=> Len(s) <= Len(h) /\ \A i \in 1..Len(s) : h[i] = s[i]
    BY PrefixIs
  <2>5. 1..3 = {1, 2, 3} /\ Len(h) \in Nat
    OBVIOUS
  <2>6. (\A i \in 1..3 : h[i] = s[i]) <=> h[1] = 0 /\ h[2] = 9 /\ h[3] = 1
    BY <2>3, <2>5
  <2>7. QED
    BY <2>3, <2>4, <2>5, <2>6
<1>5. IsPrefix(<<0, 0, 9, 1>>, h) <=> Len(h) >= 4 /\ h[1] = 0 /\ h[2] = 0 /\ h[3] = 9 /\ h[4] = 1
  <2>1. <<0, 0, 9, 1>> \in Seq(Int) /\ Len(<<0, 0, 9, 1>>) = 4
    OBVIOUS
  <2>2. <<0, 0, 9, 1>>[1] = 0 /\ <<0, 0, 9, 1>>[2] = 0 /\ <<0, 0, 9, 1>>[3] = 9 /\ <<0, 0, 9, 1>>[4] = 1
    OBVIOUS
  <2>3. PICK s \in Seq(Int) : s = <<0, 0, 9, 1>> /\ Len(s) = 4 /\ s[1] = 0 /\ s[2] = 0 /\ s[3] = 9 /\ s[4] = 1
    BY <2>1, <2>2, Zenon
  <2>4. IsPrefix(s, h) <=> Len(s) <= Len(h) /\ \A i \in 1..Len(s) : h[i] = s[i]
    BY PrefixIs
  <2>5. 1..4 = {1, 2, 3, 4} /\ Len(h) \in Nat
    OBVIOUS
  <2>6. (\A i \in 1..4 : h[i] = s[i]) <=> h[1] = 0 /\ h[2] = 0 /\ h[3] = 9 /\ h[4] = 1
    BY <2>3, <2>5
  <2>7. QED
    BY <2>3, <2>4, <2>5, <2>6
<1>6. QED
  BY <1>1, <1>2, <1>3, <1>4, <1>5 DEF Starts

LEMMA CleaningKeepsDigits ==
  ASSUME NEW p \in Numbers
  PROVE  /\ CleanPhone(p) \in Numbers
         /\ p.plus => CleanPhone(p) = p
         /\ Internationally(p) \in Numbers
<1>1. p.plus => CleanPhone(p) = p
  BY DEF CleanPhone, Starts, TakenForCoded
<1>2. ASSUME NEW n \in 1..4, Len(p.head) >= n
      PROVE  Strip(p, n) \in Numbers /\ WithCode(Strip(p, n)) \in Numbers
  <2>1. PICK m \in Numbers : m = Strip(p, n)
    BY <1>2, StripIs
  <2>2. QED
    BY <2>1, WithCodeIs
<1>3. Starts(p, <<0, 0, 9, 1>>) => WithCode(Strip(p, 4)) \in Numbers
  BY <1>2, StartsIs
<1>4. Starts(p, <<0, 9, 1>>) => WithCode(Strip(p, 3)) \in Numbers
  BY <1>2, StartsIs
<1>5. /\ TakenForCoded(p) => WithCode(Strip(p, 2)) \in Numbers
      /\ Starts(p, <<0>>) => Strip(p, 1) \in Numbers
  BY <1>2, StartsIs DEF TakenForCoded
<1>6. CleanPhone(p) \in Numbers
  BY <1>3, <1>4, <1>5 DEF CleanPhone
<1>7. Internationally(p) \in Numbers
  BY DEF Internationally, Numbers
<1>8. QED
  BY <1>1, <1>6, <1>7

\* A mobile number in normal form is cleaned, recognised and accepted as it is.
LEMMA NormalFormStays ==
  ASSUME NEW n \in Numbers, IsMobile(n)
  PROVE  /\ CleanPhone(WithCode(n)) = WithCode(n)
         /\ IndianNational(WithCode(n)) = n /\ n # NoNumber /\ n.length = 10
<1>1. PICK p \in Numbers : p = WithCode(n)
  BY WithCodeIs
<1>2. ~n.plus /\ Len(n.head) \in Nat /\ Len(n.head) > 0 /\ n.head[1] \in 6..9 /\ n.length = 10
  BY HeadOf DEF IsMobile, MobileAfter
<1>3. /\ p.plus /\ p.length = 12 /\ Len(p.head) = Len(n.head) + 2
      /\ p.head[1] = 9 /\ p.head[2] = 1
      /\ \A i \in 1..Len(n.head) : p.head[i + 2] = n.head[i]
  BY <1>1, <1>2, WithCodeIs
<1>4. p.head[3] = n.head[1]
  <2>1. 1 \in 1..Len(n.head) /\ 1 + 2 = 3
    BY <1>2
  <2>2. QED
    BY <1>3, <2>1
<1>5. MobileAfter(p, 2) /\ IsPrefix(<<9, 1>>, p.head) /\ ~IsMobile(p)
  BY <1>2, <1>3, <1>4, StartsIs DEF MobileAfter, IsMobile
<1>6. IndianNational(p) = Strip(p, 2)
  BY <1>3, <1>5 DEF IndianNational
<1>7. Strip(p, 2) = n
  <2>1. PICK m \in Numbers : m = Strip(p, 2)
    BY <1>2, <1>3, StripIs
  <2>2. ~m.plus /\ m.length = 10 /\ Len(m.head) = Len(n.head)
    BY <1>2, <1>3, <2>1, StripIs
  <2>3. \A i \in 1..Len(n.head) : m.head[i] = n.head[i]
    <3>1. Len(p.head) >= 2 /\ 2 \in 1..4 /\ Len(p.head) - 2 = Len(n.head)
      BY <1>2, <1>3
    <3>2. \A i \in 1 .. Len(p.head) - 2 : m.head[i] = p.head[i + 2]
      BY <2>1, <3>1, StripIs
    <3>3. QED
      BY <1>3, <3>1, <3>2
  <2>4. m.plus = n.plus
    BY <1>2, <2>2, HeadOf
  <2>5. QED
    BY <1>2, <2>1, <2>2, <2>3, <2>4, SameNumber
<1>8. n # NoNumber
  BY <1>2 DEF NoNumber, Digits
<1>9. CleanPhone(p) = p
  BY <1>3, CleaningKeepsDigits
<1>10. QED
  BY <1>1, <1>2, <1>6, <1>7, <1>8, <1>9

\* What is recognised as Indian is a mobile number of ten digits.
LEMMA NationalIsMobile ==
  ASSUME NEW p \in Numbers, IndianNational(p) # NoNumber
  PROVE  IndianNational(p) \in Numbers /\ IsMobile(IndianNational(p))
<1>1. ASSUME NEW k \in {2, 4}, Len(p.head) >= k, MobileAfter(p, k), p.length = k + 10
      PROVE  Strip(p, k) \in Numbers /\ IsMobile(Strip(p, k))
  <2>1. PICK m \in Numbers : m = Strip(p, k)
    BY <1>1, StripIs
  <2>2. /\ ~m.plus /\ m.length = 10 /\ Len(m.head) = Len(p.head) - k
        /\ \A i \in 1 .. Len(p.head) - k : m.head[i] = p.head[i + k]
    <3>1. k \in 1..4 /\ p.length \in Int
      BY HeadOf
    <3>2. /\ ~m.plus /\ m.length = p.length - k /\ Len(m.head) = Len(p.head) - k
          /\ \A i \in 1 .. Len(p.head) - k : m.head[i] = p.head[i + k]
      BY <1>1, <2>1, <3>1, StripIs
    <3>3. QED
      BY <1>1, <3>1, <3>2
  <2>3. Len(p.head) > k /\ p.head[k + 1] \in 6..9 /\ Len(p.head) \in Nat
    BY <1>1, HeadOf DEF MobileAfter
  <2>4. 1 \in 1 .. Len(p.head) - k /\ 1 + k = k + 1
    BY <2>3
  <2>5. MobileAfter(m, 0)
    BY <2>2, <2>3, <2>4 DEF MobileAfter
  <2>6. QED
    BY <2>1, <2>2, <2>5, HeadOf DEF IsMobile
<1>2. CASE IsMobile(p)
  BY <1>2 DEF IndianNational
<1>3. CASE ~IsMobile(p) /\ IndianNational(p) = Strip(p, 2)
           /\ IsPrefix(<<9, 1>>, p.head) /\ MobileAfter(p, 2) /\ p.length = 12
  BY <1>1, <1>3, StartsIs
<1>4. CASE ~IsMobile(p) /\ IndianNational(p) = Strip(p, 4)
           /\ Starts(p, <<0, 0, 9, 1>>) /\ MobileAfter(p, 4) /\ p.length = 14
  BY <1>1, <1>4, StartsIs
<1>5. QED
  BY <1>2, <1>3, <1>4 DEF IndianNational, LooksCoded, Starts

IndianResult(n) ==
  [isValid |-> TRUE, type |-> "indian_mobile", code |-> <<9, 1>>,
   national |-> n, normalized |-> WithCode(n)]

\* A number recognised as Indian is accepted, whatever the options.
LEMMA IndianIsAccepted ==
  ASSUME NEW p \in Numbers, NEW opts, ~(p.length = 0 /\ ~p.plus),
         IndianNational(CleanPhone(p)) # NoNumber
  PROVE  /\ ValidatePhone(p, opts) = IndianResult(IndianNational(CleanPhone(p)))
         /\ ValidateIndianMobile(CleanPhone(p)).isValid
<1>1. ValidateIndianMobile(CleanPhone(p)) = IndianResult(IndianNational(CleanPhone(p)))
  BY DEF ValidateIndianMobile, IndianResult
<1>2. IndianResult(IndianNational(CleanPhone(p))).isValid
  BY DEF IndianResult
<1>3. QED
  BY <1>1, <1>2, HeadOf DEF ValidatePhone

\* Given the + that makes it international, a number is no more Indian than before.
LEMMA AbroadIsNotIndian ==
  ASSUME NEW p \in Numbers, IndianNational(p) = NoNumber
  PROVE  /\ IndianNational(Internationally(p)) = NoNumber
         /\ Internationally(p).plus => Internationally(Internationally(p)) = Internationally(p)
<1>1. CASE Internationally(p) = p
  BY <1>1
<1>2. CASE Internationally(p) # p
  <2>1. PICK q \in Numbers : q = Internationally(p)
    BY CleaningKeepsDigits
  <2>2. ~p.plus /\ q.plus /\ q.head = p.head /\ q.length = p.length
    BY <1>2, <2>1 DEF Internationally, Numbers
  <2>3. ~IsMobile(q) /\ ~LooksCoded(q) /\ ~Starts(q, <<0, 0, 9, 1>>)
    BY <2>2 DEF IsMobile, LooksCoded, Starts
  <2>4. ASSUME IsPrefix(<<9, 1>>, q.head), MobileAfter(q, 2), q.length = 12 PROVE FALSE
    <3>1. ~IsMobile(p) /\ LooksCoded(p)
      BY <2>2, <2>4 DEF IsMobile, LooksCoded, Starts, MobileAfter
    <3>2. IndianNational(p) = Strip(p, 2)
      BY <2>2, <3>1 DEF IndianNational
    <3>3. Strip(p, 2).length = 10 /\ NoNumber.length = 0
      BY <2>2, <2>4 DEF Strip, NoNumber, Digits
    <3>4. QED
      BY <3>2, <3>3
  <2>5. IndianNational(q) = NoNumber
    BY <2>3, <2>4 DEF IndianNational
  <2>6. Internationally(q) = q
    BY <2>2 DEF Internationally
  <2>7. QED
    BY <2>1, <2>5, <2>6
<1>3. QED
  BY <1>1, <1>2

LEMMA SameSequence ==
  ASSUME NEW S, NEW u \in Seq(S), NEW w \in Seq(S), Len(u) = Len(w),
         \A i \in 1..Len(u) : u[i] = w[i]
  PROVE  u = w
OBVIOUS

LEMMA DigitsOnly ==
  ASSUME NEW input \in PhoneInput, ~Contains(input.head, Letter)
  PROVE  input \in Numbers
<1>1. PICK h \in Seq(0..Letter) : h = input.head /\ ~Contains(h, Letter)
  BY DEF PhoneInput
<1>2. \A i \in 1..Len(h) : h[i] \in 0..9
  BY <1>1 DEF Contains, Letter
<1>3. h \in Seq(0..9)
  <2>1. h = [i \in 1..Len(h) |-> h[i]] /\ Len(h) \in Nat
    OBVIOUS
  <2>2. PICK g : g = [i \in 1..Len(h) |-> h[i]]
    OBVIOUS
  <2>3. g \in Seq(0..9)
    BY <1>2, <2>1, <2>2
  <2>4. QED
    BY <2>1, <2>2, <2>3
<1>4. QED
  BY <1>1, <1>3 DEF PhoneInput, Numbers

LEMMA PhoneCanonical ==
  ASSUME NEW input \in PhoneInput, NEW opts
  PROVE  PhoneIsCanonical(input, opts)
<1> DEFINE result == ValidatePhone(input, opts)
           cleaned == CleanPhone(input)
           abroad == Internationally(cleaned)
           foreign == ValidateInternational(abroad)
<1> SUFFICES ASSUME result.isValid
             PROVE  /\ ValidatePhone(result.normalized, opts) = result
                    /\ CountryInfo(result) # <<>> =>
                         result.national.length \in CountryInfo(result).min..CountryInfo(result).max
  BY DEF PhoneIsCanonical
<1>1. ~(input.length = 0 /\ ~input.plus) /\ ~Contains(input.head, Letter)
  BY DEF ValidatePhone, Invalid
<1>2. input \in Numbers
  BY <1>1, DigitsOnly
<1>3. cleaned \in Numbers /\ abroad \in Numbers
  BY <1>2, CleaningKeepsDigits
<1>4. CASE IndianNational(cleaned) # NoNumber
  <2>1. PICK n \in Numbers : n = IndianNational(cleaned) /\ IsMobile(n)
    BY <1>3, <1>4, NationalIsMobile
  <2>2. result = IndianResult(n)
    BY <1>1, <1>2, <1>4, <2>1, IndianIsAccepted
  <2>3. PICK p \in Numbers : p = WithCode(n) /\ p.plus
    BY WithCodeIs
  <2>4. CleanPhone(p) = p /\ IndianNational(p) = n /\ n # NoNumber /\ n.length = 10
    BY <2>1, <2>3, NormalFormStays
  <2>5. ValidatePhone(p, opts) = IndianResult(n)
    BY <2>3, <2>4, IndianIsAccepted
  <2>6. CountryInfo(result) = Countries[<<9, 1>>]
    BY <2>2, CountriesAssumption DEF CountryInfo, IndianResult
  <2>7. result.normalized = p /\ result.national = n
    BY <2>2, <2>3 DEF IndianResult
  <2>8. QED
    BY <2>2, <2>4, <2>5, <2>6, <2>7, CountriesAssumption
<1>5. CASE IndianNational(cleaned) = NoNumber
  <2>1. ~ValidateIndianMobile(cleaned).isValid
    BY <1>5 DEF ValidateIndianMobile, Invalid
  <2>2. /\ result = foreign /\ foreign.isValid
        /\ ~opts.requireIndian /\ opts.allowInternational /\ abroad.plus
    BY <1>1, <2>1 DEF ValidatePhone, Invalid
  <2>3. /\ ~(abroad.length = 0 /\ ~abroad.plus) /\ ~Contains(abroad.head, Letter)
        /\ CleanPhone(abroad) = abroad /\ Internationally(abroad) = abroad
    BY <1>3, <1>5, <2>2, HeadOf, CleaningKeepsDigits, AbroadIsNotIndian
  <2>4. ~ValidateIndianMobile(abroad).isValid
    BY <1>3, <1>5, AbroadIsNotIndian DEF ValidateIndianMobile, Invalid
  <2>5. ValidatePhone(abroad, opts) = foreign
    BY <2>2, <2>3, <2>4 DEF ValidatePhone
  <2>6. foreign.normalized = abroad /\ foreign.code \in DOMAIN Countries
        /\ foreign.national.length \in Countries[foreign.code].min .. Countries[foreign.code].max
    <3>1. CodesOf(abroad) # {}
      BY <2>2 DEF ValidateInternational, Invalid
    <3>2. CodesOf(abroad) \in SUBSET Nat
      BY DEF CodesOf
    <3>3. PICK n : n = CHOOSE m \in CodesOf(abroad) : \A o \in CodesOf(abroad) : m <= o
      OBVIOUS
    <3>4. n \in CodesOf(abroad)
      BY <3>1, <3>2, <3>3, LeastNumber
    <3>5. PICK code : code = SubSeq(abroad.head, 1, n) /\ code \in DOMAIN Countries
      BY <3>4 DEF CodesOf
    <3>6. /\ Strip(abroad, n).length \in Countries[code].min .. Countries[code].max
          /\ foreign = [isValid |-> TRUE, type |-> "international", code |-> code,
                        national |-> Strip(abroad, n), normalized |-> abroad]
      BY <2>2, <3>1, <3>3, <3>5 DEF ValidateInternational, Invalid
    <3>7. QED
      BY <3>5, <3>6
  <2>7. QED
    BY <2>2, <2>5, <2>6 DEF CountryInfo
<1>6. QED
  BY <1>4, <1>5

\* However a mobile number is introduced, it is cleaned to a form of which the
\* national part is the number itself.
LEMMA IntroducedIs ==
  ASSUME NEW m \in Numbers, IsMobile(m), NEW p \in Numbers, NEW k \in 1..4,
         p.length = k + 10, Len(p.head) = Len(m.head) + k,
         \A i \in 1..Len(m.head) : p.head[i + k] = m.head[i]
  PROVE  /\ Strip(p, k) = m /\ MobileAfter(p, k) /\ Len(p.head) \in Nat /\ Len(p.head) > k
         /\ p.head[k + 1] \in 6..9
<1>1. ~m.plus /\ Len(m.head) \in Nat /\ Len(m.head) > 0 /\ m.head[1] \in 6..9 /\ m.length = 10
  BY HeadOf DEF IsMobile, MobileAfter
<1>2. PICK s \in Numbers : s = Strip(p, k)
  BY <1>1, StripIs
<1>3. /\ ~s.plus /\ s.length = p.length - k /\ Len(s.head) = Len(p.head) - k
      /\ \A i \in 1 .. Len(p.head) - k : s.head[i] = p.head[i + k]
  <2>1. Len(p.head) >= k
    BY <1>1
  <2>2. QED
    BY <1>2, <2>1, StripIs
<1>4. s.plus = m.plus /\ s.length = m.length /\ Len(s.head) = Len(m.head)
  <2>1. s.plus \in BOOLEAN /\ m.plus \in BOOLEAN
    BY HeadOf
  <2>2. QED
    BY <1>1, <1>3, <2>1
<1>5. \A i \in 1..Len(s.head) : s.head[i] = m.head[i]
  BY <1>1, <1>3, <1>4
<1>6. s = m
  BY <1>4, <1>5, SameNumber
<1>7. 1 \in 1..Len(m.head) /\ 1 + k = k + 1
  BY <1>1
<1>8. MobileAfter(p, k)
  BY <1>1, <1>7 DEF MobileAfter
<1>9. QED
  BY <1>1, <1>2, <1>6, <1>7, <1>8

\* A mobile number after what a spelling puts before it.
Follows(p, m, k) ==
  /\ p.plus = FALSE /\ p.length = k + 10 /\ Len(p.head) = Len(m.head) + k
  /\ \A i \in 1..Len(m.head) : p.head[i + k] = m.head[i]

\* What is put before a number, without a +.
LEMMA Introduced ==
  ASSUME NEW m \in Numbers, NEW s \in Seq(0..9), NEW n \in Nat, n = Len(s) + 10
  PROVE  LET p == Digits(FALSE, s \o m.head, n) IN
           p \in Numbers /\ Follows(p, m, Len(s)) /\ \A i \in 1..Len(s) : p.head[i] = s[i]
<1>1. PICK h \in Seq(0..9) : h = m.head
  BY HeadOf
<1>2. PICK t : t = s \o h
  OBVIOUS
<1>3. /\ t \in Seq(0..9) /\ Len(t) = Len(h) + Len(s)
      /\ \A i \in 1..Len(s) : t[i] = s[i]
      /\ \A i \in 1..Len(h) : t[i + Len(s)] = h[i]
  BY <1>2
<1>4. PICK p : p = [plus |-> FALSE, head |-> t, length |-> n]
  OBVIOUS
<1>5. p \in Numbers /\ p.plus = FALSE /\ p.head = t /\ p.length = n
  BY <1>3, <1>4 DEF Numbers
<1>6. Digits(FALSE, s \o m.head, n) = p
  BY <1>1, <1>2, <1>4 DEF Digits
<1>7. Follows(p, m, Len(s)) /\ \A i \in 1..Len(s) : p.head[i] = s[i]
  BY <1>1, <1>3, <1>5 DEF Follows
<1>8. QED
  BY <1>5, <1>6, <1>7

LEMMA FollowsIs ==
  ASSUME NEW m \in Numbers, IsMobile(m), NEW p \in Numbers, NEW k \in 1..4, Follows(p, m, k)
  PROVE  /\ Strip(p, k) = m /\ MobileAfter(p, k) /\ p.head[k + 1] \in 6..9
         /\ p.plus = FALSE /\ p.length = k + 10
         /\ Len(p.head) \in Nat /\ Len(p.head) > k
<1>1. /\ p.plus = FALSE /\ p.length = k + 10 /\ Len(p.head) = Len(m.head) + k
      /\ \A i \in 1..Len(m.head) : p.head[i + k] = m.head[i]
  BY DEF Follows
<1>2. QED
  BY <1>1, IntroducedIs

LEMMA CleanedIsAccepted ==
  ASSUME NEW m \in Numbers, IsMobile(m), NEW opts, NEW p \in Numbers, p.length # 0,
         CleanPhone(p) = WithCode(m) \/ CleanPhone(p) = m
  PROVE  ValidatePhone(p, opts) = IndianResult(m)
<1>1. IndianNational(WithCode(m)) = m /\ m # NoNumber
  BY NormalFormStays
<1>2. IndianNational(m) = m
  BY DEF IndianNational
<1>3. IndianNational(CleanPhone(p)) = m
  BY <1>1, <1>2
<1>4. QED
  BY <1>1, <1>3, IndianIsAccepted

LEMMA SpellingsAreRead ==
  ASSUME NEW m \in Numbers, IsMobile(m), NEW opts, NEW p \in Numbers
  PROVE  /\ Follows(p, m, 1) /\ p.head[1] = 0 => ValidatePhone(p, opts) = IndianResult(m)
         /\ Follows(p, m, 2) /\ p.head[1] = 9 /\ p.head[2] = 1
              => ValidatePhone(p, opts) = IndianResult(m)
         /\ Follows(p, m, 3) /\ p.head[1] = 0 /\ p.head[2] = 9 /\ p.head[3] = 1
              => ValidatePhone(p, opts) = IndianResult(m)
         /\ Follows(p, m, 4) /\ p.head[1] = 0 /\ p.head[2] = 0 /\ p.head[3] = 9 /\ p.head[4] = 1
              => ValidatePhone(p, opts) = IndianResult(m)
<1>0. /\ Starts(p, <<0>>) <=> ~p.plus /\ Len(p.head) >= 1 /\ p.head[1] = 0
      /\ Starts(p, <<9, 1>>) <=> ~p.plus /\ Len(p.head) >= 2 /\ p.head[1] = 9 /\ p.head[2] = 1
      /\ Starts(p, <<0, 9, 1>>) <=>
           ~p.plus /\ Len(p.head) >= 3 /\ p.head[1] = 0 /\ p.head[2] = 9 /\ p.head[3] = 1
      /\ Starts(p, <<0, 0, 9, 1>>) <=>
           ~p.plus /\ Len(p.head) >= 4 /\ p.head[1] = 0 /\ p.head[2] = 0 /\ p.head[3] = 9 /\ p.head[4] = 1
  BY StartsIs
<1>1. ASSUME Follows(p, m, 1), p.head[1] = 0
      PROVE  ValidatePhone(p, opts) = IndianResult(m)
  <2>1. /\ Strip(p, 1) = m /\ MobileAfter(p, 1) /\ p.head[2] \in 6..9
        /\ p.plus = FALSE /\ p.length = 11 /\ Len(p.head) \in Nat /\ Len(p.head) > 1
    <3>1. 1 \in 1..4 /\ 1 + 1 = 2 /\ 1 + 10 = 11
      OBVIOUS
    <3>2. QED
      BY <1>1, <3>1, FollowsIs
  <2>2. Starts(p, <<0>>) /\ ~Starts(p, <<9, 1>>) /\ ~Starts(p, <<0, 0, 9, 1>>)
    BY <1>0, <1>1, <2>1
  <2>3. CleanPhone(p) = m
    BY <2>1, <2>2 DEF CleanPhone, TakenForCoded
  <2>4. QED
    BY <2>1, <2>3, CleanedIsAccepted
<1>2. ASSUME Follows(p, m, 2), p.head[1] = 9, p.head[2] = 1
      PROVE  ValidatePhone(p, opts) = IndianResult(m)
  <2>1. /\ Strip(p, 2) = m /\ MobileAfter(p, 2)
        /\ p.plus = FALSE /\ p.length = 12 /\ Len(p.head) \in Nat /\ Len(p.head) > 2
    <3>1. 2 \in 1..4 /\ 2 + 10 = 12
      OBVIOUS
    <3>2. QED
      BY <1>2, <3>1, FollowsIs
  <2>2. Starts(p, <<9, 1>>) /\ ~Starts(p, <<0, 9, 1>>) /\ ~Starts(p, <<0, 0, 9, 1>>)
    BY <1>0, <1>2, <2>1
  <2>3. CleanPhone(p) = WithCode(m)
    BY <2>1, <2>2 DEF CleanPhone, TakenForCoded
  <2>4. QED
    BY <2>1, <2>3, CleanedIsAccepted
<1>3. ASSUME Follows(p, m, 3), p.head[1] = 0, p.head[2] = 9, p.head[3] = 1
      PROVE  ValidatePhone(p, opts) = IndianResult(m)
  <2>1. /\ Strip(p, 3) = m /\ MobileAfter(p, 3)
        /\ p.plus = FALSE /\ p.length = 13 /\ Len(p.head) \in Nat /\ Len(p.head) > 3
    <3>1. 3 \in 1..4 /\ 3 + 10 = 13
      OBVIOUS
    <3>2. QED
      BY <1>3, <3>1, FollowsIs
  <2>2. Starts(p, <<0, 9, 1>>) /\ ~Starts(p, <<0, 0, 9, 1>>)
    BY <1>0, <1>3, <2>1
  <2>3. CleanPhone(p) = WithCode(m)
    BY <2>1, <2>2 DEF CleanPhone
  <2>4. QED
    BY <2>1, <2>3, CleanedIsAccepted
<1>4. ASSUME Follows(p, m, 4), p.head[1] = 0, p.head[2] = 0, p.head[3] = 9, p.head[4] = 1
      PROVE  ValidatePhone(p, opts) = IndianResult(m)
  <2>1. /\ Strip(p, 4) = m
        /\ p.plus = FALSE /\ p.length = 14 /\ Len(p.head) \in Nat /\ Len(p.head) > 4
    <3>1. 4 \in 1..4 /\ 4 + 10 = 14
      OBVIOUS
    <3>2. QED
      BY <1>4, <3>1, FollowsIs
  <2>2. Starts(p, <<0, 0, 9, 1>>)
    BY <1>0, <1>4, <2>1
  <2>3. CleanPhone(p) = WithCode(m)
    BY <2>1, <2>2 DEF CleanPhone
  <2>4. QED
    BY <2>1, <2>3, CleanedIsAccepted
<1>5. QED
  BY <1>1, <1>2, <1>3, <1>4

\* A number after digits that may stand before it is read as the number.
LEMMA SpelledAfter ==
  ASSUME NEW m \in Numbers, IsMobile(m), NEW opts, NEW s \in Seq(0..9), NEW n \in Nat,
         n = Len(s) + 10,
         \/ Len(s) = 1 /\ s[1] = 0
         \/ Len(s) = 3 /\ s[1] = 0 /\ s[2] = 9 /\ s[3] = 1
         \/ Len(s) = 4 /\ s[1] = 0 /\ s[2] = 0 /\ s[3] = 9 /\ s[4] = 1
  PROVE  ValidatePhone(Digits(FALSE, s \o m.head, n), opts) = IndianResult(m)
<1>1. PICK p \in Numbers : /\ p = Digits(FALSE, s \o m.head, n) /\ Follows(p, m, Len(s))
                           /\ \A i \in 1..Len(s) : p.head[i] = s[i]
  BY Introduced
<1>0. p \in Numbers /\ Follows(p, m, Len(s)) /\ \A i \in 1..Len(s) : p.head[i] = s[i]
  BY <1>1
<1>2. CASE Len(s) = 1 /\ s[1] = 0
  <2>1. Follows(p, m, 1) /\ p.head[1] = 0
    BY <1>0, <1>2
  <2>2. QED
    BY <1>1, <2>1, SpellingsAreRead
<1>3. CASE Len(s) = 3 /\ s[1] = 0 /\ s[2] = 9 /\ s[3] = 1
  <2>1. Follows(p, m, 3) /\ p.head[1] = 0 /\ p.head[2] = 9 /\ p.head[3] = 1
    BY <1>0, <1>3
  <2>2. QED
    BY <1>1, <2>1, SpellingsAreRead
<1>4. CASE Len(s) = 4 /\ s[1] = 0 /\ s[2] = 0 /\ s[3] = 9 /\ s[4] = 1
  <2>1. Follows(p, m, 4) /\ p.head[1] = 0 /\ p.head[2] = 0 /\ p.head[3] = 9 /\ p.head[4] = 1
    BY <1>0, <1>4
  <2>2. QED
    BY <1>1, <2>1, SpellingsAreRead
<1>5. QED
  BY <1>2, <1>3, <1>4

\* The spellings that are not the bare number.
LEMMA SpelledOut ==
  ASSUME NEW m \in Numbers, IsMobile(m), NEW opts
  PROVE  /\ ValidatePhone(WithCode(m), opts) = IndianResult(m)
         /\ ValidatePhone([WithCode(m) EXCEPT !.plus = FALSE], opts) = IndianResult(m)
         /\ ValidatePhone(Digits(FALSE, <<0>> \o m.head, 11), opts) = IndianResult(m)
         /\ ValidatePhone(Digits(FALSE, <<0, 9, 1>> \o m.head, 13), opts) = IndianResult(m)
         /\ ValidatePhone(Digits(FALSE, <<0, 0, 9, 1>> \o m.head, 14), opts) = IndianResult(m)
<1>1. m.length = 10 /\ m.plus = FALSE /\ Len(m.head) \in Nat
  BY HeadOf DEF IsMobile
<1>2. PICK w \in Numbers :
        /\ w = WithCode(m) /\ w.length = 12 /\ Len(w.head) = Len(m.head) + 2
        /\ w.head[1] = 9 /\ w.head[2] = 1
        /\ \A i \in 1..Len(m.head) : w.head[i + 2] = m.head[i]
  BY <1>1, WithCodeIs
<1>3. ValidatePhone(w, opts) = IndianResult(m)
  BY <1>2, NormalFormStays, CleanedIsAccepted
<1>4. ValidatePhone([w EXCEPT !.plus = FALSE], opts) = IndianResult(m)
  <2>1. PICK q : q = [w EXCEPT !.plus = FALSE]
    OBVIOUS
  <2>2. q \in Numbers /\ q.plus = FALSE /\ q.head = w.head /\ q.length = w.length
    BY <2>1 DEF Numbers
  <2>3. Follows(q, m, 2) /\ q.head[1] = 9 /\ q.head[2] = 1
    BY <1>2, <2>2 DEF Follows
  <2>4. QED
    BY <2>1, <2>2, <2>3, SpellingsAreRead
<1>5. ValidatePhone(Digits(FALSE, <<0>> \o m.head, 11), opts) = IndianResult(m)
  <2>1. <<0>> \in Seq(0..9) /\ Len(<<0>>) = 1
    OBVIOUS
  <2>2. <<0>>[1] = 0
    OBVIOUS
  <2>3. PICK s \in Seq(0..9) : s = <<0>>
    BY <2>1, Zenon
  <2>4. Len(s) = 1 /\ s[1] = 0
    BY <2>1, <2>2, <2>3, Zenon
  <2>5. PICK n \in Nat : n = 11 /\ n = Len(s) + 10
    BY <2>4
  <2>6. ValidatePhone(Digits(FALSE, s \o m.head, n), opts) = IndianResult(m)
    BY <2>4, <2>5, SpelledAfter
  <2>7. QED
    BY <2>3, <2>5, <2>6, Zenon
<1>6. ValidatePhone(Digits(FALSE, <<0, 9, 1>> \o m.head, 13), opts) = IndianResult(m)
  <2>1. <<0, 9, 1>> \in Seq(0..9) /\ Len(<<0, 9, 1>>) = 3
    OBVIOUS
  <2>2. <<0, 9, 1>>[1] = 0 /\ <<0, 9, 1>>[2] = 9 /\ <<0, 9, 1>>[3] = 1
    OBVIOUS
  <2>3. PICK s \in Seq(0..9) : s = <<0, 9, 1>>
    BY <2>1, Zenon
  <2>4. Len(s) = 3 /\ s[1] = 0 /\ s[2] = 9 /\ s[3] = 1
    BY <2>1, <2>2, <2>3, Zenon
  <2>5. PICK n \in Nat : n = 13 /\ n = Len(s) + 10
    BY <2>4
  <2>6. ValidatePhone(Digits(FALSE, s \o m.head, n), opts) = IndianResult(m)
    BY <2>4, <2>5, SpelledAfter
  <2>7. QED
    BY <2>3, <2>5, <2>6, Zenon
<1>7. ValidatePhone(Digits(FALSE, <<0, 0, 9, 1>> \o m.head, 14), opts) = IndianResult(m)
  <2>1. <<0, 0, 9, 1>> \in Seq(0..9) /\ Len(<<0, 0, 9, 1>>) = 4
    OBVIOUS
  <2>2. <<0, 0, 9, 1>>[1] = 0 /\ <<0, 0, 9, 1>>[2] = 0 /\ <<0, 0, 9, 1>>[3] = 9 /\ <<0, 0, 9, 1>>[4] = 1
    OBVIOUS
  <2>3. PICK s \in Seq(0..9) : s = <<0, 0, 9, 1>>
    BY <2>1, Zenon
  <2>4. Len(s) = 4 /\ s[1] = 0 /\ s[2] = 0 /\ s[3] = 9 /\ s[4] = 1
    BY <2>1, <2>2, <2>3, Zenon
  <2>5. PICK n \in Nat : n = 14 /\ n = Len(s) + 10
    BY <2>4
  <2>6. ValidatePhone(Digits(FALSE, s \o m.head, n), opts) = IndianResult(m)
    BY <2>4, <2>5, SpelledAfter
  <2>7. QED
    BY <2>3, <2>5, <2>6, Zenon
<1>8. QED
  BY <1>2, <1>3, <1>4, <1>5, <1>6, <1>7, Zenon

\* What is taken for a number with its code is too short for one.
LEMMA BareIsRefused ==
  ASSUME NEW m \in Numbers, IsMobile(m), TakenForCoded(m),
         NEW opts, opts.requireIndian = FALSE, opts.allowInternational = TRUE
  PROVE  ~ValidatePhone(m, opts).isValid
<1>1. /\ m.plus = FALSE /\ m.length = 10 /\ Len(m.head) \in Nat /\ Len(m.head) > 2
      /\ m.head[1] = 9 /\ m.head[2] = 1
  BY HeadOf, StartsIs DEF IsMobile, TakenForCoded, MobileAfter
<1>2. PICK s \in Numbers : s = Strip(m, 2) /\ s.length = 8
  BY <1>1, StripIs
<1>3. PICK q \in Numbers :
        /\ q = WithCode(s) /\ q.plus = TRUE /\ q.length = 10 /\ Len(q.head) = Len(s.head) + 2
        /\ q.head[1] = 9 /\ q.head[2] = 1
  BY <1>2, WithCodeIs
<1>4. Len(q.head) \in Nat /\ Len(q.head) >= 2
  BY <1>3, HeadOf
<1>5. CleanPhone(m) = q
  <2>1. ~Starts(m, <<0, 0, 9, 1>>) /\ ~Starts(m, <<0, 9, 1>>)
    BY <1>1, StartsIs
  <2>2. QED
    BY <1>2, <1>3, <2>1 DEF CleanPhone
<1>6. ~ValidateIndianMobile(q).isValid
  <2>1. IndianNational(q) = NoNumber
    BY <1>3 DEF IndianNational, IsMobile, LooksCoded, Starts
  <2>2. QED
    BY <2>1 DEF ValidateIndianMobile, Invalid
<1>7. Internationally(q) = q
  BY <1>3 DEF Internationally
<1>8. PICK h \in Seq(0..9) : h = q.head
  BY HeadOf
<1>9. SubSeq(h, 1, 2) = <<9, 1>> /\ SubSeq(h, 1, 1) = <<9>>
  <2>1. SubSeq(h, 1, 2) \in Seq(0..9) /\ Len(SubSeq(h, 1, 2)) = 2
        /\ SubSeq(h, 1, 2)[1] = 9 /\ SubSeq(h, 1, 2)[2] = 1
    BY <1>3, <1>4, <1>8
  <2>2. SubSeq(h, 1, 1) \in Seq(0..9) /\ Len(SubSeq(h, 1, 1)) = 1 /\ SubSeq(h, 1, 1)[1] = 9
    BY <1>3, <1>4, <1>8
  <2>3. PICK u \in Seq(0..9), v \in Seq(0..9) : u = SubSeq(h, 1, 2) /\ v = SubSeq(h, 1, 1)
    BY <2>1, <2>2
  <2>4. u = <<9, 1>>
    <3>1. <<9, 1>> \in Seq(0..9) /\ Len(<<9, 1>>) = 2
      OBVIOUS
    <3>2. <<9, 1>>[1] = 9 /\ <<9, 1>>[2] = 1
      OBVIOUS
    <3>3. PICK w \in Seq(0..9) : w = <<9, 1>> /\ Len(w) = 2 /\ w[1] = 9 /\ w[2] = 1
      BY <3>1, <3>2, Zenon
    <3>4. \A i \in 1..2 : u[i] = w[i]
      BY <2>1, <2>3, <3>3
    <3>5. u \in Seq(0..9) /\ w \in Seq(0..9) /\ Len(u) = 2 /\ Len(w) = 2
      BY <2>1, <2>3, <3>3
    <3>6. u = w
      BY <3>4, <3>5, SameSequence
    <3>7. QED
      BY <3>3, <3>6
  <2>5. v = <<9>>
    <3>1. <<9>> \in Seq(0..9) /\ Len(<<9>>) = 1
      OBVIOUS
    <3>2. <<9>>[1] = 9
      OBVIOUS
    <3>3. PICK w \in Seq(0..9) : w = <<9>> /\ Len(w) = 1 /\ w[1] = 9
      BY <3>1, <3>2, Zenon
    <3>4. \A i \in 1..1 : v[i] = w[i]
      BY <2>2, <2>3, <3>3
    <3>5. v \in Seq(0..9) /\ w \in Seq(0..9) /\ Len(v) = 1 /\ Len(w) = 1
      BY <2>2, <2>3, <3>3
    <3>6. v = w
      BY <3>4, <3>5, SameSequence
    <3>7. QED
      BY <3>3, <3>6
  <2>6. QED
    BY <2>3, <2>4, <2>5
<1>10. 2 \in CodesOf(q) /\ 1 \notin CodesOf(q) /\ CodesOf(q) \in SUBSET Nat
       /\ CodesOf(q) \subseteq 1..4
  <2>1. CodesOf(q) = {n \in 1..4 : n <= Len(h) /\ SubSeq(h, 1, n) \in DOMAIN Countries}
    BY <1>8 DEF CodesOf
  <2>2. SubSeq(h, 1, 2) \in DOMAIN Countries /\ SubSeq(h, 1, 1) \notin DOMAIN Countries
    BY <1>9, CountriesAssumption, Zenon
  <2>3. 2 \in 1..4 /\ 2 <= Len(h)
    BY <1>4, <1>8
  <2>4. QED
    BY <2>1, <2>2, <2>3
<1>11. PICK n : n = CHOOSE l \in CodesOf(q) : \A o \in CodesOf(q) : l <= o
  OBVIOUS
<1>12. n = 2
  <2>1. n \in CodesOf(q) /\ \A o \in CodesOf(q) : n <= o
    BY <1>10, <1>11, LeastNumber
  <2>2. n \in 1..4 /\ n <= 2 /\ n # 1
    BY <1>10, <2>1
  <2>3. QED
    BY <2>2
<1>13. ~(Strip(q, 2).length \in 10..10)
  BY <1>3 DEF Strip, Digits
<1>14. ~ValidateInternational(q).isValid
  <2>1. PICK code : code = SubSeq(q.head, 1, n) /\ code = <<9, 1>>
    BY <1>8, <1>9, <1>12
  <2>2. Countries[code].min = 10 /\ Countries[code].max = 10
    BY <2>1, CountriesAssumption
  <2>3. ~(Strip(q, n).length \in Countries[code].min..Countries[code].max)
    BY <1>12, <1>13, <2>2
  <2>4. QED
    BY <1>11, <2>1, <2>3 DEF ValidateInternational, Invalid
<1>15. ~(m.length = 0 /\ ~m.plus) /\ ~Contains(m.head, Letter)
  BY <1>1, HeadOf DEF IsMobile
<1>16. ValidatePhone(m, opts) = ValidateInternational(q)
  BY <1>3, <1>5, <1>6, <1>7, <1>15 DEF ValidatePhone
<1>17. QED
  BY <1>14, <1>16

\* A bare number that is not taken for one with its code is the number itself.
LEMMA BareIsRead ==
  ASSUME NEW m \in Numbers, IsMobile(m), ~TakenForCoded(m), NEW opts
  PROVE  ValidatePhone(m, opts) = IndianResult(m)
<1>1. m.length = 10 /\ Len(m.head) \in Nat /\ m.head[1] \in 6..9
  BY HeadOf DEF IsMobile, MobileAfter
<1>2. ~Starts(m, <<0, 0, 9, 1>>) /\ ~Starts(m, <<0, 9, 1>>) /\ ~Starts(m, <<0>>)
  BY <1>1, StartsIs
<1>3. CleanPhone(m) = m
  BY <1>2 DEF CleanPhone
<1>4. QED
  BY <1>1, <1>3, CleanedIsAccepted

LEMMA SpellingsOfOne ==
  ASSUME NEW input \in PhoneInput, IsMobile(input)
  PROVE  SpellingsAgree(input)
<1>1. PICK m \in Numbers : m = input /\ IsMobile(m)
  BY DigitsOnly DEF IsMobile
<1>2. PICK opts : opts = [requireIndian |-> FALSE, allowInternational |-> TRUE]
  OBVIOUS
<1>3. opts.requireIndian = FALSE /\ opts.allowInternational = TRUE
  BY <1>2
<1>4. IndianResult(m).isValid /\ IndianResult(m).normalized = WithCode(m)
  BY DEF IndianResult
<1>5. ASSUME NEW s \in DOMAIN Spellings(m)
      PROVE  LET read == ValidatePhone(Spellings(m)[s], opts) IN
               /\ read.isValid => read.normalized = WithCode(m)
               /\ s # "bare" \/ ~TakenForCoded(m) => read.isValid
  <2>1. CASE s = "bare" /\ TakenForCoded(m)
    <3>1. Spellings(m)[s] = m
      BY <2>1 DEF Spellings
    <3>2. QED
      BY <1>1, <1>3, <2>1, <3>1, BareIsRefused
  <2>2. CASE ~(s = "bare" /\ TakenForCoded(m))
    <3>1. ValidatePhone(Spellings(m)[s], opts) = IndianResult(m)
      <4>1. CASE s = "bare"
        <5>1. Spellings(m)[s] = m
          BY <4>1 DEF Spellings
        <5>2. QED
          BY <1>1, <2>2, <4>1, <5>1, BareIsRead
      <4>2. CASE s # "bare"
        <5>1. /\ s \in {"plus", "code", "trunk", "both", "abroad"}
              /\ s = "plus" => Spellings(m)[s] = WithCode(m)
              /\ s = "code" => Spellings(m)[s] = [WithCode(m) EXCEPT !.plus = FALSE]
              /\ s = "trunk" => Spellings(m)[s] = Digits(FALSE, <<0>> \o m.head, 11)
              /\ s = "both" => Spellings(m)[s] = Digits(FALSE, <<0, 9, 1>> \o m.head, 13)
              /\ s = "abroad" => Spellings(m)[s] = Digits(FALSE, <<0, 0, 9, 1>> \o m.head, 14)
          <6>1. DOMAIN Spellings(m) = {"bare", "plus", "code", "trunk", "both", "abroad"}
            BY DEF Spellings
          <6>2. /\ Spellings(m)["plus"] = WithCode(m)
                /\ Spellings(m)["code"] = [WithCode(m) EXCEPT !.plus = FALSE]
                /\ Spellings(m)["trunk"] = Digits(FALSE, <<0>> \o m.head, 11)
                /\ Spellings(m)["both"] = Digits(FALSE, <<0, 9, 1>> \o m.head, 13)
                /\ Spellings(m)["abroad"] = Digits(FALSE, <<0, 0, 9, 1>> \o m.head, 14)
            BY DEF Spellings
          <6>3. QED
            BY <1>5, <4>2, <6>1, <6>2, Zenon
        <5>2. QED
          BY <1>1, <5>1, SpelledOut, Zenon
      <4>3. QED
        BY <4>1, <4>2
    <3>2. QED
      BY <1>4, <2>2, <3>1
  <2>3. QED
    BY <2>1, <2>2
<1>6. QED
  BY <1>1, <1>2, <1>5, Zenon DEF SpellingsAgree

-------------------------------------------------------------------------------
(* Email addresses.                                                         *)

\* Where the first + stands.
LEMMA FirstPlus ==
  ASSUME NEW local \in Seq(STRING), NEW plus, plus = SelectInSeq(local, LAMBDA x : x = "+")
  PROVE  /\ plus \in 0..Len(local)
         /\ plus = 0 => \A i \in 1..Len(local) : local[i] # "+"
         /\ plus # 0 => local[plus] = "+" /\ \A i \in 1 .. plus - 1 : local[i] # "+"
<1> DEFINE I == {i \in 1..Len(local) : local[i] = "+"}
<1>1. plus = IF I # {} THEN Min(I) ELSE 0
  BY DEF SelectInSeq
<1>2. I \in SUBSET Nat /\ I \subseteq 1..Len(local) /\ Len(local) \in Nat
  OBVIOUS
<1>3. CASE I = {}
  BY <1>1, <1>2, <1>3
<1>4. CASE I # {}
  <2>1. plus = CHOOSE x \in I : \A y \in I : x <= y
    BY <1>1, <1>4 DEF Min
  <2>2. \E n \in I : \A m \in I : n <= m
    <3> HIDE DEF I
    <3> QED
      BY <1>2, <1>4, LeastNumber
  <2>3. plus \in I /\ \A y \in I : plus <= y
    <3> HIDE DEF I
    <3> QED
      BY <2>1, <2>2
  <2>4. \A i \in 1 .. plus - 1 : local[i] # "+"
    BY <1>2, <2>3
  <2>5. QED
    BY <1>2, <2>3, <2>4
<1>5. QED
  BY <1>3, <1>4

\* The length of an address is a number, and no shorter part of it is longer.
LEMMA LengthsAreNumbers ==
  /\ \A local \in Seq(STRING) : LocalLength(local) \in Nat
  /\ \A domain \in Seq(DOMAIN Labels) : DomainLength(domain) \in Int
<1>1. ASSUME NEW local \in Seq(STRING) PROVE LocalLength(local) \in Nat
  <2>1. PICK f : f = [i \in DOMAIN local |-> PieceLength(local[i])]
    OBVIOUS
  <2>2. DOMAIN local = 1..Len(local) /\ Len(local) \in Nat /\ DOMAIN f = DOMAIN local
    BY <1>1, <2>1
  <2>3. IsFiniteSet(DOMAIN f)
    BY <2>2, FS_Interval
  <2>4. \A i \in DOMAIN f : f[i] \in Nat
    BY <2>1, EmailAssumption DEF PieceLength
  <2>5. Sum(f, DOMAIN f) \in Nat
    BY <2>3, <2>4, SumIsNat
  <2>6. QED
    BY <2>1, <2>5 DEF LocalLength, Total, Sum
<1>2. ASSUME NEW domain \in Seq(DOMAIN Labels) PROVE DomainLength(domain) \in Int
  <2>1. PICK f : f = [i \in DOMAIN domain |-> Labels[domain[i]].length + 1]
    OBVIOUS
  <2>2. DOMAIN domain = 1..Len(domain) /\ Len(domain) \in Nat /\ DOMAIN f = DOMAIN domain
    BY <1>2, <2>1
  <2>3. IsFiniteSet(DOMAIN f)
    BY <2>2, FS_Interval
  <2>4. \A i \in DOMAIN f : f[i] \in Nat
    <3>1. ASSUME NEW i \in DOMAIN f PROVE f[i] \in Nat
      <4>1. domain[i] \in DOMAIN Labels /\ f[i] = Labels[domain[i]].length + 1
        BY <1>2, <2>1, <2>2, <3>1
      <4>2. Labels[domain[i]].length \in Nat
        BY <4>1, EmailAssumption
      <4>3. QED
        BY <4>1, <4>2
    <3>2. QED
      BY <3>1
  <2>5. Sum(f, DOMAIN f) \in Nat
    BY <2>3, <2>4, SumIsNat
  <2>6. Total(f) \in Nat /\ DomainLength(domain) = Total(f) - 1
    BY <2>1, <2>5 DEF DomainLength, Total, Sum
  <2>7. QED
    BY <2>6
<1>3. QED
  BY <1>1, <1>2

LEMMA PartIsNoLonger ==
  ASSUME NEW local \in Seq(STRING), NEW n \in 0..Len(local)
  PROVE  /\ LocalLength(SubSeq(local, 1, n)) \in Nat /\ LocalLength(local) \in Nat
         /\ LocalLength(SubSeq(local, 1, n)) <= LocalLength(local)
<1>1. PICK part \in Seq(STRING) : /\ part = SubSeq(local, 1, n) /\ Len(part) = n
                                  /\ \A i \in 1..n : part[i] = local[i]
  <2>1. PICK part : part = SubSeq(local, 1, n)
    OBVIOUS
  <2>2. part \in Seq(STRING) /\ Len(part) = n
    BY <2>1
  <2>3. \A i \in 1..n : part[i] = local[i]
    BY <2>1
  <2>4. QED
    BY <2>1, <2>2, <2>3
<1>2. PICK f : f = [i \in DOMAIN local |-> PieceLength(local[i])]
  OBVIOUS
<1>3. PICK g : g = [i \in DOMAIN part |-> PieceLength(part[i])]
  OBVIOUS
<1>4. /\ DOMAIN f = 1..Len(local) /\ DOMAIN g = 1..n /\ Len(local) \in Nat
      /\ 1..n \subseteq 1..Len(local)
  BY <1>1, <1>2, <1>3
<1>5. IsFiniteSet(1..Len(local)) /\ IsFiniteSet(1..n)
  BY <1>4, FS_Interval
<1>6. \A i \in 1..Len(local) : f[i] \in Nat
  BY <1>2, EmailAssumption DEF PieceLength
<1>7. \A i \in 1..n : g[i] = f[i]
  BY <1>1, <1>2, <1>3, <1>4
<1>8. Sum(g, 1..n) = Sum(f, 1..n)
  BY <1>5, <1>7, SumAgrees
<1>9. Sum(f, 1..n) \in Nat /\ Sum(f, 1..Len(local)) \in Nat /\ Sum(f, 1..n) <= Sum(f, 1..Len(local))
  <2>1. 1..n \in SUBSET (1..Len(local))
    BY <1>4
  <2>2. Sum(f, 1..Len(local)) = Sum(f, 1..n) + Sum(f, (1..Len(local)) \ (1..n))
    <3>1. \A i \in 1..Len(local) : f[i] \in Int
      BY <1>6
    <3>2. QED
      BY <1>5, <2>1, <3>1, SumOfPieces
  <2>3. Sum(f, 1..n) \in Nat /\ Sum(f, 1..Len(local)) \in Nat
    BY <1>5, <1>6, <2>1, SumIsNat
  <2>4. Sum(f, (1..Len(local)) \ (1..n)) \in Nat
    <3>1. IsFiniteSet((1..Len(local)) \ (1..n))
      BY <1>5, FS_Difference
    <3>2. QED
      BY <1>6, <3>1, SumIsNat
  <2>5. QED
    BY <2>2, <2>3, <2>4
<1>10. LocalLength(local) = Sum(f, 1..Len(local)) /\ LocalLength(part) = Sum(g, 1..n)
  BY <1>2, <1>3, <1>4 DEF LocalLength, Total, Sum
<1>11. QED
  BY <1>1, <1>8, <1>9, <1>10

\* What a local part that is let through looks like.
LEMMA LocalPartPasses ==
  ASSUME NEW local \in Seq(STRING), local # <<>>
  PROVE  LocalPartError(local) = "none" <=>
           /\ ~(LocalLength(local) > 64) /\ local[1] # "." /\ local[Len(local)] # "."
           /\ ~\E i \in 2..Len(local) : local[i - 1] = "." /\ local[i] = "."
           /\ \A i \in 1..Len(local) : local[i] # "!"
<1>1. Last(local) = local[Len(local)]
  BY DEF Last
<1>2. Contains(local, "!") <=> \E i \in 1..Len(local) : local[i] = "!"
  BY DEF Contains
<1>3. QED
  BY <1>1, <1>2, Zenon DEF LocalPartError

\* The base address: the address itself, or what stands before its first +.
LEMMA BaseIs ==
  ASSUME NEW a \in EmailInput, a.local # <<>>
  PROVE  \/ BaseEmail(a) = a /\ (a.local[1] = "+" \/ \A i \in 1..Len(a.local) : a.local[i] # "+")
         \/ \E n \in 1 .. Len(a.local) - 1 :
              /\ BaseEmail(a) = Address(SubSeq(a.local, 1, n), a.domain)
              /\ SubSeq(a.local, 1, n) \in Seq(STRING) /\ Len(SubSeq(a.local, 1, n)) = n
              /\ \A i \in 1..n : SubSeq(a.local, 1, n)[i] = a.local[i] /\ a.local[i] # "+"
<1>1. PICK local \in Seq(STRING) : local = a.local /\ Len(local) \in Nat
  BY DEF EmailInput
<1>2. PICK plus : plus = SelectInSeq(local, LAMBDA x : x = "+")
  OBVIOUS
<1>3. /\ plus \in 0..Len(local)
      /\ plus = 0 => \A i \in 1..Len(local) : local[i] # "+"
      /\ plus # 0 => local[plus] = "+" /\ \A i \in 1 .. plus - 1 : local[i] # "+"
  BY <1>1, <1>2, FirstPlus
<1>4. BaseEmail(a) = IF plus <= 1 THEN a ELSE Address(SubSeq(local, 1, plus - 1), a.domain)
  BY <1>1, <1>2 DEF BaseEmail
<1>5. CASE plus <= 1
  <2>1. plus = 0 \/ plus = 1
    BY <1>3, <1>5
  <2>2. QED
    BY <1>1, <1>3, <1>4, <1>5, <2>1
<1>6. CASE ~(plus <= 1)
  <2>1. PICK n \in Nat : n = plus - 1 /\ n \in 1 .. Len(local) - 1
    BY <1>1, <1>3, <1>6
  <2>2. PICK part : part = SubSeq(local, 1, n)
    OBVIOUS
  <2>3. part \in Seq(STRING) /\ Len(part) = n
    BY <1>1, <2>1, <2>2
  <2>4. \A i \in 1..n : part[i] = local[i]
    BY <1>1, <2>1, <2>2
  <2>5. \A i \in 1..n : local[i] # "+"
    BY <1>3, <1>6, <2>1
  <2>6. BaseEmail(a) = Address(part, a.domain)
    BY <1>4, <1>6, <2>1, <2>2
  <2>7. QED
    BY <1>1, <2>1, <2>2, <2>3, <2>4, <2>5, <2>6
<1>7. QED
  BY <1>5, <1>6

\* What is accepted has passed every test, and is accepted as it is.
LEMMA EmailPasses ==
  ASSUME NEW a \in EmailInput, NEW opts
  PROVE  /\ ValidateEmail(a, opts).isValid =>
              /\ a.local # <<>> /\ RFCFormat(a) /\ LocalPartError(a.local) = "none"
              /\ ~(LocalLength(a.local) + 1 + DomainLength(a.domain) > 254)
              /\ \/ /\ DomainError(a.domain) = "DANGEROUS_DOMAIN" /\ ~opts.blockDangerousDomains
                    /\ ValidateEmail(a, opts) = Accepted(a, TRUE)
                 \/ /\ DomainError(a.domain) = "none"
                    /\ ~(HasSubaddress(a.local) /\ ~opts.allowSubaddressing)
                    /\ ValidateEmail(a, opts) = Accepted(a, FALSE)
         /\ /\ a.local # <<>> /\ RFCFormat(a) /\ LocalPartError(a.local) = "none"
            /\ ~(LocalLength(a.local) + 1 + DomainLength(a.domain) > 254)
            /\ \/ DomainError(a.domain) = "DANGEROUS_DOMAIN" /\ ~opts.blockDangerousDomains
               \/ /\ DomainError(a.domain) = "none"
                  /\ ~(HasSubaddress(a.local) /\ ~opts.allowSubaddressing)
            => ValidateEmail(a, opts).isValid
<1>1. \A b : Accepted(a, b).isValid
  BY DEF Accepted
<1>2. \A e : ~No(e).isValid
  BY DEF No
<1>3. RFCFormat(a) => a.local # <<>>
  BY DEF RFCFormat
<1>4. PICK long : long = (LocalLength(a.local) + 1 + DomainLength(a.domain) > 254)
  OBVIOUS
<1>5. ASSUME ValidateEmail(a, opts).isValid
      PROVE  /\ a.local # <<>> /\ RFCFormat(a) /\ LocalPartError(a.local) = "none"
             /\ ~(LocalLength(a.local) + 1 + DomainLength(a.domain) > 254)
             /\ \/ /\ DomainError(a.domain) = "DANGEROUS_DOMAIN" /\ ~opts.blockDangerousDomains
                   /\ ValidateEmail(a, opts) = Accepted(a, TRUE)
                \/ /\ DomainError(a.domain) = "none"
                   /\ ~(HasSubaddress(a.local) /\ ~opts.allowSubaddressing)
                   /\ ValidateEmail(a, opts) = Accepted(a, FALSE)
  BY <1>2, <1>3, <1>5, Zenon DEF ValidateEmail
<1>6. ASSUME a.local # <<>>, RFCFormat(a), LocalPartError(a.local) = "none",
             ~(LocalLength(a.local) + 1 + DomainLength(a.domain) > 254),
             \/ DomainError(a.domain) = "DANGEROUS_DOMAIN" /\ ~opts.blockDangerousDomains
             \/ /\ DomainError(a.domain) = "none"
                /\ ~(HasSubaddress(a.local) /\ ~opts.allowSubaddressing)
      PROVE  ValidateEmail(a, opts).isValid
  BY <1>1, <1>6, Zenon DEF ValidateEmail
<1>7. QED
  BY <1>5, <1>6, Zenon

LEMMA EmailCanonical ==
  ASSUME NEW a \in EmailInput, NEW opts
  PROVE  EmailIsCanonical(a, opts)
<1> DEFINE result == ValidateEmail(a, opts)
           base == BaseEmail(a)
           lenient == [blockDangerousDomains |-> FALSE, allowSubaddressing |-> TRUE]
<1> SUFFICES ASSUME result.isValid
             PROVE  /\ IsDotAtom(a.local)
                    /\ ValidateEmail(result.normalized, opts) = result
                    /\ ValidateEmail(a, lenient).isValid
                    /\ BaseEmail(base) = base
                    /\ Contains(base.local, "+") => a.local[1] = "+"
                    /\ ValidateEmail(base, opts).isValid \/ Last(base.local) = "."
  BY DEF EmailIsCanonical
<1> HIDE DEF base, lenient
<1>1. PICK local \in Seq(STRING) :
        /\ local = a.local /\ local # <<>> /\ Len(local) \in Nat \ {0} /\ DOMAIN local = 1..Len(local)
  <2>1. a.local \in Seq(STRING) /\ a.local # <<>>
    BY EmailPasses DEF EmailInput
  <2>2. PICK local \in Seq(STRING) : local = a.local /\ local # <<>>
    BY <2>1
  <2>3. Len(local) \in Nat \ {0} /\ DOMAIN local = 1..Len(local)
    BY <2>2
  <2>4. QED
    BY <2>2, <2>3
<1>2. /\ RFCFormat(a) /\ LocalPartError(local) = "none"
      /\ ~(LocalLength(local) + 1 + DomainLength(a.domain) > 254)
      /\ \/ /\ DomainError(a.domain) = "DANGEROUS_DOMAIN" /\ ~opts.blockDangerousDomains
            /\ result = Accepted(a, TRUE)
         \/ /\ DomainError(a.domain) = "none"
            /\ ~(HasSubaddress(local) /\ ~opts.allowSubaddressing)
            /\ result = Accepted(a, FALSE)
  BY <1>1, EmailPasses
<1>3. /\ ~(LocalLength(local) > 64) /\ local[1] # "." /\ local[Len(local)] # "."
      /\ ~\E i \in 2..Len(local) : local[i - 1] = "." /\ local[i] = "."
      /\ \A i \in 1..Len(local) : local[i] # "!"
  BY <1>1, <1>2, LocalPartPasses
<1>4. IsDotAtom(local)
  <2>1. ASSUME NEW i \in 1..Len(local), local[i] = "."
        PROVE  i \notin {1, Len(local)} /\ local[i - 1] # "."
    <3>1. i # 1 /\ i # Len(local)
      BY <1>3, <2>1
    <3>2. i \in 2..Len(local)
      BY <1>1, <2>1, <3>1
    <3>3. QED
      BY <1>3, <2>1, <3>1, <3>2
  <2>2. QED
    BY <1>1, <2>1 DEF IsDotAtom
<1>5. ValidateEmail(result.normalized, opts) = result
  <2>1. result.normalized = a
    BY <1>2 DEF Accepted
  <2>2. QED
    BY <2>1
<1>6. ValidateEmail(a, lenient).isValid
  <2>1. lenient.blockDangerousDomains = FALSE /\ lenient.allowSubaddressing = TRUE
    BY DEF lenient
  <2>2. QED
    BY <1>1, <1>2, <2>1, EmailPasses
<1>7. CASE base = a /\ (local[1] = "+" \/ \A i \in 1..Len(local) : local[i] # "+")
  <2>1. BaseEmail(base) = base
    BY <1>7 DEF base
  <2>2. Contains(base.local, "+") => local[1] = "+"
    BY <1>1, <1>7 DEF Contains
  <2>3. ValidateEmail(base, opts).isValid
    BY <1>7
  <2>4. QED
    BY <1>1, <1>4, <1>5, <1>6, <2>1, <2>2, <2>3
<1>8. ASSUME NEW n \in 1 .. Len(local) - 1,
             base = Address(SubSeq(local, 1, n), a.domain),
             SubSeq(local, 1, n) \in Seq(STRING), Len(SubSeq(local, 1, n)) = n,
             \A i \in 1..n : SubSeq(local, 1, n)[i] = local[i] /\ local[i] # "+"
      PROVE  /\ BaseEmail(base) = base
             /\ Contains(base.local, "+") => local[1] = "+"
             /\ ValidateEmail(base, opts).isValid \/ Last(base.local) = "."
  <2>1. PICK part \in Seq(STRING) :
          /\ part = SubSeq(local, 1, n) /\ Len(part) = n
          /\ \A i \in 1..n : part[i] = local[i] /\ part[i] # "+"
    BY <1>8
  <2>2. n \in Nat /\ n >= 1 /\ n < Len(local) /\ part # <<>> /\ DOMAIN part = 1..n
    BY <1>1, <1>8, <2>1
  <2>3. base.local = part /\ base.domain = a.domain /\ base \in EmailInput
    BY <1>8, <2>1 DEF Address, EmailInput
  <2>4. ~Contains(part, "+")
    BY <2>1 DEF Contains
  <2>5. BaseEmail(base) = base
    <3>1. PICK plus : plus = SelectInSeq(part, LAMBDA x : x = "+")
      OBVIOUS
    <3>2. plus \in 0..Len(part) /\ (plus # 0 => part[plus] = "+")
      BY <2>1, <3>1, FirstPlus
    <3>3. plus = 0
      BY <2>1, <2>2, <3>2
    <3>4. BaseEmail(base) = IF plus <= 1 THEN base
                            ELSE Address(SubSeq(part, 1, plus - 1), base.domain)
      BY <2>3, <3>1 DEF BaseEmail
    <3>5. QED
      BY <3>3, <3>4
  <2>6. ASSUME Last(part) # "." PROVE ValidateEmail(base, opts).isValid
    <3>1. LocalLength(part) \in Nat /\ LocalLength(local) \in Nat /\ LocalLength(part) <= LocalLength(local)
      BY <1>1, <2>1, <2>2, PartIsNoLonger
    <3>2. DomainLength(a.domain) \in Int
      BY LengthsAreNumbers DEF EmailInput
    <3>3. ~(LocalLength(part) + 1 + DomainLength(a.domain) > 254) /\ ~(LocalLength(part) > 64)
      BY <1>2, <1>3, <3>1, <3>2
    <3>4. part[1] # "." /\ part[Len(part)] # "."
      BY <1>3, <2>1, <2>2, <2>6 DEF Last
    <3>5. ~\E i \in 2..Len(part) : part[i - 1] = "." /\ part[i] = "."
      <4>1. ASSUME NEW i \in 2..Len(part), part[i - 1] = ".", part[i] = "." PROVE FALSE
        <5>1. i \in 2..Len(local) /\ i \in 1..n /\ i - 1 \in 1..n
          BY <1>1, <2>1, <2>2, <4>1
        <5>2. QED
          BY <1>3, <2>1, <4>1, <5>1
      <4>2. QED
        BY <4>1
    <3>6. \A i \in 1..Len(part) : part[i] # "!"
      BY <1>1, <1>3, <2>1, <2>2
    <3>7. LocalPartError(part) = "none"
      BY <2>2, <3>3, <3>4, <3>5, <3>6, LocalPartPasses
    <3>8. ~HasSubaddress(part)
      BY <2>1, <2>2 DEF HasSubaddress
    <3>9. RFCFormat(base)
      BY <1>2, <2>2, <2>3 DEF RFCFormat
    <3>10. QED
      BY <1>2, <2>2, <2>3, <3>3, <3>7, <3>8, <3>9, EmailPasses
  <2>7. QED
    BY <2>3, <2>4, <2>5, <2>6
<1>9. CASE \E n \in 1 .. Len(local) - 1 :
              /\ base = Address(SubSeq(local, 1, n), a.domain)
              /\ SubSeq(local, 1, n) \in Seq(STRING) /\ Len(SubSeq(local, 1, n)) = n
              /\ \A i \in 1..n : SubSeq(local, 1, n)[i] = local[i] /\ local[i] # "+"
  BY <1>1, <1>4, <1>5, <1>6, <1>8, <1>9
<1>10. QED
  BY <1>1, <1>7, <1>9, BaseIs DEF base

-------------------------------------------------------------------------------
(* The forms.                                                               *)

\* What a check lets through is the normal form of what was given: an amount
\* rounded to its currency's step, a telephone number with its country's code
\* and however it was spelled, a place code, a mailbox and its base address.
THEOREM FormsStayCanonical == Spec => []FormsAreCanonical
<1>1. ASSUME form \in Forms \cup {NoForm} PROVE FormsAreCanonical
  <2>1. form \in Forms \/ form.kind = "none"
    BY <1>1 DEF NoForm
  <2>2. ASSUME form.kind = "money"
        PROVE  /\ MoneyIsCanonical(form.input, form.currency, form.opts)
               /\ \A step \in {-1000, 10} :
                    form.input.kind = "number" => SumsAreExact(form.input.value, step, form.currency)
    <3>1. IsAmount(form.input) /\ form.opts \in MoneyOptions
      BY <2>1, <2>2, PlatformAssumption
    <3>2. MoneyIsCanonical(form.input, form.currency, form.opts)
      BY <3>1, MoneyCanonical
    <3>3. ASSUME form.input.kind = "number", NEW step \in {-1000, 10}
          PROVE  SumsAreExact(form.input.value, step, form.currency)
      <4>1. form.input.value \in Int
        BY <3>1, <3>3 DEF IsAmount, ParseError, ParseErrors
      <4>2. step \in Int
        BY <3>3
      <4>3. QED
        BY <4>1, <4>2, SumsExact
    <3>4. QED
      BY <3>2, <3>3
  <2>3. ASSUME form.kind = "phone"
        PROVE  /\ PhoneIsCanonical(form.input, form.opts)
               /\ IsMobile(form.input) => SpellingsAgree(form.input)
    <3>1. form.input \in PhoneInput
      BY <2>1, <2>3, PlatformAssumption
    <3>2. QED
      BY <3>1, PhoneCanonical, SpellingsOfOne
  <2>4. ASSUME form.kind = "pincode" PROVE PincodeIsCanonical(form.input, form.opts)
    <3>1. form.input \in PincodeInput
      BY <2>1, <2>4, PlatformAssumption
    <3>2. QED
      BY <3>1, PincodeCanonical
  <2>5. ASSUME form.kind = "email" PROVE EmailIsCanonical(form.input, form.opts)
    <3>1. form.input \in EmailInput
      BY <2>1, <2>5, PlatformAssumption
    <3>2. QED
      BY <3>1, EmailCanonical
  <2>6. QED
    BY <2>2, <2>3, <2>4, <2>5 DEF FormsAreCanonical
<1>2. QED
  BY <1>1, FormIsSubmitted, PTL

===============================================================================
