------------------------------ MODULE QuoteCache ------------------------------
(***************************************************************************)
(* utils/cache.js used cache-aside: a miss is computed from the database and *)
(* stored for a time; an edit writes the database and then deletes keys.     *)
(* The rate-card list, the shipment figures, the reports and the quotes of    *)
(* the serviceability check are kept so.  Nothing is locked.                 *)
(***************************************************************************)
EXTENDS Calls

CONSTANTS
  Questions,   \* what is asked: of a quote, all that its price depends on
  KeyOf,       \* KeyOf[q]: the key its answer is stored under
  Dropped,     \* keys that an edit of the data deletes
  Edits        \* bound on edits of the data

ASSUME QuoteAssumption ==
  /\ Edits \in Nat
  /\ Dropped \subseteq {KeyOf[q] : q \in Questions}

VARIABLES
  version,   \* how often the rate cards, margins or documents were edited
  stored     \* stored[key]: the question and version it answers, or Nothing

cacheVars == <<version, stored>>

CacheKeys == {KeyOf[q] : q \in Questions}
Nothing == [question |-> "none"]

CacheInit ==
  /\ version = 0
  /\ stored = [key \in CacheKeys |-> Nothing]

Hit(q) == stored[KeyOf[q]] # Nothing

\* remember: a hit is the answer; a miss awaits the computation.
Ask(k, q) ==
  /\ IF Hit(q)
     THEN ArriveWith(k, "answered", q, stored[KeyOf[q]].question)
     ELSE ArriveWith(k, "compute", q, q)
  /\ UNCHANGED cacheVars

\* The database, the carrier and the pricing answer for the question as of now ...
Compute(k) ==
  /\ At(k, "compute")
  /\ call' = [call EXCEPT ![k] = [task |-> "store", id |-> @.id, seen |-> @.id, at |-> version]]
  /\ UNCHANGED cacheVars

\* ... and whatever the key holds by then is replaced.
Store(k) ==
  /\ At(k, "store")
  /\ stored' = [stored EXCEPT ![KeyOf[call[k].id]] =
                  [question |-> call[k].id, version |-> call[k].at]]
  /\ Goto(k, "answered")
  /\ UNCHANGED version

\* An edit of a rate card or margin, or a shipment booked: first the document ...
Edit(k) ==
  /\ version < Edits
  /\ Arrive(k, "delete", "none")
  /\ version' = version + 1
  /\ UNCHANGED stored

\* ... then the keys that name it.
DeleteKeys(k) ==
  /\ At(k, "delete")
  /\ stored' = [key \in CacheKeys |-> IF key \in Dropped THEN Nothing ELSE stored[key]]
  /\ Leave(k)
  /\ UNCHANGED version

\* Faulty variant: only what an edit deletes anyway has a time to live.
ExpiresIfDropped(key) == stored[key] # Nothing /\ key \in Dropped

MayExpire(key) == stored[key] # Nothing

\* A read after the time to live, or the cleanup, removes an entry.
ExpireKey(key) ==
  /\ MayExpire(key)
  /\ stored' = [stored EXCEPT ![key] = Nothing]
  /\ UNCHANGED <<version, call>>

CacheStep ==
  \/ \E k \in Slots :
       \/ \E q \in Questions : Ask(k, q)
       \/ Compute(k) \/ Store(k) \/ Edit(k) \/ DeleteKeys(k)
       \/ At(k, "answered") /\ Leave(k) /\ UNCHANGED cacheVars
       \/ Drop(k) /\ UNCHANGED cacheVars
  \/ \E key \in CacheKeys : ExpireKey(key)

-------------------------------------------------------------------------------

CacheTypeOK ==
  /\ version \in 0..Edits
  /\ \A key \in CacheKeys :
       stored[key] = Nothing \/ (KeyOf[stored[key].question] = key /\ stored[key].version <= version)

\* In the end nothing outdated is kept: an answer computed before an edit and
\* stored after its delete, or one under a key that no edit deletes, goes with
\* its time to live, and no later question brings it back.
OutdatedGoes ==
  <>[](\A key \in CacheKeys : stored[key] = Nothing \/ stored[key].version = version)

===============================================================================
