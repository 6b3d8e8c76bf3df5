---------------------------- MODULE ShipmentProofs ----------------------------
(***************************************************************************)
(* Machine-checked proofs about Shipment: for any number of concurrent       *)
(* handlers, any payers and costs, any carrier, and whatever fails.          *)
(***************************************************************************)
EXTENDS Shipment, TLAPS

-------------------------------------------------------------------------------
(* Types, and what a handler's stage says of what it will write.             *)

Phases == {"idle", "charged", "free", "accepted", "refused", "booked",
           "refunded", "unrefunded", "dead"}

Document == [exists : BOOLEAN, status : ShipmentStatus, deleted : BOOLEAN,
             booked : BOOLEAN, isCOD : BOOLEAN,
             codStatus : {"PENDING", "COLLECTED", "REMITTED"}, isReturn : BOOLEAN]

Handler == [stage : {"idle", "cancelAtCarrier", "transaction", "track", "save"},
            entry : EntryPoints, arg : ShipmentStatus \cup {"COD", "PREPAID"}, doc : Document]

Histories == [last : ShipmentStatus \cup {"none"}, seen : SUBSET MoneyStatuses]

TypeInv ==
  /\ booking \in Phases
  /\ ship \in Document
  /\ history \in Histories
  /\ moved \in [TransactionTypes -> [Parties -> Nat]]
  /\ cod \in [records : Nat, escrow : Nat]
  /\ carrier \in {"none"} \cup ShipmentStatus
  /\ emitted \subseteq ShipmentStatus
  /\ req \in [Requests -> Handler]

\* A handler that saves a status holds one; the cron only tracks what the
\* carrier has.
HandlerOK(r) ==
  /\ req[r].stage = "transaction" => req[r].arg \in {"CANCELLED", "RTO", "DELIVERED"}
  /\ req[r].stage = "cancelAtCarrier" => req[r].arg = "CANCELLED"
  /\ req[r].stage = "track" => req[r].entry = "poll" /\ carrier # "none"
  /\ req[r].stage = "save" /\ req[r].entry # "edit" => req[r].arg \in ShipmentStatus

\* The shipment carries a carrier's number.
BookedAtCarrier == ship.booked => carrier # "none"

\* The carrier's number is known only once the carrier has the order.
CarrierInv ==
  /\ booking \in {"accepted", "booked"} => carrier # "none"
  /\ BookedAtCarrier

ControlInv == TypeInv /\ CarrierInv /\ \A r \in Requests : HandlerOK(r)

LEMMA StatusFacts ==
  /\ {"CANCELLED", "RTO", "DELIVERED", "ORDER_CREATED"} \subseteq ShipmentStatus
  /\ {"none", "COD", "PREPAID"} \cap ShipmentStatus = {}
  /\ WebhookStatuses \subseteq ShipmentStatus
BY DEF ShipmentStatus, WebhookStatuses

LEMMA DraftType == \A kind : Draft(kind) \in Document
BY StatusFacts DEF Draft, Document

LEMMA ControlInit == Init => ControlInv
BY StatusFacts, ShipmentAssumption DEF Init, ControlInv, TypeInv, CarrierInv, HandlerOK, Phases,
  Document, Handler, Histories, NoShipment, Idle, EntryPoints, BookedAtCarrier, TransactionTypes

\* The names of the references: CHARGE-<awb>, REFUND-<awb> and RTO-<awb>.
Names == {"CHARGE", "REFUND", "RTO"}

Posted(name, p) == <<name, p>> \in posted

\* What posting does: an amount moves once for each payer whose reference is new;
\* no other reference appears and no other type of entry changes.
Posts(name, type, amount, payers) ==
  /\ \A p \in Parties :
       /\ moved'[type][p] = IF p \in payers /\ ~Posted(name, p)
                             THEN moved[type][p] + amount[p] ELSE moved[type][p]
       /\ Posted(name, p)' <=> Posted(name, p) \/ p \in payers
  /\ \A t \in TransactionTypes \ {type} : moved'[t] = moved[t]
  /\ \A n \in Names \ {name} : \A p \in Parties : Posted(n, p)' <=> Posted(n, p)

LEMMA PostEffect ==
  ASSUME TypeInv, NEW name, NEW type \in TransactionTypes, NEW amount \in [Parties -> Nat],
         NEW payers \in SUBSET Parties, Post(name, type, amount, payers)
  PROVE  /\ moved' \in [TransactionTypes -> [Parties -> Nat]]
         /\ Posts(name, type, amount, payers)
<1> DEFINE gain(p) == IF p \in payers /\ <<name, p>> \notin posted THEN amount[p] ELSE 0
           new == [p \in Parties |-> moved[type][p] + gain(p)]
<1>1. moved' = [moved EXCEPT ![type] = new]
  BY DEF Post
<1>2. moved[type] \in [Parties -> Nat]
  BY DEF TypeInv
<1>3. new \in [Parties -> Nat] /\ \A p \in Parties :
        new[p] = IF p \in payers /\ ~Posted(name, p)
                 THEN moved[type][p] + amount[p] ELSE moved[type][p]
  BY <1>2 DEF Posted
<1>4. posted' = posted \cup {<<name, p>> : p \in payers}
  BY DEF Post
<1>5. /\ \A p \in Parties : Posted(name, p)' <=> Posted(name, p) \/ p \in payers
      /\ \A n \in Names \ {name} : \A p \in Parties : Posted(n, p)' <=> Posted(n, p)
  BY <1>4 DEF Posted
<1> HIDE DEF new
<1>6. moved' \in [TransactionTypes -> [Parties -> Nat]] /\ moved'[type] = new
      /\ \A t \in TransactionTypes \ {type} : moved'[t] = moved[t]
  BY <1>1, <1>3 DEF TypeInv
<1>7. QED
  BY <1>3, <1>5, <1>6 DEF Posts

\* A slot takes a new handler, or becomes free, and nothing else happens to the
\* handlers or at the carrier.
LEMMA HandlerMoves ==
  ASSUME TypeInv, \A q \in Requests : HandlerOK(q), NEW r \in Requests, NEW h \in Handler,
         req' = [req EXCEPT ![r] = h], carrier' = carrier,
         h.stage = "transaction" => h.arg \in {"CANCELLED", "RTO", "DELIVERED"},
         h.stage = "cancelAtCarrier" => h.arg = "CANCELLED",
         h.stage = "track" => h.entry = "poll" /\ carrier # "none",
         h.stage = "save" /\ h.entry # "edit" => h.arg \in ShipmentStatus
  PROVE  req' \in [Requests -> Handler] /\ \A q \in Requests : HandlerOK(q)'
<1>1. req' \in [Requests -> Handler] /\ req'[r] = h
      /\ \A q \in Requests \ {r} : req'[q] = req[q]
  BY DEF TypeInv
<1>2. QED
  BY <1>1 DEF HandlerOK

LEMMA IdleHandler == Idle \in Handler /\ Idle.stage = "idle"
BY StatusFacts DEF Idle, Handler, NoShipment, Document, EntryPoints

\* A push records a status in the history.
LEMMA PushType ==
  ASSUME TypeInv, NEW status \in ShipmentStatus, Push(status)
  PROVE  /\ history' \in Histories /\ history'.last = status
         /\ history'.seen = history.seen \cup ({status} \cap MoneyStatuses)
BY DEF TypeInv, Push, Histories

-------------------------------------------------------------------------------

LEMMA ControlBooking ==
  ASSUME ControlInv,
         \/ CreateDraft \/ BeginReturn \/ BookingStep \/ CompensationFails \/ BookingDies
         \/ CarrierMoves
  PROVE  ControlInv'
<1> USE DEF ControlInv
<1>1. ASSUME UNCHANGED req, carrier' = carrier \/ carrier' # "none"
      PROVE  \A r \in Requests : HandlerOK(r)'
  BY <1>1 DEF HandlerOK
<1>2. CASE CreateDraft
  <2>1. ship' \in Document /\ history' \in Histories /\ ~ship'.booked
    <3>1. PICK kind \in Kinds \ {"return"} : ship' = Draft(kind)
      BY <1>2 DEF CreateDraft
    <3>2. ~Draft(kind).booked
      BY DEF Draft
    <3>3. QED
      BY <1>2, <3>1, <3>2, DraftType, PushType, StatusFacts DEF CreateDraft
  <2>2. moved' \in [TransactionTypes -> [Parties -> Nat]]
    BY <1>2, PostEffect, ShipmentAssumption DEF CreateDraft, TransactionTypes
  <2>3. QED
    BY <1>1, <1>2, <2>1, <2>2 DEF CreateDraft, TypeInv, Phases, CarrierInv, BookedAtCarrier
<1>3. CASE BeginReturn
  BY <1>1, <1>3 DEF BeginReturn, money, atCarrier, TypeInv, Phases, CarrierInv, BookedAtCarrier
<1>4. CASE CarrierTakesOrder
  BY <1>1, <1>4, StatusFacts DEF CarrierTakesOrder, money, TypeInv, CarrierInv, BookedAtCarrier
<1>5. CASE CarrierAccepts
  BY <1>1, <1>5 DEF CarrierAccepts, CarrierAnswered, money, atCarrier, TypeInv, Phases,
    CarrierInv, BookedAtCarrier
<1>6. CASE CarrierRefuses
  BY <1>1, <1>6 DEF CarrierRefuses, money, atCarrier, TypeInv, Phases, CarrierInv, BookedAtCarrier
<1>7. CASE PersistCarrier
  <2>1. CASE ship.exists
    BY <1>1, <1>7, <2>1 DEF PersistCarrier, money, atCarrier, TypeInv, Phases, Document,
      CarrierInv, BookedAtCarrier
  <2>2. CASE ~ship.exists
    <3>1. ship' \in Document /\ history' \in Histories
      BY <1>7, <2>2, DraftType, PushType, StatusFacts DEF PersistCarrier
    <3>2. QED
      BY <1>1, <1>7, <3>1 DEF PersistCarrier, money, atCarrier, TypeInv, Phases,
        CarrierInv, BookedAtCarrier
  <2>3. QED
    BY <2>1, <2>2
<1>8. CASE Compensate
  <2>1. ship' \in Document /\ history' \in Histories /\ ship'.booked = ship.booked
    BY <1>8, PushType, StatusFacts DEF Compensate, TypeInv, Document
  <2>2. moved' \in [TransactionTypes -> [Parties -> Nat]]
    BY <1>8, PostEffect, ShipmentAssumption DEF Compensate, TransactionTypes
  <2>3. QED
    BY <1>1, <1>8, <2>1, <2>2 DEF Compensate, TypeInv, Phases, CarrierInv, BookedAtCarrier
<1>9. CASE CompensationFails \/ BookingDies
  BY <1>1, <1>9 DEF CompensationFails, BookingDies, money, atCarrier, TypeInv, Phases,
    CarrierInv, BookedAtCarrier
<1>10. CASE CarrierMoves
  <2>1. carrier' \in ShipmentStatus /\ emitted' \subseteq ShipmentStatus
    BY <1>10, ShipmentAssumption DEF CarrierMoves, TypeInv
  <2>2. QED
    BY <1>1, <1>10, <2>1, StatusFacts DEF CarrierMoves, money, TypeInv, CarrierInv, BookedAtCarrier
<1>11. QED
  BY <1>2, <1>3, <1>4, <1>5, <1>6, <1>7, <1>8, <1>9, <1>10 DEF BookingStep

LEMMA ControlReceive ==
  ASSUME ControlInv, NEW r \in Requests, Receive(r)
  PROVE  ControlInv'
<1> USE DEF ControlInv
<1>1. UNCHANGED <<booking, ship, history, money, atCarrier>>
  BY DEF Receive, Delete, UpdateStatus, Webhook, Poll, Edit, Read
<1>2. ASSUME NEW stage \in {"cancelAtCarrier", "transaction", "track", "save"},
             NEW entry \in EntryPoints, NEW arg \in ShipmentStatus \cup {"COD", "PREPAID"},
             Read(r, stage, entry, arg),
             stage = "transaction" => arg \in {"CANCELLED", "RTO", "DELIVERED"},
             stage = "cancelAtCarrier" => arg = "CANCELLED",
             stage = "track" => entry = "poll" /\ carrier # "none",
             stage = "save" /\ entry # "edit" => arg \in ShipmentStatus
      PROVE  ControlInv'
  <2> DEFINE h == [stage |-> stage, entry |-> entry, arg |-> arg, doc |-> ship]
  <2>1. h \in Handler /\ req' = [req EXCEPT ![r] = h] /\ carrier' = carrier
    BY <1>1, <1>2 DEF Read, Handler, TypeInv, atCarrier
  <2>2. req' \in [Requests -> Handler] /\ \A q \in Requests : HandlerOK(q)'
    <3>1. /\ h.stage = "transaction" => h.arg \in {"CANCELLED", "RTO", "DELIVERED"}
          /\ h.stage = "cancelAtCarrier" => h.arg = "CANCELLED"
          /\ h.stage = "track" => h.entry = "poll" /\ carrier # "none"
          /\ h.stage = "save" /\ h.entry # "edit" => h.arg \in ShipmentStatus
      BY <1>2
    <3> HIDE DEF h
    <3>2. QED
      BY <2>1, <3>1, HandlerMoves
  <2>3. QED
    BY <1>1, <2>2 DEF TypeInv, CarrierInv, BookedAtCarrier, money, atCarrier
<1>3. CASE Delete(r)
  BY <1>2, <1>3, StatusFacts DEF Delete, EntryPoints
<1>4. CASE UpdateStatus(r)
  <2>1. PICK next \in ShipmentStatus :
          Read(r, IF next \in {"CANCELLED", "RTO", "DELIVERED"} THEN "transaction" ELSE "save",
               "status", next)
    BY <1>4 DEF UpdateStatus
  <2>2. QED
    BY <1>2, <2>1 DEF EntryPoints
<1>5. CASE Webhook(r)
  BY <1>2, <1>5, StatusFacts DEF Webhook, EntryPoints
<1>6. CASE Poll(r)
  <2>1. carrier # "none" /\ ship.status \in ShipmentStatus
    BY <1>6 DEF Poll, CarrierInv, BookedAtCarrier, TypeInv, Document
  <2>2. QED
    BY <1>2, <1>6, <2>1 DEF Poll, EntryPoints
<1>7. CASE Edit(r)
  BY <1>2, <1>7 DEF Edit, EntryPoints
<1>8. QED
  BY <1>3, <1>4, <1>5, <1>6, <1>7 DEF Receive

\* The three transactions change the shipment's status, push it and free the
\* slot; what they change besides has its type.
LEMMA ControlCommit ==
  ASSUME ControlInv, NEW r \in Requests,
         CommitCancellation(r) \/ CommitRTO(r) \/ CommitDelivery(r)
  PROVE  ControlInv'
<1> USE DEF ControlInv
<1>1. req' \in [Requests -> Handler] /\ \A q \in Requests : HandlerOK(q)'
  <2>1. req' = [req EXCEPT ![r] = Idle] /\ carrier' = carrier
    BY DEF CommitCancellation, CommitRTO, CommitDelivery, Return
  <2>2. QED
    BY <2>1, IdleHandler, HandlerMoves
<1>2. ship' \in Document /\ ship'.booked = ship.booked
  <2>1. CASE CommitCancellation(r)
    BY <2>1, StatusFacts DEF CommitCancellation, TypeInv, Document
  <2>2. CASE CommitRTO(r)
    BY <2>2, StatusFacts DEF CommitRTO, TypeInv, Document
  <2>3. CASE CommitDelivery(r)
    <3> DEFINE c == IF Collects(req[r].doc) THEN "COLLECTED" ELSE "REMITTED"
    <3>1. ship' = [ship EXCEPT !.status = "DELIVERED",
                     !.codStatus = Modified(req[r].doc.codStatus, c, @)]
      BY <2>3 DEF CommitDelivery
    <3>2. Modified(req[r].doc.codStatus, c, ship.codStatus)
            \in {"PENDING", "COLLECTED", "REMITTED"}
      BY DEF Modified, TypeInv, Document
    <3>3. QED
      BY <3>1, <3>2, StatusFacts DEF TypeInv, Document
  <2>4. QED
    BY <2>1, <2>2, <2>3
<1>3. history' \in Histories
  BY PushType, StatusFacts DEF CommitCancellation, CommitRTO, CommitDelivery
<1>4. moved' \in [TransactionTypes -> [Parties -> Nat]]
  <2>1. CASE CommitCancellation(r)
    <3> DEFINE payers == RefundsDue(req[r].doc)
    <3>1. payers \in SUBSET Parties /\ Post("REFUND", "REFUND", Cost, payers)
      BY <2>1 DEF CommitCancellation, RefundsDue
    <3> HIDE DEF payers
    <3>2. QED
      BY <3>1, PostEffect, ShipmentAssumption DEF TransactionTypes
  <2>2. CASE CommitRTO(r)
    <3> DEFINE fee == [p \in Parties |-> RtoCharge]
    <3>1. fee \in [Parties -> Nat] /\ Post("RTO", "RTO_CHARGE", fee, Parties)
      BY <2>2, ShipmentAssumption DEF CommitRTO
    <3> HIDE DEF fee
    <3>2. QED
      BY <3>1, PostEffect DEF TransactionTypes
  <2>3. CASE CommitDelivery(r)
    BY <2>3 DEF CommitDelivery, TypeInv
  <2>4. QED
    BY <2>1, <2>2, <2>3
<1>5. cod' \in [records : Nat, escrow : Nat]
  BY DEF CommitCancellation, CommitRTO, CommitDelivery, TypeInv
<1>6. UNCHANGED <<booking, carrier, emitted>>
  BY DEF CommitCancellation, CommitRTO, CommitDelivery
<1>7. QED
  BY <1>1, <1>2, <1>3, <1>4, <1>5, <1>6 DEF TypeInv, CarrierInv, BookedAtCarrier

LEMMA ControlHandle ==
  ASSUME ControlInv, NEW r \in Requests, Handle(r)
  PROVE  ControlInv'
<1> USE DEF ControlInv
<1>1. CASE CancelAtCarrier(r)
  <2>1. req' \in [Requests -> Handler] /\ \A q \in Requests \ {r} : req'[q] = req[q]
    BY <1>1 DEF CancelAtCarrier, TypeInv, Handler
  <2>2. req'[r].stage = "transaction" /\ req'[r].arg = "CANCELLED"
    BY <1>1 DEF CancelAtCarrier, TypeInv, Handler, HandlerOK
  <2>3. /\ carrier' \in {"none"} \cup ShipmentStatus /\ emitted' \subseteq ShipmentStatus
        /\ carrier # "none" => carrier' # "none"
    BY <1>1, StatusFacts DEF CancelAtCarrier, TypeInv, atCarrier
  <2>4. \A q \in Requests : HandlerOK(q)'
    BY <2>1, <2>2, <2>3 DEF HandlerOK
  <2>5. QED
    BY <1>1, <2>1, <2>3, <2>4 DEF CancelAtCarrier, money, TypeInv, CarrierInv, BookedAtCarrier
<1>2. CASE Track(r)
  <2>1. CASE carrier = req[r].doc.status
    BY <1>2, <2>1, IdleHandler, HandlerMoves
    DEF Track, Return, money, atCarrier, TypeInv, CarrierInv, BookedAtCarrier
  <2>2. CASE carrier # req[r].doc.status
    <3>1. carrier \in ShipmentStatus
      BY <1>2 DEF Track, HandlerOK, TypeInv
    <3>2. req' \in [Requests -> Handler] /\ \A q \in Requests \ {r} : req'[q] = req[q]
      BY <1>2, <2>2, <3>1 DEF Track, TypeInv, Handler
    <3>3. req'[r].stage = "save" /\ req'[r].arg = carrier
      BY <1>2, <2>2 DEF Track, TypeInv, Handler
    <3>4. \A q \in Requests : HandlerOK(q)'
      BY <1>2, <3>1, <3>2, <3>3 DEF HandlerOK, Track, atCarrier
    <3>5. QED
      BY <1>2, <3>2, <3>4 DEF Track, money, atCarrier, TypeInv, CarrierInv, BookedAtCarrier
  <2>3. QED
    BY <2>1, <2>2
<1>3. CASE SaveStatus(r)
  <2>1. req[r].arg \in ShipmentStatus
    BY <1>3 DEF SaveStatus, HandlerOK
  <2>2. ship' \in Document /\ ship'.booked = ship.booked /\ history' \in Histories
    BY <1>3, <2>1, PushType DEF SaveStatus, TypeInv, Document
  <2>3. req' \in [Requests -> Handler] /\ \A q \in Requests : HandlerOK(q)'
    BY <1>3, IdleHandler, HandlerMoves DEF SaveStatus, Return, atCarrier
  <2>4. QED
    BY <1>3, <2>2, <2>3 DEF SaveStatus, money, atCarrier, TypeInv, CarrierInv, BookedAtCarrier
<1>4. CASE SaveEdit(r)
  <2>1. ship' \in Document /\ ship'.booked = ship.booked
    BY <1>4 DEF SaveEdit, Modified, TypeInv, Document
  <2>2. req' \in [Requests -> Handler] /\ \A q \in Requests : HandlerOK(q)'
    BY <1>4, IdleHandler, HandlerMoves DEF SaveEdit, Return, atCarrier
  <2>3. QED
    BY <1>4, <2>1, <2>2 DEF SaveEdit, money, atCarrier, TypeInv, CarrierInv, BookedAtCarrier
<1>5. CASE GiveUp(r)
  <2>1. req' = [req EXCEPT ![r] = Idle]
        /\ UNCHANGED <<booking, ship, history, money, atCarrier>>
    BY <1>5 DEF GiveUp, Return
  <2>2. QED
    BY <2>1, IdleHandler, HandlerMoves DEF money, atCarrier, TypeInv, CarrierInv, BookedAtCarrier
<1>6. QED
  BY <1>1, <1>2, <1>3, <1>4, <1>5, ControlCommit DEF Handle

LEMMA ControlStep == ControlInv /\ [Next]_vars => ControlInv'
<1> SUFFICES ASSUME ControlInv, [Next]_vars PROVE ControlInv'
  OBVIOUS
<1>1. CASE UNCHANGED vars
  BY <1>1 DEF vars, ControlInv, TypeInv, CarrierInv, HandlerOK, BookedAtCarrier
<1>2. CASE Next
  BY <1>2, ControlBooking, ControlReceive, ControlHandle DEF Next
<1>3. QED
  BY <1>1, <1>2

LEMMA ControlHolds == Spec => []ControlInv
BY ControlInit, ControlStep, PTL DEF Spec

\* Every reachable state of a shipment is well typed, for all handlers.
THEOREM TypeCorrect == Spec => []TypeOK
<1>1. ControlInv => TypeOK
  BY DEF ControlInv, TypeInv, TypeOK, Phases, Document, Handler, Histories
<1>2. QED
  BY <1>1, ControlHolds, PTL

-------------------------------------------------------------------------------
(* Money: how the ledger, the booking and the handlers' documents agree.     *)

Charged == \A p \in Parties : Posted("CHARGE", p) /\ moved["CHARGE"][p] = Cost[p]

NotCharged == \A p \in Parties : ~Posted("CHARGE", p) /\ moved["CHARGE"][p] = 0

\* A forward shipment is charged when its draft appears, a return never is; and
\* a handler knows which of the two it holds, however old its document.
ChargeInv ==
  /\ booking \in {"idle", "free"} => ~ship.exists
  /\ booking \in {"charged", "refused", "refunded", "unrefunded"} => ship.exists /\ ~ship.isReturn
  /\ IF ship.exists /\ ~ship.isReturn THEN Charged ELSE NotCharged
  /\ \A r \in Requests :
       req[r].stage # "idle" => ship.exists /\ req[r].doc.isReturn = ship.isReturn

NothingRefunded ==
  \A p \in Parties : moved["REFUND"][p] = 0 /\ (Cost[p] > 0 => ~Posted("REFUND", p))

AllRefunded ==
  \A p \in Parties :
    moved["REFUND"][p] = Cost[p] /\ (Cost[p] > 0 => Posted("REFUND", p))

\* The refunds are posted together, for a charged shipment that was cancelled.
RefundInv == NothingRefunded \/ (AllRefunded /\ Charged /\ "CANCELLED" \in history.seen)

NoFee == \A p \in Parties : moved["RTO_CHARGE"][p] = 0 /\ ~Posted("RTO", p)

AllPaidFee == \A p \in Parties : moved["RTO_CHARGE"][p] = RtoCharge /\ Posted("RTO", p)

FeeInv == NoFee \/ (AllPaidFee /\ "RTO" \in history.seen)

LedgerInv == ChargeInv /\ RefundInv /\ FeeInv /\ CODCollectedOnce /\ HistoryExplainsStatus

LEMMA LedgerInit == Init => LedgerInv
BY DEF Init, LedgerInv, ChargeInv, RefundInv, FeeInv, CODCollectedOnce, HistoryExplainsStatus,
  NotCharged, NothingRefunded, NoFee, Posted, NoShipment, Idle, TransactionTypes

\* The entries stand: a step that posts nothing keeps what they say.
LEMMA EntriesStand ==
  ASSUME RefundInv, FeeInv, UNCHANGED <<posted, moved>>, history.seen \subseteq history'.seen
  PROVE  RefundInv' /\ FeeInv' /\ (Charged => Charged') /\ (NotCharged => NotCharged')
BY DEF RefundInv, FeeInv, Charged, NotCharged, NothingRefunded, AllRefunded, NoFee, AllPaidFee, Posted

\* Charging touches neither refunds nor fees.
LEMMA ChargeEntries ==
  ASSUME TypeInv, RefundInv, FeeInv, NotCharged, history.seen \subseteq history'.seen,
         Post("CHARGE", "CHARGE", Cost, Parties)
  PROVE  RefundInv' /\ FeeInv' /\ Charged'
<1>1. Posts("CHARGE", "CHARGE", Cost, Parties)
  BY PostEffect, ShipmentAssumption DEF TransactionTypes
<1>2. Charged'
  <2>1. \A p \in Parties : Cost[p] \in Nat /\ moved["CHARGE"][p] \in Nat
    BY ShipmentAssumption DEF TypeInv, TransactionTypes
  <2>2. QED
    BY <1>1, <2>1 DEF NotCharged, Charged, Posts
<1>3. NothingRefunded => NothingRefunded'
  BY <1>1 DEF NothingRefunded, TransactionTypes, Posts, Names
<1>4. AllRefunded => AllRefunded'
  BY <1>1 DEF AllRefunded, TransactionTypes, Posts, Names
<1>5. (NoFee => NoFee') /\ (AllPaidFee => AllPaidFee')
  BY <1>1 DEF NoFee, AllPaidFee, TransactionTypes, Posts, Names
<1>6. QED
  BY <1>2, <1>3, <1>4, <1>5 DEF RefundInv, FeeInv

\* A refund of every payer who paid something - or of none, for a return - under
\* one reference: it completes nothing that was not complete already.
LEMMA RefundEntries ==
  ASSUME TypeInv, RefundInv, FeeInv, history.seen \subseteq history'.seen,
         NEW payers \in SUBSET Parties, Post("REFUND", "REFUND", Cost, payers),
         \/ payers = {}
         \/ Charged /\ "CANCELLED" \in history'.seen /\ \A p \in Parties : Cost[p] > 0 => p \in payers
  PROVE  /\ RefundInv' /\ FeeInv' /\ (Charged => Charged') /\ (NotCharged => NotCharged')
         /\ payers # {} => AllRefunded'
         /\ (\A p \in Parties : Cost[p] > 0 => p \in payers) => AllRefunded'
<1>1. Posts("REFUND", "REFUND", Cost, payers)
  BY PostEffect, ShipmentAssumption DEF TransactionTypes
<1>2. (Charged => Charged') /\ (NotCharged => NotCharged')
  BY <1>1 DEF Charged, NotCharged, TransactionTypes, Posts, Names
<1>3. FeeInv'
  BY <1>1 DEF FeeInv, NoFee, AllPaidFee, TransactionTypes, Posts, Names
<1>4. \A p \in Parties : Cost[p] \in Nat /\ moved["REFUND"][p] \in Nat
  BY ShipmentAssumption DEF TypeInv, TransactionTypes
<1>5. CASE payers = {}
  <2>1. (NothingRefunded => NothingRefunded') /\ (AllRefunded => AllRefunded')
    BY <1>1, <1>4, <1>5 DEF NothingRefunded, AllRefunded, TypeInv, TransactionTypes, Posts, Names
  <2>2. (\A p \in Parties : ~(Cost[p] > 0)) => (NothingRefunded => AllRefunded)
    BY <1>4 DEF NothingRefunded, AllRefunded
  <2>3. QED
    BY <1>2, <1>3, <1>5, <2>1, <2>2 DEF RefundInv
<1>6. CASE \A p \in Parties : Cost[p] > 0 => p \in payers
  <2>1. NothingRefunded => AllRefunded'
    BY <1>1, <1>4, <1>6 DEF NothingRefunded, AllRefunded, Posts
  <2>2. AllRefunded => AllRefunded'
    BY <1>1, <1>4 DEF AllRefunded, Posts
  <2>3. QED
    BY <1>2, <1>3, <1>5, <1>6, <2>1, <2>2 DEF RefundInv
<1>7. QED
  BY <1>5, <1>6

\* The fee of a return to origin.
LEMMA FeeEntries ==
  ASSUME TypeInv, RefundInv, FeeInv, history.seen \subseteq history'.seen, "RTO" \in history'.seen,
         Post("RTO", "RTO_CHARGE", [p \in Parties |-> RtoCharge], Parties)
  PROVE  RefundInv' /\ FeeInv' /\ (Charged => Charged') /\ (NotCharged => NotCharged')
<1> DEFINE fee == [p \in Parties |-> RtoCharge]
<1>1. fee \in [Parties -> Nat] /\ (\A p \in Parties : fee[p] = RtoCharge) /\ RtoCharge \in Nat
      /\ Post("RTO", "RTO_CHARGE", fee, Parties)
  BY ShipmentAssumption
<1> HIDE DEF fee
<1>2. Posts("RTO", "RTO_CHARGE", fee, Parties)
  BY <1>1, PostEffect DEF TransactionTypes
<1>3. (Charged => Charged') /\ (NotCharged => NotCharged')
  BY <1>2 DEF Charged, NotCharged, TransactionTypes, Posts, Names
<1>4. (NothingRefunded => NothingRefunded') /\ (AllRefunded => AllRefunded')
  BY <1>2 DEF NothingRefunded, AllRefunded, TransactionTypes, Posts, Names
<1>5. AllPaidFee'
  BY <1>1, <1>2 DEF FeeInv, NoFee, AllPaidFee, Posts
<1>6. QED
  BY <1>3, <1>4, <1>5 DEF RefundInv, FeeInv

\* A push grows what the history has seen.
LEMMA PushGrows ==
  ASSUME NEW status, Push(status)
  PROVE  /\ history'.last = status /\ history.seen \subseteq history'.seen
         /\ status \in MoneyStatuses => status \in history'.seen
BY DEF Push

\* Handlers keep the document they hold: of one, it is told whether it is a
\* return; a slot that is freed holds none.
LEMMA DocumentsKept ==
  ASSUME ChargeInv, TypeInv, NEW r \in Requests,
         \/ UNCHANGED req
         \/ req' = [req EXCEPT ![r] = Idle]
         \/ req' = [req EXCEPT ![r].stage = "transaction"] /\ req[r].stage # "idle"
         \/ req' = [req EXCEPT ![r].stage = "save", ![r].arg = carrier] /\ req[r].stage # "idle",
         ship'.exists = ship.exists, ship'.isReturn = ship.isReturn
  PROVE  \A q \in Requests :
           req'[q].stage # "idle" => ship'.exists /\ req'[q].doc.isReturn = ship'.isReturn
<1>1. \A q \in Requests : q # r => req'[q] = req[q]
  BY DEF TypeInv
<1>2. req'[r].stage # "idle" => req[r].stage # "idle" /\ req'[r].doc = req[r].doc
  BY IdleHandler DEF TypeInv, Handler
<1>3. QED
  BY <1>1, <1>2 DEF ChargeInv

LEMMA LedgerBooking ==
  ASSUME ControlInv, LedgerInv,
         \/ CreateDraft \/ BeginReturn \/ BookingStep \/ CompensationFails \/ BookingDies
         \/ CarrierMoves
  PROVE  LedgerInv'
<1> USE DEF LedgerInv
<1>1. CASE UNCHANGED <<ship, history, money, req>>
           /\ (booking' \in {"idle", "free"} => booking \in {"idle", "free"})
           /\ (booking' \in {"charged", "refused", "refunded", "unrefunded"} =>
                 booking \in {"charged", "refused"} \/ booking' = booking)
  BY <1>1, EntriesStand
  DEF money, ChargeInv, CODCollectedOnce, HistoryExplainsStatus, Charged, NotCharged, Posted
<1>2. CASE CreateDraft
  <2>1. PICK kind \in Kinds \ {"return"} : ship' = Draft(kind)
    BY <1>2 DEF CreateDraft
  <2>2. /\ ship'.exists /\ ~ship'.isReturn /\ ship'.status = "ORDER_CREATED"
        /\ ship'.codStatus # "COLLECTED"
    BY <2>1 DEF Draft
  <2>3. NotCharged /\ \A r \in Requests : req[r].stage = "idle"
    BY <1>2 DEF CreateDraft, ChargeInv
  <2>4. RefundInv' /\ FeeInv' /\ Charged'
    BY <1>2, <2>3, ChargeEntries, PushGrows DEF CreateDraft, ControlInv
  <2>5. ChargeInv'
    BY <1>2, <2>2, <2>3, <2>4 DEF CreateDraft, ChargeInv
  <2>6. HistoryExplainsStatus' /\ CODCollectedOnce'
    BY <1>2, <2>2, PushGrows DEF CreateDraft, HistoryExplainsStatus, CODCollectedOnce
  <2>7. QED
    BY <2>4, <2>5, <2>6
<1>3. CASE PersistCarrier
  <2>1. CASE ship.exists
    <3>1. /\ UNCHANGED <<history, money, req>> /\ booking' = "booked"
          /\ ship' = [ship EXCEPT !.booked = TRUE]
      BY <1>3, <2>1 DEF PersistCarrier
    <3>2. /\ ship'.exists = ship.exists /\ ship'.isReturn = ship.isReturn
          /\ ship'.status = ship.status /\ ship'.codStatus = ship.codStatus
      BY <3>1 DEF ControlInv, TypeInv, Document
    <3>3. QED
      BY <3>1, <3>2, EntriesStand
      DEF money, ChargeInv, CODCollectedOnce, HistoryExplainsStatus, Charged, NotCharged, Posted
  <2>2. CASE ~ship.exists
    <3>1. /\ UNCHANGED <<money, req>> /\ booking' = "booked" /\ Push("ORDER_CREATED")
          /\ ship' = Draft("return")
      BY <1>3, <2>2 DEF PersistCarrier
    <3>2. /\ ship'.exists /\ ship'.isReturn /\ ship'.status = "ORDER_CREATED"
          /\ ship'.codStatus # "COLLECTED"
      BY <3>1 DEF Draft
    <3>3. NotCharged /\ \A r \in Requests : req[r].stage = "idle"
      BY <2>2 DEF ChargeInv
    <3>4. RefundInv' /\ FeeInv' /\ NotCharged'
      BY <3>1, <3>3, EntriesStand, PushGrows DEF money
    <3>5. ChargeInv'
      BY <3>1, <3>2, <3>3, <3>4 DEF ChargeInv
    <3>6. HistoryExplainsStatus' /\ CODCollectedOnce'
      BY <3>1, <3>2, PushGrows DEF HistoryExplainsStatus, CODCollectedOnce, money
    <3>7. QED
      BY <3>4, <3>5, <3>6
  <2>3. QED
    BY <2>1, <2>2
<1>4. CASE Compensate
  <2>1. /\ ship.exists /\ ~ship.isReturn /\ Charged
    BY <1>4 DEF Compensate, ChargeInv
  <2>2. /\ ship'.exists = ship.exists /\ ship'.isReturn = ship.isReturn
        /\ ship'.status = "CANCELLED" /\ ship'.codStatus = ship.codStatus
    BY <1>4 DEF Compensate, ControlInv, TypeInv, Document
  <2>3. Push("CANCELLED") /\ "CANCELLED" \in history'.seen /\ history.seen \subseteq history'.seen
        /\ history'.last = "CANCELLED"
    BY <1>4, PushGrows DEF Compensate, MoneyStatuses
  <2>4. RefundInv' /\ FeeInv' /\ Charged'
    BY <1>4, <2>1, <2>3, RefundEntries DEF Compensate, CompensationReference, ControlInv
  <2>5. ChargeInv'
    BY <1>4, <2>1, <2>2, <2>4 DEF Compensate, ChargeInv
  <2>6. HistoryExplainsStatus' /\ CODCollectedOnce'
    BY <1>4, <2>2, <2>3 DEF Compensate, HistoryExplainsStatus, CODCollectedOnce
  <2>7. QED
    BY <2>4, <2>5, <2>6
<1>5. QED
  BY <1>1, <1>2, <1>3, <1>4 DEF BookingStep, BeginReturn, CarrierTakesOrder, CarrierAccepts,
    CarrierRefuses, CompensationFails, BookingDies, CarrierMoves

LEMMA LedgerReceive ==
  ASSUME ControlInv, LedgerInv, NEW r \in Requests, Receive(r)
  PROVE  LedgerInv'
<1> USE DEF LedgerInv
<1>1. UNCHANGED <<booking, ship, history, money, atCarrier>> /\ ship.exists
  BY DEF Receive, Delete, UpdateStatus, Webhook, Poll, Edit, Read, Visible
<1>2. \A q \in Requests : q # r => req'[q] = req[q]
  BY DEF Receive, Delete, UpdateStatus, Webhook, Poll, Edit, Read, ControlInv, TypeInv
<1>3. req'[r].doc = ship
  BY DEF Receive, Delete, UpdateStatus, Webhook, Poll, Edit, Read, ControlInv, TypeInv
<1>4. \A q \in Requests :
        req'[q].stage # "idle" => ship'.exists /\ req'[q].doc.isReturn = ship'.isReturn
  BY <1>1, <1>2, <1>3 DEF ChargeInv
<1>5. RefundInv' /\ FeeInv' /\ (Charged => Charged') /\ (NotCharged => NotCharged')
  BY <1>1, EntriesStand DEF money
<1>6. QED
  BY <1>1, <1>4, <1>5 DEF money, ChargeInv, CODCollectedOnce, HistoryExplainsStatus

LEMMA LedgerHandle ==
  ASSUME ControlInv, LedgerInv, NEW r \in Requests, Handle(r)
  PROVE  LedgerInv'
<1> USE DEF LedgerInv
<1>1. ship'.exists = ship.exists /\ ship'.isReturn = ship.isReturn /\ booking' = booking
  BY DEF Handle, CancelAtCarrier, CommitCancellation, CommitRTO, CommitDelivery, Track,
    SaveStatus, SaveEdit, GiveUp, ControlInv, TypeInv, Document
<1>2. \A q \in Requests :
        req'[q].stage # "idle" => ship'.exists /\ req'[q].doc.isReturn = ship'.isReturn
  BY <1>1, DocumentsKept DEF ControlInv, Handle, CancelAtCarrier, CommitCancellation, CommitRTO,
    CommitDelivery, Track, SaveStatus, SaveEdit, GiveUp, Return
<1>3. ASSUME (Charged => Charged') /\ (NotCharged => NotCharged')
      PROVE  ChargeInv'
  BY <1>1, <1>2, <1>3 DEF ChargeInv
<1>4. CASE CommitCancellation(r)
  <2> DEFINE payers == RefundsDue(req[r].doc)
  <2>1. /\ payers \in SUBSET Parties /\ Post("REFUND", "REFUND", Cost, payers)
        /\ Push("CANCELLED") /\ cod' = cod /\ req[r].stage # "idle"
    BY <1>4 DEF CommitCancellation, RefundsDue
  <2>2. ship'.status = "CANCELLED" /\ ship'.codStatus = ship.codStatus
    BY <1>4 DEF CommitCancellation, ControlInv, TypeInv, Document
  <2>3. history'.last = "CANCELLED" /\ "CANCELLED" \in history'.seen
        /\ history.seen \subseteq history'.seen
    BY <2>1, PushGrows DEF MoneyStatuses
  <2>4. payers = {} \/ (Charged /\ \A p \in Parties : Cost[p] > 0 => p \in payers)
    BY <2>1 DEF RefundsDue, ChargeInv
  <2> HIDE DEF payers
  <2>5. RefundInv' /\ FeeInv' /\ (Charged => Charged') /\ (NotCharged => NotCharged')
    BY <2>1, <2>3, <2>4, RefundEntries DEF ControlInv
  <2>6. HistoryExplainsStatus' /\ CODCollectedOnce'
    BY <2>1, <2>2, <2>3 DEF HistoryExplainsStatus, CODCollectedOnce
  <2>7. QED
    BY <1>3, <2>5, <2>6
<1>5. CASE CommitRTO(r)
  <2>1. ship'.status = "RTO" /\ ship'.codStatus = ship.codStatus /\ cod' = cod
    BY <1>5 DEF CommitRTO, ControlInv, TypeInv, Document
  <2>2. history'.last = "RTO" /\ "RTO" \in history'.seen /\ history.seen \subseteq history'.seen
    BY <1>5, PushGrows DEF CommitRTO, MoneyStatuses
  <2>3. RefundInv' /\ FeeInv' /\ (Charged => Charged') /\ (NotCharged => NotCharged')
    BY <1>5, <2>2, FeeEntries DEF CommitRTO, ControlInv
  <2>4. HistoryExplainsStatus' /\ CODCollectedOnce'
    BY <2>1, <2>2 DEF HistoryExplainsStatus, CODCollectedOnce
  <2>5. QED
    BY <1>3, <2>3, <2>4
<1>6. CASE CommitDelivery(r)
  <2>1. UNCHANGED <<posted, moved>> /\ Push("DELIVERED")
    BY <1>6 DEF CommitDelivery
  <2>2. RefundInv' /\ FeeInv' /\ (Charged => Charged') /\ (NotCharged => NotCharged')
    BY <2>1, EntriesStand, PushGrows
  <2>3. ship'.status = "DELIVERED" /\ history'.last = "DELIVERED"
    BY <1>6, <2>1, PushGrows DEF CommitDelivery, ControlInv, TypeInv, Document
  <2>4. CODCollectedOnce'
    <3> DEFINE c == IF Collects(req[r].doc) THEN "COLLECTED" ELSE "REMITTED"
    <3>1. ship'.codStatus = Modified(req[r].doc.codStatus, c, ship.codStatus)
      BY <1>6 DEF CommitDelivery, ControlInv, TypeInv, Document
    <3>2. cod \in [records : Nat, escrow : Nat]
      BY DEF ControlInv, TypeInv
    <3>3. CASE Collects(req[r].doc)
      <4>1. cod.records = 0 /\ cod' = [records |-> cod.records + 1, escrow |-> cod.escrow + 1]
        BY <1>6, <3>2, <3>3 DEF CommitDelivery, CODExists
      <4>2. QED
        BY <4>1 DEF CODCollectedOnce
    <3>4. CASE ~Collects(req[r].doc)
      <4>1. cod' = cod /\ ship'.codStatus \in {"REMITTED", ship.codStatus}
        BY <1>6, <3>1, <3>4 DEF CommitDelivery, Modified
      <4>2. QED
        BY <4>1 DEF CODCollectedOnce
    <3>5. QED
      BY <3>3, <3>4
  <2>5. QED
    BY <1>3, <2>2, <2>3, <2>4 DEF HistoryExplainsStatus
<1>7. CASE SaveStatus(r)
  <2>1. /\ UNCHANGED <<posted, moved, cod>> /\ Push(req[r].arg)
        /\ ship'.status = req[r].arg /\ ship'.codStatus = ship.codStatus
    BY <1>7 DEF SaveStatus, money, ControlInv, TypeInv, Document
  <2>2. RefundInv' /\ FeeInv' /\ (Charged => Charged') /\ (NotCharged => NotCharged')
    BY <2>1, EntriesStand, PushGrows
  <2>3. HistoryExplainsStatus' /\ CODCollectedOnce'
    BY <2>1, PushGrows DEF HistoryExplainsStatus, CODCollectedOnce
  <2>4. QED
    BY <1>3, <2>2, <2>3
<1>8. CASE CancelAtCarrier(r) \/ Track(r) \/ SaveEdit(r) \/ GiveUp(r)
  <2>1. /\ UNCHANGED <<history, posted, moved, cod>>
        /\ ship'.status = ship.status /\ ship'.codStatus = ship.codStatus
    BY <1>8 DEF CancelAtCarrier, Track, SaveEdit, GiveUp, money, ControlInv, TypeInv, Document
  <2>2. RefundInv' /\ FeeInv' /\ (Charged => Charged') /\ (NotCharged => NotCharged')
    BY <2>1, EntriesStand
  <2>3. QED
    BY <1>1, <1>3, <2>1, <2>2 DEF HistoryExplainsStatus, CODCollectedOnce
<1>9. QED
  BY <1>4, <1>5, <1>6, <1>7, <1>8 DEF Handle

LEMMA LedgerStep == ControlInv /\ LedgerInv /\ [Next]_vars => LedgerInv'
<1> SUFFICES ASSUME ControlInv, LedgerInv, [Next]_vars PROVE LedgerInv'
  OBVIOUS
<1>1. CASE UNCHANGED vars
  BY <1>1 DEF vars, LedgerInv, ChargeInv, RefundInv, FeeInv, CODCollectedOnce,
    HistoryExplainsStatus, Charged, NotCharged, NothingRefunded, AllRefunded, NoFee, AllPaidFee,
    Posted
<1>2. CASE Next
  BY <1>2, LedgerBooking, LedgerReceive, LedgerHandle DEF Next
<1>3. QED
  BY <1>1, <1>2

LEMMA LedgerHolds == Spec => []LedgerInv
BY ControlHolds, LedgerInit, LedgerStep, PTL DEF Spec

\* Whatever handlers race on stale documents, fail, or come again, and whatever
\* the carrier tells: what was charged is refunded once, to all or none, and only
\* for a shipment that was cancelled; the fee of a return is taken once, from all
\* or none; and the COD amount enters the escrow once.  The references
\* REFUND-<awb> and RTO-<awb> and the unique index of COD.shipmentId are enough:
\* no lock on the document is needed for it.
THEOREM MoneyMovesAtMostOnce == Spec => []MoneyMovesOnce
<1>1. ControlInv /\ LedgerInv => NeverOverRefunded
  <2> SUFFICES ASSUME ControlInv, LedgerInv PROVE NeverOverRefunded
    OBVIOUS
  <2>1. CASE NothingRefunded
    BY <2>1 DEF NothingRefunded, NeverOverRefunded
  <2>2. CASE AllRefunded /\ Charged /\ "CANCELLED" \in history.seen
    BY <2>2 DEF AllRefunded, Charged, NeverOverRefunded, Refunded
  <2>3. QED
    BY <2>1, <2>2 DEF LedgerInv, RefundInv
<1>2. LedgerInv => RTOChargedOnce
  BY DEF LedgerInv, FeeInv, NoFee, AllPaidFee, RTOChargedOnce
<1>3. ControlInv /\ LedgerInv => MoneyMovesOnce
  BY <1>1, <1>2 DEF LedgerInv, MoneyMovesOnce
<1>4. QED
  BY <1>3, ControlHolds, LedgerHolds, PTL

\* The last event of the statusHistory is the status the shipment has, with stale
\* saves, compensations and the cron writing over each other.
THEOREM HistoryIsTrue == Spec => []HistoryExplainsStatus
BY LedgerHolds, PTL DEF LedgerInv

-------------------------------------------------------------------------------
(* The API alone: what holds as long as no webhook and no cron writes a      *)
(* status, which look neither at the money nor at the document's age.        *)

\* A status is only written by the API's own handlers.
ApiWrites == {"webhook", "poll"} \cap Entries = {}

\* Nor is anything edited.
ApiOnly == Entries \subseteq {"delete", "status"}

\* A handler that will write a status was allowed to, by the document it read.
\* A cancellation, return or delivery is always in a transaction.
AllowedBy(r) ==
  /\ req[r].entry \notin {"webhook", "poll"}
  /\ req[r].entry = "edit" => req[r].stage \in {"idle", "save"}
  /\ req[r].entry # "edit" /\ req[r].stage # "idle" =>
       req[r].arg \in STATUS_TRANSITIONS[req[r].doc.status]
  /\ req[r].entry # "edit" /\ req[r].stage = "save" =>
       req[r].arg \notin {"CANCELLED", "RTO", "DELIVERED"}

ApiInv == \A r \in Requests : AllowedBy(r)

LEMMA ApiInit == Init => ApiInv
BY DEF Init, ApiInv, AllowedBy, Idle

LEMMA ApiStep ==
  ASSUME ApiWrites
  PROVE  ControlInv /\ ApiInv /\ [Next]_vars => ApiInv'
<1> SUFFICES ASSUME ControlInv, ApiInv, [Next]_vars PROVE ApiInv'
  OBVIOUS
<1>1. CASE UNCHANGED req
  BY <1>1 DEF ApiInv, AllowedBy
<1>2. ASSUME NEW r \in Requests, Receive(r) PROVE ApiInv'
  <2>1. \A q \in Requests : q # r => req'[q] = req[q]
    BY <1>2 DEF Receive, Delete, UpdateStatus, Webhook, Poll, Edit, Read, ControlInv, TypeInv
  <2>2. CASE Delete(r)
    <3>1. /\ req'[r].entry = "delete" /\ req'[r].arg = "CANCELLED" /\ req'[r].doc = ship
          /\ req'[r].stage # "save" /\ ship.status = "ORDER_CREATED"
      BY <2>2 DEF Delete, Read, ControlInv, TypeInv
    <3>2. "CANCELLED" \in STATUS_TRANSITIONS["ORDER_CREATED"]
      BY StatusFacts DEF STATUS_TRANSITIONS
    <3>3. QED
      BY <2>1, <3>1, <3>2 DEF ApiInv, AllowedBy
  <2>3. CASE UpdateStatus(r)
    <3>1. PICK next \in ShipmentStatus :
            /\ canTransitionTo(ship, next)
            /\ Read(r, IF next \in {"CANCELLED", "RTO", "DELIVERED"} THEN "transaction" ELSE "save",
                    "status", next)
      BY <2>3 DEF UpdateStatus
    <3>2. /\ req'[r].entry = "status" /\ req'[r].arg = next /\ req'[r].doc = ship
          /\ next \in {"CANCELLED", "RTO", "DELIVERED"} => req'[r].stage = "transaction"
      BY <3>1 DEF Read, ControlInv, TypeInv
    <3>3. QED
      BY <2>1, <3>1, <3>2 DEF ApiInv, AllowedBy, canTransitionTo
  <2>4. CASE Edit(r)
    <3>1. req'[r].entry = "edit" /\ req'[r].stage = "save"
      BY <2>4 DEF Edit, Read, ControlInv, TypeInv
    <3>2. QED
      BY <2>1, <3>1 DEF ApiInv, AllowedBy
  <2>5. QED
    BY <1>2, <2>2, <2>3, <2>4 DEF Receive, Webhook, Poll, ApiWrites
<1>3. ASSUME NEW r \in Requests, Handle(r) PROVE ApiInv'
  <2>1. \A q \in Requests : q # r => req'[q] = req[q]
    BY <1>3 DEF Handle, CancelAtCarrier, CommitCancellation, CommitRTO, CommitDelivery, Track,
      SaveStatus, SaveEdit, GiveUp, Return, ControlInv, TypeInv
  <2>2. CASE req' = [req EXCEPT ![r] = Idle]
    <3>1. req'[r].entry = "status" /\ req'[r].stage = "idle"
      BY <2>2 DEF Idle, ControlInv, TypeInv
    <3>2. QED
      BY <2>1, <3>1 DEF ApiInv, AllowedBy
  <2>3. CASE CancelAtCarrier(r)
    <3>1. req[r].entry # "edit"
      BY <2>3 DEF CancelAtCarrier, ApiInv, AllowedBy
    <3>2. /\ req'[r].entry = req[r].entry /\ req'[r].arg = req[r].arg /\ req'[r].doc = req[r].doc
          /\ req[r].stage # "idle" /\ req'[r].stage = "transaction"
      BY <2>3 DEF CancelAtCarrier, ControlInv, TypeInv, Handler
    <3>3. QED
      BY <2>1, <3>1, <3>2 DEF ApiInv, AllowedBy
  <2>4. ~Track(r)
    BY DEF Track, ControlInv, HandlerOK, ApiInv, AllowedBy
  <2>5. QED
    BY <1>3, <2>2, <2>3, <2>4 DEF Handle, CommitCancellation, CommitRTO, CommitDelivery,
      SaveStatus, SaveEdit, GiveUp, Return
<1>4. QED
  BY <1>1, <1>2, <1>3 DEF Next, vars, CreateDraft, BeginReturn, BookingStep, CarrierTakesOrder,
    CarrierAccepts, CarrierRefuses, PersistCarrier, Compensate, CompensationFails, BookingDies,
    CarrierMoves

LEMMA ApiHolds ==
  ASSUME ApiWrites
  PROVE  Spec => []ApiInv
BY ControlHolds, ApiInit, ApiStep, PTL DEF Spec

\* Before there is a draft nothing sets a status.
UnbornInv == ~ship.exists => ship.status = "ORDER_CREATED"

LEMMA UnbornHolds == Spec => []UnbornInv
<1>1. Init => UnbornInv
  BY DEF Init, UnbornInv, NoShipment
<1>2. ASSUME ControlInv, LedgerInv, UnbornInv, [Next]_vars PROVE UnbornInv'
  <2>1. ASSUME NEW r \in Requests, Handle(r) PROVE ship'.exists
    BY <1>2, <2>1 DEF Handle, CancelAtCarrier, CommitCancellation, CommitRTO, CommitDelivery, Track,
      SaveStatus, SaveEdit, GiveUp, LedgerInv, ChargeInv, ControlInv, TypeInv, Document
  <2>2. ASSUME NEW r \in Requests, Receive(r) PROVE ship' = ship
    BY <2>2 DEF Receive, Delete, UpdateStatus, Webhook, Poll, Edit, Read
  <2>3. CASE CreateDraft
    BY <2>3 DEF CreateDraft, Draft, UnbornInv
  <2>4. CASE PersistCarrier
    <3>1. ship'.exists
      BY <1>2, <2>4 DEF PersistCarrier, Draft, ControlInv, TypeInv, Document
    <3>2. QED
      BY <3>1 DEF UnbornInv
  <2>5. CASE Compensate
    <3>1. ship'.exists
      BY <1>2, <2>5 DEF Compensate, LedgerInv, ChargeInv, ControlInv, TypeInv, Document
    <3>2. QED
      BY <3>1 DEF UnbornInv
  <2>6. CASE ship' = ship
    BY <1>2, <2>6 DEF UnbornInv
  <2>7. QED
    BY <1>2, <2>1, <2>2, <2>3, <2>4, <2>5, <2>6 DEF Next, BookingStep, vars, BeginReturn,
      CarrierTakesOrder, CarrierAccepts, CarrierRefuses, CompensationFails, BookingDies, CarrierMoves,
      UnbornInv
<1>3. QED
  BY <1>1, <1>2, ControlHolds, LedgerHolds, PTL DEF Spec

\* shipment.model.js, "Only these forward transitions are permitted": where only
\* the API writes, a status is set by a request to a successor of the status it
\* read, however the shipment changed meanwhile, and by nothing else but the
\* compensation of a booking that was refused.
THEOREM ForwardWhereApiWrites ==
  ASSUME ApiWrites
  PROVE  Spec => ForwardFromWhatWasRead
<1> DEFINE Forward ==
      \/ ship'.status = ship.status
      \/ booking = "refused" /\ booking' = "refunded" /\ ship'.status = "CANCELLED"
      \/ \E r \in Requests :
           /\ req[r].stage # "idle" /\ req'[r].stage = "idle"
           /\ ship'.status \in STATUS_TRANSITIONS[req[r].doc.status]
<1>1. ASSUME ControlInv, LedgerInv, ApiInv, UnbornInv, [Next]_vars PROVE [Forward]_vars
  <2> SUFFICES ASSUME Next PROVE Forward
    BY <1>1
  <2>1. ASSUME NEW r \in Requests, Handle(r) PROVE Forward
    <3>1. CASE CommitCancellation(r) \/ CommitRTO(r) \/ CommitDelivery(r) \/ SaveStatus(r)
      <4>1. /\ req[r].stage # "idle" /\ req'[r].stage = "idle"
            /\ ship'.status = req[r].arg
        BY <1>1, <3>1, IdleHandler DEF CommitCancellation, CommitRTO, CommitDelivery, SaveStatus,
          Return, ControlInv, TypeInv, Document
      <4>2. req[r].entry # "edit"
        BY <1>1, <3>1 DEF CommitCancellation, CommitRTO, CommitDelivery, SaveStatus, ApiInv, AllowedBy
      <4>3. req[r].arg \in STATUS_TRANSITIONS[req[r].doc.status]
        BY <1>1, <4>1, <4>2 DEF ApiInv, AllowedBy
      <4>4. QED
        BY <4>1, <4>3
    <3>2. CASE CancelAtCarrier(r) \/ Track(r) \/ SaveEdit(r) \/ GiveUp(r)
      BY <1>1, <3>2 DEF CancelAtCarrier, Track, SaveEdit, GiveUp, ControlInv, TypeInv, Document
    <3>3. QED
      BY <2>1, <3>1, <3>2 DEF Handle
  <2>2. CASE CreateDraft
    <3>1. ship.status = "ORDER_CREATED" /\ ship'.status = "ORDER_CREATED"
      BY <1>1, <2>2 DEF CreateDraft, Draft, LedgerInv, ChargeInv, UnbornInv
    <3>2. QED
      BY <3>1
  <2>3. CASE PersistCarrier
    <3>1. ship'.status = ship.status
      BY <1>1, <2>3 DEF PersistCarrier, Draft, UnbornInv, ControlInv, TypeInv, Document
    <3>2. QED
      BY <3>1
  <2>4. CASE Compensate
    BY <1>1, <2>4 DEF Compensate, ControlInv, TypeInv, Document
  <2>5. \A r \in Requests : Receive(r) => ship' = ship
    BY DEF Receive, Delete, UpdateStatus, Webhook, Poll, Edit, Read
  <2>6. QED
    BY <2>1, <2>2, <2>3, <2>4, <2>5 DEF Next, BookingStep, BeginReturn,
      CarrierTakesOrder, CarrierAccepts, CarrierRefuses, CompensationFails, BookingDies, CarrierMoves
<1>2. QED
  BY <1>1, ControlHolds, LedgerHolds, ApiHolds, UnbornHolds, PTL DEF Spec, ForwardFromWhatWasRead

\* The ledger only grows.
LEMMA PostedGrows == [Next]_vars => \A n, p : Posted(n, p) => Posted(n, p)'
<1> SUFFICES ASSUME [Next]_vars PROVE posted \subseteq posted'
  BY DEF Posted
<1>1. \A r \in Requests : Receive(r) \/ Handle(r) => posted \subseteq posted'
  BY DEF Receive, Delete, UpdateStatus, Webhook, Poll, Edit, Read, Handle, CancelAtCarrier,
    CommitCancellation, CommitRTO, CommitDelivery, Track, SaveStatus, SaveEdit, GiveUp, money, Post
<1>2. QED
  BY <1>1 DEF Next, vars, BookingStep, CreateDraft, BeginReturn, CarrierTakesOrder, CarrierAccepts,
    CarrierRefuses, PersistCarrier, Compensate, CompensationFails, BookingDies, CarrierMoves, money,
    Post

\* What is refunded stays refunded.
LEMMA RefundedStays ==
  ASSUME LedgerInv, LedgerInv', [Next]_vars, AllRefunded
  PROVE  AllRefunded'
<1>1. \A p \in Parties : Cost[p] > 0 => Posted("REFUND", p)'
  BY PostedGrows DEF AllRefunded
<1>2. CASE NothingRefunded'
  <2>1. \A p \in Parties : Cost[p] \in Nat
    BY ShipmentAssumption
  <2>2. \A p \in Parties : Cost[p] = 0
    BY <1>1, <1>2, <2>1 DEF NothingRefunded
  <2>3. QED
    BY <1>1, <1>2, <2>2 DEF NothingRefunded, AllRefunded
<1>3. QED
  BY <1>2 DEF LedgerInv, RefundInv

\* Nothing is owed to the payers: all was refunded, or nothing charged.
Settled == AllRefunded \/ (ship.exists /\ ship.isReturn)

LEMMA SettledIsRefunded == LedgerInv /\ Settled => Refunded
<1> SUFFICES ASSUME LedgerInv, Settled PROVE Refunded
  OBVIOUS
<1>1. CASE ship.exists /\ ship.isReturn
  BY <1>1 DEF LedgerInv, ChargeInv, NotCharged, RefundInv, NothingRefunded, Charged, Refunded
<1>2. CASE AllRefunded /\ Charged
  BY <1>2 DEF AllRefunded, Charged, Refunded
<1>3. CASE AllRefunded /\ NotCharged
  BY <1>3 DEF LedgerInv, RefundInv, AllRefunded, NotCharged, NothingRefunded, Charged, Refunded
<1>4. QED
  BY <1>1, <1>2, <1>3 DEF Settled, LedgerInv, ChargeInv

\* Once there is a document, what it is stays.
LEMMA KindStays ==
  ASSUME ControlInv, LedgerInv, [Next]_vars, ship.exists
  PROVE  ship'.exists /\ ship'.isReturn = ship.isReturn
<1>1. ASSUME NEW r \in Requests, Handle(r) PROVE ship'.exists /\ ship'.isReturn = ship.isReturn
  BY <1>1 DEF Handle, CancelAtCarrier, CommitCancellation, CommitRTO, CommitDelivery, Track,
    SaveStatus, SaveEdit, GiveUp, ControlInv, TypeInv, Document
<1>2. ASSUME NEW r \in Requests, Receive(r) PROVE ship' = ship
  BY <1>2 DEF Receive, Delete, UpdateStatus, Webhook, Poll, Edit, Read
<1>3. CASE PersistCarrier \/ Compensate
  BY <1>3 DEF PersistCarrier, Compensate, ControlInv, TypeInv, Document
<1>4. ~CreateDraft
  BY DEF CreateDraft, LedgerInv, ChargeInv
<1>5. QED
  BY <1>1, <1>2, <1>3, <1>4 DEF Next, BookingStep, vars, BeginReturn, CarrierTakesOrder,
    CarrierAccepts, CarrierRefuses, CompensationFails, BookingDies, CarrierMoves

LEMMA SettledStays ==
  ASSUME ControlInv, LedgerInv, LedgerInv', [Next]_vars, Settled
  PROVE  Settled'
BY RefundedStays, KindStays DEF Settled

\* A cancellation settles what was charged.
LEMMA CancellationSettles ==
  ASSUME ControlInv, LedgerInv, NEW r \in Requests, CommitCancellation(r)
  PROVE  Settled'
<1>1. CASE ship.isReturn
  <2>1. ship.exists
    BY DEF CommitCancellation, LedgerInv, ChargeInv
  <2>2. QED
    BY <1>1, <2>1 DEF CommitCancellation, ControlInv, TypeInv, Document, Settled
<1>2. CASE ~ship.isReturn
  <2> DEFINE payers == RefundsDue(req[r].doc)
  <2>1. /\ payers \in SUBSET Parties /\ Post("REFUND", "REFUND", Cost, payers)
        /\ Push("CANCELLED") /\ req[r].stage # "idle"
    BY DEF CommitCancellation, RefundsDue
  <2>2. Charged /\ \A p \in Parties : Cost[p] > 0 => p \in payers
    BY <1>2, <2>1 DEF RefundsDue, LedgerInv, ChargeInv
  <2>3. "CANCELLED" \in history'.seen /\ history.seen \subseteq history'.seen
    BY <2>1, PushGrows DEF MoneyStatuses
  <2> HIDE DEF payers
  <2>4. AllRefunded'
    BY <2>1, <2>2, <2>3, RefundEntries DEF ControlInv, LedgerInv
  <2>5. QED
    BY <2>4 DEF Settled
<1>3. QED
  BY <1>1, <1>2

LEMMA CompensationSettles ==
  ASSUME ControlInv, LedgerInv, Compensate
  PROVE  Settled'
<1>1. Charged
  BY DEF Compensate, LedgerInv, ChargeInv
<1>2. Push("CANCELLED") /\ "CANCELLED" \in history'.seen /\ history.seen \subseteq history'.seen
  BY PushGrows DEF Compensate, MoneyStatuses
<1>3. AllRefunded'
  BY <1>1, <1>2, RefundEntries DEF Compensate, CompensationReference, ControlInv, LedgerInv
<1>4. QED
  BY <1>3 DEF Settled

\* A cancelled shipment is settled; a delivered one has its COD record, since no
\* edit changes what a handler read of it.
EndedInv ==
  /\ ship.exists /\ ship.status = "CANCELLED" => Settled
  /\ DeliveredHasCOD
  /\ \A r \in Requests : /\ req[r].entry # "edit"
                         /\ req[r].stage # "idle" => req[r].doc.isCOD = ship.isCOD

LEMMA EndedInit == Init => EndedInv
<1> SUFFICES ASSUME Init PROVE EndedInv
  OBVIOUS
<1>1. ~ship.exists /\ ~ship.isCOD
  BY DEF Init, NoShipment
<1>2. \A r \in Requests : req[r].entry # "edit" /\ req[r].stage = "idle"
  BY DEF Init, Idle
<1>3. QED
  BY <1>1, <1>2 DEF EndedInv, DeliveredHasCOD

LEMMA EndedBooking ==
  ASSUME ControlInv, LedgerInv, LedgerInv', UnbornInv, EndedInv, [Next]_vars,
         \/ CreateDraft \/ BeginReturn \/ BookingStep \/ CompensationFails \/ BookingDies
         \/ CarrierMoves
  PROVE  EndedInv'
<1>1. UNCHANGED <<cod, req>>
  BY DEF CreateDraft, BeginReturn, BookingStep, CompensationFails, BookingDies, CarrierMoves,
    CarrierTakesOrder, CarrierAccepts, CarrierRefuses, PersistCarrier, Compensate, money
<1>2. CASE ship' = ship
  BY <1>1, <1>2, SettledStays DEF EndedInv, DeliveredHasCOD
<1>3. CASE CreateDraft
  <2>1. ship'.status = "ORDER_CREATED" /\ ~ship.exists
    BY <1>3 DEF CreateDraft, Draft, LedgerInv, ChargeInv
  <2>2. \A r \in Requests : req[r].stage = "idle"
    BY <2>1 DEF LedgerInv, ChargeInv
  <2>3. QED
    BY <1>1, <2>1, <2>2 DEF EndedInv, DeliveredHasCOD
<1>4. CASE PersistCarrier
  <2>1. CASE ship.exists
    <3>1. ship'.exists /\ ship'.status = ship.status /\ ship'.isCOD = ship.isCOD
      BY <1>4, <2>1 DEF PersistCarrier, ControlInv, TypeInv, Document
    <3>2. QED
      BY <1>1, <2>1, <3>1, SettledStays DEF EndedInv, DeliveredHasCOD
  <2>2. CASE ~ship.exists
    <3>1. ship'.status = "ORDER_CREATED"
      BY <1>4, <2>2 DEF PersistCarrier, Draft
    <3>2. \A r \in Requests : req[r].stage = "idle"
      BY <2>2 DEF LedgerInv, ChargeInv
    <3>3. QED
      BY <1>1, <3>1, <3>2 DEF EndedInv, DeliveredHasCOD
  <2>3. QED
    BY <2>1, <2>2
<1>5. CASE Compensate
  <2>1. ship'.status = "CANCELLED" /\ ship'.isCOD = ship.isCOD
    BY <1>5 DEF Compensate, ControlInv, TypeInv, Document
  <2>2. QED
    BY <1>1, <1>5, <2>1, CompensationSettles DEF EndedInv, DeliveredHasCOD
<1>6. QED
  BY <1>2, <1>3, <1>4, <1>5 DEF BookingStep, BeginReturn, CompensationFails, BookingDies,
    CarrierMoves, CarrierTakesOrder, CarrierAccepts, CarrierRefuses

LEMMA EndedHandle ==
  ASSUME ControlInv, LedgerInv, LedgerInv', ApiInv, EndedInv, [Next]_vars,
         NEW r \in Requests, Handle(r)
  PROVE  EndedInv'
<1>1. ship'.isCOD = ship.isCOD /\ ship.exists
  BY DEF Handle, CancelAtCarrier, CommitCancellation, CommitRTO, CommitDelivery, Track, SaveStatus,
    SaveEdit, GiveUp, EndedInv, LedgerInv, ChargeInv, ControlInv, TypeInv, Document
<1>2. \A q \in Requests : /\ req'[q].entry # "edit"
                          /\ req'[q].stage # "idle" => req'[q].doc.isCOD = ship'.isCOD
  <2>1. \A q \in Requests : q # r => req'[q] = req[q]
    BY DEF Handle, CancelAtCarrier, CommitCancellation, CommitRTO, CommitDelivery, Track,
      SaveStatus, SaveEdit, GiveUp, Return, ControlInv, TypeInv
  <2>2. CASE req' = [req EXCEPT ![r] = Idle]
    <3>1. req'[r].entry = "status" /\ req'[r].stage = "idle"
      BY <2>2 DEF Idle, ControlInv, TypeInv
    <3>2. QED
      BY <1>1, <2>1, <3>1 DEF EndedInv
  <2>3. CASE CancelAtCarrier(r)
    <3>1. req[r].stage # "idle" /\ req'[r].entry = req[r].entry /\ req'[r].doc = req[r].doc
      BY <2>3 DEF CancelAtCarrier, ControlInv, TypeInv, Handler
    <3>2. QED
      BY <1>1, <2>1, <3>1 DEF EndedInv
  <2>4. ~Track(r)
    BY DEF Track, ControlInv, HandlerOK, ApiInv, AllowedBy
  <2>5. QED
    BY <2>2, <2>3, <2>4 DEF Handle, CommitCancellation, CommitRTO, CommitDelivery, SaveStatus,
      SaveEdit, GiveUp, Return
<1>3. CASE CommitCancellation(r)
  <2>1. ship'.status = "CANCELLED"
    BY <1>3 DEF CommitCancellation, ControlInv, TypeInv, Document
  <2>2. QED
    BY <1>2, <1>3, <2>1, CancellationSettles DEF EndedInv, DeliveredHasCOD
<1>4. CASE CommitDelivery(r)
  <2>1. ship'.status = "DELIVERED"
    BY <1>4 DEF CommitDelivery, ControlInv, TypeInv, Document
  <2>2. ship.isCOD => Collects(req[r].doc)
    BY <1>4 DEF CommitDelivery, Collects, EndedInv
  <2>3. ship.isCOD => cod'.records = 1
    BY <1>4, <2>2 DEF CommitDelivery, CODExists, ControlInv, TypeInv
  <2>4. QED
    BY <1>1, <1>2, <2>1, <2>3 DEF EndedInv, DeliveredHasCOD
<1>5. CASE CommitRTO(r) \/ SaveStatus(r)
  <2>1. ship'.status \notin {"CANCELLED", "DELIVERED"}
    BY <1>5 DEF CommitRTO, SaveStatus, ControlInv, TypeInv, Document, ApiInv, AllowedBy
  <2>2. QED
    BY <1>2, <2>1 DEF EndedInv, DeliveredHasCOD
<1>6. CASE CancelAtCarrier(r) \/ Track(r) \/ GiveUp(r)
  <2>1. ship' = ship /\ cod' = cod
    BY <1>6 DEF CancelAtCarrier, Track, GiveUp, money
  <2>2. QED
    BY <1>2, <2>1, SettledStays DEF EndedInv, DeliveredHasCOD
<1>7. ~SaveEdit(r)
  BY DEF SaveEdit, EndedInv
<1>8. QED
  BY <1>3, <1>4, <1>5, <1>6, <1>7 DEF Handle

LEMMA EndedReceive ==
  ASSUME ApiOnly, ControlInv, LedgerInv, LedgerInv', EndedInv, [Next]_vars,
         NEW r \in Requests, Receive(r)
  PROVE  EndedInv'
<1>1. /\ ship' = ship /\ cod' = cod
      /\ \A q \in Requests : q # r => req'[q] = req[q]
  BY DEF Receive, Delete, UpdateStatus, Webhook, Poll, Edit, Read, money, ControlInv, TypeInv
<1>2. req'[r].doc = ship
  BY DEF Receive, Delete, UpdateStatus, Webhook, Poll, Edit, Read, ControlInv, TypeInv
<1>3. req'[r].entry # "edit"
  BY DEF Receive, Delete, UpdateStatus, Webhook, Poll, Edit, Read, ControlInv, TypeInv, ApiOnly
<1>4. QED
  BY <1>1, <1>2, <1>3, SettledStays DEF EndedInv, DeliveredHasCOD

\* README, "automatic refunds on cancellation" and "automatic COD record creation
\* on delivery": where shipments are cancelled and their statuses set through the
\* API alone, both hold in every state - a booking the carrier refused included,
\* whoever races with its compensation and whatever fails.
THEOREM EndedIsPaidWhereApiOnly ==
  ASSUME ApiOnly
  PROVE  Spec => []EndedIsPaid
<1>1. ApiWrites
  BY DEF ApiOnly, ApiWrites
<1>2. ControlInv /\ LedgerInv /\ LedgerInv' /\ ApiInv /\ UnbornInv /\ EndedInv /\ [Next]_vars
        => EndedInv'
  <2> SUFFICES ASSUME ControlInv, LedgerInv, LedgerInv', ApiInv, UnbornInv, EndedInv, [Next]_vars
               PROVE  EndedInv'
    OBVIOUS
  <2>1. CASE UNCHANGED vars
    BY <2>1, SettledStays DEF vars, EndedInv, DeliveredHasCOD
  <2>2. QED
    BY <2>1, EndedBooking, EndedReceive, EndedHandle DEF Next
<1>3. LedgerInv /\ EndedInv => EndedIsPaid
  BY SettledIsRefunded DEF EndedInv, EndedIsPaid, CancelledIsRefunded
<1>4. Spec => []ApiInv
  BY <1>1, ApiHolds
<1>5. QED
  BY <1>2, <1>3, <1>4, ControlHolds, LedgerHolds, UnbornHolds, EndedInit, PTL DEF Spec

-------------------------------------------------------------------------------
(* What the booking answers.                                                *)

\* Only the booking that succeeds gives the shipment the carrier's number, and
\* one that answered "refunded" has seen all that was charged given back.
AnswerInv ==
  /\ ship.booked <=> booking = "booked"
  /\ booking = "refunded" => AllRefunded /\ "CANCELLED" \in history.seen

LEMMA HistoryGrows == [Next]_vars => history.seen \subseteq history'.seen
<1> SUFFICES ASSUME [Next]_vars PROVE history.seen \subseteq history'.seen
  OBVIOUS
<1>1. \A r \in Requests : Receive(r) \/ Handle(r) => history.seen \subseteq history'.seen
  BY DEF Receive, Delete, UpdateStatus, Webhook, Poll, Edit, Read, Handle, CancelAtCarrier,
    CommitCancellation, CommitRTO, CommitDelivery, Track, SaveStatus, SaveEdit, GiveUp, Push
<1>2. QED
  BY <1>1 DEF Next, vars, BookingStep, CreateDraft, BeginReturn, CarrierTakesOrder, CarrierAccepts,
    CarrierRefuses, PersistCarrier, Compensate, CompensationFails, BookingDies, CarrierMoves, Push

LEMMA AnswerInit == Init => AnswerInv
BY DEF Init, AnswerInv, NoShipment

LEMMA AnswerStep ==
  ASSUME ControlInv, LedgerInv, LedgerInv', AnswerInv, [Next]_vars
  PROVE  AnswerInv'
<1>1. ASSUME booking' = booking, ship'.booked = ship.booked PROVE AnswerInv'
  BY <1>1, RefundedStays, HistoryGrows DEF AnswerInv
<1>2. ASSUME NEW r \in Requests, Handle(r) PROVE AnswerInv'
  <2>1. booking' = booking /\ ship'.booked = ship.booked
    BY <1>2 DEF Handle, CancelAtCarrier, CommitCancellation, CommitRTO, CommitDelivery, Track,
      SaveStatus, SaveEdit, GiveUp, ControlInv, TypeInv, Document
  <2>2. QED
    BY <1>1, <2>1
<1>3. ASSUME NEW r \in Requests, Receive(r) PROVE AnswerInv'
  <2>1. booking' = booking /\ ship' = ship
    BY <1>3 DEF Receive, Delete, UpdateStatus, Webhook, Poll, Edit, Read
  <2>2. QED
    BY <1>1, <2>1
<1>4. CASE CreateDraft
  <2>1. PICK kind \in Kinds \ {"return"} : ship' = Draft(kind)
    BY <1>4 DEF CreateDraft
  <2>2. ~Draft(kind).booked
    BY DEF Draft
  <2>3. booking' = "charged"
    BY <1>4 DEF CreateDraft
  <2>4. QED
    BY <2>1, <2>2, <2>3 DEF AnswerInv
<1>5. CASE PersistCarrier
  <2>1. booking' = "booked" /\ (ship.exists => ship'.booked)
    BY <1>5 DEF PersistCarrier, ControlInv, TypeInv, Document
  <2>2. Draft("return").booked
    BY DEF Draft
  <2>3. ~ship.exists => ship'.booked
    BY <1>5, <2>2 DEF PersistCarrier
  <2>4. QED
    BY <2>1, <2>3 DEF AnswerInv
<1>6. CASE Compensate
  <2>1. booking' = "refunded" /\ ship'.booked = ship.booked /\ booking = "refused"
    BY <1>6 DEF Compensate, ControlInv, TypeInv, Document
  <2>2. Charged /\ Push("CANCELLED") /\ "CANCELLED" \in history'.seen
        /\ history.seen \subseteq history'.seen
    BY <1>6, PushGrows DEF Compensate, LedgerInv, ChargeInv, MoneyStatuses
  <2>3. AllRefunded'
    BY <1>6, <2>2, RefundEntries DEF Compensate, CompensationReference, ControlInv, LedgerInv
  <2>4. QED
    BY <2>1, <2>2, <2>3 DEF AnswerInv
<1>7. CASE BeginReturn \/ CarrierTakesOrder \/ CarrierAccepts \/ CarrierRefuses
           \/ CompensationFails \/ BookingDies \/ CarrierMoves
  <2>1. ship' = ship
    BY <1>7 DEF BeginReturn, CarrierTakesOrder, CarrierAccepts, CarrierRefuses, CompensationFails,
      BookingDies, CarrierMoves
  <2>2. CASE CarrierTakesOrder \/ CarrierMoves
    BY <1>1, <2>1, <2>2 DEF CarrierTakesOrder, CarrierMoves
  <2>3. CASE BeginReturn \/ CarrierAccepts \/ CarrierRefuses \/ CompensationFails \/ BookingDies
    <3>1. booking # "booked" /\ booking' \notin {"booked", "refunded"}
      BY <2>3 DEF BeginReturn, CarrierAccepts, CarrierRefuses, CompensationFails, BookingDies
    <3>2. QED
      BY <2>1, <3>1 DEF AnswerInv
  <2>4. QED
    BY <1>7, <2>2, <2>3
<1>8. CASE UNCHANGED vars
  BY <1>1, <1>8 DEF vars
<1>9. QED
  BY <1>2, <1>3, <1>4, <1>5, <1>6, <1>7, <1>8 DEF Next, BookingStep

\* What the booking answered stays true, for any payers and costs, whatever
\* handlers change the shipment before and after the answer and whatever fails: a
\* 201 is a draft that is paid for, with the number of an order the carrier has;
\* the 502 "Your payment has been refunded" after a compensation that did not
\* fail is a charge given back in full on a draft that has no such number.
THEOREM AnswersStayTrue == Spec => []AnswersAreTrue
<1>1. ControlInv /\ LedgerInv /\ LedgerInv' /\ AnswerInv /\ [Next]_vars => AnswerInv'
  BY AnswerStep
<1>2. ControlInv /\ LedgerInv /\ AnswerInv => AnswersAreTrue
  <2> SUFFICES ASSUME ControlInv, LedgerInv, AnswerInv PROVE AnswersAreTrue
    OBVIOUS
  <2>1. ChargedInFull
    BY DEF ChargedInFull, LedgerInv, ChargeInv, Charged, NotCharged
  <2>2. booking = "refunded" => Refunded
    BY DEF AnswerInv, AllRefunded, LedgerInv, ChargeInv, Charged, Refunded
  <2>3. QED
    BY <2>1, <2>2 DEF AnswersAreTrue, AnswerInv, ControlInv, CarrierInv, BookedAtCarrier
<1>3. QED
  BY <1>1, <1>2, AnswerInit, ControlHolds, LedgerHolds, PTL DEF Spec

===============================================================================
