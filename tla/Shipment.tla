------------------------------- MODULE Shipment -------------------------------
(***************************************************************************)
(* One shipment from booking to its last status: createShipmentService and  *)
(* createReverseShipmentService, and every handler that changes it later -  *)
(* DELETE, PATCH status, PATCH, the Velocity webhook and the tracking cron. *)
(*                                                                          *)
(* A handler reads the document, awaits (the carrier, the wallet, Mongo)    *)
(* and then saves it.  save() sends only the paths the handler changed, so  *)
(* nothing checks that the document is still the one that was read.         *)
(* A runInTransaction block is one step that happens or does not            *)
(* (WalletLedger!ImplementsLedger); applyTransaction skips a reference that *)
(* is already posted.                                                       *)
(***************************************************************************)
EXTENDS Integers, FiniteSets

CONSTANTS
  Requests,         \* slots for concurrent handlers; a slot is reused
  Entries,          \* the entry points in play: "delete", "status", "webhook", "poll", "edit"
  Parties,          \* who pays: the merchant, and its distributor if it has one
  Cost,             \* merchantCost and distributorCost
  RtoCharge,        \* RTO_CHARGE_DEFAULT
  Kinds,            \* what may be booked: "prepaid", "COD", "return" (a reverse pickup)
  CarrierFlow,      \* CarrierFlow[s]: the statuses the carrier can go to from s
  CarrierMayRefuse, \* createForwardOrder may throw
  WalletLookups,    \* what looking a wallet up by the printed merchantId may give
  MayFail           \* drivers may err, transactions abort and the process die

ShipmentStatus ==
  {"ORDER_CREATED", "PICKED_UP", "ARRIVED_AT_HUB", "IN_TRANSIT", "OUT_FOR_DELIVERY",
   "DELIVERED", "DELIVERY_FAILED", "RTO_INITIATED", "RTO_IN_TRANSIT",
   "RTO_DELIVERED", "RTO", "CANCELLED"}

EntryPoints == {"delete", "status", "webhook", "poll", "edit"}

\* findShipmentWithAccess populates merchantId and distributorId, and a populated
\* document printed by toString() is no id: Wallet.findOne throws a CastError.
\* "found" is what the handlers are written for.
LookupResults == {"found", "castError"}

ASSUME ShipmentAssumption ==
  /\ IsFiniteSet(Parties)
  /\ Entries \subseteq EntryPoints
  /\ Cost \in [Parties -> Nat]
  /\ RtoCharge \in Nat \ {0}
  /\ Kinds \subseteq {"prepaid", "COD", "return"}
  /\ CarrierFlow \in [ShipmentStatus -> SUBSET ShipmentStatus]
  /\ WalletLookups \subseteq LookupResults
  /\ CarrierMayRefuse \in BOOLEAN /\ MayFail \in BOOLEAN

VARIABLES
  booking,   \* how far the booking request has come
  ship,      \* the shipment document; payoutStatus moves with codStatus
  history,   \* statusHistory: its last status, and which of MoneyStatuses it holds
  posted,    \* the references in the ledger, each with the party it names
  moved,     \* moved[type][p]: what the entries of a type took from or gave p
  cod,       \* the COD records of the shipment, and the escrow they put aside
  carrier,   \* the order at the carrier: "none" or its status
  emitted,   \* the statuses the carrier has reached, of which it sends events
  req        \* req[r]: the handler in slot r and the document it holds

vars == <<booking, ship, history, posted, moved, cod, carrier, emitted, req>>
money == <<posted, moved, cod>>
atCarrier == <<carrier, emitted>>

\* The statuses whose handlers post entries.
MoneyStatuses == {"CANCELLED", "RTO"}

TransactionTypes == {"CHARGE", "REFUND", "RTO_CHARGE"}

NoShipment == [exists |-> FALSE, status |-> "ORDER_CREATED", deleted |-> FALSE,
               booked |-> FALSE, isCOD |-> FALSE, codStatus |-> "PENDING",
               isReturn |-> FALSE]

Idle == [stage |-> "idle", entry |-> "status", arg |-> "ORDER_CREATED", doc |-> NoShipment]

Init ==
  /\ booking = "idle"
  /\ ship = NoShipment
  /\ history = [last |-> "none", seen |-> {}]
  /\ posted = {}
  /\ moved = [type \in TransactionTypes |-> [p \in Parties |-> 0]]
  /\ cod = [records |-> 0, escrow |-> 0]
  /\ carrier = "none"
  /\ emitted = {}
  /\ req = [r \in Requests |-> Idle]

-------------------------------------------------------------------------------
(* The state machine of shipment.model.js.                                  *)

STATUS_TRANSITIONS == [s \in ShipmentStatus |->
  CASE s = "ORDER_CREATED"    -> {"PICKED_UP", "CANCELLED"}
    [] s = "PICKED_UP"        -> {"ARRIVED_AT_HUB"}
    [] s = "ARRIVED_AT_HUB"   -> {"OUT_FOR_DELIVERY"}
    [] s = "OUT_FOR_DELIVERY" -> {"DELIVERED", "DELIVERY_FAILED"}
    [] s = "DELIVERY_FAILED"  -> {"OUT_FOR_DELIVERY", "RTO"}
    [] OTHER                  -> {}]

\* Faulty variant: an RTO may be sent out again.
CanAlsoRedeliver(doc, next) ==
  \/ next \in STATUS_TRANSITIONS[doc.status]
  \/ doc.status = "RTO" /\ next = "OUT_FOR_DELIVERY"

canTransitionTo(doc, next) == next \in STATUS_TRANSITIONS[doc.status]

\* Faulty variant: a cancellation sets the status only.
PushUnlessCancelled(status) ==
  history' = IF status = "CANCELLED" THEN history
             ELSE [last |-> status, seen |-> history.seen \cup ({status} \cap MoneyStatuses)]

\* A status and its statusHistory event are written by the same update.
Push(status) ==
  history' = [last |-> status, seen |-> history.seen \cup ({status} \cap MoneyStatuses)]

\* save() sends a path only when its value differs from the one that was read.
Modified(read, new, current) == IF new = read THEN current ELSE new

-------------------------------------------------------------------------------
(* Money: one leg per payer, all of them or none, each under the reference  *)
(* <<name, payer>>.                                                         *)

\* Faulty variant: the reference is not looked up.
PostAgain(name, type, amount, payers) ==
  /\ posted' = posted \cup {<<name, p>> : p \in payers}
  /\ moved' = [moved EXCEPT ![type] = [p \in Parties |->
                 moved[type][p] + (IF p \in payers THEN amount[p] ELSE 0)]]

Post(name, type, amount, payers) ==
  /\ posted' = posted \cup {<<name, p>> : p \in payers}
  /\ moved' = [moved EXCEPT ![type] = [p \in Parties |->
                 moved[type][p] + (IF p \in payers /\ <<name, p>> \notin posted
                                     THEN amount[p] ELSE 0)]]

\* Faulty variant: a refund that depends on what the carrier knows.
RefundsIfBooked(doc) == {p \in Parties : doc.booked /\ Cost[p] > 0}

\* performCancellation refunds whoever has paid something; a return costs nothing.
RefundsDue(doc) == {p \in Parties : ~doc.isReturn /\ Cost[p] > 0}

\* Faulty variant: the compensation posts under the reference of the charge.
CompensatesAsCharge == "CHARGE"

\* The compensation refunds under the reference a cancellation uses.
CompensationReference == "REFUND"

-------------------------------------------------------------------------------
(* Booking.                                                                 *)

Draft(kind) == [exists |-> TRUE, status |-> "ORDER_CREATED", deleted |-> FALSE,
                booked |-> kind = "return", isCOD |-> kind = "COD",
                codStatus |-> IF kind = "COD" THEN "PENDING" ELSE "REMITTED",
                isReturn |-> kind = "return"]

\* The wallets are charged and the draft is created, in one transaction.
\* (A booking refused before that changes nothing.)
CreateDraft ==
  /\ booking = "idle"
  /\ booking' = "charged"
  /\ \E kind \in Kinds \ {"return"} : ship' = Draft(kind)
  /\ Push("ORDER_CREATED")
  /\ Post("CHARGE", "CHARGE", Cost, Parties)
  /\ UNCHANGED <<cod, carrier, emitted, req>>

\* A reverse pickup goes to the carrier at once.
BeginReturn ==
  /\ booking = "idle" /\ "return" \in Kinds
  /\ booking' = "free"
  /\ UNCHANGED <<ship, history, money, atCarrier, req>>

\* The carrier receives the order; its answer is still to come.
CarrierTakesOrder ==
  /\ carrier = "none"
  /\ booking \in {"charged", "free"}
  /\ carrier' = "ORDER_CREATED"
  /\ emitted' = {"ORDER_CREATED"}
  /\ UNCHANGED <<booking, ship, history, money, req>>

\* Faulty variant: the answer is not awaited.
NotAwaited == TRUE

CarrierAnswered == carrier # "none"

CarrierAccepts ==
  /\ booking \in {"charged", "free"}
  /\ CarrierAnswered
  /\ booking' = "accepted"
  /\ UNCHANGED <<ship, history, money, atCarrier, req>>

\* createForwardOrder throws: a refusal, or a connection lost before or after
\* the carrier took the order.  A return has nothing to compensate.
CarrierRefuses ==
  /\ CarrierMayRefuse
  /\ booking \in {"charged", "free"}
  /\ booking' = IF booking = "free" THEN "dead" ELSE "refused"
  /\ UNCHANGED <<ship, history, money, atCarrier, req>>

\* The carrier's numbers are written to the draft, whatever has become of it;
\* a return is created only now.
PersistCarrier ==
  /\ booking = "accepted"
  /\ booking' = "booked"
  /\ IF ship.exists THEN /\ ship' = [ship EXCEPT !.booked = TRUE]
                         /\ UNCHANGED history
                    ELSE /\ ship' = Draft("return")
                         /\ Push("ORDER_CREATED")
  /\ UNCHANGED <<money, atCarrier, req>>

\* Faulty variant: a draft that is no longer ORDER_CREATED is not compensated.
CompensatesOrderCreated == ship.status = "ORDER_CREATED"

Compensates == TRUE

\* The refund and the cancellation of the draft, in one transaction that looks
\* neither at its status nor at deletedAt; then the answer 502.
Compensate ==
  /\ booking = "refused"
  /\ Compensates
  /\ booking' = "refunded"
  /\ ship' = [ship EXCEPT !.status = "CANCELLED"]
  /\ Push("CANCELLED")
  /\ Post(CompensationReference, "REFUND", Cost, Parties)
  /\ UNCHANGED <<cod, carrier, emitted, req>>

\* The compensation throws, is logged, and the answer is the same 502.
CompensationFails ==
  /\ MayFail
  /\ booking = "refused"
  /\ booking' = "unrefunded"
  /\ UNCHANGED <<ship, history, money, atCarrier, req>>

\* The process dies, or the driver fails, between two steps of the booking.
BookingDies ==
  /\ MayFail
  /\ booking \in {"charged", "free", "accepted", "refused"}
  /\ booking' = "dead"
  /\ UNCHANGED <<ship, history, money, atCarrier, req>>

-------------------------------------------------------------------------------
(* The carrier.                                                             *)

CarrierMoves ==
  /\ carrier # "none"
  /\ \E s \in CarrierFlow[carrier] :
       /\ carrier' = s
       /\ emitted' = emitted \cup {s}
  /\ UNCHANGED <<booking, ship, history, money, req>>

-------------------------------------------------------------------------------
(* What the handlers read.                                                  *)

Read(r, stage, entry, arg) ==
  /\ req[r].stage = "idle"
  /\ req' = [req EXCEPT ![r] = [stage |-> stage, entry |-> entry, arg |-> arg, doc |-> ship]]
  /\ UNCHANGED <<booking, ship, history, money, atCarrier>>

Visible == ship.exists /\ ~ship.deleted

\* The roles that may ask for a status.
WarehouseAllowed == {"PICKED_UP", "ARRIVED_AT_HUB", "OUT_FOR_DELIVERY",
                     "DELIVERY_FAILED", "RTO", "DELIVERED"}

MayRequest(role, status) ==
  /\ role = "MERCHANT" => status = "CANCELLED"
  /\ role = "WAREHOUSE" => status \in WarehouseAllowed

Delete(r) ==
  /\ "delete" \in Entries
  /\ Visible /\ ship.status = "ORDER_CREATED"
  /\ Read(r, IF ship.booked THEN "cancelAtCarrier" ELSE "transaction", "delete", "CANCELLED")

UpdateStatus(r) ==
  /\ "status" \in Entries
  /\ Visible
  /\ \E role \in {"SUPER_ADMIN", "DISTRIBUTOR", "MERCHANT", "WAREHOUSE"},
        next \in ShipmentStatus :
       /\ MayRequest(role, next)
       /\ next # ship.status
       /\ canTransitionTo(ship, next)
       /\ Read(r, IF next \in {"CANCELLED", "RTO", "DELIVERED"} THEN "transaction" ELSE "save",
               "status", next)

\* The statuses webhook events map to.
WebhookStatuses == {"ORDER_CREATED", "PICKED_UP", "ARRIVED_AT_HUB", "OUT_FOR_DELIVERY",
                    "DELIVERY_FAILED", "DELIVERED", "RTO", "CANCELLED"}

\* The carrier knows the shipment by its own number.  Events arrive late, twice,
\* out of order or never.
Webhook(r) ==
  /\ "webhook" \in Entries
  /\ Visible /\ ship.booked
  /\ \E next \in emitted \cap WebhookStatuses :
       /\ next # ship.status
       /\ canTransitionTo(ship, next) \/ next = "ORDER_CREATED"
       /\ Read(r, "save", "webhook", next)

\* The cron's query does not look at deletedAt.
Poll(r) ==
  /\ "poll" \in Entries
  /\ ship.exists /\ ship.booked
  /\ ship.status \notin {"DELIVERED", "RTO_DELIVERED", "CANCELLED", "RTO"}
  /\ Read(r, "track", "poll", ship.status)

\* PATCH: of the fields that may be edited, the one that matters here is isCOD.
Edit(r) ==
  /\ "edit" \in Entries
  /\ Visible /\ ship.status = "ORDER_CREATED"
  /\ \E kind \in {"COD", "PREPAID"} : Read(r, "save", "edit", kind)

-------------------------------------------------------------------------------
(* What they do next.                                                       *)

Return(r) == req' = [req EXCEPT ![r] = Idle]

\* Any 2xx answer of cancel-order counts as a cancellation.
CancelAtCarrier(r) ==
  /\ req[r].stage = "cancelAtCarrier"
  /\ req' = [req EXCEPT ![r].stage = "transaction"]
  /\ IF carrier = "ORDER_CREATED"
       THEN carrier' = "CANCELLED" /\ emitted' = emitted \cup {"CANCELLED"}
       ELSE UNCHANGED atCarrier
  /\ UNCHANGED <<booking, ship, history, money>>

\* applyTransaction looks the wallets of these parties up and this comes of it.
LookUp(parties, result) == IF parties = {} THEN result = "found" ELSE result \in WalletLookups

\* performCancellation, for DELETE and for PATCH status CANCELLED.
CommitCancellation(r) ==
  /\ req[r].stage = "transaction" /\ req[r].arg = "CANCELLED"
  /\ LookUp(RefundsDue(req[r].doc), "found")
  /\ Post("REFUND", "REFUND", Cost, RefundsDue(req[r].doc))
  /\ ship' = [ship EXCEPT !.status = "CANCELLED", !.deleted = TRUE]
  /\ Push("CANCELLED")
  /\ Return(r)
  /\ UNCHANGED <<booking, cod, carrier, emitted>>

CommitRTO(r) ==
  /\ req[r].stage = "transaction" /\ req[r].arg = "RTO"
  /\ LookUp(Parties, "found")
  /\ Post("RTO", "RTO_CHARGE", [p \in Parties |-> RtoCharge], Parties)
  /\ ship' = [ship EXCEPT !.status = "RTO"]
  /\ Push("RTO")
  /\ Return(r)
  /\ UNCHANGED <<booking, cod, carrier, emitted>>

Collects(doc) == doc.isCOD

\* The unique index of COD.shipmentId.
CODExists == cod.records > 0

CommitDelivery(r) ==
  /\ req[r].stage = "transaction" /\ req[r].arg = "DELIVERED"
  /\ Collects(req[r].doc) => ~CODExists
  /\ LET codStatus == IF Collects(req[r].doc) THEN "COLLECTED" ELSE "REMITTED"
     IN ship' = [ship EXCEPT !.status = "DELIVERED",
                   !.codStatus = Modified(req[r].doc.codStatus, codStatus, @)]
  /\ cod' = IF Collects(req[r].doc)
              THEN [records |-> cod.records + 1, escrow |-> cod.escrow + 1]
              ELSE cod
  /\ Push("DELIVERED")
  /\ Return(r)
  /\ UNCHANGED <<booking, posted, moved, carrier, emitted>>

\* getTrackingDetails, then the comparison with the document read before it.
Track(r) ==
  /\ req[r].stage = "track"
  /\ IF carrier = req[r].doc.status THEN Return(r)
     ELSE req' = [req EXCEPT ![r].stage = "save", ![r].arg = carrier]
  /\ UNCHANGED <<booking, ship, history, money, atCarrier>>

\* The save of an ordinary transition, of a webhook event and of the cron.
SaveStatus(r) ==
  /\ req[r].stage = "save" /\ req[r].entry # "edit"
  /\ ship' = [ship EXCEPT !.status = req[r].arg,
                !.deleted = @ \/ (req[r].entry = "webhook" /\ req[r].arg = "CANCELLED")]
  /\ Push(req[r].arg)
  /\ Return(r)
  /\ UNCHANGED <<booking, money, atCarrier>>

SaveEdit(r) ==
  /\ req[r].stage = "save" /\ req[r].entry = "edit"
  /\ ship' = [ship EXCEPT !.isCOD = Modified(req[r].doc.isCOD, req[r].arg = "COD", @)]
  /\ Return(r)
  /\ UNCHANGED <<booking, history, money, atCarrier>>

\* The handler throws before its save: nothing of it remains here.
GiveUp(r) ==
  /\ \/ MayFail /\ req[r].stage # "idle"
     \/ req[r].stage = "transaction" /\ req[r].arg = "CANCELLED"
          /\ LookUp(RefundsDue(req[r].doc), "castError")
     \/ req[r].stage = "transaction" /\ req[r].arg = "RTO"  \* no wallet or no money
     \/ req[r].stage = "transaction" /\ req[r].arg = "DELIVERED"
          /\ Collects(req[r].doc) /\ CODExists
  /\ Return(r)
  /\ UNCHANGED <<booking, ship, history, money, atCarrier>>

-------------------------------------------------------------------------------

BookingStep ==
  \/ CarrierTakesOrder \/ CarrierAccepts \/ CarrierRefuses
  \/ PersistCarrier \/ Compensate

Receive(r) == Delete(r) \/ UpdateStatus(r) \/ Webhook(r) \/ Poll(r) \/ Edit(r)

Handle(r) ==
  \/ CancelAtCarrier(r) \/ CommitCancellation(r) \/ CommitRTO(r) \/ CommitDelivery(r)
  \/ Track(r) \/ SaveStatus(r) \/ SaveEdit(r) \/ GiveUp(r)

Next ==
  \/ CreateDraft \/ BeginReturn \/ BookingStep \/ CompensationFails \/ BookingDies
  \/ CarrierMoves
  \/ \E r \in Requests : Receive(r) \/ Handle(r)

Spec == Init /\ [][Next]_vars

\* Once the draft exists the booking goes on by itself: the carrier answers or
\* the call fails, and the driver answers.  Nobody has to book, and no other
\* request has to come.
FairSpec == Spec /\ WF_vars(BookingStep)

-------------------------------------------------------------------------------

TypeOK ==
  /\ booking \in {"idle", "charged", "free", "accepted", "refused", "booked",
                  "refunded", "unrefunded", "dead"}
  /\ ship \in [exists : BOOLEAN, status : ShipmentStatus, deleted : BOOLEAN,
               booked : BOOLEAN, isCOD : BOOLEAN,
               codStatus : {"PENDING", "COLLECTED", "REMITTED"}, isReturn : BOOLEAN]
  /\ history.seen \subseteq MoneyStatuses
  /\ history.last \in ShipmentStatus \cup {"none"}
  /\ moved \in [TransactionTypes -> [Parties -> Nat]]
  /\ cod \in [records : Nat, escrow : Nat]
  /\ carrier \in {"none"} \cup ShipmentStatus
  /\ emitted \subseteq ShipmentStatus
  /\ \A r \in Requests :
       /\ req[r].stage \in {"idle", "cancelAtCarrier", "transaction", "track", "save"}
       /\ req[r].entry \in EntryPoints
       /\ req[r].arg \in ShipmentStatus \cup {"COD", "PREPAID"}

Refunded == \A p \in Parties : moved["REFUND"][p] = moved["CHARGE"][p]

\* A failed booking's compensation, a DELETE and a PATCH to CANCELLED, in any
\* order and number and on stale documents, refund what was charged once, to
\* both parties or to neither, and only for a shipment that was CANCELLED: they
\* share the reference REFUND-<awb>.
NeverOverRefunded ==
  /\ Refunded \/ \A p \in Parties : moved["REFUND"][p] = 0
  /\ (\E p \in Parties : moved["REFUND"][p] > 0) => "CANCELLED" \in history.seen

\* The fee of a return to origin is taken at most once per party, from all or
\* none, however often carriers and users move the shipment to RTO.
RTOChargedOnce ==
  /\ \A p \in Parties : moved["RTO_CHARGE"][p] \in {0, RtoCharge}
  /\ (\E p \in Parties : moved["RTO_CHARGE"][p] > 0) =>
       /\ \A p \in Parties : moved["RTO_CHARGE"][p] = RtoCharge
       /\ "RTO" \in history.seen

\* However many deliveries are committed - by racing requests, or again after a
\* webhook took the shipment back - its COD amount enters the escrow once, and a
\* shipment is COLLECTED only with that money in escrow.
CODCollectedOnce ==
  /\ cod.records <= 1 /\ cod.escrow = cod.records
  /\ ship.codStatus = "COLLECTED" => cod.records = 1

\* Charges, refunds, the fee of a return and the COD amount are each posted at
\* most once, whoever races to post them.
MoneyMovesOnce == NeverOverRefunded /\ RTOChargedOnce /\ CODCollectedOnce

\* The status the shipment has is the last one its statusHistory tells of, with
\* stale saves, compensations and the cron writing over each other.
HistoryExplainsStatus == ship.exists => history.last = ship.status

\* README: "automatic refunds on cancellation".
CancelledIsRefunded == ship.exists /\ ship.status = "CANCELLED" => Refunded

\* README: "Automatic COD record creation on delivery".
DeliveredHasCOD == ship.status = "DELIVERED" /\ ship.isCOD => cod.records = 1

\* What the README promises of the two ways a shipment ends.
EndedIsPaid == CancelledIsRefunded /\ DeliveredHasCOD

\* shipment.model.js: "Only these forward transitions are permitted."  The check
\* is made on the document a handler read, and nothing repeats it at the save:
\* whatever the status has become, only the compensation of a refused booking and
\* a request that ends with this step change it, and the request only to a
\* successor of the status it read itself.
ForwardFromWhatWasRead ==
  [][\/ ship'.status = ship.status
     \/ booking = "refused" /\ booking' = "refunded" /\ ship'.status = "CANCELLED"
     \/ \E r \in Requests :
          /\ req[r].stage # "idle" /\ req'[r].stage = "idle"
          /\ ship'.status \in STATUS_TRANSITIONS[req[r].doc.status]]_vars

\* A DELETE cancels at the carrier first and refunds second: when the carrier
\* has cancelled on our word and nothing is in progress, the money is back.
CancelledAtCarrierIsRefunded ==
  carrier = "CANCELLED" /\ (\A r \in Requests : req[r].stage = "idle") => Refunded

\* What the payers of a booking were charged is the whole price, or nothing
\* where there is no draft or it is a return.
ChargedInFull ==
  \A p \in Parties :
    moved["CHARGE"][p] = IF ship.exists /\ ~ship.isReturn THEN Cost[p] ELSE 0

\* What the booking answered stays true, whatever fails and whoever changes the
\* shipment before and after: a 201 stands for a draft that is paid for and
\* carries the number of an order the carrier has; the 502 "Your payment has
\* been refunded", where the compensation did not fail, for a draft that was
\* cancelled, never got a carrier's number, and whose charge was given back,
\* though a DELETE may have refunded it before.
AnswersAreTrue ==
  /\ ChargedInFull
  /\ ship.booked => carrier # "none"
  /\ booking = "booked" => ship.booked /\ carrier # "none"
  /\ booking = "refunded" => Refunded /\ "CANCELLED" \in history.seen /\ ~ship.booked

\* A charge is followed by a booking that is on the shipment, or by a refund,
\* unless the process dies or the compensation itself fails.
BookingSettles ==
  booking = "charged" ~> ship.booked \/ Refunded \/ booking \in {"dead", "unrefunded"}

===============================================================================
