---------------------------- MODULE RefundRequests ----------------------------
(***************************************************************************)
(* finance/services/refund-request.service.js: a merchant asks for money    *)
(* back on a shipment, and a distributor or Super Admin decides.            *)
(*   submit:  the shipment, then the pending request of the shipment are    *)
(*            looked up; then the request is created;                       *)
(*   process: the request is read and its status tested; an approval posts  *)
(*            REFUND-REQ-<id> and updates the request in a transaction, a   *)
(*            rejection updates it alone.  updateStatus filters on the id.  *)
(***************************************************************************)
EXTENDS WalletCalls

CONSTANTS
  Refunds,        \* refund requests, each submitted once
  RefundOf,       \* [Refunds -> shipments]
  RefundAmount    \* what each asks for: positive, not compared with the charge

ASSUME RefundAssumption ==
  /\ IsFiniteSet(Refunds)
  /\ DOMAIN RefundOf = Refunds
  /\ RefundAmount \in [Refunds -> Nat \ {0}]

VARIABLES
  refund,     \* refund[q]: the status, "none" before the request exists
  delivered   \* the shipments that are DELIVERED

RefundInit ==
  /\ refund = [q \in Refunds |-> "none"]
  /\ delivered = {}

RefundReference(q) == <<"REFUND-REQ", q>>

-------------------------------------------------------------------------------
(* submitRefundRequestService.                                              *)

Submitting(q) ==
  \E k \in Slots : call[k].id = q /\ call[k].task \in {"findPending", "createRefund"}

\* The shipment is read here.
Submit(k, q) ==
  /\ refund[q] = "none" /\ ~Submitting(q)
  /\ RefundOf[q] \notin delivered
  /\ Arrive(k, "findPending", q)
  /\ UNCHANGED <<walletVars, refund, delivered>>

PendingFor(shipment) ==
  \E q \in Refunds : RefundOf[q] = shipment /\ refund[q] = "PENDING"

FindPending(k) ==
  /\ At(k, "findPending")
  /\ IF PendingFor(RefundOf[call[k].id]) THEN Leave(k) ELSE Goto(k, "createRefund")
  /\ UNCHANGED <<walletVars, refund, delivered>>

CreateRefund(k) ==
  /\ At(k, "createRefund")
  /\ refund' = [refund EXCEPT ![call[k].id] = "PENDING"]
  /\ Leave(k)
  /\ UNCHANGED <<walletVars, delivered>>

-------------------------------------------------------------------------------
(* processRefundRequestService.                                             *)

ReadRefund(k, q) ==
  /\ refund[q] = "PENDING"
  /\ \E decision \in {"approve", "reject"} : Arrive(k, decision, q)
  /\ UNCHANGED <<walletVars, refund, delivered>>

\* The outcome of updateStatus.
Decide(k, status) ==
  /\ refund' = [refund EXCEPT ![call[k].id] = status]
  /\ Leave(k)
  /\ UNCHANGED delivered

Approve(k) ==
  /\ At(k, "approve")
  /\ Credit(Merchant, RefundAmount[call[k].id], RefundReference(call[k].id))
  /\ Decide(k, "APPROVED")

Reject(k) ==
  /\ At(k, "reject")
  /\ Decide(k, "REJECTED")
  /\ UNCHANGED walletVars

RefundStep(k) ==
  \/ \E q \in Refunds : Submit(k, q) \/ ReadRefund(k, q)
  \/ FindPending(k) \/ CreateRefund(k)
  \/ Approve(k) \/ Reject(k)

-------------------------------------------------------------------------------

RefundTasks == {"findPending", "createRefund", "approve", "reject"}

RefundTypeOK ==
  /\ refund \in [Refunds -> {"none", "PENDING", "APPROVED", "REJECTED"}]
  /\ \A k \in Slots : call[k].task \in RefundTasks => call[k].id \in Refunds

Refunded == MapThenSumSet(LAMBDA q : RefundAmount[q],
                          {q \in Refunds : RefundReference(q) \in posted})

\* An APPROVED request has its money in the ledger, also when approvals and
\* rejections that read it PENDING write over each other.
ApprovedIsCredited ==
  \A q \in Refunds : refund[q] = "APPROVED" => RefundReference(q) \in posted

\* refund-request.service.js: a request "is already approved", or rejected, "and
\* cannot be processed again".
DecidedOnce ==
  [][\A q \in Refunds :
       refund[q] \in {"APPROVED", "REJECTED"} => refund'[q] = refund[q]]_refund

===============================================================================
