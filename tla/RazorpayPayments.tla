--------------------------- MODULE RazorpayPayments ---------------------------
(***************************************************************************)
(* Wallet top-ups through Razorpay (finance/razorpay.service.js and         *)
(* webhooks/razorpay.webhook.js).  An order has one Payment document and    *)
(* any number of payment attempts at the gateway.  The browser calls verify, *)
(* the gateway sends events - more than once, late, in any order - and both *)
(* credit the wallet under PAY-<payment id>.  An event is answered 200       *)
(* before it is handled: the gateway repeats what was not answered, and      *)
(* nobody repeats what was answered and then failed.                        *)
(* A transaction reads the Payment document again, so that a concurrent one *)
(* either sees its SUCCESS or is aborted.                                   *)
(***************************************************************************)
EXTENDS WalletCalls

CONSTANTS
  Orders,
  Attempts,       \* payment ids
  OrderOf,        \* [Attempts -> Orders]
  TopupAmount,    \* [Orders -> Nat]
  MaySpoil,       \* verify may be called with a signature that is not valid
  Refundable      \* the attempts that the gateway may refund once captured

ASSUME PaymentAssumption ==
  /\ IsFiniteSet(Orders)
  /\ OrderOf \in [Attempts -> Orders]
  /\ TopupAmount \in [Orders -> Nat \ {0}]
  /\ MaySpoil \in BOOLEAN /\ Refundable \subseteq Attempts

VARIABLES
  payment,    \* payment[o]: status and razorpayPaymentId of the document
  gateway,    \* gateway[p]: what became of an attempt
  event       \* event[p]: what became of its payment.captured event

PaymentInit ==
  /\ payment = [o \in Orders |-> [status |-> "none", paid |-> "none"]]
  /\ gateway = [p \in Attempts |-> "unused"]
  /\ event = [p \in Attempts |-> "due"]

PaymentReference(p) == <<"PAY", p>>

Status(p) == payment[OrderOf[p]].status

\* The order is created at the gateway, then its PENDING document; the browser
\* learns the order only after both.
CreateOrder(o) ==
  /\ payment[o].status = "none"
  /\ payment' = [payment EXCEPT ![o].status = "PENDING"]
  /\ UNCHANGED <<walletVars, call, gateway, event>>

-------------------------------------------------------------------------------
(* The gateway.                                                             *)

\* The customer pays: an order takes attempts until one is captured.
Pay(p) ==
  /\ gateway[p] = "unused"
  /\ Status(p) # "none"
  /\ \A q \in Attempts : OrderOf[q] = OrderOf[p] => gateway[q] \in {"unused", "failed"}
  /\ \E outcome \in {"captured", "failed"} : gateway' = [gateway EXCEPT ![p] = outcome]
  /\ UNCHANGED <<walletVars, call, payment, event>>

RefundAtGateway(p) ==
  /\ p \in Refundable
  /\ gateway[p] = "captured"
  /\ gateway' = [gateway EXCEPT ![p] = "refunded"]
  /\ UNCHANGED <<walletVars, call, payment, event>>

Captured(p) == gateway[p] \in {"captured", "refunded"}

-------------------------------------------------------------------------------
(* verifyPaymentService and payment.captured.                               *)

\* The checkout returns with the signature of a payment that was captured, or
\* with one that is not valid.  SUCCESS answers at once, FAILED with an error.
Verify(k, p) ==
  /\ Status(p) \notin {"none", "SUCCESS", "FAILED"}
  /\ \/ Captured(p) /\ Arrive(k, "creditPayment", p)
     \/ MaySpoil /\ Arrive(k, "failPayment", p)
  /\ UNCHANGED <<walletVars, payment, gateway, event>>

\* Faulty variant: only a PENDING payment can be captured.
OnlyPending(p) == Status(p) = "PENDING"

NotYetProcessed(p) == Status(p) \notin {"none", "SUCCESS"}

\* A delivery of payment.captured: 200, then the document is read.  A gateway
\* that was answered may still deliver again.
CapturedEvent(k, p) ==
  /\ Captured(p)
  /\ event[p] # "late"
  /\ event' = [event EXCEPT ![p] = IF @ = "due" THEN "answered" ELSE @]
  /\ IF NotYetProcessed(p) THEN Arrive(k, "captureEvent", p)
     ELSE call[k] = Free /\ UNCHANGED call
  /\ UNCHANGED <<walletVars, payment, gateway>>

\* No delivery was answered within the 300 seconds of skew that are allowed:
\* all that follow are refused with 400.
GrowOld(p) ==
  /\ Captured(p)
  /\ event[p] = "due"
  /\ event' = [event EXCEPT ![p] = "late"]
  /\ UNCHANGED <<walletVars, call, payment, gateway>>

\* The signature was not valid: the document that was read is saved as FAILED.
MarkFailed(k) ==
  /\ At(k, "failPayment")
  /\ payment' = [payment EXCEPT ![OrderOf[call[k].id]].status = "FAILED"]
  /\ Leave(k)
  /\ UNCHANGED <<walletVars, gateway, event>>

\* A call that will credit its payment, from verify or from the webhook.
Crediting(k) == At(k, "creditPayment") \/ At(k, "captureEvent")

\* The transaction: SUCCESS by now ends it; otherwise credit and SUCCESS.
CreditPayment(k) ==
  LET p == call[k].id IN
  /\ Crediting(k)
  /\ Leave(k)
  /\ IF Status(p) = "SUCCESS" THEN UNCHANGED <<walletVars, payment>>
     ELSE /\ Credit(Merchant, TopupAmount[OrderOf[p]], PaymentReference(p))
          /\ payment' = [payment EXCEPT ![OrderOf[p]] = [status |-> "SUCCESS", paid |-> p]]
  /\ UNCHANGED <<gateway, event>>

\* An error of the handler - a transaction aborted by a write conflict is not run
\* again - is logged; the gateway has had its answer.
EventLost(k) ==
  event' = IF At(k, "captureEvent") THEN [event EXCEPT ![call[k].id] = "lost"] ELSE event

\* payment.failed: one conditional update.
FailedEvent(p) ==
  /\ gateway[p] = "failed"
  /\ Status(p) = "PENDING"
  /\ payment' = [payment EXCEPT ![OrderOf[p]].status = "FAILED"]
  /\ UNCHANGED <<walletVars, call, gateway, event>>

\* refund.processed: one conditional update; the wallet keeps its credit.
RefundEvent(p) ==
  /\ gateway[p] = "refunded"
  /\ \E o \in Orders :
       /\ payment[o] = [status |-> "SUCCESS", paid |-> p]
       /\ payment' = [payment EXCEPT ![o].status = "REFUNDED"]
  /\ UNCHANGED <<walletVars, call, gateway, event>>

PaymentStep(k) ==
  \/ \E p \in Attempts : Verify(k, p) \/ CapturedEvent(k, p)
  \/ MarkFailed(k) \/ CreditPayment(k)

GatewayStep ==
  \/ \E o \in Orders : CreateOrder(o)
  \/ \E p \in Attempts : Pay(p) \/ RefundAtGateway(p) \/ GrowOld(p) \/ FailedEvent(p) \/ RefundEvent(p)

-------------------------------------------------------------------------------

PaymentTasks == {"creditPayment", "captureEvent", "failPayment"}

PaymentTypeOK ==
  /\ payment \in [Orders -> [status : {"none", "PENDING", "SUCCESS", "FAILED", "REFUNDED"},
                             paid : Attempts \cup {"none"}]]
  /\ gateway \in [Attempts -> {"unused", "captured", "failed", "refunded"}]
  /\ event \in [Attempts -> {"due", "answered", "late", "lost"}]
  /\ \A k \in Slots : call[k].task \in PaymentTasks => call[k].id \in Attempts

PaymentPosted(o) == \E p \in Attempts : OrderOf[p] = o /\ PaymentReference(p) \in posted

ToppedUp == MapThenSumSet(LAMBDA o : TopupAmount[o], {o \in Orders : PaymentPosted(o)})

\* A payment shown as SUCCESS or REFUNDED has been credited, under its own id.
SuccessIsCredited ==
  \A o \in Orders : payment[o].status \in {"SUCCESS", "REFUNDED"} =>
    PaymentReference(payment[o].paid) \in posted

\* Money that the gateway captured reaches the wallet, also after failed attempts
\* on the same order and verify calls that failed or never came - unless no
\* delivery of its event got through in time, or the handling of one failed after
\* the 200.
CapturedIsCredited ==
  \A p \in Attempts :
    Captured(p) ~> PaymentReference(p) \in posted \/ event[p] \in {"late", "lost"}

===============================================================================
