--------------------------- MODULE FinanceDeskProofs ---------------------------
(***************************************************************************)
(* Machine-checked proofs about FinanceDesk: that every wallet is explained  *)
(* by the documents in the ledger, that a document says it was paid only     *)
(* when it was, that the escrow holds what it owes, and in which order cash  *)
(* on delivery is paid out - for any number of users, documents and calls.   *)
(***************************************************************************)
EXTENDS FinanceDesk, Sums

-------------------------------------------------------------------------------
(* Types, and what a call that has begun knows.                             *)

Requests ==
  {Free} \cup [task : SettlementTasks, id : Settled] \cup [task : RefundTasks, id : Refunds]
         \cup [task : CodTasks, id : CodShipments] \cup [task : PaymentTasks, id : Attempts]

TypeInv ==
  /\ balance \in [Users -> Nat]
  /\ delivered \subseteq Shipments
  /\ call \in [Slots -> Requests]
  /\ settlement \in [Settled -> {"none", "PENDING", "COMPLETED", "FAILED"}]
  /\ refund \in [Refunds -> {"none", "PENDING", "APPROVED", "REJECTED"}]
  /\ codRecord \in [CodShipments -> {"none", "PENDING", "SETTLED_TO_VEXARO", "REMITTED"}]
  /\ codStatus \in [CodShipments -> {"PENDING", "COLLECTED", "REMITTED"}]
  /\ escrow \in Nat
  /\ payment \in [Orders -> [status : {"none", "PENDING", "SUCCESS", "FAILED", "REFUNDED"},
                             paid : Attempts \cup {"none"}]]
  /\ gateway \in [Attempts -> {"unused", "captured", "failed", "refunded"}]
  /\ taken \subseteq Settled
  /\ event \in [Attempts -> {"due", "answered", "late", "lost"}]

Tasks == SettlementTasks \cup RefundTasks \cup CodTasks \cup PaymentTasks

\* What the task of a call says of its document.
LEMMA TaskTellsDocument ==
  ASSUME NEW k \in Slots, call \in [Slots -> Requests]
  PROVE  /\ call[k].task \in SettlementTasks =>
              call[k] \in [task : SettlementTasks, id : Settled]
         /\ call[k].task \in RefundTasks => call[k] \in [task : RefundTasks, id : Refunds]
         /\ call[k].task \in CodTasks => call[k] \in [task : CodTasks, id : CodShipments]
         /\ call[k].task \in PaymentTasks => call[k] \in [task : PaymentTasks, id : Attempts]
         /\ call[k] = Free \/ call[k].task \in Tasks
BY DEF Requests, Free, SettlementTasks, RefundTasks, CodTasks, PaymentTasks, Tasks

LEMMA TypeInvImpliesTypeOK == TypeInv => TypeOK
BY TaskTellsDocument
   DEF TypeInv, TypeOK, SettlementTypeOK, RefundTypeOK, CodTypeOK, PaymentTypeOK, Tasks,
       SettlementTasks, RefundTasks, CodTasks, PaymentTasks

LEMMA TypeInit == Init => TypeInv
BY WalletCallsAssumption
   DEF Init, WalletInit, CallsInit, SettlementInit, RefundInit, CodInit, PaymentInit, TypeInv,
       Requests

\* A call goes on with its document.
LEMMA GotoType ==
  ASSUME NEW k \in Slots, call \in [Slots -> Requests],
         NEW task, \/ call[k].task \in SettlementTasks /\ task \in SettlementTasks
                   \/ call[k].task \in RefundTasks /\ task \in RefundTasks,
         Goto(k, task)
  PROVE  call' \in [Slots -> Requests]
<1>1. CASE call[k].task \in SettlementTasks /\ task \in SettlementTasks
  <2>1. call[k] \in [task : SettlementTasks, id : Settled]
    BY <1>1, TaskTellsDocument
  <2>2. [call[k] EXCEPT !.task = task] \in Requests
    BY <1>1, <2>1 DEF Requests
  <2>3. QED
    BY <2>2 DEF Goto
<1>2. CASE call[k].task \in RefundTasks /\ task \in RefundTasks
  <2>1. call[k] \in [task : RefundTasks, id : Refunds]
    BY <1>2, TaskTellsDocument
  <2>2. [call[k] EXCEPT !.task = task] \in Requests
    BY <1>2, <2>1 DEF Requests
  <2>3. QED
    BY <2>2 DEF Goto
<1>3. QED
  BY <1>1, <1>2

LEMMA LeaveType ==
  ASSUME NEW k \in Slots, call \in [Slots -> Requests], Leave(k)
  PROVE  call' \in [Slots -> Requests]
BY DEF Leave, Requests

LEMMA ArriveType ==
  ASSUME NEW k \in Slots, call \in [Slots -> Requests], NEW task, NEW id,
         \/ task \in SettlementTasks /\ id \in Settled
         \/ task \in RefundTasks /\ id \in Refunds
         \/ task \in CodTasks /\ id \in CodShipments
         \/ task \in PaymentTasks /\ id \in Attempts,
         Arrive(k, task, id)
  PROVE  call' \in [Slots -> Requests]
<1>1. [task |-> task, id |-> id] \in Requests
  BY DEF Requests
<1>2. QED
  BY <1>1 DEF Arrive

-------------------------------------------------------------------------------
(* What a step does to the wallets: nothing, or one entry of one document.  *)

Takes(s) ==
  /\ SettledReference[s] \notin posted
  /\ balance[To[s]] >= SettledAmount[s]
  /\ balance' = [balance EXCEPT ![To[s]] = @ - SettledAmount[s]]
  /\ posted' = posted \cup {SettledReference[s]}
  /\ escrow' = escrow
  /\ taken' = taken \cup {s}

PaysBack(q) ==
  /\ RefundReference(q) \notin posted
  /\ balance' = [balance EXCEPT ![Merchant] = @ + RefundAmount[q]]
  /\ posted' = posted \cup {RefundReference(q)}
  /\ escrow' = escrow

PaysOut(c) ==
  /\ CodReference(c) \notin posted
  /\ escrow >= CodAmount[c]
  /\ escrow' = escrow - CodAmount[c]
  /\ balance' = [balance EXCEPT ![Merchant] = @ + CodAmount[c]]
  /\ posted' = posted \cup {CodReference(c)}

TopsUp(p) ==
  /\ PaymentReference(p) \notin posted
  /\ balance' = [balance EXCEPT ![Merchant] = @ + TopupAmount[OrderOf[p]]]
  /\ posted' = posted \cup {PaymentReference(p)}
  /\ escrow' = escrow

\* No request but one of this step's is new, or goes on, at a task of the set.
Keeps(tasks) == \A j \in Slots : call'[j].task \in tasks => call'[j] = call[j]

LEMMA SlotKeeps ==
  ASSUME NEW k \in Slots, call \in [Slots -> Requests], NEW tasks, NEW new,
         new.task \notin tasks, call' = [call EXCEPT ![k] = new]
  PROVE  Keeps(tasks)
BY DEF Keeps

LEMMA LeaveKeeps ==
  ASSUME NEW k \in Slots, call \in [Slots -> Requests], Leave(k)
  PROVE  Keeps(Tasks)
<1>1. Free.task \notin Tasks
  BY DEF Free, Tasks, SettlementTasks, RefundTasks, CodTasks, PaymentTasks
<1>2. QED
  BY <1>1, SlotKeeps DEF Leave

LEMMA SettlementWaits ==
  ASSUME TypeInv, NEW k \in Slots,
         \/ \E s \in Settled : AskForSettlement(k, s) \/ ReadSettlement(k, s)
         \/ LookForDuplicate(k) \/ LookForCircle(k)
  PROVE  /\ UNCHANGED <<walletVars, settlementVars>>
         /\ call' \in [Slots -> Requests]
         /\ Keeps(CodTasks \cup PaymentTasks)
<1> USE DEF TypeInv
<1>1. CASE \E s \in Settled : AskForSettlement(k, s) \/ ReadSettlement(k, s)
  <2>1. PICK s \in Settled, task \in {"lookForDuplicate", "complete", "fail"} :
          Arrive(k, task, s) /\ UNCHANGED <<walletVars, settlementVars>>
    BY <1>1 DEF AskForSettlement, ReadSettlement
  <2>2. task \in SettlementTasks /\ task \notin CodTasks \cup PaymentTasks
    BY DEF SettlementTasks, CodTasks, PaymentTasks
  <2>3. QED
    BY <2>1, <2>2, ArriveType, SlotKeeps DEF Arrive
<1>2. CASE LookForDuplicate(k) \/ LookForCircle(k)
  <2>1. /\ UNCHANGED <<walletVars, settlementVars>>
        /\ call[k].task \in SettlementTasks
        /\ Leave(k) \/ \E task \in {"lookForCircle", "insert"} : Goto(k, task)
    BY <1>2 DEF LookForDuplicate, LookForCircle, At, SettlementTasks
  <2>2. CASE Leave(k)
    BY <2>1, <2>2, LeaveType, LeaveKeeps DEF Keeps, Tasks
  <2>3. CASE \E task \in {"lookForCircle", "insert"} : Goto(k, task)
    <3>1. PICK task \in {"lookForCircle", "insert"} : Goto(k, task)
      BY <2>3
    <3>2. task \in SettlementTasks /\ task \notin CodTasks \cup PaymentTasks
      BY DEF SettlementTasks, CodTasks, PaymentTasks
    <3>3. call' \in [Slots -> Requests]
      BY <2>1, <3>1, <3>2, GotoType
    <3>4. call[k] \in [task : SettlementTasks, id : Settled]
      BY <2>1, TaskTellsDocument
    <3>5. Keeps(CodTasks \cup PaymentTasks)
      BY <3>1, <3>2, <3>4 DEF Goto, Keeps
    <3>6. QED
      BY <2>1, <3>3, <3>5
  <2>4. QED
    BY <2>1, <2>2, <2>3
<1>3. QED
  BY <1>1, <1>2

\* A settlement step takes what its document says, and only then completes it.
LEMMA SettlementEffect ==
  ASSUME TypeInv, NEW k \in Slots, SettlementStep(k)
  PROVE  /\ UNCHANGED <<walletVars, taken>> \/ \E s \in Settled : Takes(s)
         /\ call' \in [Slots -> Requests]
         /\ Keeps(CodTasks \cup PaymentTasks)
         /\ settlement' \in [Settled -> {"none", "PENDING", "COMPLETED", "FAILED"}]
         /\ \A s \in Settled : settlement'[s] = "COMPLETED" =>
              settlement[s] = "COMPLETED" \/ SettledReference[s] \in posted'
<1> USE DEF TypeInv
<1>1. CASE \/ \E s \in Settled : AskForSettlement(k, s) \/ ReadSettlement(k, s)
           \/ LookForDuplicate(k) \/ LookForCircle(k)
  BY <1>1, SettlementWaits DEF settlementVars
<1>2. CASE Insert(k) \/ Complete(k) \/ NotCovered(k) \/ FailSettlement(k)
  <2> DEFINE s == call[k].id
  <2>1. Leave(k) /\ s \in Settled
    BY <1>2, TaskTellsDocument
       DEF Insert, Complete, NotCovered, FailSettlement, At, SettlementTasks
  <2>2. /\ call' \in [Slots -> Requests]
        /\ Keeps(CodTasks \cup PaymentTasks)
    BY <2>1, LeaveType, LeaveKeeps DEF Keeps, Tasks
  <2>3. UNCHANGED <<walletVars, taken>> \/ Takes(s)
    BY <1>2 DEF Insert, Complete, NotCovered, FailSettlement, Debit, Covered, Takes, walletVars,
                settlementVars, AlreadyPosted
  <2>4. /\ settlement' \in [Settled -> {"none", "PENDING", "COMPLETED", "FAILED"}]
        /\ \A t \in Settled : settlement'[t] = "COMPLETED" =>
             settlement[t] = "COMPLETED" \/ (Complete(k) /\ t = s)
    BY <1>2, <2>1 DEF Insert, Complete, NotCovered, FailSettlement, settlementVars
  <2>5. Complete(k) => SettledReference[s] \in posted'
    BY DEF Complete, Debit, walletVars, AlreadyPosted
  <2>6. QED
    BY <2>1, <2>2, <2>3, <2>4, <2>5
<1>3. QED
  BY <1>1, <1>2 DEF SettlementStep

LEMMA RefundWaits ==
  ASSUME TypeInv, NEW k \in Slots,
         (\E q \in Refunds : Submit(k, q) \/ ReadRefund(k, q)) \/ FindPending(k)
  PROVE  /\ UNCHANGED <<walletVars, refund, delivered>>
         /\ call' \in [Slots -> Requests]
         /\ Keeps(SettlementTasks \cup CodTasks \cup PaymentTasks)
<1> USE DEF TypeInv
<1>1. CASE \E q \in Refunds : Submit(k, q) \/ ReadRefund(k, q)
  <2>1. PICK q \in Refunds, task \in {"findPending", "approve", "reject"} :
          Arrive(k, task, q) /\ UNCHANGED <<walletVars, refund, delivered>>
    BY <1>1 DEF Submit, ReadRefund
  <2>2. task \in RefundTasks /\ task \notin SettlementTasks \cup CodTasks \cup PaymentTasks
    BY DEF SettlementTasks, RefundTasks, CodTasks, PaymentTasks
  <2>3. QED
    BY <2>1, <2>2, ArriveType, SlotKeeps DEF Arrive
<1>2. CASE FindPending(k)
  <2>1. /\ UNCHANGED <<walletVars, refund, delivered>>
        /\ call[k].task \in RefundTasks
        /\ Leave(k) \/ Goto(k, "createRefund")
    BY <1>2 DEF FindPending, At, RefundTasks
  <2>2. CASE Leave(k)
    BY <2>1, <2>2, LeaveType, LeaveKeeps DEF Keeps, Tasks
  <2>3. CASE Goto(k, "createRefund")
    <3>1. "createRefund" \in RefundTasks /\ "createRefund" \notin SettlementTasks \cup CodTasks \cup PaymentTasks
      BY DEF SettlementTasks, RefundTasks, CodTasks, PaymentTasks
    <3>2. call' \in [Slots -> Requests]
      BY <2>1, <2>3, <3>1, GotoType
    <3>3. call[k] \in [task : RefundTasks, id : Refunds]
      BY <2>1, TaskTellsDocument
    <3>4. Keeps(SettlementTasks \cup CodTasks \cup PaymentTasks)
      BY <2>3, <3>1, <3>3 DEF Goto, Keeps
    <3>5. QED
      BY <2>1, <3>2, <3>4
  <2>4. QED
    BY <2>1, <2>2, <2>3
<1>3. QED
  BY <1>1, <1>2

\* An approval credits the request under its own reference.
LEMMA RefundEffect ==
  ASSUME TypeInv, NEW k \in Slots, RefundStep(k)
  PROVE  /\ UNCHANGED walletVars \/ \E q \in Refunds : PaysBack(q)
         /\ call' \in [Slots -> Requests]
         /\ Keeps(SettlementTasks \cup CodTasks \cup PaymentTasks)
         /\ refund' \in [Refunds -> {"none", "PENDING", "APPROVED", "REJECTED"}]
         /\ delivered' = delivered
         /\ \A q \in Refunds : refund'[q] = "APPROVED" =>
              refund[q] = "APPROVED" \/ RefundReference(q) \in posted'
<1> USE DEF TypeInv
<1>1. CASE (\E q \in Refunds : Submit(k, q) \/ ReadRefund(k, q)) \/ FindPending(k)
  BY <1>1, RefundWaits
<1>2. CASE CreateRefund(k) \/ Approve(k) \/ Reject(k)
  <2> DEFINE q == call[k].id
  <2>1. Leave(k) /\ q \in Refunds /\ delivered' = delivered
    BY <1>2, TaskTellsDocument DEF CreateRefund, Approve, Reject, Decide, At, RefundTasks
  <2>2. /\ call' \in [Slots -> Requests]
        /\ Keeps(SettlementTasks \cup CodTasks \cup PaymentTasks)
    BY <2>1, LeaveType, LeaveKeeps DEF Keeps, Tasks
  <2>3. UNCHANGED walletVars \/ PaysBack(q)
    BY <1>2 DEF CreateRefund, Approve, Reject, Credit, PaysBack, walletVars, AlreadyPosted
  <2>4. /\ refund' \in [Refunds -> {"none", "PENDING", "APPROVED", "REJECTED"}]
        /\ \A r \in Refunds : refund'[r] = "APPROVED" =>
             refund[r] = "APPROVED" \/ (Approve(k) /\ r = q)
    BY <1>2, <2>1 DEF CreateRefund, Approve, Reject, Decide
  <2>5. Approve(k) => RefundReference(q) \in posted'
    BY DEF Approve, Credit, walletVars, AlreadyPosted
  <2>6. QED
    BY <2>1, <2>2, <2>3, <2>4, <2>5
<1>3. QED
  BY <1>1, <1>2 DEF RefundStep

\* A remittance pays out, record and shipment with it, or finds that done.
LEMMA CodEffect ==
  ASSUME TypeInv, NEW k \in Slots, CodStep(k)
  PROVE  /\ UNCHANGED walletVars \/ \E c \in CodShipments : PaysOut(c)
         /\ call' \in [Slots -> Requests]
         /\ Keeps(SettlementTasks \cup PaymentTasks)
         /\ codRecord' \in [CodShipments -> {"none", "PENDING", "SETTLED_TO_VEXARO", "REMITTED"}]
         /\ codStatus' \in [CodShipments -> {"PENDING", "COLLECTED", "REMITTED"}]
<1> USE DEF TypeInv
<1>1. CASE \E c \in CodShipments : ReadCOD(k, c)
  <2>1. PICK c \in CodShipments, task \in CodTasks :
          Arrive(k, task, c) /\ UNCHANGED <<walletVars, codRecord, codStatus>>
    BY <1>1 DEF ReadCOD, CodTasks
  <2>2. task \in CodTasks /\ task \notin SettlementTasks \cup PaymentTasks
    BY <2>1 DEF SettlementTasks, CodTasks, PaymentTasks
  <2>3. call' \in [Slots -> Requests]
    BY <2>1, <2>2, ArriveType
  <2>4. Keeps(SettlementTasks \cup PaymentTasks)
    BY <2>1, <2>2 DEF Arrive, Keeps
  <2>5. QED
    BY <2>1, <2>3, <2>4
<1>2. CASE SettleCOD(k) \/ RemitCOD(k)
  <2> DEFINE c == call[k].id
  <2>1. Leave(k) /\ c \in CodShipments
    BY <1>2, TaskTellsDocument DEF SettleCOD, RemitCOD, At, CodTasks
  <2>2. call' \in [Slots -> Requests] /\ Keeps(SettlementTasks \cup PaymentTasks)
    BY <2>1, LeaveType, LeaveKeeps DEF Keeps, Tasks
  <2>3. UNCHANGED walletVars \/ PaysOut(c)
    BY <1>2 DEF SettleCOD, RemitCOD, Release, PaysOut, walletVars, AlreadyPosted
  <2>4. /\ codRecord' \in [CodShipments -> {"none", "PENDING", "SETTLED_TO_VEXARO", "REMITTED"}]
        /\ codStatus' \in [CodShipments -> {"PENDING", "COLLECTED", "REMITTED"}]
    BY <1>2, <2>1 DEF SettleCOD, RemitCOD
  <2>5. QED
    BY <2>1, <2>2, <2>3, <2>4
<1>3. QED
  BY <1>1, <1>2 DEF CodStep

\* An order is credited only while it is not SUCCESS, and is SUCCESS with that.
LEMMA PaymentEffect ==
  ASSUME TypeInv, NEW k \in Slots, PaymentStep(k)
  PROVE  /\ \/ UNCHANGED walletVars
            \/ \E p \in Attempts : TopsUp(p) /\ Crediting(k) /\ call[k].id = p
         /\ call' \in [Slots -> Requests]
         /\ Keeps(SettlementTasks \cup CodTasks)
         /\ payment' \in [Orders -> [status : {"none", "PENDING", "SUCCESS", "FAILED", "REFUNDED"},
                                     paid : Attempts \cup {"none"}]]
         /\ gateway' = gateway
         /\ event' \in [Attempts -> {"due", "answered", "late", "lost"}]
         /\ \A o \in Orders : payment'[o].status \in {"SUCCESS", "REFUNDED"} =>
              payment'[o] = payment[o] \/ PaymentReference(payment'[o].paid) \in posted'
<1> USE DEF TypeInv
<1>1. CASE \E p \in Attempts : Verify(k, p) \/ CapturedEvent(k, p)
  <2>1. PICK p \in Attempts, task \in PaymentTasks :
          /\ Arrive(k, task, p) \/ UNCHANGED call
          /\ UNCHANGED <<walletVars, payment, gateway>>
          /\ event' = event \/ event' = [event EXCEPT ![p] = IF @ = "due" THEN "answered" ELSE @]
    BY <1>1 DEF Verify, CapturedEvent, PaymentTasks
  <2>2. task \in PaymentTasks /\ task \notin SettlementTasks \cup CodTasks
    BY <2>1 DEF SettlementTasks, CodTasks, PaymentTasks
  <2>3. call' \in [Slots -> Requests]
    BY <2>1, <2>2, ArriveType
  <2>4. Keeps(SettlementTasks \cup CodTasks)
    BY <2>1, <2>2 DEF Arrive, Keeps
  <2>5. event' \in [Attempts -> {"due", "answered", "late", "lost"}]
    BY <2>1
  <2>6. QED
    BY <2>1, <2>3, <2>4, <2>5
<1>2. CASE MarkFailed(k) \/ CreditPayment(k)
  <2> DEFINE p == call[k].id
  <2>1. Leave(k) /\ p \in Attempts /\ OrderOf[p] \in Orders
        /\ gateway' = gateway /\ event' = event
    BY <1>2, TaskTellsDocument, PaymentAssumption
       DEF MarkFailed, CreditPayment, Crediting, At, PaymentTasks
  <2>2. call' \in [Slots -> Requests] /\ Keeps(SettlementTasks \cup CodTasks)
    BY <2>1, LeaveType, LeaveKeeps DEF Keeps, Tasks
  <2>3. UNCHANGED walletVars \/ (TopsUp(p) /\ Crediting(k))
    BY <1>2 DEF MarkFailed, CreditPayment, Credit, TopsUp, walletVars, AlreadyPosted
  <2>4. payment' \in [Orders -> [status : {"none", "PENDING", "SUCCESS", "FAILED", "REFUNDED"},
                                 paid : Attempts \cup {"none"}]]
    BY <1>2, <2>1 DEF MarkFailed, CreditPayment
  <2>5. \A o \in Orders : payment'[o].status \in {"SUCCESS", "REFUNDED"} =>
              payment'[o] = payment[o] \/ PaymentReference(payment'[o].paid) \in posted'
    <3>1. CASE MarkFailed(k)
      BY <2>1, <3>1 DEF MarkFailed
    <3>2. CASE CreditPayment(k) /\ Status(p) = "SUCCESS"
      BY <3>2 DEF CreditPayment
    <3>3. CASE CreditPayment(k) /\ Status(p) # "SUCCESS"
      <4>1. PaymentReference(p) \in posted'
        BY <3>3 DEF CreditPayment, Credit, walletVars, AlreadyPosted
      <4>2. payment' = [payment EXCEPT ![OrderOf[p]] = [status |-> "SUCCESS", paid |-> p]]
        BY <3>3 DEF CreditPayment
      <4>3. QED
        BY <2>1, <4>1, <4>2
    <3>4. QED
      BY <1>2, <3>1, <3>2, <3>3
  <2>6. QED
    BY <2>1, <2>2, <2>3, <2>4, <2>5
<1>3. QED
  BY <1>1, <1>2 DEF PaymentStep

\* The gateway and the webhooks of one update move no money.
LEMMA GatewayEffect ==
  ASSUME TypeInv, GatewayStep
  PROVE  /\ UNCHANGED <<walletVars, call>>
         /\ payment' \in [Orders -> [status : {"none", "PENDING", "SUCCESS", "FAILED", "REFUNDED"},
                                     paid : Attempts \cup {"none"}]]
         /\ gateway' \in [Attempts -> {"unused", "captured", "failed", "refunded"}]
         /\ event' \in [Attempts -> {"due", "answered", "late", "lost"}]
         /\ \A o \in Orders : payment'[o].status \in {"SUCCESS", "REFUNDED"} =>
              payment[o].status \in {"SUCCESS", "REFUNDED"} /\ payment'[o].paid = payment[o].paid
<1> USE DEF TypeInv
<1>1. CASE \E o \in Orders : CreateOrder(o)
  BY <1>1 DEF CreateOrder
<1>2. CASE \E p \in Attempts : Pay(p) \/ RefundAtGateway(p) \/ GrowOld(p)
  BY <1>2 DEF Pay, RefundAtGateway, GrowOld
<1>3. CASE \E p \in Attempts : FailedEvent(p)
  BY <1>3, PaymentAssumption DEF FailedEvent
<1>4. CASE \E p \in Attempts : RefundEvent(p)
  <2>1. PICK p \in Attempts : RefundEvent(p)
    BY <1>4
  <2>2. PICK o \in Orders :
          /\ payment[o] = [status |-> "SUCCESS", paid |-> p]
          /\ payment' = [payment EXCEPT ![o].status = "REFUNDED"]
    BY <2>1 DEF RefundEvent
  <2>3. payment[o].status = "SUCCESS" /\ UNCHANGED <<walletVars, call, gateway, event>>
    BY <2>1, <2>2 DEF RefundEvent
  <2>4. QED
    BY <2>2, <2>3
<1>5. QED
  BY <1>1, <1>2, <1>3, <1>4 DEF GatewayStep

LEMMA DeliverEffect ==
  ASSUME TypeInv, NEW s \in Shipments, Deliver(s)
  PROVE  /\ UNCHANGED <<balance, posted, call>>
         /\ delivered' \subseteq Shipments
         /\ escrow' \in Nat
         /\ codRecord' \in [CodShipments -> {"none", "PENDING", "SETTLED_TO_VEXARO", "REMITTED"}]
         /\ codStatus' \in [CodShipments -> {"PENDING", "COLLECTED", "REMITTED"}]
BY CodAssumption DEF TypeInv, Deliver, Collect, walletVars, codVars

LEMMA LosingEffect ==
  ASSUME TypeInv, NEW k \in Slots, Losing(k)
  PROVE  /\ UNCHANGED <<walletVars, settlementVars, refundVars, codVars, payment, gateway>>
         /\ event' \in [Attempts -> {"due", "answered", "late", "lost"}]
         /\ call' \in [Slots -> Requests]
         /\ Keeps(Tasks)
BY LeaveType, LeaveKeeps DEF TypeInv, Losing, Abort, Drop, EventLost

\* Entries leave balances that are numbers of rupees.
LEMMA EntryType ==
  ASSUME TypeInv,
         \/ \E s \in Settled : Takes(s)
         \/ \E q \in Refunds : PaysBack(q)
         \/ \E c \in CodShipments : PaysOut(c)
         \/ \E p \in Attempts : TopsUp(p)
  PROVE  balance' \in [Users -> Nat] /\ escrow' \in Nat
<1> USE DEF TypeInv
<1>1. CASE \E s \in Settled : Takes(s)
  <2>1. PICK s \in Settled : Takes(s)
    BY <1>1
  <2>2. To[s] \in Users /\ SettledAmount[s] \in Nat /\ balance[To[s]] \in Nat
    BY SettlementAssumption
  <2>3. balance[To[s]] - SettledAmount[s] \in Nat
    BY <2>1, <2>2 DEF Takes
  <2>4. QED
    BY <2>1, <2>2, <2>3 DEF Takes
<1>2. CASE \E q \in Refunds : PaysBack(q)
  <2>1. PICK q \in Refunds : PaysBack(q)
    BY <1>2
  <2>2. RefundAmount[q] \in Nat /\ Merchant \in Users /\ balance[Merchant] \in Nat
    BY RefundAssumption, WalletCallsAssumption
  <2>3. QED
    BY <2>1, <2>2 DEF PaysBack
<1>3. CASE \E c \in CodShipments : PaysOut(c)
  <2>1. PICK c \in CodShipments : PaysOut(c)
    BY <1>3
  <2>2. CodAmount[c] \in Nat /\ Merchant \in Users /\ balance[Merchant] \in Nat
    BY CodAssumption, WalletCallsAssumption
  <2>3. QED
    BY <2>1, <2>2 DEF PaysOut
<1>4. CASE \E p \in Attempts : TopsUp(p)
  <2>1. PICK p \in Attempts : TopsUp(p)
    BY <1>4
  <2>2. TopupAmount[OrderOf[p]] \in Nat /\ Merchant \in Users /\ balance[Merchant] \in Nat
    BY PaymentAssumption, WalletCallsAssumption
  <2>3. QED
    BY <2>1, <2>2 DEF TopsUp
<1>5. QED
  BY <1>1, <1>2, <1>3, <1>4

-------------------------------------------------------------------------------
(* What holds whatever references the callers choose.                       *)

TakenWhenCompleted ==
  \A s \in Settled : settlement[s] = "COMPLETED" => SettledReference[s] \in posted

DeskInv == TypeInv /\ TakenWhenCompleted /\ ApprovedIsCredited /\ SuccessIsCredited

LEMMA DeskInit == Init => DeskInv
BY TypeInit DEF DeskInv, Init, SettlementInit, RefundInit, PaymentInit, TakenWhenCompleted,
                ApprovedIsCredited, SuccessIsCredited

\* The ledger only grows.
LEMMA EntriesStay ==
  ASSUME \/ UNCHANGED walletVars
         \/ \E s \in Settled : Takes(s)
         \/ \E q \in Refunds : PaysBack(q)
         \/ \E c \in CodShipments : PaysOut(c)
         \/ \E p \in Attempts : TopsUp(p)
  PROVE  posted \subseteq posted'
BY DEF walletVars, Takes, PaysBack, PaysOut, TopsUp

LEMMA DeskStep == DeskInv /\ [Next]_vars => DeskInv'
<1> SUFFICES ASSUME DeskInv, [Next]_vars PROVE DeskInv'
  OBVIOUS
<1> USE DEF DeskInv
<1>0. TypeInv
  OBVIOUS
<1>1. CASE \E k \in Slots : Settling(k)
  <2>1. PICK k \in Slots : SettlementStep(k) /\ UNCHANGED <<refundVars, codVars, paymentVars>>
    BY <1>1 DEF Settling
  <2>2. /\ posted \subseteq posted'
        /\ balance' \in [Users -> Nat] /\ escrow' \in Nat
    BY <1>0, <2>1, SettlementEffect, EntriesStay, EntryType DEF walletVars, TypeInv
  <2>3. TypeInv'
    BY <1>0, <2>1, <2>2, SettlementEffect DEF TypeInv, Takes, refundVars, codVars, paymentVars
  <2>4. TakenWhenCompleted'
    BY <1>0, <2>1, <2>2, SettlementEffect DEF TakenWhenCompleted
  <2>5. ApprovedIsCredited' /\ SuccessIsCredited'
    BY <2>1, <2>2 DEF ApprovedIsCredited, SuccessIsCredited, RefundReference, PaymentReference,
                      refundVars, paymentVars
  <2>6. QED
    BY <2>3, <2>4, <2>5
<1>2. CASE \E k \in Slots : Refunding(k)
  <2>1. PICK k \in Slots : RefundStep(k) /\ UNCHANGED <<settlementVars, codVars, paymentVars>>
    BY <1>2 DEF Refunding
  <2>2. /\ posted \subseteq posted'
        /\ balance' \in [Users -> Nat] /\ escrow' \in Nat
    BY <1>0, <2>1, RefundEffect, EntriesStay, EntryType DEF walletVars, TypeInv
  <2>3. TypeInv'
    BY <1>0, <2>1, <2>2, RefundEffect DEF TypeInv, settlementVars, codVars, paymentVars
  <2>4. ApprovedIsCredited'
    BY <1>0, <2>1, <2>2, RefundEffect DEF ApprovedIsCredited, RefundReference
  <2>5. TakenWhenCompleted' /\ SuccessIsCredited'
    BY <2>1, <2>2 DEF TakenWhenCompleted, settlementVars, SuccessIsCredited, PaymentReference, paymentVars
  <2>6. QED
    BY <2>3, <2>4, <2>5
<1>3. CASE \E k \in Slots : Remitting(k)
  <2>1. PICK k \in Slots : CodStep(k) /\ UNCHANGED <<settlementVars, refundVars, paymentVars>>
    BY <1>3 DEF Remitting
  <2>2. /\ posted \subseteq posted'
        /\ balance' \in [Users -> Nat] /\ escrow' \in Nat
    BY <1>0, <2>1, CodEffect, EntriesStay, EntryType DEF walletVars, TypeInv
  <2>3. TypeInv'
    BY <1>0, <2>1, <2>2, CodEffect DEF TypeInv, settlementVars, refundVars, paymentVars
  <2>4. TakenWhenCompleted' /\ ApprovedIsCredited' /\ SuccessIsCredited'
    BY <2>1, <2>2 DEF TakenWhenCompleted, settlementVars, ApprovedIsCredited, SuccessIsCredited, RefundReference,
                      PaymentReference, refundVars, paymentVars
  <2>5. QED
    BY <2>3, <2>4
<1>4. CASE \E k \in Slots : Paying(k)
  <2>1. PICK k \in Slots : PaymentStep(k) /\ UNCHANGED <<settlementVars, refundVars, codVars>>
    BY <1>4 DEF Paying
  <2>2. /\ posted \subseteq posted'
        /\ balance' \in [Users -> Nat] /\ escrow' \in Nat
    BY <1>0, <2>1, PaymentEffect, EntriesStay, EntryType DEF walletVars, TypeInv
  <2>3. TypeInv'
    BY <1>0, <2>1, <2>2, PaymentEffect DEF TypeInv, settlementVars, refundVars, codVars
  <2>4. SuccessIsCredited'
    BY <1>0, <2>1, <2>2, PaymentEffect DEF SuccessIsCredited, PaymentReference
  <2>5. TakenWhenCompleted' /\ ApprovedIsCredited'
    BY <2>1, <2>2 DEF TakenWhenCompleted, settlementVars, ApprovedIsCredited, RefundReference, refundVars
  <2>6. QED
    BY <2>3, <2>4, <2>5
<1>5. CASE \E k \in Slots : Losing(k)
  <2>1. PICK k \in Slots : Losing(k)
    BY <1>5
  <2>2. /\ UNCHANGED <<walletVars, settlementVars, refundVars, codVars, payment, gateway>>
        /\ event' \in [Attempts -> {"due", "answered", "late", "lost"}]
        /\ call' \in [Slots -> Requests]
    BY <1>0, <2>1, LosingEffect
  <2>3. QED
    BY <2>2 DEF TypeInv, TakenWhenCompleted, ApprovedIsCredited, SuccessIsCredited, walletVars,
                RefundReference, PaymentReference, settlementVars, refundVars, codVars
<1>6. CASE \E s \in Shipments : Deliver(s)
  <2>1. PICK s \in Shipments : Deliver(s)
    BY <1>6
  <2>2. /\ UNCHANGED <<balance, posted, call, settlement, taken, refund, payment, gateway, event>>
        /\ delivered' \subseteq Shipments
        /\ escrow' \in Nat
        /\ codRecord' \in [CodShipments -> {"none", "PENDING", "SETTLED_TO_VEXARO", "REMITTED"}]
        /\ codStatus' \in [CodShipments -> {"PENDING", "COLLECTED", "REMITTED"}]
    BY <1>0, <2>1, DeliverEffect DEF Deliver, settlementVars, paymentVars
  <2>3. QED
    BY <2>2 DEF TypeInv, TakenWhenCompleted, ApprovedIsCredited, SuccessIsCredited,
                RefundReference, PaymentReference
<1>7. CASE AtGateway
  <2>1. /\ GatewayStep
        /\ UNCHANGED <<walletVars, call, settlementVars, refundVars, codVars>>
    BY <1>0, <1>7, GatewayEffect DEF AtGateway
  <2>2. TypeInv'
    BY <1>0, <2>1, GatewayEffect DEF TypeInv, walletVars, settlementVars, refundVars, codVars
  <2>3. SuccessIsCredited'
    BY <1>0, <2>1, GatewayEffect DEF SuccessIsCredited, PaymentReference, walletVars
  <2>4. TakenWhenCompleted' /\ ApprovedIsCredited'
    BY <2>1 DEF TakenWhenCompleted, settlementVars, ApprovedIsCredited, RefundReference, refundVars, walletVars
  <2>5. QED
    BY <2>2, <2>3, <2>4
<1>8. CASE UNCHANGED vars
  BY <1>8 DEF vars, TypeInv, TakenWhenCompleted, ApprovedIsCredited, SuccessIsCredited, walletVars,
              RefundReference, PaymentReference, settlementVars, refundVars, codVars,
              paymentVars
<1>9. QED
  BY <1>1, <1>2, <1>3, <1>4, <1>5, <1>6, <1>7, <1>8 DEF Next

LEMMA DeskInvHolds == Spec => []DeskInv
BY DeskInit, DeskStep, PTL DEF Spec

\* Balances and the escrow stay sums of money, never less than nothing, and every
\* call works on a document of its own kind.
THEOREM TypeCorrect == Spec => []TypeOK
BY DeskInvHolds, TypeInvImpliesTypeOK, PTL DEF DeskInv

\* A payment shown as SUCCESS or REFUNDED is in the wallet, under the id it shows,
\* however verify calls and events race on it.
THEOREM SuccessMeansCredited == Spec => []SuccessIsCredited
BY DeskInvHolds, PTL DEF DeskInv

\* A refund request that reads APPROVED has its money in the ledger.
THEOREM ApprovedMeansCredited == Spec => []ApprovedIsCredited
BY DeskInvHolds, PTL DEF DeskInv

-------------------------------------------------------------------------------
(* What needs references that are told apart.  The code makes them so - the  *)
(* kind and the id of the document - except that the caller of a settlement  *)
(* may pass a reference of its own choice: that of another settlement, which  *)
(* is allowed here, or that of some other entry, which is not.              *)

NoForeignReference ==
  \A s \in Settled :
    /\ \A q \in Refunds : SettledReference[s] # RefundReference(q)
    /\ \A c \in CodShipments : SettledReference[s] # CodReference(c)
    /\ \A p \in Attempts : SettledReference[s] # PaymentReference(p)

\* A settlement that is being created is created by one call and is not there
\* yet; one that is being decided is.
CreatingTasks == {"lookForDuplicate", "lookForCircle", "insert"}

OneCreator ==
  /\ \A k \in Slots : call[k].task \in CreatingTasks => settlement[call[k].id] = "none"
  /\ \A k \in Slots : call[k].task \in {"complete", "fail"} => settlement[call[k].id] # "none"
  /\ \A j, k \in Slots :
       /\ call[j].task \in CreatingTasks /\ call[k].task \in CreatingTasks
       /\ call[j].id = call[k].id
       => j = k

\* A reference that is in the ledger is there for one settlement of those that
\* share it, and that settlement has been decided.
TakenOnce ==
  /\ \A s \in taken : settlement[s] \in {"COMPLETED", "FAILED"} /\ SettledReference[s] \in posted
  /\ \A s, t \in taken : SameReference(s, t) => s = t
  /\ \A s \in Settled : SettledReference[s] \in posted => \E t \in taken : SameReference(s, t)

SettledInv == OneCreator /\ TakenOnce

LEMMA SettledInitInv == Init => SettledInv
BY DEF Init, WalletInit, CallsInit, SettlementInit, SettledInv, OneCreator, TakenOnce, Free,
       CreatingTasks

\* A step of another workflow keeps what is known of the settlements.
LEMMA SettledKept ==
  ASSUME TypeInv, SettledInv, UNCHANGED settlementVars, Keeps(SettlementTasks),
         posted \subseteq posted',
         \A s \in Settled : SettledReference[s] \in posted' => SettledReference[s] \in posted
  PROVE  SettledInv'
<1>1. OneCreator'
  <2>1. \A k \in Slots : call'[k].task \in CreatingTasks \cup {"complete", "fail"} =>
          call'[k] = call[k]
    BY DEF Keeps, SettlementTasks, CreatingTasks
  <2>2. QED
    BY <2>1 DEF SettledInv, OneCreator, settlementVars
<1>2. TakenOnce'
  BY DEF TypeInv, SettledInv, TakenOnce, SameReference, settlementVars
<1>3. QED
  BY <1>1, <1>2 DEF SettledInv

LEMMA SettledStepKept ==
  ASSUME TypeInv, SettledInv, NEW k \in Slots, SettlementStep(k)
  PROVE  SettledInv'
<1> USE DEF TypeInv, SettledInv
<1> DEFINE s == call[k].id
<1>0. /\ \A j \in Slots : call[j].task \in SettlementTasks => call[j].id \in Settled
      /\ CreatingTasks \subseteq SettlementTasks /\ {"complete", "fail"} \subseteq SettlementTasks
  BY TaskTellsDocument DEF SettlementTasks, CreatingTasks
<1>a. ASSUME Leave(k)
      PROVE  \A j \in Slots : call'[j].task \in CreatingTasks \cup {"complete", "fail"} =>
               j # k /\ call'[j] = call[j]
  BY <1>a DEF Leave, Free, CreatingTasks
<1>1. CASE \E t \in Settled : AskForSettlement(k, t) \/ ReadSettlement(k, t)
  <2>1. PICK t \in Settled : AskForSettlement(k, t) \/ ReadSettlement(k, t)
    BY <1>1
  <2>2. UNCHANGED <<walletVars, settlementVars>>
    BY <2>1 DEF AskForSettlement, ReadSettlement
  <2>3. TakenOnce'
    BY <2>2 DEF TakenOnce, SameReference, settlementVars, walletVars
  <2>4. CASE AskForSettlement(k, t)
    <3>1. /\ settlement[t] = "none" /\ call' = [call EXCEPT ![k] = [task |-> "lookForDuplicate", id |-> t]]
          /\ \A j \in Slots : call[j].task \in CreatingTasks => call[j].id # t
      BY <2>4 DEF AskForSettlement, Arrive, Creating, CreatingTasks
    <3>2. OneCreator'
      BY <2>2, <3>1 DEF OneCreator, settlementVars
    <3>3. QED
      BY <2>3, <3>2
  <2>5. CASE ReadSettlement(k, t)
    <3>1. PICK decision \in {"complete", "fail"} :
            call' = [call EXCEPT ![k] = [task |-> decision, id |-> t]]
      BY <2>5 DEF ReadSettlement, Arrive
    <3>2. settlement[t] # "none" /\ decision \notin CreatingTasks
      BY <2>5 DEF ReadSettlement, Pending, CreatingTasks
    <3>3. OneCreator'
      BY <2>2, <3>1, <3>2 DEF OneCreator, settlementVars
    <3>4. QED
      BY <2>3, <3>3
  <2>6. QED
    BY <2>1, <2>4, <2>5
<1>2. CASE LookForDuplicate(k) \/ LookForCircle(k)
  <2>1. /\ UNCHANGED <<walletVars, settlementVars>>
        /\ call[k].task \in CreatingTasks
        /\ Leave(k) \/ \E task \in CreatingTasks : Goto(k, task)
    BY <1>2 DEF LookForDuplicate, LookForCircle, At, CreatingTasks
  <2>2. TakenOnce'
    BY <2>1 DEF TakenOnce, SameReference, settlementVars, walletVars
  <2>3. CASE Leave(k)
    BY <1>a, <2>1, <2>2, <2>3 DEF OneCreator, settlementVars
  <2>4. CASE \E task \in CreatingTasks : Goto(k, task)
    <3>1. PICK task \in CreatingTasks : Goto(k, task)
      BY <2>4
    <3>2. call[k] \in [task : SettlementTasks, id : Settled]
      BY <1>0, <2>1, TaskTellsDocument
    <3>3. /\ call'[k].id = call[k].id /\ call'[k].task \in CreatingTasks
          /\ \A j \in Slots : j # k => call'[j] = call[j]
      BY <3>1, <3>2 DEF Goto
    <3>4. task \notin {"complete", "fail"} /\ call'[k].task = task
      BY <3>1, <3>2 DEF Goto, CreatingTasks
    <3>5. OneCreator'
      BY <2>1, <3>3, <3>4 DEF OneCreator, settlementVars
    <3>6. QED
      BY <2>2, <3>5
  <2>5. QED
    BY <2>1, <2>3, <2>4
<1>3. CASE Insert(k)
  <2>1. /\ Leave(k) /\ s \in Settled /\ settlement[s] = "none"
        /\ settlement' = [settlement EXCEPT ![s] = "PENDING"] /\ UNCHANGED <<walletVars, taken>>
        /\ call[k].task \in CreatingTasks
    BY <1>0, <1>3 DEF Insert, At, OneCreator, CreatingTasks
  <2>2. OneCreator'
    BY <1>0, <1>a, <2>1 DEF OneCreator
  <2>3. s \notin taken
    BY <2>1 DEF TakenOnce
  <2>4. TakenOnce'
    BY <2>1, <2>3 DEF TakenOnce, SameReference, walletVars
  <2>5. QED
    BY <2>2, <2>4
<1>4. CASE Complete(k) \/ NotCovered(k) \/ FailSettlement(k)
  <2>1. /\ Leave(k) /\ s \in Settled /\ settlement[s] # "none"
    BY <1>0, <1>4 DEF Complete, NotCovered, FailSettlement, At, OneCreator
  <2>2. \/ settlement' = settlement
        \/ \E status \in {"COMPLETED", "FAILED"} : settlement' = [settlement EXCEPT ![s] = status]
    BY <1>4 DEF Complete, NotCovered, FailSettlement, settlementVars
  <2>3. OneCreator'
    BY <1>0, <1>a, <2>1, <2>2 DEF OneCreator
  <2>4. CASE UNCHANGED <<posted, taken>>
    <3>1. \A t \in Settled : settlement'[t] \in {settlement[t], "COMPLETED", "FAILED"}
      BY <2>2
    <3>2. posted' = posted /\ taken' = taken
      BY <2>4
    <3>3. \A t \in taken : settlement'[t] \in {"COMPLETED", "FAILED"} /\ SettledReference[t] \in posted
      BY <3>1 DEF TakenOnce
    <3>4. TakenOnce'
      BY <3>2, <3>3 DEF TakenOnce, SameReference
    <3>5. QED
      BY <2>3, <3>4
  <2>5. CASE ~ UNCHANGED <<posted, taken>>
    <3>1. /\ SettledReference[s] \notin posted
          /\ posted' = posted \cup {SettledReference[s]} /\ taken' = taken \cup {s}
          /\ settlement' = [settlement EXCEPT ![s] = "COMPLETED"]
      BY <1>4, <2>5 DEF Complete, NotCovered, FailSettlement, Debit, AlreadyPosted, walletVars,
                        settlementVars
    <3>2. \A t \in taken : ~ SameReference(s, t) /\ ~ SameReference(t, s)
      BY <3>1 DEF TakenOnce, SameReference
    <3>3. QED
      BY <2>1, <2>3, <3>1, <3>2 DEF TakenOnce, SameReference
  <2>6. QED
    BY <2>3, <2>4, <2>5
<1>5. QED
  BY <1>1, <1>2, <1>3, <1>4 DEF SettlementStep

\* A call that has read a COD record was told that it exists, and a distributor's
\* that it is settled; no step undoes either.
CodCalls ==
  \A k \in Slots :
    /\ call[k].task \in CodTasks => codRecord[call[k].id] # "none"
    /\ call[k].task = "remitCOD" => codRecord[call[k].id] # "PENDING"

CodInv ==
  /\ CodCalls
  /\ \A c \in PaidOut : codRecord[c] # "none"
  /\ RemittedIsPaid

LEMMA CodInitInv == Init => CodInv
BY DEF Init, WalletInit, CallsInit, CodInit, CodInv, CodCalls, PaidOut, RemittedIsPaid, Free,
       CodTasks

\* An entry of one workflow is no entry of another.
LEMMA OtherEntries ==
  ASSUME NoForeignReference
  PROVE  /\ UNCHANGED walletVars => posted' = posted
         /\ (\E s \in Settled : Takes(s)) =>
               \A c \in CodShipments : CodReference(c) \in posted' => CodReference(c) \in posted
         /\ (\E s \in Settled : Takes(s)) =>
               \A p \in Attempts : PaymentReference(p) \in posted' => PaymentReference(p) \in posted
         /\ (\E q \in Refunds : PaysBack(q)) =>
               /\ \A c \in CodShipments : CodReference(c) \in posted' => CodReference(c) \in posted
               /\ \A p \in Attempts : PaymentReference(p) \in posted' => PaymentReference(p) \in posted
         /\ (\E c \in CodShipments : PaysOut(c)) =>
               \A p \in Attempts : PaymentReference(p) \in posted' => PaymentReference(p) \in posted
         /\ (\E p \in Attempts : TopsUp(p)) =>
               \A c \in CodShipments : CodReference(c) \in posted' => CodReference(c) \in posted
         /\ \/ \E q \in Refunds : PaysBack(q)
            \/ \E c \in CodShipments : PaysOut(c)
            \/ \E p \in Attempts : TopsUp(p)
            =>
               \A s \in Settled : SettledReference[s] \in posted' => SettledReference[s] \in posted
BY DEF NoForeignReference, walletVars, Takes, PaysBack, PaysOut, TopsUp, CodReference,
       PaymentReference, RefundReference

\* A step that leaves records and COD entries alone keeps what is known of them.
LEMMA CodKept ==
  ASSUME TypeInv, CodInv, UNCHANGED codVars, Keeps(CodTasks), posted \subseteq posted',
         \A c \in CodShipments : CodReference(c) \in posted' => CodReference(c) \in posted
  PROVE  CodInv'
<1>1. PaidOut' = PaidOut
  BY DEF PaidOut, CodReference
<1>2. CodCalls'
  BY DEF CodInv, CodCalls, Keeps, codVars, CodTasks
<1>3. QED
  BY <1>1, <1>2 DEF CodInv, RemittedIsPaid, codVars

LEMMA CodStepKept ==
  ASSUME TypeInv, CodInv, NEW k \in Slots, CodStep(k)
  PROVE  /\ CodInv'
         /\ \A c \in CodShipments : codRecord'[c] = "none" <=> codRecord[c] = "none"
         /\ \A c \in PaidOut' \ PaidOut : codRecord[c] # "PENDING"
<1> USE DEF TypeInv
<1>1. CASE \E c \in CodShipments : ReadCOD(k, c)
  <2>1. PICK c \in CodShipments, task \in CodTasks :
          /\ codRecord[c] = Expected(task)
          /\ Arrive(k, task, c) /\ UNCHANGED <<walletVars, codRecord, codStatus>>
    BY <1>1 DEF ReadCOD, CodTasks
  <2>2. codRecord[c] # "none" /\ (task = "remitCOD" => codRecord[c] # "PENDING")
    BY <2>1 DEF Expected, CodTasks
  <2>3. CodCalls'
    BY <2>1, <2>2 DEF CodInv, CodCalls, Arrive
  <2>4. PaidOut' = PaidOut
    BY <2>1 DEF PaidOut, CodReference, walletVars
  <2>5. QED
    BY <2>1, <2>3, <2>4 DEF CodInv, RemittedIsPaid
<1>2. CASE SettleCOD(k)
  <2> DEFINE c == call[k].id
  <2>1. Leave(k) /\ c \in CodShipments /\ codRecord[c] # "none"
    BY <1>2, TaskTellsDocument DEF SettleCOD, At, CodTasks, CodInv, CodCalls
  <2>2. codRecord' = [codRecord EXCEPT ![c] = "SETTLED_TO_VEXARO"]
        /\ UNCHANGED <<walletVars, codStatus>>
    BY <1>2 DEF SettleCOD
  <2>3. PaidOut' = PaidOut
    BY <2>2 DEF PaidOut, CodReference, walletVars
  <2>4. CodCalls'
    <3>1. \A j \in Slots : call'[j] = call[j] \/ call'[j] = Free
      BY <2>1 DEF Leave
    <3>2. Free.task \notin CodTasks /\ Free.task # "remitCOD"
      BY DEF Free, CodTasks
    <3>3. \A d \in CodShipments : codRecord'[d] \in {codRecord[d], "SETTLED_TO_VEXARO"}
      BY <2>2
    <3>4. \A j \in Slots : call[j].task \in CodTasks => call[j].id \in CodShipments
      BY TaskTellsDocument
    <3>5. QED
      BY <3>1, <3>2, <3>3, <3>4 DEF CodInv, CodCalls, CodTasks
  <2>5. QED
    BY <2>1, <2>2, <2>3, <2>4 DEF CodInv, RemittedIsPaid
<1>3. CASE RemitCOD(k)
  <2> DEFINE c == call[k].id
  <2>1. Leave(k) /\ c \in CodShipments /\ codRecord[c] # "none" /\ codRecord[c] # "PENDING"
    BY <1>3, TaskTellsDocument DEF RemitCOD, At, CodTasks, CodInv, CodCalls
  <2>2. /\ codRecord' = [codRecord EXCEPT ![c] = "REMITTED"]
        /\ codStatus' = [codStatus EXCEPT ![c] = "REMITTED"]
    BY <1>3 DEF RemitCOD
  <2>3. posted' = posted \cup {CodReference(c)}
    BY <1>3 DEF RemitCOD, Release, AlreadyPosted, walletVars
  <2>4. PaidOut' = PaidOut \cup {c}
    BY <2>1, <2>3 DEF PaidOut, CodReference
  <2>5. CodCalls'
    <3>1. \A j \in Slots : call'[j] = call[j] \/ call'[j] = Free
      BY <2>1 DEF Leave
    <3>2. Free.task \notin CodTasks /\ Free.task # "remitCOD"
      BY DEF Free, CodTasks
    <3>3. \A d \in CodShipments : codRecord'[d] \in {codRecord[d], "REMITTED"}
      BY <2>2
    <3>4. \A j \in Slots : call[j].task \in CodTasks => call[j].id \in CodShipments
      BY TaskTellsDocument
    <3>5. QED
      BY <3>1, <3>2, <3>3, <3>4 DEF CodInv, CodCalls, CodTasks
  <2>6. QED
    BY <2>1, <2>2, <2>4, <2>5 DEF CodInv, RemittedIsPaid
<1>4. QED
  BY <1>1, <1>2, <1>3 DEF CodStep

LEMMA CodCollected ==
  ASSUME TypeInv, CodInv, NEW s \in Shipments, Deliver(s)
  PROVE  CodInv'
<1> USE DEF TypeInv
<1>1. UNCHANGED <<call, posted>>
  BY DeliverEffect
<1>2. PaidOut' = PaidOut
  BY <1>1 DEF PaidOut, CodReference
<1>3. CASE s \in CodShipments
  <2>1. /\ codRecord[s] = "none"
        /\ codRecord' = [codRecord EXCEPT ![s] = "PENDING"]
        /\ codStatus' = [codStatus EXCEPT ![s] = "COLLECTED"]
    BY <1>3 DEF Deliver, Collect
  <2>2. \A j \in Slots : call[j].task \in CodTasks => call[j].id \in CodShipments
    BY TaskTellsDocument
  <2>3. CodCalls'
    BY <1>1, <2>1, <2>2 DEF CodInv, CodCalls, CodTasks
  <2>4. s \notin PaidOut
    BY <2>1 DEF CodInv
  <2>5. QED
    BY <1>2, <2>1, <2>3, <2>4 DEF CodInv, RemittedIsPaid
<1>4. CASE s \notin CodShipments
  <2>1. UNCHANGED codVars
    BY <1>4 DEF Deliver
  <2>2. QED
    BY <1>1, <1>2, <2>1 DEF CodInv, CodCalls, RemittedIsPaid, codVars
<1>5. QED
  BY <1>3, <1>4

\* One attempt of an order at most is captured; a credit in progress is for one
\* that was, and so is every credit in the ledger.
OneCaptured ==
  \A p, q \in Attempts : Captured(p) /\ Captured(q) /\ OrderOf[p] = OrderOf[q] => p = q

CreditsCaptured == \A k \in Slots : Crediting(k) => Captured(call[k].id)

PostedIsCaptured == \A p \in Attempts : PaymentReference(p) \in posted => Captured(p)

PayInv == OneCaptured /\ CreditsCaptured /\ PostedIsCaptured

LEMMA PayInitInv == Init => PayInv
BY DEF Init, WalletInit, CallsInit, PaymentInit, PayInv, OneCaptured, CreditsCaptured, Crediting, At,
       PostedIsCaptured, Captured, Free

LEMMA PayKept ==
  ASSUME TypeInv, PayInv, gateway' = gateway, Keeps(PaymentTasks),
         \A p \in Attempts : PaymentReference(p) \in posted' => PaymentReference(p) \in posted
  PROVE  PayInv'
<1>1. OneCaptured'
  BY DEF PayInv, OneCaptured, Captured
<1>2. CreditsCaptured'
  BY DEF PayInv, CreditsCaptured, Crediting, At, Captured, Keeps, PaymentTasks
<1>3. PostedIsCaptured'
  BY DEF PayInv, PostedIsCaptured, Captured, PaymentReference
<1>4. QED
  BY <1>1, <1>2, <1>3 DEF PayInv

LEMMA PayStepKept ==
  ASSUME TypeInv, PayInv, NEW k \in Slots, PaymentStep(k)
  PROVE  PayInv'
<1> USE DEF TypeInv
<1>1. gateway' = gateway
  BY PaymentEffect
<1>2. OneCaptured'
  BY <1>1 DEF PayInv, OneCaptured, Captured
<1>3. CreditsCaptured'
  <2>1. CASE \E p \in Attempts : Verify(k, p) \/ CapturedEvent(k, p)
    BY <1>1, <2>1 DEF Verify, CapturedEvent, Arrive, PayInv, CreditsCaptured, Crediting, At, Captured
  <2>2. CASE MarkFailed(k) \/ CreditPayment(k)
    <3>1. Leave(k)
      BY <2>2 DEF MarkFailed, CreditPayment
    <3>2. QED
      BY <1>1, <3>1 DEF Leave, Free, PayInv, CreditsCaptured, Crediting, At, Captured
  <2>3. QED
    BY <2>1, <2>2 DEF PaymentStep
<1>4. PostedIsCaptured'
  <2>1. CASE UNCHANGED walletVars
    BY <1>1, <2>1 DEF walletVars, PayInv, PostedIsCaptured, Captured, PaymentReference
  <2>2. CASE \E p \in Attempts : TopsUp(p) /\ Crediting(k) /\ call[k].id = p
    <3>1. PICK p \in Attempts : TopsUp(p) /\ Crediting(k) /\ call[k].id = p
      BY <2>2
    <3>2. Captured(p)
      BY <3>1 DEF PayInv, CreditsCaptured
    <3>3. \A q \in Attempts : PaymentReference(q) \in posted' =>
            PaymentReference(q) \in posted \/ q = p
      BY <3>1 DEF TopsUp, PaymentReference
    <3>4. QED
      BY <1>1, <3>2, <3>3 DEF PayInv, PostedIsCaptured, Captured, PaymentReference
  <2>3. QED
    BY <2>1, <2>2, PaymentEffect
<1>5. QED
  BY <1>2, <1>3, <1>4 DEF PayInv

LEMMA GatewayKept ==
  ASSUME TypeInv, PayInv, GatewayStep
  PROVE  PayInv'
<1> USE DEF TypeInv
<1>1. UNCHANGED <<posted, call>>
  BY GatewayEffect DEF walletVars
<1>2. \A p \in Attempts : Captured(p) => Captured(p)'
  <2>1. \/ gateway' = gateway
        \/ \E p \in Attempts : Pay(p)
        \/ \E p \in Attempts : RefundAtGateway(p)
    BY DEF GatewayStep, CreateOrder, GrowOld, FailedEvent, RefundEvent
  <2>2. QED
    BY <2>1 DEF Pay, RefundAtGateway, Captured
<1>3. OneCaptured'
  <2>1. CASE \E p \in Attempts : Pay(p)
    <3>1. PICK p \in Attempts : Pay(p)
      BY <2>1
    <3>2. \A q \in Attempts : OrderOf[q] = OrderOf[p] => ~Captured(q)
      BY <3>1 DEF Pay, Captured
    <3>3. \A q \in Attempts : Captured(q)' => Captured(q) \/ q = p
      BY <3>1 DEF Pay, Captured
    <3>4. QED
      BY <3>2, <3>3 DEF PayInv, OneCaptured
  <2>2. CASE ~ \E p \in Attempts : Pay(p)
    <3>1. gateway' = gateway \/ \E p \in Attempts : RefundAtGateway(p)
      BY <2>2 DEF GatewayStep, CreateOrder, GrowOld, FailedEvent, RefundEvent
    <3>2. ASSUME NEW p \in Attempts, RefundAtGateway(p), NEW q \in Attempts
          PROVE  Captured(q)' => Captured(q)
      BY <3>2 DEF RefundAtGateway, Captured
    <3>3. \A q \in Attempts : Captured(q)' => Captured(q)
      BY <3>1, <3>2 DEF Captured
    <3>4. QED
      BY <3>3 DEF PayInv, OneCaptured
  <2>3. QED
    BY <2>1, <2>2
<1>4. \A k \in Slots : Crediting(k) => call[k].id \in Attempts
  BY TaskTellsDocument DEF Crediting, At, PaymentTasks
<1>5. CreditsCaptured' /\ PostedIsCaptured'
  BY <1>1, <1>2, <1>4 DEF PayInv, CreditsCaptured, PostedIsCaptured, Crediting, At, PaymentReference
<1>6. QED
  BY <1>3, <1>5 DEF PayInv

-------------------------------------------------------------------------------
(* The books: sums over the documents whose reference is in a set P of      *)
(* references and the settlements in a set T, and what one more does to them. *)

TakenFrom(u, T) == {s \in T : To[s] = u}
PaidBack(P) == {q \in Refunds : RefundReference(q) \in P}
Remitted(P) == {c \in CodShipments : CodReference(c) \in P}
PaidOrders(P) == {o \in Orders : \E p \in Attempts : OrderOf[p] = o /\ PaymentReference(p) \in P}

EarnedBy(u, P) ==
  IF u = Merchant
  THEN Sum(RefundAmount, PaidBack(P)) + Sum(CodAmount, Remitted(P))
       + Sum(TopupAmount, PaidOrders(P))
  ELSE 0

Explained(b, P, T) ==
  \A u \in Users : b[u] = Opening[u] + EarnedBy(u, P) - Sum(SettledAmount, TakenFrom(u, T))

LEMMA BalanceIsExplained ==
  /\ BalanceExplained <=> Explained(balance, posted, taken)
  /\ BalanceExplained' <=> Explained(balance', posted', taken')
<1>1. Refunded = Sum(RefundAmount, PaidBack(posted))
  BY DEF Refunded, PaidBack, Sum
<1>2. Refunded' = Sum(RefundAmount, PaidBack(posted'))
  BY DEF Refunded, PaidBack, Sum, RefundReference, MapThenSumSet, MapThenFoldSet
<1>3. CodTotal(PaidOut) = Sum(CodAmount, Remitted(posted))
  BY DEF CodTotal, PaidOut, Remitted, Sum
<1>4. CodTotal(PaidOut)' = Sum(CodAmount, Remitted(posted'))
  BY DEF CodTotal, PaidOut, Remitted, Sum, CodReference, MapThenSumSet, MapThenFoldSet
<1>5. ToppedUp = Sum(TopupAmount, PaidOrders(posted))
  BY DEF ToppedUp, PaymentPosted, PaidOrders, Sum
<1>6. ToppedUp' = Sum(TopupAmount, PaidOrders(posted'))
  BY DEF ToppedUp, PaymentPosted, PaidOrders, Sum, PaymentReference, MapThenSumSet,
         MapThenFoldSet
<1>7. ASSUME NEW u
      PROVE  SettledFrom(u) = Sum(SettledAmount, TakenFrom(u, taken))
  BY DEF SettledFrom, TakenFrom, Sum
<1>8. ASSUME NEW u
      PROVE  SettledFrom(u)' = Sum(SettledAmount, TakenFrom(u, taken'))
  BY DEF SettledFrom, TakenFrom, Sum, MapThenSumSet, MapThenFoldSet
<1>9. QED
  BY <1>1, <1>2, <1>3, <1>4, <1>5, <1>6, <1>7, <1>8
     DEF BalanceExplained, Explained, Earned, EarnedBy

\* Every sum is a number.
LEMMA SumsAreNumbers ==
  /\ \A S \in SUBSET Settled : IsFiniteSet(S) /\ Sum(SettledAmount, S) \in Nat
  /\ \A S \in SUBSET Refunds : IsFiniteSet(S) /\ Sum(RefundAmount, S) \in Nat
  /\ \A S \in SUBSET CodShipments : IsFiniteSet(S) /\ Sum(CodAmount, S) \in Nat
  /\ \A S \in SUBSET Orders : IsFiniteSet(S) /\ Sum(TopupAmount, S) \in Nat
<1>1. \A S \in SUBSET Settled : IsFiniteSet(S) /\ Sum(SettledAmount, S) \in Nat
  BY SettlementAssumption, FS_Subset, SumIsNat
<1>2. \A S \in SUBSET Refunds : IsFiniteSet(S) /\ Sum(RefundAmount, S) \in Nat
  BY RefundAssumption, FS_Subset, SumIsNat
<1>3. \A S \in SUBSET CodShipments : IsFiniteSet(S) /\ Sum(CodAmount, S) \in Nat
  BY CodAssumption, FS_Subset, SumIsNat
<1>4. \A S \in SUBSET Orders : IsFiniteSet(S) /\ Sum(TopupAmount, S) \in Nat
  BY PaymentAssumption, FS_Subset, SumIsNat
<1>5. QED
  BY <1>1, <1>2, <1>3, <1>4

\* One more reference of each kind adds its document, and no other, to the books.
LEMMA BookSettlement ==
  ASSUME NoForeignReference, NEW P, NEW T \in SUBSET Settled, NEW b \in [Users -> Nat],
         Explained(b, P, T), NEW s \in Settled, s \notin T
  PROVE  Explained([b EXCEPT ![To[s]] = @ - SettledAmount[s]], P \cup {SettledReference[s]},
                   T \cup {s})
<1> DEFINE Q == P \cup {SettledReference[s]}
           U == T \cup {s}
           c == [b EXCEPT ![To[s]] = @ - SettledAmount[s]]
<1>1. /\ PaidBack(Q) = PaidBack(P) /\ Remitted(Q) = Remitted(P)
      /\ PaidOrders(Q) = PaidOrders(P)
  BY DEF NoForeignReference, PaidBack, Remitted, PaidOrders
<1>2. \A u : EarnedBy(u, Q) = EarnedBy(u, P)
  BY <1>1 DEF EarnedBy
<1>3. TakenFrom(To[s], U) = TakenFrom(To[s], T) \cup {s} /\ s \notin TakenFrom(To[s], T)
  BY DEF TakenFrom
<1>4. \A u : u # To[s] => TakenFrom(u, U) = TakenFrom(u, T)
  BY DEF TakenFrom
<1>5. Sum(SettledAmount, TakenFrom(To[s], U))
        = Sum(SettledAmount, TakenFrom(To[s], T)) + SettledAmount[s]
  <2>1. TakenFrom(To[s], T) \in SUBSET Settled
    BY DEF TakenFrom
  <2>2. IsFiniteSet(TakenFrom(To[s], T)) /\ \A y \in Settled : SettledAmount[y] \in Nat
    BY <2>1, SumsAreNumbers, SettlementAssumption
  <2>3. QED
    BY <1>3, <2>1, <2>2, SumAdd
<1>6. \A u : EarnedBy(u, P) \in Nat /\ Sum(SettledAmount, TakenFrom(u, T)) \in Nat
  BY SumsAreNumbers DEF EarnedBy, PaidBack, Remitted, PaidOrders, TakenFrom
<1>7. To[s] \in Users /\ SettledAmount[s] \in Nat
  BY SettlementAssumption
<1> SUFFICES ASSUME NEW u \in Users
             PROVE  c[u] = Opening[u] + EarnedBy(u, Q) - Sum(SettledAmount, TakenFrom(u, U))
  BY DEF Explained
<1>8. b[u] = Opening[u] + EarnedBy(u, P) - Sum(SettledAmount, TakenFrom(u, T))
      /\ b[u] \in Nat /\ Opening[u] \in Nat
  BY WalletCallsAssumption DEF Explained
<1>9. CASE u = To[s]
  <2>1. c[u] = b[u] - SettledAmount[s]
    BY <1>9
  <2> HIDE DEF c, Q, U
  <2>2. QED
    BY <1>2, <1>5, <1>6, <1>7, <1>8, <1>9, <2>1
<1>10. CASE u # To[s]
  <2>1. c[u] = b[u]
    BY <1>10
  <2> HIDE DEF c, Q, U
  <2>2. QED
    BY <1>2, <1>4, <1>8, <1>10, <2>1
<1>11. QED
  BY <1>9, <1>10

\* What comes in goes to the merchant.
LEMMA BookIncome ==
  ASSUME NEW P, NEW Q, NEW T \in SUBSET Settled, NEW b \in [Users -> Nat],
         Explained(b, P, T), NEW a \in Nat,
         EarnedBy(Merchant, Q) = EarnedBy(Merchant, P) + a
  PROVE  Explained([b EXCEPT ![Merchant] = @ + a], Q, T)
<1> DEFINE c == [b EXCEPT ![Merchant] = @ + a]
<1>1. \A u : EarnedBy(u, P) \in Nat /\ Sum(SettledAmount, TakenFrom(u, T)) \in Nat
  BY SumsAreNumbers DEF EarnedBy, PaidBack, Remitted, PaidOrders, TakenFrom
<1>2. \A u : u # Merchant => EarnedBy(u, Q) = EarnedBy(u, P)
  BY DEF EarnedBy
<1> SUFFICES ASSUME NEW u \in Users
             PROVE  c[u] = Opening[u] + EarnedBy(u, Q) - Sum(SettledAmount, TakenFrom(u, T))
  BY DEF Explained
<1>3. b[u] = Opening[u] + EarnedBy(u, P) - Sum(SettledAmount, TakenFrom(u, T))
      /\ b[u] \in Nat /\ Opening[u] \in Nat
  BY WalletCallsAssumption DEF Explained
<1>4. c[u] = b[u] + (IF u = Merchant THEN a ELSE 0)
  BY <1>3
<1> HIDE DEF c
<1>5. QED
  BY <1>1, <1>2, <1>3, <1>4

LEMMA BookRefund ==
  ASSUME NEW P, NEW T \in SUBSET Settled, NEW b \in [Users -> Nat], Explained(b, P, T),
         NEW q \in Refunds, RefundReference(q) \notin P
  PROVE  Explained([b EXCEPT ![Merchant] = @ + RefundAmount[q]], P \cup {RefundReference(q)}, T)
<1> DEFINE Q == P \cup {RefundReference(q)}
<1>1. /\ Remitted(Q) = Remitted(P) /\ PaidOrders(Q) = PaidOrders(P)
  BY DEF Remitted, PaidOrders, RefundReference, CodReference,
         PaymentReference
<1>2. PaidBack(Q) = PaidBack(P) \cup {q} /\ q \notin PaidBack(P)
      /\ PaidBack(P) \in SUBSET Refunds
  BY DEF PaidBack, RefundReference
<1>3. /\ IsFiniteSet(PaidBack(P)) /\ \A r \in Refunds : RefundAmount[r] \in Nat
      /\ Sum(RefundAmount, PaidBack(P)) \in Nat
      /\ Sum(CodAmount, Remitted(P)) \in Nat /\ Sum(TopupAmount, PaidOrders(P)) \in Nat
  BY <1>2, SumsAreNumbers, RefundAssumption DEF Remitted, PaidOrders
<1>4. Sum(RefundAmount, PaidBack(Q)) = Sum(RefundAmount, PaidBack(P)) + RefundAmount[q]
  BY <1>2, <1>3, SumAdd
<1>5. EarnedBy(Merchant, Q) = EarnedBy(Merchant, P) + RefundAmount[q]
  <2>1. RefundAmount[q] \in Nat
    BY <1>3
  <2> HIDE DEF Q
  <2>2. QED
    BY <2>1, <1>1, <1>3, <1>4 DEF EarnedBy
<1>6. QED
  BY <1>1, <1>3, <1>5, BookIncome

LEMMA BookRemittance ==
  ASSUME NEW P, NEW T \in SUBSET Settled, NEW b \in [Users -> Nat], Explained(b, P, T),
         NEW c \in CodShipments, CodReference(c) \notin P
  PROVE  /\ Explained([b EXCEPT ![Merchant] = @ + CodAmount[c]], P \cup {CodReference(c)}, T)
         /\ Sum(CodAmount, Remitted(P \cup {CodReference(c)}))
              = Sum(CodAmount, Remitted(P)) + CodAmount[c]
<1> DEFINE Q == P \cup {CodReference(c)}
<1>1. /\ PaidBack(Q) = PaidBack(P) /\ PaidOrders(Q) = PaidOrders(P)
  BY DEF PaidBack, PaidOrders, RefundReference, CodReference,
         PaymentReference
<1>2. Remitted(Q) = Remitted(P) \cup {c} /\ c \notin Remitted(P)
      /\ Remitted(P) \in SUBSET CodShipments
  BY DEF Remitted, CodReference
<1>3. /\ IsFiniteSet(Remitted(P)) /\ \A d \in CodShipments : CodAmount[d] \in Nat
      /\ Sum(RefundAmount, PaidBack(P)) \in Nat
      /\ Sum(CodAmount, Remitted(P)) \in Nat /\ Sum(TopupAmount, PaidOrders(P)) \in Nat
  BY <1>2, SumsAreNumbers, CodAssumption DEF PaidBack, PaidOrders
<1>4. Sum(CodAmount, Remitted(Q)) = Sum(CodAmount, Remitted(P)) + CodAmount[c]
  BY <1>2, <1>3, SumAdd
<1>5. EarnedBy(Merchant, Q) = EarnedBy(Merchant, P) + CodAmount[c]
  BY <1>1, <1>3, <1>4 DEF EarnedBy
<1>6. QED
  BY <1>1, <1>3, <1>4, <1>5, BookIncome

LEMMA BookTopUp ==
  ASSUME NEW P, NEW T \in SUBSET Settled, NEW b \in [Users -> Nat], Explained(b, P, T),
         NEW p \in Attempts, OrderOf[p] \notin PaidOrders(P)
  PROVE  Explained([b EXCEPT ![Merchant] = @ + TopupAmount[OrderOf[p]]],
                   P \cup {PaymentReference(p)}, T)
<1> DEFINE Q == P \cup {PaymentReference(p)}
<1>1. /\ PaidBack(Q) = PaidBack(P) /\ Remitted(Q) = Remitted(P)
  BY DEF PaidBack, Remitted, RefundReference, CodReference,
         PaymentReference
<1>2. PaidOrders(Q) = PaidOrders(P) \cup {OrderOf[p]} /\ PaidOrders(P) \in SUBSET Orders
      /\ OrderOf[p] \in Orders
  BY PaymentAssumption DEF PaidOrders, PaymentReference
<1>3. /\ IsFiniteSet(PaidOrders(P)) /\ \A o \in Orders : TopupAmount[o] \in Nat
      /\ Sum(RefundAmount, PaidBack(P)) \in Nat
      /\ Sum(CodAmount, Remitted(P)) \in Nat /\ Sum(TopupAmount, PaidOrders(P)) \in Nat
  BY <1>2, SumsAreNumbers, PaymentAssumption DEF PaidBack, Remitted
<1>4. Sum(TopupAmount, PaidOrders(Q)) = Sum(TopupAmount, PaidOrders(P)) + TopupAmount[OrderOf[p]]
  BY <1>2, <1>3, SumAdd
<1>5. TopupAmount[OrderOf[p]] \in Nat
  BY <1>2, <1>3
<1>6. EarnedBy(Merchant, Q) = EarnedBy(Merchant, P) + TopupAmount[OrderOf[p]]
  <2> HIDE DEF Q
  <2> QED
    BY <1>1, <1>3, <1>4, <1>5 DEF EarnedBy
<1>7. QED
  BY <1>1, <1>5, <1>6, BookIncome

-------------------------------------------------------------------------------
(* The books balance.                                                       *)

Existing(R) == {c \in CodShipments : R[c] # "none"}

Conserved(e, R, P) == e = Sum(CodAmount, Existing(R)) - Sum(CodAmount, Remitted(P))

LEMMA EscrowIsConserved ==
  /\ CODConserved <=> Conserved(escrow, codRecord, posted)
  /\ CODConserved' <=> Conserved(escrow', codRecord', posted')
<1>1. CodTotal(PaidOut) = Sum(CodAmount, Remitted(posted))
  BY DEF CodTotal, PaidOut, Remitted, Sum
<1>2. CodTotal(PaidOut)' = Sum(CodAmount, Remitted(posted'))
  BY DEF CodTotal, PaidOut, Remitted, Sum, CodReference, MapThenSumSet, MapThenFoldSet
<1>3. CodTotal({c \in CodShipments : codRecord[c] # "none"}) = Sum(CodAmount, Existing(codRecord))
  BY DEF CodTotal, Existing, Sum
<1>4. CodTotal({c \in CodShipments : codRecord[c] # "none"})' = Sum(CodAmount, Existing(codRecord'))
  BY DEF CodTotal, Existing, Sum, MapThenSumSet, MapThenFoldSet
<1>5. QED
  BY <1>1, <1>2, <1>3, <1>4 DEF CODConserved, Conserved

BooksInv == Explained(balance, posted, taken) /\ Conserved(escrow, codRecord, posted)

FullInv == DeskInv /\ SettledInv /\ CodInv /\ PayInv /\ BooksInv

LEMMA BooksInit == Init => BooksInv
<1> SUFFICES ASSUME Init PROVE BooksInv
  OBVIOUS
<1>1. /\ balance = Opening /\ escrow = 0 /\ posted = {} /\ taken = {}
      /\ Existing(codRecord) = {}
  BY DEF Init, WalletInit, SettlementInit, CodInit, Existing
<1>2. /\ \A u : TakenFrom(u, taken) = {}
      /\ PaidBack(posted) = {} /\ Remitted(posted) = {} /\ PaidOrders(posted) = {}
  BY <1>1 DEF TakenFrom, PaidBack, Remitted, PaidOrders
<1>3. \A f : Sum(f, {}) = 0
  BY SumOfNone
<1>4. \A u \in Users : Opening[u] \in Nat
  BY WalletCallsAssumption
<1>5. Explained(balance, posted, taken)
  <2>1. \A u : EarnedBy(u, posted) = 0 /\ Sum(SettledAmount, TakenFrom(u, taken)) = 0
    BY <1>2, <1>3 DEF EarnedBy
  <2>2. QED
    BY <1>1, <1>4, <2>1 DEF Explained
<1>6. Conserved(escrow, codRecord, posted)
  BY <1>1, <1>2, <1>3 DEF Conserved
<1>7. QED
  BY <1>5, <1>6 DEF BooksInv

\* A step that keeps the records in being and posts one entry, or none.
LEMMA BooksKept ==
  ASSUME NoForeignReference, FullInv, Existing(codRecord') = Existing(codRecord),
         \/ \E s \in Settled : Takes(s)
         \/ /\ taken' = taken
            /\ \/ UNCHANGED walletVars
               \/ \E q \in Refunds : PaysBack(q)
               \/ \E c \in CodShipments : PaysOut(c)
               \/ \E p \in Attempts : TopsUp(p) /\ Captured(p)
  PROVE  BooksInv'
<1>0. /\ balance \in [Users -> Nat] /\ escrow \in Nat /\ taken \in SUBSET Settled
      /\ Explained(balance, posted, taken) /\ Conserved(escrow, codRecord, posted)
  BY DEF FullInv, DeskInv, TypeInv, BooksInv
<1> SUFFICES Explained(balance', posted', taken') /\ Conserved(escrow', codRecord', posted')
  BY DEF BooksInv, Explained, Conserved, EarnedBy, TakenFrom, PaidBack, Remitted, PaidOrders, Existing
<1>1. CASE taken' = taken /\ UNCHANGED walletVars
  BY <1>0, <1>1 DEF walletVars, Conserved
<1>2. CASE \E s \in Settled : Takes(s)
  <2>1. PICK s \in Settled : Takes(s)
    BY <1>2
  <2>2. Explained(balance', posted', taken')
    BY <1>0, <2>1, BookSettlement DEF Takes, FullInv, SettledInv, TakenOnce
  <2>3. Remitted(posted') = Remitted(posted)
    BY <2>1 DEF Takes, Remitted, NoForeignReference
  <2>4. QED
    BY <1>0, <2>1, <2>2, <2>3 DEF Takes, Conserved
<1>3. CASE taken' = taken /\ (\E q \in Refunds : PaysBack(q))
  <2>1. PICK q \in Refunds : PaysBack(q)
    BY <1>3
  <2>2. Explained(balance', posted', taken')
    BY <1>0, <1>3, <2>1, BookRefund DEF PaysBack
  <2>3. Remitted(posted') = Remitted(posted)
    BY <2>1 DEF PaysBack, Remitted, RefundReference, CodReference
  <2>4. QED
    BY <1>0, <2>1, <2>2, <2>3 DEF PaysBack, Conserved
<1>4. CASE taken' = taken /\ (\E c \in CodShipments : PaysOut(c))
  <2>1. PICK c \in CodShipments : PaysOut(c)
    BY <1>4
  <2>2. /\ Explained(balance', posted', taken')
        /\ Sum(CodAmount, Remitted(posted')) = Sum(CodAmount, Remitted(posted)) + CodAmount[c]
    BY <1>0, <1>4, <2>1, BookRemittance DEF PaysOut
  <2>3. /\ escrow' = escrow - CodAmount[c] /\ CodAmount[c] \in Nat
        /\ Sum(CodAmount, Remitted(posted)) \in Nat /\ Sum(CodAmount, Existing(codRecord)) \in Nat
    BY <2>1, CodAssumption, SumsAreNumbers DEF PaysOut, Remitted, Existing
  <2>4. QED
    BY <1>0, <2>2, <2>3 DEF Conserved
<1>5. CASE taken' = taken /\ (\E p \in Attempts : TopsUp(p) /\ Captured(p))
  <2>1. PICK p \in Attempts : TopsUp(p) /\ Captured(p)
    BY <1>5
  <2>2. OrderOf[p] \notin PaidOrders(posted)
    BY <2>1 DEF PaidOrders, FullInv, PayInv, OneCaptured, PostedIsCaptured, TopsUp
  <2>3. Explained(balance', posted', taken')
    BY <1>0, <1>5, <2>1, <2>2, BookTopUp DEF TopsUp
  <2>4. Remitted(posted') = Remitted(posted)
    BY <2>1 DEF TopsUp, Remitted, PaymentReference, CodReference
  <2>5. QED
    BY <1>0, <2>1, <2>3, <2>4 DEF TopsUp, Conserved
<1>6. QED
  BY <1>1, <1>2, <1>3, <1>4, <1>5

\* A delivery fills the escrow with what its record will pay out.
LEMMA BooksCollected ==
  ASSUME FullInv, NEW s \in Shipments, Deliver(s)
  PROVE  BooksInv'
<1>0. /\ balance \in [Users -> Nat] /\ escrow \in Nat
      /\ Explained(balance, posted, taken) /\ Conserved(escrow, codRecord, posted)
      /\ codRecord \in [CodShipments -> {"none", "PENDING", "SETTLED_TO_VEXARO", "REMITTED"}]
  BY DEF FullInv, DeskInv, TypeInv, BooksInv
<1>1. UNCHANGED <<balance, posted, taken>>
  BY DeliverEffect DEF FullInv, DeskInv, Deliver, settlementVars
<1> SUFFICES Conserved(escrow', codRecord', posted)
  BY <1>0, <1>1 DEF BooksInv, Explained, Conserved, EarnedBy, TakenFrom, PaidBack, Remitted,
                    PaidOrders, Existing
<1>2. CASE s \in CodShipments
  <2>1. /\ codRecord[s] = "none"
        /\ codRecord' = [codRecord EXCEPT ![s] = "PENDING"]
        /\ escrow' = escrow + CodAmount[s]
    BY <1>2 DEF Deliver, Collect
  <2>2. /\ Existing(codRecord') = Existing(codRecord) \cup {s} /\ s \notin Existing(codRecord)
        /\ Existing(codRecord) \in SUBSET CodShipments
    BY <1>0, <1>2, <2>1 DEF Existing
  <2>3. /\ IsFiniteSet(Existing(codRecord)) /\ \A c \in CodShipments : CodAmount[c] \in Nat
        /\ Sum(CodAmount, Existing(codRecord)) \in Nat
        /\ Sum(CodAmount, Remitted(posted)) \in Nat
    BY <2>2, SumsAreNumbers, CodAssumption DEF Remitted
  <2>4. Sum(CodAmount, Existing(codRecord')) = Sum(CodAmount, Existing(codRecord)) + CodAmount[s]
    BY <1>2, <2>2, <2>3, SumAdd
  <2>5. QED
    BY <1>0, <1>2, <2>1, <2>3, <2>4 DEF Conserved
<1>3. CASE s \notin CodShipments
  BY <1>0, <1>3 DEF Deliver, walletVars, codVars
<1>4. QED
  BY <1>2, <1>3

LEMMA FullStep ==
  ASSUME NoForeignReference, FullInv, [Next]_vars
  PROVE  FullInv' /\ (\A c \in PaidOut' \ PaidOut : codRecord[c] # "PENDING")
<1>0. /\ TypeInv /\ DeskInv /\ SettledInv /\ CodInv /\ PayInv /\ DeskInv'
      /\ call \in [Slots -> Requests]
  BY DeskStep DEF FullInv, DeskInv, TypeInv
<1> DEFINE NoCodEntry ==
             \A c \in CodShipments : CodReference(c) \in posted' => CodReference(c) \in posted
           NoPayment ==
             \A p \in Attempts : PaymentReference(p) \in posted' => PaymentReference(p) \in posted
           NoSettlement ==
             \A s \in Settled : SettledReference[s] \in posted' => SettledReference[s] \in posted
           Goal == SettledInv' /\ CodInv' /\ PayInv' /\ BooksInv'
                   /\ (\A c \in PaidOut' \ PaidOut : codRecord[c] # "PENDING")
<1> SUFFICES Goal
  BY <1>0 DEF FullInv
<1>a. NoCodEntry => PaidOut' \subseteq PaidOut
  BY DEF PaidOut, CodReference
<1>1. CASE \E k \in Slots : Settling(k)
  <2>1. PICK k \in Slots : SettlementStep(k) /\ UNCHANGED <<refundVars, codVars, paymentVars>>
    BY <1>1 DEF Settling
  <2>2. /\ UNCHANGED <<walletVars, taken>> \/ \E s \in Settled : Takes(s)
        /\ Keeps(CodTasks \cup PaymentTasks)
    BY <1>0, <2>1, SettlementEffect
  <2>3. NoCodEntry /\ NoPayment /\ posted \subseteq posted'
    BY <2>2, OtherEntries, EntriesStay
  <2>4. UNCHANGED codVars /\ gateway' = gateway /\ Keeps(CodTasks) /\ Keeps(PaymentTasks)
    BY <2>1, <2>2 DEF Keeps, paymentVars
  <2>5. CodInv' /\ PayInv'
    BY <1>0, <2>3, <2>4, CodKept, PayKept
  <2>6. BooksInv'
    BY <2>2, <2>4, BooksKept DEF codVars
  <2>7. SettledInv'
    BY <1>0, <2>1, SettledStepKept
  <2>8. QED
    BY <1>a, <2>3, <2>5, <2>6, <2>7
<1>2. CASE \E k \in Slots : Refunding(k)
  <2>1. PICK k \in Slots : RefundStep(k) /\ UNCHANGED <<settlementVars, codVars, paymentVars>>
    BY <1>2 DEF Refunding
  <2>2. /\ UNCHANGED walletVars \/ \E q \in Refunds : PaysBack(q)
        /\ Keeps(SettlementTasks \cup CodTasks \cup PaymentTasks)
    BY <1>0, <2>1, RefundEffect
  <2>3. NoCodEntry /\ NoPayment /\ NoSettlement /\ posted \subseteq posted'
    BY <2>2, OtherEntries, EntriesStay DEF walletVars
  <2>4. UNCHANGED codVars /\ gateway' = gateway /\ taken' = taken
        /\ Keeps(SettlementTasks) /\ Keeps(CodTasks) /\ Keeps(PaymentTasks)
    BY <2>1, <2>2 DEF Keeps, paymentVars, settlementVars
  <2>5. CodInv' /\ PayInv'
    BY <1>0, <2>3, <2>4, CodKept, PayKept
  <2>6. BooksInv'
    BY <2>2, <2>4, BooksKept DEF codVars
  <2>7. SettledInv'
    BY <1>0, <2>1, <2>3, <2>4, SettledKept
  <2>8. QED
    BY <1>a, <2>3, <2>5, <2>6, <2>7
<1>3. CASE \E k \in Slots : Remitting(k)
  <2>1. PICK k \in Slots : CodStep(k) /\ UNCHANGED <<settlementVars, refundVars, paymentVars>>
    BY <1>3 DEF Remitting
  <2>2. /\ UNCHANGED walletVars \/ \E c \in CodShipments : PaysOut(c)
        /\ Keeps(SettlementTasks \cup PaymentTasks)
    BY <1>0, <2>1, CodEffect
  <2>3. NoPayment /\ NoSettlement /\ posted \subseteq posted'
    BY <2>2, OtherEntries, EntriesStay DEF walletVars
  <2>4. gateway' = gateway /\ taken' = taken /\ Keeps(SettlementTasks) /\ Keeps(PaymentTasks)
    BY <2>1, <2>2 DEF paymentVars, settlementVars, Keeps
  <2>5. PayInv'
    BY <1>0, <2>2, <2>3, <2>4, PayKept
  <2>6. /\ CodInv'
        /\ \A c \in CodShipments : codRecord'[c] = "none" <=> codRecord[c] = "none"
        /\ \A c \in PaidOut' \ PaidOut : codRecord[c] # "PENDING"
    BY <1>0, <2>1, CodStepKept
  <2>7. Existing(codRecord') = Existing(codRecord)
    BY <2>6 DEF Existing
  <2>8. BooksInv'
    BY <2>2, <2>4, <2>7, BooksKept
  <2>9. SettledInv'
    BY <1>0, <2>1, <2>3, <2>4, SettledKept
  <2>10. QED
    BY <2>5, <2>6, <2>8, <2>9
<1>4. CASE \E k \in Slots : Paying(k)
  <2>1. PICK k \in Slots : PaymentStep(k) /\ UNCHANGED <<settlementVars, refundVars, codVars>>
    BY <1>4 DEF Paying
  <2>2. /\ \/ UNCHANGED walletVars
           \/ \E p \in Attempts : TopsUp(p) /\ Crediting(k) /\ call[k].id = p
        /\ Keeps(SettlementTasks \cup CodTasks)
    BY <1>0, <2>1, PaymentEffect
  <2>3. UNCHANGED walletVars \/ \E p \in Attempts : TopsUp(p) /\ Captured(p)
    BY <1>0, <2>2 DEF PayInv, CreditsCaptured
  <2>4. NoCodEntry /\ NoSettlement /\ posted \subseteq posted'
    BY <2>3, OtherEntries, EntriesStay DEF walletVars
  <2>5. UNCHANGED codVars /\ taken' = taken /\ Keeps(SettlementTasks) /\ Keeps(CodTasks)
    BY <2>1, <2>2 DEF settlementVars, Keeps
  <2>6. CodInv'
    BY <1>0, <2>4, <2>5, CodKept
  <2>7. PayInv'
    BY <1>0, <2>1, PayStepKept
  <2>8. BooksInv'
    BY <2>3, <2>5, BooksKept DEF codVars
  <2>9. SettledInv'
    BY <1>0, <2>1, <2>4, <2>5, SettledKept
  <2>10. QED
    BY <1>a, <2>4, <2>6, <2>7, <2>8, <2>9
<1>5. CASE \E k \in Slots : Losing(k)
  <2>1. UNCHANGED <<walletVars, settlementVars, codVars, gateway>> /\ Keeps(Tasks)
    BY <1>0, <1>5, LosingEffect
  <2>2. /\ UNCHANGED walletVars /\ UNCHANGED codVars /\ gateway' = gateway /\ taken' = taken
        /\ Keeps(SettlementTasks) /\ Keeps(CodTasks) /\ Keeps(PaymentTasks)
    BY <2>1 DEF Keeps, Tasks, settlementVars
  <2>3. NoCodEntry /\ NoPayment /\ NoSettlement /\ posted \subseteq posted'
    BY <2>2 DEF walletVars
  <2>4. CodInv' /\ PayInv' /\ SettledInv'
    BY <1>0, <2>1, <2>2, <2>3, CodKept, PayKept, SettledKept
  <2>5. BooksInv'
    BY <2>2, BooksKept DEF codVars
  <2>6. QED
    BY <1>a, <2>3, <2>4, <2>5
<1>6. CASE \E s \in Shipments : Deliver(s)
  <2>1. PICK s \in Shipments : Deliver(s)
    BY <1>6
  <2>2. UNCHANGED <<balance, posted, call, settlementVars>> /\ gateway' = gateway
    BY <1>0, <2>1, DeliverEffect DEF Deliver, paymentVars
  <2>3. NoCodEntry /\ NoPayment /\ NoSettlement /\ Keeps(SettlementTasks) /\ Keeps(PaymentTasks)
    BY <2>2 DEF Keeps
  <2>4. CodInv' /\ PayInv' /\ BooksInv'
    BY <1>0, <2>1, <2>2, <2>3, CodCollected, PayKept, BooksCollected
  <2>5. SettledInv'
    BY <1>0, <2>2, <2>3, SettledKept
  <2>6. QED
    BY <1>a, <2>3, <2>4, <2>5
<1>7. CASE AtGateway
  <2>1. GatewayStep /\ UNCHANGED <<walletVars, call, settlementVars, codVars>>
    BY <1>0, <1>7, GatewayEffect DEF AtGateway
  <2>2. /\ UNCHANGED walletVars /\ UNCHANGED codVars /\ taken' = taken
        /\ Keeps(SettlementTasks) /\ Keeps(CodTasks)
    BY <2>1 DEF Keeps, settlementVars
  <2>3. NoCodEntry /\ NoSettlement /\ posted \subseteq posted'
    BY <2>2 DEF walletVars
  <2>4. CodInv' /\ PayInv' /\ SettledInv'
    BY <1>0, <2>1, <2>2, <2>3, CodKept, GatewayKept, SettledKept
  <2>5. BooksInv'
    BY <2>2, BooksKept DEF codVars
  <2>6. QED
    BY <1>a, <2>3, <2>4, <2>5
<1>8. CASE UNCHANGED vars
  <2>1. /\ UNCHANGED walletVars /\ UNCHANGED codVars /\ gateway' = gateway
        /\ UNCHANGED settlementVars /\ Keeps(SettlementTasks) /\ Keeps(CodTasks) /\ Keeps(PaymentTasks)
    BY <1>8 DEF vars, Keeps, paymentVars
  <2>2. NoCodEntry /\ NoPayment /\ NoSettlement /\ posted \subseteq posted'
    BY <2>1 DEF walletVars
  <2>3. CodInv' /\ PayInv' /\ BooksInv' /\ SettledInv'
    BY <1>0, <2>1, <2>2, CodKept, PayKept, BooksKept, SettledKept DEF codVars, settlementVars
  <2>4. QED
    BY <1>a, <2>2, <2>3
<1>9. QED
  BY <1>1, <1>2, <1>3, <1>4, <1>5, <1>6, <1>7, <1>8 DEF Next

LEMMA FullInvHolds == ASSUME NoForeignReference PROVE Spec => []FullInv
<1>1. Init => FullInv
  BY DeskInit, SettledInitInv, CodInitInv, PayInitInv, BooksInit DEF FullInv
<1>2. FullInv /\ [Next]_vars => FullInv'
  BY FullStep
<1>3. QED
  BY <1>1, <1>2, PTL DEF Spec

\* Every wallet holds its opening balance, plus what each refund request, COD
\* record and order brought it, less what each settlement took: each document
\* once and in its own amount, however many calls, events and repetitions race.
THEOREM EveryBalanceIsExplained ==
  ASSUME NoForeignReference PROVE Spec => []BalanceExplained
<1>1. FullInv => BalanceExplained
  BY BalanceIsExplained DEF FullInv, BooksInv
<1>2. QED
  BY <1>1, FullInvHolds, PTL

\* Documents tell the truth: a COMPLETED settlement was taken, or one with its
\* reference was, once for all that share it; an APPROVED request was credited, a REMITTED record paid out and its shipment told; and the escrow holds
\* exactly what was collected and is not paid out.
THEOREM EveryDocumentIsPaid ==
  ASSUME NoForeignReference PROVE Spec => []DocumentsArePaid
<1>1. FullInv => DocumentsArePaid
  <2> SUFFICES ASSUME FullInv PROVE DocumentsArePaid
    OBVIOUS
  <2>1. CompletedIsTaken
    BY DEF FullInv, DeskInv, SettledInv, TakenWhenCompleted, TakenOnce, CompletedIsTaken
  <2>2. CODConserved
    BY EscrowIsConserved DEF FullInv, BooksInv
  <2>3. QED
    BY <2>1, <2>2 DEF DocumentsArePaid, FullInv, DeskInv, CodInv
<1>2. QED
  BY <1>1, FullInvHolds, PTL

\* A distributor never pays out cash that the Super Admin has not settled to
\* Vexaro, whatever stale calls are under way.
THEOREM PaidOutAfterSettlement ==
  ASSUME NoForeignReference PROVE Spec => PaidAfterSettlement
<1> DEFINE Paid == \A c \in CodShipments : CodReference(c) \in posted' \ posted =>
                     codRecord[c] # "PENDING"
<1>1. FullInv /\ [Next]_vars => [Paid]_<<walletVars, call, codRecord, codStatus>>
  <2> SUFFICES ASSUME FullInv, [Next]_vars PROVE Paid
    OBVIOUS
  <2>1. \A c \in PaidOut' \ PaidOut : codRecord[c] # "PENDING"
    BY FullStep
  <2>2. QED
    BY <2>1 DEF PaidOut, CodReference
<1>2. QED
  BY <1>1, FullInvHolds, PTL DEF Spec, PaidAfterSettlement

===============================================================================
