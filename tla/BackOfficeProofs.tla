--------------------------- MODULE BackOfficeProofs ---------------------------
(***************************************************************************)
(* Machine-checked proofs about BackOffice, desk by desk: that the money of  *)
(* weight disputes is explained, that an approved change of address was      *)
(* applied, that jobs show what they did, that what is decided stays so but *)
(* under a stale request, that the pages of the address book show each        *)
(* address once and in order, and that every value has its type.            *)
(***************************************************************************)
EXTENDS BackOffice, Sums

\* A behaviour is about one desk; at the others no call is under way.
LEMMA OneDesk ==
  ASSUME [Next]_vars
  PROVE  /\ desk' = desk
         /\ desk # "disputes" => UNCHANGED <<walletVars, disputeVars>>
         /\ desk # "warehouses" => UNCHANGED warehouseVars
         /\ desk # "tickets" => UNCHANGED ticketVars
         /\ desk # "addresses" => UNCHANGED bookVars
         /\ desk = "disputes" => DisputeStep \/ UNCHANGED <<walletVars, disputeVars, call>>
         /\ desk = "warehouses" =>
              (\E k \in Slots : WarehouseStep(k)) \/ UNCHANGED <<warehouseVars, call>>
         /\ desk = "tickets" =>
              \/ \E k \in Slots : TicketStep(k)
              \/ \E t \in Tickets : DeleteTicket(t)
              \/ UNCHANGED <<ticketVars, call>>
         /\ desk = "addresses" => BookStep \/ UNCHANGED <<bookVars, call>>
BY DEF Next, vars, Disputing, Moving, Supporting, Addressing, Uploading, Exporting, Others

\* The jobs go on by themselves, one at a time.
LEMMA JobsAlone ==
  ASSUME [Next]_vars
  PROVE  /\ UNCHANGED uploadVars \/ \E u \in Uploads : UploadStep(u)
         /\ UNCHANGED exportVars \/ \E x \in Exports : ExportStep(x)
BY DEF Next, vars, jobVars, Disputing, Moving, Supporting, Addressing, Uploading, Exporting, Others

-------------------------------------------------------------------------------
(* Weight disputes.                                                         *)

DisputeCall == {Free} \cup [task : DisputeTasks, id : Weighed, seen : Undecided]

\* A call that has read a dispute was told that it exists and is not decided.
DisputeCalls ==
  /\ call \in [Slots -> DisputeCall]
  /\ \A k \in Slots : call[k].task \in DisputeTasks => dispute[call[k].id] # "none"

ChargedTo(u, P) == {s \in Weighed : ChargeReference(s, u) \in P}
GivenBack(u, P) == {s \in Weighed : ReversalReference(s, u) \in P}

DisputeBooks(b, P) ==
  \A u \in Users : b[u] = Opening[u] - (Sum(Extra, ChargedTo(u, P)) - Sum(Extra, GivenBack(u, P)))

PayersPaid ==
  \A s \in Weighed : \A u \in Payers(s) :
    /\ dispute[s] # "none" => ChargeReference(s, u) \in posted
    /\ dispute[s] = "APPROVED" => ReversalReference(s, u) \in posted
    /\ ReversalReference(s, u) \in posted => ChargeReference(s, u) \in posted

DisputeInv ==
  /\ balance \in [Users -> Nat]
  /\ DisputeTypeOK
  /\ DisputeBooks(balance, posted)
  /\ PayersPaid
  /\ desk = "disputes" => DisputeCalls

LEMMA PayersAreUsers == \A s \in Weighed : Payers(s) \subseteq Users
BY WalletCallsAssumption, WeighedAssumption DEF Payers

LEMMA MoneyIsExplained == DisputeInv => DisputeMoneyExplained
<1>1. ASSUME NEW u
      PROVE  MapThenSumSet(LAMBDA s : Extra[s], {s \in Weighed : ChargeReference(s, u) \in posted})
               = Sum(Extra, ChargedTo(u, posted))
  BY DEF ChargedTo, Sum
<1>2. ASSUME NEW u
      PROVE  MapThenSumSet(LAMBDA s : Extra[s], {s \in Weighed : ReversalReference(s, u) \in posted})
               = Sum(Extra, GivenBack(u, posted))
  BY DEF GivenBack, Sum
<1>3. \A u : DisputeCost(u) = Sum(Extra, ChargedTo(u, posted)) - Sum(Extra, GivenBack(u, posted))
  BY <1>1, <1>2 DEF DisputeCost
<1>4. QED
  BY <1>3 DEF DisputeInv, DisputeBooks, PayersPaid, DisputeMoneyExplained

LEMMA DisputeSums ==
  \A u, P : /\ ChargedTo(u, P) \in SUBSET Weighed /\ IsFiniteSet(ChargedTo(u, P))
            /\ GivenBack(u, P) \in SUBSET Weighed /\ IsFiniteSet(GivenBack(u, P))
            /\ Sum(Extra, ChargedTo(u, P)) \in Nat /\ Sum(Extra, GivenBack(u, P)) \in Nat
<1> TAKE u, P
<1>1. /\ ChargedTo(u, P) \in SUBSET Weighed /\ GivenBack(u, P) \in SUBSET Weighed
      /\ \A s \in Weighed : Extra[s] \in Nat
  BY WeighedAssumption DEF ChargedTo, GivenBack
<1>2. IsFiniteSet(ChargedTo(u, P)) /\ IsFiniteSet(GivenBack(u, P))
  BY <1>1, WeighedAssumption, FS_Subset
<1>3. Sum(Extra, ChargedTo(u, P)) \in Nat
  BY <1>1, <1>2, SumIsNat
<1>4. Sum(Extra, GivenBack(u, P)) \in Nat
  BY <1>1, <1>2, SumIsNat
<1>5. QED
  BY <1>1, <1>2, <1>3, <1>4

LEMMA DisputeInitInv == Init => DisputeInv
<1> SUFFICES ASSUME Init PROVE DisputeInv
  OBVIOUS
<1>1. /\ balance = Opening /\ posted = {} /\ call = [k \in Slots |-> Free]
      /\ dispute = [s \in Weighed |-> "none"] /\ overdue = {}
  BY DEF Init, WalletInit, CallsInit, DisputeInit
<1>2. \A u : Sum(Extra, ChargedTo(u, posted)) = 0 /\ Sum(Extra, GivenBack(u, posted)) = 0
  <2>1. \A u : ChargedTo(u, posted) = {} /\ GivenBack(u, posted) = {}
    BY <1>1 DEF ChargedTo, GivenBack
  <2>2. QED
    BY <2>1, SumOfNone
<1>3. \A u \in Users : Opening[u] \in Nat
  BY WalletCallsAssumption
<1>4. DisputeBooks(balance, posted)
  BY <1>1, <1>2, <1>3 DEF DisputeBooks
<1>5. DisputeCalls
  BY <1>1 DEF DisputeCalls, DisputeCall, Free, DisputeTasks
<1>6. QED
  BY <1>1, <1>4, <1>5, WalletCallsAssumption DEF DisputeInv, DisputeTypeOK, PayersPaid

\* What the references of one dispute add to the books.
LEMMA BookCharges ==
  ASSUME NEW P, NEW b \in [Users -> Nat], DisputeBooks(b, P), NEW s \in Weighed, NEW who
  PROVE  LET due == {u \in who : ChargeReference(s, u) \notin P} IN
         DisputeBooks([u \in Users |-> b[u] - IF u \in due THEN Extra[s] ELSE 0],
                      P \cup {ChargeReference(s, u) : u \in who})
<1> DEFINE due == {u \in who : ChargeReference(s, u) \notin P}
           Q == P \cup {ChargeReference(s, u) : u \in who}
           c == [u \in Users |-> b[u] - IF u \in due THEN Extra[s] ELSE 0]
<1>1. \A u : GivenBack(u, Q) = GivenBack(u, P)
  BY DEF GivenBack, ReversalReference, ChargeReference
<1>2. \A u : /\ u \in due => ChargedTo(u, Q) = ChargedTo(u, P) \cup {s} /\ s \notin ChargedTo(u, P)
             /\ u \notin due => ChargedTo(u, Q) = ChargedTo(u, P)
  BY DEF ChargedTo, ChargeReference
<1>3. /\ \A t \in Weighed : Extra[t] \in Nat
      /\ \A u \in Users : Opening[u] \in Nat
  BY WeighedAssumption, WalletCallsAssumption
<1> SUFFICES ASSUME NEW u \in Users
             PROVE  c[u] = Opening[u] - (Sum(Extra, ChargedTo(u, Q)) - Sum(Extra, GivenBack(u, Q)))
  BY DEF DisputeBooks
<1>4. b[u] = Opening[u] - (Sum(Extra, ChargedTo(u, P)) - Sum(Extra, GivenBack(u, P)))
      /\ b[u] \in Nat
  BY DEF DisputeBooks
<1>5. /\ ChargedTo(u, P) \in SUBSET Weighed /\ IsFiniteSet(ChargedTo(u, P))
      /\ Sum(Extra, ChargedTo(u, P)) \in Nat /\ Sum(Extra, GivenBack(u, P)) \in Nat
  BY DisputeSums
<1>6. CASE u \in due
  <2>1. ChargedTo(u, Q) = ChargedTo(u, P) \cup {s} /\ s \notin ChargedTo(u, P)
    BY <1>2, <1>6
  <2>2. Sum(Extra, ChargedTo(u, Q)) = Sum(Extra, ChargedTo(u, P)) + Extra[s]
    BY <1>3, <1>5, <2>1, SumAdd
  <2>3. c[u] = b[u] - Extra[s] /\ Extra[s] \in Nat
    BY <1>3, <1>6
  <2> HIDE DEF c, Q, due
  <2>4. QED
    BY <1>1, <1>3, <1>4, <1>5, <2>2, <2>3
<1>7. CASE u \notin due
  <2>1. c[u] = b[u] /\ ChargedTo(u, Q) = ChargedTo(u, P)
    BY <1>2, <1>4, <1>7
  <2> HIDE DEF c, Q, due
  <2>2. QED
    BY <1>1, <1>4, <2>1
<1>8. QED
  BY <1>6, <1>7

LEMMA BookReversals ==
  ASSUME NEW P, NEW b \in [Users -> Nat], DisputeBooks(b, P), NEW s \in Weighed, NEW who
  PROVE  LET due == {u \in who : ReversalReference(s, u) \notin P} IN
         DisputeBooks([u \in Users |-> b[u] + IF u \in due THEN Extra[s] ELSE 0],
                      P \cup {ReversalReference(s, u) : u \in who})
<1> DEFINE due == {u \in who : ReversalReference(s, u) \notin P}
           Q == P \cup {ReversalReference(s, u) : u \in who}
           c == [u \in Users |-> b[u] + IF u \in due THEN Extra[s] ELSE 0]
<1>1. \A u : ChargedTo(u, Q) = ChargedTo(u, P)
  BY DEF ChargedTo, ReversalReference, ChargeReference
<1>2. \A u : /\ u \in due => GivenBack(u, Q) = GivenBack(u, P) \cup {s} /\ s \notin GivenBack(u, P)
             /\ u \notin due => GivenBack(u, Q) = GivenBack(u, P)
  BY DEF GivenBack, ReversalReference
<1>3. /\ \A t \in Weighed : Extra[t] \in Nat
      /\ \A u \in Users : Opening[u] \in Nat
  BY WeighedAssumption, WalletCallsAssumption
<1> SUFFICES ASSUME NEW u \in Users
             PROVE  c[u] = Opening[u] - (Sum(Extra, ChargedTo(u, Q)) - Sum(Extra, GivenBack(u, Q)))
  BY DEF DisputeBooks
<1>4. b[u] = Opening[u] - (Sum(Extra, ChargedTo(u, P)) - Sum(Extra, GivenBack(u, P)))
      /\ b[u] \in Nat
  BY DEF DisputeBooks
<1>5. /\ GivenBack(u, P) \in SUBSET Weighed /\ IsFiniteSet(GivenBack(u, P))
      /\ Sum(Extra, ChargedTo(u, P)) \in Nat /\ Sum(Extra, GivenBack(u, P)) \in Nat
  BY DisputeSums
<1>6. CASE u \in due
  <2>1. GivenBack(u, Q) = GivenBack(u, P) \cup {s} /\ s \notin GivenBack(u, P)
    BY <1>2, <1>6
  <2>2. Sum(Extra, GivenBack(u, Q)) = Sum(Extra, GivenBack(u, P)) + Extra[s]
    BY <1>3, <1>5, <2>1, SumAdd
  <2>3. c[u] = b[u] + Extra[s] /\ Extra[s] \in Nat
    BY <1>3, <1>6
  <2> HIDE DEF c, Q, due
  <2>4. QED
    BY <1>1, <1>3, <1>4, <1>5, <2>2, <2>3
<1>7. CASE u \notin due
  <2>1. c[u] = b[u] /\ GivenBack(u, Q) = GivenBack(u, P)
    BY <1>2, <1>4, <1>7
  <2> HIDE DEF c, Q, due
  <2>2. QED
    BY <1>1, <1>4, <2>1
<1>8. QED
  BY <1>6, <1>7

LEMMA RaiseKept ==
  ASSUME DisputeInv, DisputeCalls, NEW s \in Weighed, RaiseDispute(s)
  PROVE  DisputeInv' /\ DisputeCalls'
<1> DEFINE who == Payers(s)
           due == {u \in who : ChargeReference(s, u) \notin posted}
<1> USE DEF DisputeInv, DisputeTypeOK
<1>1. /\ dispute[s] = "none" /\ dispute' = [dispute EXCEPT ![s] = "OPEN"]
      /\ UNCHANGED <<call, overdue>>
      /\ balance' = [u \in Users |-> balance[u] - IF u \in due THEN Extra[s] ELSE 0]
      /\ posted' = posted \cup {ChargeReference(s, u) : u \in who}
      /\ \A u \in due : balance[u] >= Extra[s]
  BY DEF RaiseDispute, ShipmentFree, ChargeAll, Charged, Covered
<1>2. DisputeBooks(balance', posted')
  BY <1>1, BookCharges
<1>3. balance' \in [Users -> Nat]
  <2>1. Extra[s] \in Nat /\ \A u \in Users : balance[u] \in Nat
    BY WeighedAssumption
  <2> HIDE DEF due
  <2>2. \A u \in Users : balance[u] - (IF u \in due THEN Extra[s] ELSE 0) \in Nat
    BY <1>1, <2>1
  <2>3. QED
    BY <1>1, <2>2
<1>4. DisputeTypeOK'
  BY <1>1 DEF Undecided
<1>5. PayersPaid'
  <2>1. \A t \in Weighed : dispute'[t] \in {dispute[t], "OPEN"} /\ (dispute'[t] # dispute[t] => t = s)
    BY <1>1
  <2>2. \A t \in Weighed : \A u : ReversalReference(t, u) \in posted' => ReversalReference(t, u) \in posted
    BY <1>1 DEF ReversalReference, ChargeReference
  <2>3. \A u \in Payers(s) : ChargeReference(s, u) \in posted'
    BY <1>1
  <2>4. posted \subseteq posted'
    BY <1>1
  <2>5. QED
    BY <2>1, <2>2, <2>3, <2>4 DEF PayersPaid, ReversalReference, ChargeReference, Payers
<1>6. DisputeCalls'
  BY <1>1 DEF DisputeCalls, DisputeCall
<1>7. QED
  BY <1>2, <1>3, <1>4, <1>5, <1>6 DEF DisputeBooks, ChargedTo, GivenBack, ChargeReference,
                                      ReversalReference

\* A step that leaves the wallets alone, brings no dispute back and approves none.
LEMMA DisputeKept ==
  ASSUME DisputeInv, UNCHANGED walletVars, DisputeTypeOK',
         \A s \in Weighed : /\ dispute'[s] # "none" => dispute[s] # "none"
                            /\ dispute'[s] = "APPROVED" => dispute[s] = "APPROVED"
  PROVE  /\ balance' \in [Users -> Nat]
         /\ DisputeBooks(balance, posted)'
         /\ PayersPaid'
<1> USE DEF DisputeInv
<1>1. balance' = balance /\ posted' = posted
  BY DEF walletVars
<1>2. PayersPaid'
  BY <1>1 DEF PayersPaid, Payers, ChargeReference, ReversalReference
<1>3. QED
  BY <1>1, <1>2 DEF DisputeBooks, ChargedTo, GivenBack, ChargeReference, ReversalReference

LEMMA DisputeTimePasses ==
  ASSUME DisputeInv, DisputeCalls,
         (\E s \in Weighed : BecomeOverdue(s)) \/ ExpireDisputes \/ ListWeightDisputes
  PROVE  DisputeInv' /\ DisputeCalls'
<1> USE DEF DisputeInv, DisputeTypeOK
<1>1. UNCHANGED walletVars /\ call' = call
  BY DEF BecomeOverdue, ExpireDisputes, ListWeightDisputes, EndOverdue
<1>2. /\ DisputeTypeOK'
      /\ \A s \in Weighed : dispute'[s] = dispute[s]
                              \/ (dispute[s] = "OPEN" /\ dispute'[s] \in {"EXPIRED", "CLOSED"})
  <2>1. CASE \E s \in Weighed : BecomeOverdue(s)
    <3>1. PICK s \in Weighed : overdue' = overdue \cup {s} /\ dispute' = dispute
      BY <2>1 DEF BecomeOverdue
    <3>2. QED
      BY <3>1
  <2>2. CASE \E status \in {"EXPIRED", "CLOSED"} : EndOverdue(status)
    <3>1. PICK status \in {"EXPIRED", "CLOSED"} :
            /\ dispute' = [s \in Weighed |-> IF s \in OverdueOpen THEN status ELSE dispute[s]]
            /\ overdue' = overdue
      BY <2>2 DEF EndOverdue
    <3>2. \A s \in Weighed : dispute'[s] = dispute[s]
                              \/ (dispute[s] = "OPEN" /\ dispute'[s] \in {"EXPIRED", "CLOSED"})
      BY <3>1 DEF OverdueOpen
    <3>3. dispute' \in [Weighed -> {"none", "OPEN", "UNDER_REVIEW"} \cup Rulings]
      BY <3>1, <3>2 DEF Rulings, Undecided
    <3>4. QED
      BY <3>1, <3>2, <3>3
  <2>3. QED
    BY <2>1, <2>2 DEF ExpireDisputes, ListWeightDisputes
<1>3. DisputeCalls'
  BY <1>1, <1>2 DEF DisputeCalls, DisputeCall, Free, DisputeTasks
<1>4. QED
  BY <1>1, <1>2, <1>3, DisputeKept

LEMMA DisputeBegins ==
  ASSUME DisputeInv, DisputeCalls, NEW k \in Slots, NEW s \in Weighed,
         BeginProof(k, s) \/ BeginResolution(k, s)
  PROVE  DisputeInv' /\ DisputeCalls'
<1> USE DEF DisputeInv, DisputeTypeOK
<1>1. /\ UNCHANGED <<walletVars, disputeVars>>
      /\ dispute[s] \in Undecided /\ dispute[s] # "none"
      /\ \E task \in DisputeTasks : ArriveWith(k, task, s, dispute[s])
  BY DEF BeginProof, BeginResolution, AwaitsRuling, Undecided, DisputeTasks
<1>2. PICK task \in DisputeTasks :
        call' = [call EXCEPT ![k] = [task |-> task, id |-> s, seen |-> dispute[s]]]
  BY <1>1 DEF ArriveWith
<1>3. DisputeCalls'
  BY <1>1, <1>2 DEF DisputeCalls, DisputeCall, disputeVars
<1>4. UNCHANGED walletVars /\ DisputeTypeOK' /\ dispute' = dispute
  BY <1>1 DEF disputeVars
<1>5. QED
  BY <1>3, <1>4, DisputeKept

LEMMA DisputeSaved ==
  ASSUME DisputeInv, DisputeCalls, NEW k \in Slots,
         SaveProof(k) \/ ApproveDispute(k) \/ RejectDispute(k)
  PROVE  DisputeInv' /\ DisputeCalls'
<1> DEFINE s == call[k].id
<1> USE DEF DisputeInv, DisputeTypeOK
<1>1. s \in Weighed /\ dispute[s] # "none"
  BY DEF SaveProof, ApproveDispute, RejectDispute, At, DisputeCalls, DisputeCall, Free,
         DisputeTasks
<1>2. /\ Leave(k) /\ overdue' = overdue
      /\ dispute' = [dispute EXCEPT ![s] =
                       IF SaveProof(k) THEN "UNDER_REVIEW"
                       ELSE IF ApproveDispute(k) THEN "APPROVED" ELSE "REJECTED"]
  BY DEF SaveProof, ApproveDispute, RejectDispute, SaveDispute, At
<1>3. DisputeTypeOK'
  BY <1>2 DEF Rulings, Undecided
<1>4. DisputeCalls'
  <2>1. call' \in [Slots -> DisputeCall] /\ \A j \in Slots : call'[j] = call[j] \/ call'[j] = Free
    BY <1>2 DEF Leave, DisputeCalls, DisputeCall
  <2>2. Free.task \notin DisputeTasks
    BY DEF Free, DisputeTasks
  <2>3. \A t \in Weighed : dispute[t] # "none" => dispute'[t] # "none"
    BY <1>2
  <2>4. \A j \in Slots : call[j].task \in DisputeTasks => call[j].id \in Weighed
    BY DEF DisputeCalls, DisputeCall, Free, DisputeTasks
  <2>5. QED
    BY <2>1, <2>2, <2>3, <2>4 DEF DisputeCalls
<1>5. CASE ~ApproveDispute(k)
  <2>1. UNCHANGED walletVars
    BY <1>5 DEF SaveProof, RejectDispute
  <2>2. \A t \in Weighed : /\ dispute'[t] # "none" => dispute[t] # "none"
                           /\ dispute'[t] = "APPROVED" => dispute[t] = "APPROVED"
    BY <1>1, <1>2, <1>5
  <2>3. QED
    BY <1>3, <1>4, <2>1, <2>2, DisputeKept
<1>6. CASE ApproveDispute(k)
  <2> DEFINE who == Payers(s)
             due == {u \in who : ReversalReference(s, u) \notin posted}
  <2>1. /\ balance' = [u \in Users |-> balance[u] + IF u \in due THEN Extra[s] ELSE 0]
        /\ posted' = posted \cup {ReversalReference(s, u) : u \in who}
    BY <1>6 DEF ApproveDispute, ReverseAll
  <2>2. DisputeBooks(balance', posted')
    BY <1>1, <2>1, BookReversals
  <2>3. balance' \in [Users -> Nat]
    <3>1. \A u \in Users : balance[u] + (IF u \in due THEN Extra[s] ELSE 0) \in Nat
      BY <1>1, WeighedAssumption
    <3>2. QED
      BY <2>1, <3>1
  <2>4. PayersPaid'
    <3>1. \A t \in Weighed : t # s => dispute'[t] = dispute[t]
      BY <1>2
    <3>2. \A t \in Weighed : \A u : ReversalReference(t, u) \in posted' =>
            ReversalReference(t, u) \in posted \/ t = s
      BY <2>1 DEF ReversalReference
    <3>3. \A u \in Payers(s) : ReversalReference(s, u) \in posted' /\ ChargeReference(s, u) \in posted
      BY <1>1, <2>1 DEF PayersPaid
    <3>4. posted \subseteq posted'
      BY <2>1
    <3>5. QED
      BY <1>1, <3>1, <3>2, <3>3, <3>4 DEF PayersPaid, ReversalReference, ChargeReference, Payers
  <2>5. QED
    BY <1>3, <1>4, <2>2, <2>3, <2>4 DEF DisputeBooks, ChargedTo, GivenBack, ChargeReference,
                                        ReversalReference
<1>7. QED
  BY <1>5, <1>6

LEMMA DisputeLost ==
  ASSUME DisputeInv, DisputeCalls, NEW k \in Slots, LoseDispute(k)
  PROVE  DisputeInv' /\ DisputeCalls'
<1> USE DEF DisputeInv, DisputeTypeOK
<1>1. Leave(k) /\ UNCHANGED <<walletVars, disputeVars>>
  BY DEF LoseDispute, Abort, Drop
<1>2. DisputeCalls'
  BY <1>1 DEF Leave, DisputeCalls, DisputeCall, Free, DisputeTasks, disputeVars
<1>3. UNCHANGED walletVars /\ DisputeTypeOK' /\ dispute' = dispute
  BY <1>1 DEF disputeVars
<1>4. QED
  BY <1>2, <1>3, DisputeKept

LEMMA DisputeStepInv == DisputeInv /\ [Next]_vars => DisputeInv'
<1> SUFFICES ASSUME DisputeInv, [Next]_vars PROVE DisputeInv'
  OBVIOUS
<1>1. CASE DisputeStep /\ desk = "disputes"
  <2>1. DisputeCalls
    BY <1>1 DEF DisputeInv
  <2>2. QED
    BY <1>1, <2>1, RaiseKept, DisputeTimePasses, DisputeBegins, DisputeSaved, DisputeLost
       DEF DisputeStep
<1>2. CASE UNCHANGED <<walletVars, disputeVars>> /\ (desk = "disputes" => call' = call)
  <2>1. UNCHANGED walletVars /\ dispute' = dispute /\ overdue' = overdue /\ desk' = desk
    BY <1>2, OneDesk DEF disputeVars
  <2>2. DisputeTypeOK'
    BY <2>1 DEF DisputeInv, DisputeTypeOK
  <2>3. desk' = "disputes" => DisputeCalls'
    BY <1>2, <2>1 DEF DisputeInv, DisputeCalls
  <2>4. QED
    BY <2>1, <2>2, <2>3, DisputeKept DEF DisputeInv
<1>3. QED
  BY <1>1, <1>2, OneDesk

LEMMA DisputeInvHolds == Spec => []DisputeInv
BY DisputeInitInv, DisputeStepInv, PTL DEF Spec

\* A shipment that has a dispute has charged the merchant and his distributor,
\* once each; an APPROVED one has given both what it took; nothing is given back
\* that was not taken; and nothing else happened to their wallets - for any number
\* of disputes, however proofs, rulings and the two expiries race.
THEOREM DisputesAreExplained == Spec => []DisputeMoneyExplained
BY DisputeInvHolds, MoneyIsExplained, PTL

-------------------------------------------------------------------------------
(* Changes of a warehouse's address.                                        *)

Parts == {"street", "pincode"}

IsAddress(x) ==
  /\ DOMAIN x = Parts
  /\ \A part \in Parts : x[part] \in {a[part] : a \in Addresses}

CreatingTasks == {"findPendingChange", "createChange"}

AnsweringTasks == {"applyAddress"} \cup AnswerTasks

ChangeTasks == CreatingTasks \cup AnsweringTasks

\* An answer is about a request that was read PENDING.
ChangeCall == [task : CreatingTasks, id : Changes]
              \cup [task : AnsweringTasks, id : Changes, seen : {"PENDING"}]

DirectTasks == {"editWarehouse", "register"}

\* An administrator's call keeps an address it has seen; an approval that is being
\* saved has given its address to the warehouse.
WarehouseCalls ==
  /\ call = [k \in Slots |-> call[k]]
  /\ \A k \in Slots :
       \/ call[k] = Free
       \/ call[k] \in ChangeCall
       \/ call[k].task \in DirectTasks /\ IsAddress(call[k].seen)
  /\ \A k \in Slots : At(k, "saveApproval") => call[k].id \in applied

\* A request that is being created is not there yet, and no other call is about it.
OneCreator ==
  /\ \A k \in Slots : call[k].task \in CreatingTasks => change[call[k].id] = "none"
  /\ \A j, k \in Slots : /\ call[j].task \in CreatingTasks /\ call[k].task \in ChangeTasks
                         /\ call[j].id = call[k].id
                         => j = k

WarehouseInv ==
  /\ change \in [Changes -> {"none", "PENDING"} \cup Answers]
  /\ applied \subseteq Changes
  /\ IsAddress(address) /\ IsAddress(registered)
  /\ ApprovedWasApplied
  /\ desk = "warehouses" => WarehouseCalls /\ OneCreator

LEMMA KnownAddresses == \A x \in Addresses : IsAddress(x)
BY WarehouseAssumption DEF Addresses, IsAddress, Parts

LEMMA WarehouseTyped == WarehouseInv => WarehouseTypeOK
BY DEF WarehouseInv, WarehouseTypeOK, IsAddress, Parts

LEMMA WarehouseInitInv == Init => WarehouseInv
<1> SUFFICES ASSUME Init PROVE WarehouseInv
  OBVIOUS
<1>1. /\ call = [k \in Slots |-> Free] /\ change = [q \in Changes |-> "none"]
      /\ address = FirstAddress /\ registered = FirstAddress /\ applied = {}
  BY DEF Init, WalletInit, CallsInit, WarehouseInit
<1>2. IsAddress(FirstAddress)
  BY KnownAddresses DEF Addresses
<1>3. WarehouseCalls
  BY <1>1 DEF WarehouseCalls, At, Free
<1>4. OneCreator
  BY <1>1 DEF OneCreator, Free, CreatingTasks
<1>5. QED
  BY <1>1, <1>2, <1>3, <1>4 DEF WarehouseInv, ApprovedWasApplied

\* The task of a call tells whether it is about a change request.
LEMMA ChangeTaskTells ==
  ASSUME WarehouseCalls, NEW k \in Slots
  PROVE  /\ call[k].task \in CreatingTasks =>
              call[k] \in [task : CreatingTasks, id : Changes]
         /\ call[k].task \in AnsweringTasks =>
              call[k] \in [task : AnsweringTasks, id : Changes, seen : {"PENDING"}]
         /\ call[k].task \in ChangeTasks => call[k] \in ChangeCall /\ call[k].id \in Changes
         /\ call[k].task \in DirectTasks => IsAddress(call[k].seen)
BY DEF WarehouseCalls, ChangeCall, ChangeTasks, CreatingTasks, AnsweringTasks, AnswerTasks,
       DirectTasks, Free

LEMMA LeaveWarehouse ==
  ASSUME WarehouseCalls, NEW k \in Slots, Leave(k), applied \subseteq applied'
  PROVE  WarehouseCalls'
<1>1. call' = [j \in Slots |-> call'[j]] /\ \A j \in Slots : call'[j] = call[j] \/ call'[j] = Free
  BY DEF Leave, WarehouseCalls
<1>2. QED
  BY <1>1 DEF WarehouseCalls, At, Free, IsAddress, Parts, ChangeCall

LEMMA GotoChange ==
  ASSUME WarehouseCalls, NEW k \in Slots, NEW task,
         \/ call[k].task \in CreatingTasks /\ task \in CreatingTasks
         \/ call[k].task \in AnsweringTasks /\ task \in AnsweringTasks,
         Goto(k, task), applied \subseteq applied', task = "saveApproval" => call[k].id \in applied'
  PROVE  WarehouseCalls'
<1>2. /\ [call[k] EXCEPT !.task = task] \in ChangeCall
      /\ [call[k] EXCEPT !.task = task].task = task
      /\ [call[k] EXCEPT !.task = task].id = call[k].id
  <2>1. CASE call[k].task \in CreatingTasks /\ task \in CreatingTasks
    BY <2>1, ChangeTaskTells DEF ChangeCall
  <2>2. CASE call[k].task \in AnsweringTasks /\ task \in AnsweringTasks
    BY <2>2, ChangeTaskTells DEF ChangeCall
  <2>3. QED
    BY <2>1, <2>2
<1> DEFINE new == [call[k] EXCEPT !.task = task]
<1>3. call' = [call EXCEPT ![k] = new]
  BY DEF Goto
<1> HIDE DEF new
<1>4. /\ call' = [j \in Slots |-> call'[j]] /\ call'[k] = new
      /\ \A j \in Slots : j # k => call'[j] = call[j]
  BY <1>3 DEF WarehouseCalls
<1>5. new \in ChangeCall /\ new.task = task /\ new.id = call[k].id
  BY <1>2 DEF new
<1>6. QED
  BY <1>4, <1>5 DEF WarehouseCalls, At, IsAddress, Parts, ChangeCall

LEMMA ArriveWarehouse ==
  ASSUME WarehouseCalls, NEW k \in Slots, NEW new, call' = [call EXCEPT ![k] = new],
         \/ new \in ChangeCall /\ new.task # "saveApproval"
         \/ new.task \in DirectTasks /\ IsAddress(new.seen),
         applied' = applied
  PROVE  WarehouseCalls'
<1>1. /\ call' = [j \in Slots |-> call'[j]] /\ call'[k] = new
      /\ \A j \in Slots : j # k => call'[j] = call[j]
  BY DEF WarehouseCalls
<1>2. new.task # "saveApproval"
  BY DEF DirectTasks
<1>3. QED
  BY <1>1, <1>2 DEF WarehouseCalls, At, IsAddress, Parts, ChangeCall

LEMMA ChangeBegins ==
  ASSUME WarehouseCalls, NEW k \in Slots, NEW q \in Changes, AskForChange(k, q) \/ ReadChange(k, q)
  PROVE  WarehouseCalls' /\ UNCHANGED warehouseVars
<1>1. PICK new \in ChangeCall :
        /\ new.task # "saveApproval"
        /\ call' = [call EXCEPT ![k] = new] /\ UNCHANGED warehouseVars
  <2>1. CASE AskForChange(k, q)
    <3>1. [task |-> "findPendingChange", id |-> q] \in ChangeCall
      BY DEF ChangeCall, CreatingTasks
    <3>2. QED
      BY <2>1, <3>1 DEF AskForChange, Arrive
  <2>2. CASE ReadChange(k, q)
    <3>1. PICK answer \in {"applyAddress", "rejectChange", "cancelChange"} :
            ArriveWith(k, answer, q, change[q]) /\ change[q] = "PENDING" /\ UNCHANGED warehouseVars
      BY <2>2 DEF ReadChange
    <3>2. [task |-> answer, id |-> q, seen |-> "PENDING"] \in ChangeCall
      BY DEF ChangeCall, AnsweringTasks, AnswerTasks
    <3>3. QED
      BY <3>1, <3>2 DEF ArriveWith
  <2>3. QED
    BY <2>1, <2>2
<1>2. QED
  BY <1>1, ArriveWarehouse DEF warehouseVars

LEMMA DirectBegins ==
  ASSUME WarehouseCalls, IsAddress(address), NEW k \in Slots, ReadWarehouse(k)
  PROVE  WarehouseCalls' /\ UNCHANGED warehouseVars
<1>1. PICK task \in DirectTasks :
        ArriveWith(k, task, "warehouse", address) /\ UNCHANGED warehouseVars
  BY DEF ReadWarehouse, DirectTasks
<1> DEFINE new == [task |-> task, id |-> "warehouse", seen |-> address]
<1>2. new.task \in DirectTasks /\ IsAddress(new.seen)
  OBVIOUS
<1>3. call' = [call EXCEPT ![k] = new] /\ applied' = applied
  BY <1>1 DEF ArriveWith, warehouseVars
<1> HIDE DEF new
<1>4. QED
  BY <1>1, <1>2, <1>3, ArriveWarehouse

\* A request is created by one call at a time.
LEMMA OneCreatorKept ==
  ASSUME WarehouseCalls, OneCreator, change \in [Changes -> {"none", "PENDING"} \cup Answers],
         NEW k \in Slots, WarehouseStep(k)
  PROVE  OneCreator'
<1>0. \A j \in Slots : call[j].task \in ChangeTasks => call[j].id \in Changes
  BY ChangeTaskTells
<1>a. call = [j \in Slots |-> call[j]]
  BY DEF WarehouseCalls
<1>b. ASSUME Leave(k)
      PROVE  \A j \in Slots : call'[j].task \in ChangeTasks => j # k /\ call'[j] = call[j]
  BY <1>a, <1>b DEF Leave, Free, ChangeTasks, CreatingTasks, AnsweringTasks, AnswerTasks
<1>1. CASE \E q \in Changes : AskForChange(k, q)
  <2>1. PICK q \in Changes : AskForChange(k, q)
    BY <1>1
  <2>2. /\ change' = change /\ change[q] = "none" /\ \A j \in Slots : call[j].id # q
        /\ call'[k] = [task |-> "findPendingChange", id |-> q]
        /\ \A j \in Slots : j # k => call'[j] = call[j]
    BY <1>a, <2>1 DEF AskForChange, Arrive, warehouseVars
  <2>3. QED
    BY <2>2 DEF OneCreator
<1>2. CASE \E q \in Changes : ReadChange(k, q)
  <2>1. PICK q \in Changes : ReadChange(k, q)
    BY <1>2
  <2>2. PICK answer \in {"applyAddress", "rejectChange", "cancelChange"} :
          /\ change' = change /\ change[q] = "PENDING"
          /\ call'[k] = [task |-> answer, id |-> q, seen |-> change[q]]
          /\ \A j \in Slots : j # k => call'[j] = call[j]
    BY <1>a, <2>1 DEF ReadChange, ArriveWith, warehouseVars
  <2>3. call'[k].task \notin CreatingTasks /\ call'[k].id = q
    BY <2>2 DEF CreatingTasks
  <2>4. QED
    BY <2>2, <2>3 DEF OneCreator
<1>3. CASE FindPendingChange(k) \/ ApplyAddress(k)
  <2>1. /\ change' = change
        /\ call[k].task \in ChangeTasks
        /\ \/ Leave(k)
           \/ \E task : /\ Goto(k, task)
                        /\ task \in CreatingTasks => call[k].task \in CreatingTasks
    BY <1>3 DEF FindPendingChange, ApplyAddress, warehouseVars, At, ChangeTasks, CreatingTasks,
                AnsweringTasks
  <2>2. CASE Leave(k)
    BY <1>b, <2>1, <2>2 DEF OneCreator, ChangeTasks
  <2>3. CASE \E task : Goto(k, task) /\ (task \in CreatingTasks => call[k].task \in CreatingTasks)
    <3>1. PICK task : Goto(k, task) /\ (task \in CreatingTasks => call[k].task \in CreatingTasks)
      BY <2>3
    <3>2. call[k] \in ChangeCall
      BY <2>1, ChangeTaskTells
    <3>3. /\ call'[k].id = call[k].id /\ call'[k].task = task
          /\ \A j \in Slots : j # k => call'[j] = call[j]
      BY <1>a, <3>1, <3>2 DEF Goto, ChangeCall
    <3>4. QED
      BY <2>1, <3>1, <3>3 DEF OneCreator
  <2>4. QED
    BY <2>1, <2>2, <2>3
<1>4. CASE CreateChange(k) \/ SaveApproval(k) \/ RejectChange(k) \/ CancelChange(k)
  <2>1. PICK status : SaveChange(k, status)
    BY <1>4 DEF CreateChange, SaveApproval, RejectChange, CancelChange
  <2>2. Leave(k) /\ change' = [change EXCEPT ![call[k].id] = status]
        /\ call[k].task \in ChangeTasks
    BY <1>4, <2>1 DEF SaveChange, CreateChange, SaveApproval, RejectChange, CancelChange, At,
                      ChangeTasks, CreatingTasks, AnsweringTasks, AnswerTasks
  <2>3. \A j \in Slots : j # k /\ call[j].task \in CreatingTasks => call[j].id # call[k].id
    BY <2>2 DEF OneCreator
  <2>4. QED
    BY <1>0, <1>b, <2>2, <2>3 DEF OneCreator, ChangeTasks
<1>5. CASE ReadWarehouse(k)
  <2>1. PICK task \in DirectTasks : ArriveWith(k, task, "warehouse", address) /\ change' = change
    BY <1>5 DEF ReadWarehouse, DirectTasks, warehouseVars
  <2>2. /\ call'[k].task \notin ChangeTasks
        /\ \A j \in Slots : j # k => call'[j] = call[j]
    BY <1>a, <2>1 DEF ArriveWith, DirectTasks, ChangeTasks, CreatingTasks, AnsweringTasks, AnswerTasks
  <2>3. QED
    BY <2>1, <2>2 DEF OneCreator, ChangeTasks
<1>6. CASE EditWarehouse(k) \/ Register(k) \/ LoseChange(k)
  <2>1. Leave(k) /\ change' = change
    BY <1>6 DEF EditWarehouse, Register, LoseChange, Drop, warehouseVars
  <2>2. QED
    BY <1>b, <2>1 DEF OneCreator, ChangeTasks
<1>7. QED
  BY <1>1, <1>2, <1>3, <1>4, <1>5, <1>6 DEF WarehouseStep

LEMMA WarehouseStepInv == WarehouseInv /\ [Next]_vars => WarehouseInv'
<1> SUFFICES ASSUME WarehouseInv, [Next]_vars PROVE WarehouseInv'
  OBVIOUS
<1> USE DEF WarehouseInv
<1>0. desk' = desk
  BY OneDesk
<1>1. CASE UNCHANGED warehouseVars /\ (desk = "warehouses" => call' = call \/ (WarehouseCalls' /\ OneCreator'))
  <2>1. desk' = "warehouses" => WarehouseCalls' /\ OneCreator'
    BY <1>0, <1>1 DEF WarehouseCalls, OneCreator, warehouseVars, At, IsAddress, Parts, ChangeCall
  <2>2. QED
    BY <1>1, <2>1 DEF warehouseVars, IsAddress, ApprovedWasApplied
<1>2. ASSUME desk = "warehouses", NEW k \in Slots, WarehouseStep(k)
      PROVE  WarehouseInv'
  <2>0. WarehouseCalls
    BY <1>2
  <2>a. OneCreator'
    BY <1>2, OneCreatorKept
  <2>1. CASE \E q \in Changes : AskForChange(k, q) \/ ReadChange(k, q)
    BY <1>1, <2>0, <2>a, <2>1, ChangeBegins
  <2>2. CASE FindPendingChange(k)
    <3>1. UNCHANGED warehouseVars /\ applied' = applied /\ call[k].task \in CreatingTasks
          /\ (Leave(k) \/ Goto(k, "createChange"))
      BY <2>2 DEF FindPendingChange, warehouseVars, At, CreatingTasks
    <3>2. "createChange" \in CreatingTasks /\ "createChange" # "saveApproval"
      BY DEF CreatingTasks
    <3>3. WarehouseCalls'
      BY <2>0, <3>1, <3>2, LeaveWarehouse, GotoChange
    <3>4. QED
      BY <1>1, <2>a, <3>1, <3>3
  <2>3. CASE CreateChange(k) \/ SaveApproval(k) \/ RejectChange(k) \/ CancelChange(k)
    <3> DEFINE q == call[k].id
    <3>1. PICK status \in {"PENDING"} \cup Answers :
            SaveChange(k, status) /\ (status = "APPROVED" => At(k, "saveApproval"))
      BY <2>3 DEF CreateChange, SaveApproval, RejectChange, CancelChange, Answers
    <3>2. Leave(k) /\ UNCHANGED <<address, registered, applied>>
          /\ change' = [change EXCEPT ![q] = status]
      BY <3>1 DEF SaveChange
    <3>3. WarehouseCalls'
      BY <2>0, <3>2, LeaveWarehouse
    <3>4. status = "APPROVED" => q \in applied
      BY <2>0, <3>1 DEF WarehouseCalls
    <3>5. change' \in [Changes -> {"none", "PENDING"} \cup Answers] /\ ApprovedWasApplied'
      BY <3>2, <3>4 DEF ApprovedWasApplied
    <3>6. QED
      BY <1>0, <2>a, <3>2, <3>3, <3>5 DEF IsAddress
  <2>4. CASE ApplyAddress(k)
    <3> DEFINE q == call[k].id
    <3>1. /\ call[k].task \in AnsweringTasks /\ Goto(k, "saveApproval")
          /\ address' = Wanted[q] /\ applied' = applied \cup {q}
          /\ UNCHANGED <<change, registered>>
      BY <2>4 DEF ApplyAddress, At, AnsweringTasks
    <3>2. q \in Changes
      BY <2>0, <3>1, ChangeTaskTells
    <3>3. "saveApproval" \in AnsweringTasks
      BY DEF AnsweringTasks, AnswerTasks
    <3>4. WarehouseCalls'
      BY <2>0, <3>1, <3>3, GotoChange
    <3>5. IsAddress(address')
      BY <3>1, <3>2, KnownAddresses DEF Addresses
    <3>6. QED
      BY <1>0, <2>a, <3>1, <3>2, <3>4, <3>5 DEF IsAddress, ApprovedWasApplied
  <2>5. CASE ReadWarehouse(k)
    BY <1>1, <2>0, <2>a, <2>5, DirectBegins
  <2>6. CASE EditWarehouse(k)
    <3>1. PICK a \in AdminWants :
            address' = [part \in DOMAIN address |->
                          IF a[part] # call[k].seen[part] THEN a[part] ELSE address[part]]
      BY <2>6 DEF EditWarehouse
    <3>2. Leave(k) /\ UNCHANGED <<change, registered, applied>>
      BY <2>6 DEF EditWarehouse
    <3>3. IsAddress(a)
      BY KnownAddresses DEF Addresses
    <3>4. IsAddress(address')
      BY <3>1, <3>3 DEF IsAddress
    <3>5. WarehouseCalls'
      BY <2>0, <3>2, LeaveWarehouse
    <3>6. QED
      BY <1>0, <2>a, <3>2, <3>4, <3>5 DEF IsAddress, ApprovedWasApplied
  <2>7. CASE Register(k)
    <3>1. /\ Leave(k) /\ UNCHANGED <<change, address, applied>>
          /\ call[k].task \in DirectTasks /\ registered' \in {call[k].seen, registered}
      BY <2>7 DEF Register, At, DirectTasks
    <3>2. IsAddress(registered')
      BY <2>0, <3>1, ChangeTaskTells
    <3>3. WarehouseCalls'
      BY <2>0, <3>1, LeaveWarehouse
    <3>4. QED
      BY <1>0, <2>a, <3>1, <3>2, <3>3 DEF IsAddress, ApprovedWasApplied
  <2>8. CASE LoseChange(k)
    <3>1. Leave(k) /\ UNCHANGED warehouseVars /\ applied' = applied
      BY <2>8 DEF LoseChange, Drop, warehouseVars
    <3>2. WarehouseCalls'
      BY <2>0, <3>1, LeaveWarehouse
    <3>3. QED
      BY <1>1, <2>a, <3>1, <3>2
  <2>9. QED
    BY <1>2, <2>1, <2>2, <2>3, <2>4, <2>5, <2>6, <2>7, <2>8 DEF WarehouseStep
<1>3. QED
  BY <1>0, <1>1, <1>2, OneDesk

LEMMA WarehouseInvHolds == Spec => []WarehouseInv
BY WarehouseInitInv, WarehouseStepInv, PTL DEF Spec

\* A change request reads APPROVED only when the warehouse was given its address,
\* wherever an approval is cut off and whatever answers race it.
THEOREM ApprovedMeansApplied == Spec => []ApprovedWasApplied
BY WarehouseInvHolds, PTL DEF WarehouseInv

-------------------------------------------------------------------------------
(* Bulk uploads and exports.                                                *)

JobStatuses == {"none", "QUEUED", "PROCESSING", "COMPLETED", "FAILED"}

Stages == {"idle", "start", "parse", "row", "count", "countFailed", "ended", "unsaid", "lost"}

JobDocument == [status : JobStatuses, created : Nat, failed : Nat, fatal : BOOLEAN]

WorkerState == [at : Stages, created : Nat, failed : Nat, spoilt : Nat]

\* What job document j shows of worker w, of n shipments returned and m left behind,
\* and of a file of so many rows: the worker has counted every shipment returned,
\* and no row twice except one whose counter was refused after its booking; it has
\* counted as failed the rows of those left behind, unless it is lost; and the last
\* word is its own count.
Truthful(j, w, n, m, rows) ==
  /\ j \in JobDocument /\ w \in WorkerState
  /\ n = w.created /\ j.created <= w.created
  /\ w.spoilt <= w.failed /\ w.created + w.failed - w.spoilt <= rows
  /\ m \in Nat /\ n + m <= rows /\ (w.at # "lost" => m + w.spoilt <= w.failed)
  /\ j.status = "none" => w.at = "idle"
  /\ j.status \in {"COMPLETED", "FAILED"} => w.at = "ended"
  /\ j.status = "COMPLETED" => /\ j.created = w.created /\ j.failed = w.failed
                               /\ w.created + w.failed - w.spoilt = rows
  /\ j.status = "FAILED" /\ ~j.fatal => /\ w.failed = rows /\ j.failed = w.failed
                                        /\ w.created + w.failed - w.spoilt = rows

UploadInv ==
  /\ job = [u \in Uploads |-> job[u]]
  /\ worker = [u \in Uploads |-> worker[u]]
  /\ booked = [u \in Uploads |-> booked[u]]
  /\ stray = [u \in Uploads |-> stray[u]]
  /\ \A u \in Uploads : Truthful(job[u], worker[u], booked[u], stray[u], Rows[u])

\* A file is on the disk before its job may be COMPLETED.
ExportInv ==
  /\ export \in [Exports -> {"none", "PENDING", "PROCESSING", "COMPLETED", "FAILED"}]
  /\ exporter = [x \in Exports |-> exporter[x]]
  /\ files \subseteq Exports
  /\ \A x \in Exports : exporter[x] = "complete" \/ export[x] = "COMPLETED" => x \in files

LEMMA JobsAreTrue == UploadInv /\ ExportInv => JobsTellTheTruth /\ JobTypeOK
<1> SUFFICES ASSUME UploadInv, ExportInv PROVE JobsTellTheTruth /\ JobTypeOK
  OBVIOUS
<1>1. ASSUME NEW u \in Uploads
      PROVE  /\ job[u].status \in JobStatuses
             /\ booked[u] \in Nat /\ stray[u] \in Nat /\ booked[u] + stray[u] <= Rows[u]
             /\ job[u].created <= booked[u]
             /\ job[u].status = "COMPLETED" =>
                  job[u].created = booked[u] /\ job[u].created + job[u].failed >= Rows[u]
             /\ job[u].status = "FAILED" /\ ~job[u].fatal => booked[u] = worker[u].spoilt
             /\ Ended(u) => stray[u] + worker[u].spoilt <= job[u].failed
  <2> DEFINE j == job[u]
             w == worker[u]
             n == booked[u]
             m == stray[u]
  <2>1. Truthful(j, w, n, m, Rows[u]) /\ Rows[u] \in Nat
    BY JobAssumption DEF UploadInv
  <2>2. /\ j.created \in Nat /\ j.failed \in Nat /\ j.status \in JobStatuses
        /\ w.created \in Nat /\ w.failed \in Nat /\ w.spoilt \in Nat
    BY <2>1 DEF Truthful, JobDocument, WorkerState
  <2>a. Ended(u) <=> j.status = "COMPLETED" \/ (j.status = "FAILED" /\ ~j.fatal)
    BY DEF Ended
  <2> HIDE DEF j, w, n, m
  <2>3. n \in Nat /\ m \in Nat /\ n + m <= Rows[u] /\ j.created <= n
    BY <2>1, <2>2 DEF Truthful
  <2>4. j.status = "COMPLETED" => j.created = n /\ j.created + j.failed >= Rows[u]
    BY <2>1, <2>2 DEF Truthful
  <2>5. j.status = "FAILED" /\ ~j.fatal => n = w.spoilt
    BY <2>1, <2>2 DEF Truthful
  <2>6. Ended(u) => m + w.spoilt <= j.failed
    BY <2>1, <2>2, <2>a DEF Truthful
  <2>7. QED
    BY <2>2, <2>3, <2>4, <2>5, <2>6 DEF j, w, n, m
<1>2. QED
  BY <1>1 DEF ExportInv, JobsTellTheTruth, JobTypeOK, JobStatuses

LEMMA JobInitInv == Init => UploadInv /\ ExportInv
BY JobAssumption
   DEF Init, JobInit, NoJob, Idle, UploadInv, ExportInv, Truthful, JobDocument, WorkerState,
       JobStatuses, Stages

\* One upload goes on.
LEMMA UploadKept ==
  ASSUME UploadInv, NEW u \in Uploads, NEW j, NEW w, NEW n, NEW m,
         job' = [job EXCEPT ![u] = j], worker' = [worker EXCEPT ![u] = w],
         booked' = [booked EXCEPT ![u] = n], stray' = [stray EXCEPT ![u] = m],
         Truthful(j, w, n, m, Rows[u])
  PROVE  UploadInv'
<1>1. /\ job' = [v \in Uploads |-> job'[v]] /\ job'[u] = j
      /\ worker' = [v \in Uploads |-> worker'[v]] /\ worker'[u] = w
      /\ booked' = [v \in Uploads |-> booked'[v]] /\ booked'[u] = n
      /\ stray' = [v \in Uploads |-> stray'[v]] /\ stray'[u] = m
      /\ \A v \in Uploads : v # u => /\ job'[v] = job[v] /\ worker'[v] = worker[v]
                                     /\ booked'[v] = booked[v] /\ stray'[v] = stray[v]
  BY DEF UploadInv
<1>2. \A v \in Uploads : Truthful(job'[v], worker'[v], booked'[v], stray'[v], Rows[v])
  <2> TAKE v \in Uploads
  <2>1. CASE v = u
    BY <1>1, <2>1
  <2>2. CASE v # u
    BY <1>1, <2>2 DEF UploadInv
  <2>3. QED
    BY <2>1, <2>2
<1>3. QED
  BY <1>1, <1>2 DEF UploadInv

LEMMA UploadSteps ==
  ASSUME UploadInv, NEW u \in Uploads, UploadStep(u)
  PROVE  UploadInv'
<1> DEFINE j == job[u]
           w == worker[u]
           n == booked[u]
           m == stray[u]
<1>1. /\ Truthful(j, w, n, m, Rows[u]) /\ Rows[u] \in Nat
      /\ job = [job EXCEPT ![u] = j] /\ booked = [booked EXCEPT ![u] = n]
      /\ stray = [stray EXCEPT ![u] = m]
  BY JobAssumption DEF UploadInv
<1>0. /\ j \in JobDocument /\ j.created \in Nat /\ j.failed \in Nat
      /\ w \in WorkerState /\ w.created \in Nat /\ w.failed \in Nat /\ w.spoilt \in Nat
      /\ m \in Nat
  BY <1>1 DEF Truthful, JobDocument, WorkerState
<1>2. ASSUME NEW next \in Stages, Work(u, next), job' = job, UNCHANGED madeVars,
             j.status \notin {"COMPLETED", "FAILED"}, w.at \notin {"idle", "lost"}
      PROVE  UploadInv'
  <2> DEFINE new == [w EXCEPT !.at = next]
  <2>1. worker' = [worker EXCEPT ![u] = new]
    BY <1>2 DEF Work, UploadInv
  <2>2. Truthful(j, new, n, m, Rows[u])
    BY <1>1, <1>2 DEF Truthful, WorkerState
  <2> HIDE DEF new, j, w, n, m
  <2>3. job' = [job EXCEPT ![u] = j] /\ booked' = [booked EXCEPT ![u] = n]
        /\ stray' = [stray EXCEPT ![u] = m]
    BY <1>1, <1>2 DEF madeVars
  <2>4. QED
    BY <2>1, <2>2, <2>3, UploadKept
<1>3. ASSUME NEW next \in Stages, Work(u, next), NEW status \in JobStatuses, UNCHANGED madeVars,
             NEW fatal \in BOOLEAN, w.at # "lost", status # "none",
             job' = [job EXCEPT ![u].status = status, ![u].fatal = fatal],
             status # "COMPLETED", status = "FAILED" => fatal /\ next = "ended"
      PROVE  UploadInv'
  <2> DEFINE new == [w EXCEPT !.at = next]
             doc == [j EXCEPT !.status = status, !.fatal = fatal]
  <2>1. worker' = [worker EXCEPT ![u] = new] /\ job' = [job EXCEPT ![u] = doc]
    BY <1>3 DEF Work, UploadInv
  <2>2. Truthful(doc, new, n, m, Rows[u])
    BY <1>1, <1>3 DEF Truthful, WorkerState, JobDocument
  <2> HIDE DEF new, doc, j, w, n, m
  <2>3. booked' = [booked EXCEPT ![u] = n] /\ stray' = [stray EXCEPT ![u] = m]
    BY <1>1, <1>3 DEF madeVars
  <2>4. QED
    BY <2>1, <2>2, <2>3, UploadKept
<1>4. CASE Upload(u) \/ StartUpload(u)
  <2>1. PICK next \in Stages, status \in {"QUEUED", "PROCESSING"} :
          /\ Work(u, next) /\ job' = [job EXCEPT ![u].status = status] /\ UNCHANGED madeVars
          /\ status \in JobStatuses
    BY <1>4 DEF Upload, StartUpload, Stages, JobStatuses
  <2>2. j.fatal \in BOOLEAN /\ job' = [job EXCEPT ![u].status = status, ![u].fatal = j.fatal]
    <3>1. j \in JobDocument
      BY <1>1 DEF Truthful
    <3>2. [j EXCEPT !.status = status] = [j EXCEPT !.status = status, !.fatal = j.fatal]
          /\ j.fatal \in BOOLEAN
      BY <3>1 DEF JobDocument
    <3>3. job' = [job EXCEPT ![u] = [j EXCEPT !.status = status]]
      BY <2>1
    <3>4. QED
      BY <3>2, <3>3
  <2>3. w.at # "lost"
    BY <1>1, <1>4 DEF Upload, StartUpload, NoJob, Truthful
  <2>4. QED
    BY <1>3, <2>1, <2>2, <2>3
<1>5. CASE ParseUpload(u)
  BY <1>1, <1>2, <1>3, <1>5 DEF ParseUpload, Truthful, Stages, JobStatuses
<1>6. CASE BookRow(u)
  <2> DEFINE new == [w EXCEPT !.created = @ + 1, !.at = "count"]
  <2>1. /\ worker' = [worker EXCEPT ![u] = new] /\ booked' = [booked EXCEPT ![u] = n + 1]
        /\ job' = job /\ stray' = stray
    BY <1>6 DEF BookRow, UploadInv
  <2>2. w.at = "row" /\ w.created + w.failed - w.spoilt < Rows[u]
    BY <1>6 DEF BookRow, Counted
  <2>3. /\ new \in WorkerState /\ new.at = "count" /\ new.created = w.created + 1
        /\ new.failed = w.failed /\ new.spoilt = w.spoilt
    <3>1. ASSUME NEW c \in Nat
          PROVE  LET v == [w EXCEPT !.created = c, !.at = "count"] IN
                 /\ v \in WorkerState /\ v.at = "count" /\ v.created = c
                 /\ v.failed = w.failed /\ v.spoilt = w.spoilt
      <4> HIDE DEF w
      <4>1. QED
        BY <1>0 DEF WorkerState, Stages
    <3>2. w.created + 1 \in Nat /\ w.failed + 1 \in Nat /\ w.spoilt + 1 \in Nat
      BY <1>0
    <3>3. QED
      BY <3>1, <3>2
  <2> HIDE DEF new, j, w, n, m
  <2>4. Truthful(j, new, n + 1, m, Rows[u])
    BY <1>0, <1>1, <2>2, <2>3 DEF Truthful
  <2>5. QED
    BY <1>1, <2>1, <2>4, UploadKept
<1>7. CASE RowFails(u)
  <2> DEFINE new == [w EXCEPT !.failed = @ + 1, !.at = "countFailed"]
  <2>1. /\ worker' = [worker EXCEPT ![u] = new] /\ booked' = booked /\ job' = job
        /\ \/ stray' = [stray EXCEPT ![u] = m]
           \/ stray' = [stray EXCEPT ![u] = m + 1]
    BY <1>1, <1>7 DEF RowFails, MayStray, UploadInv
  <2>2. w.at = "row" /\ w.created + w.failed - w.spoilt < Rows[u]
    BY <1>7 DEF RowFails, Counted
  <2>3. /\ new \in WorkerState /\ new.at = "countFailed" /\ new.created = w.created
        /\ new.failed = w.failed + 1 /\ new.spoilt = w.spoilt
    <3>1. ASSUME NEW c \in Nat
          PROVE  LET v == [w EXCEPT !.failed = c, !.at = "countFailed"] IN
                 /\ v \in WorkerState /\ v.at = "countFailed" /\ v.created = w.created
                 /\ v.failed = c /\ v.spoilt = w.spoilt
      <4> HIDE DEF w
      <4>1. QED
        BY <1>0 DEF WorkerState, Stages
    <3>2. w.created + 1 \in Nat /\ w.failed + 1 \in Nat /\ w.spoilt + 1 \in Nat
      BY <1>0
    <3>3. QED
      BY <3>1, <3>2
  <2> HIDE DEF new, j, w, n, m
  <2>4. Truthful(j, new, n, m, Rows[u]) /\ Truthful(j, new, n, m + 1, Rows[u])
    BY <1>0, <1>1, <2>2, <2>3 DEF Truthful
  <2>5. /\ job' = [job EXCEPT ![u] = j] /\ booked' = [booked EXCEPT ![u] = n]
        /\ worker' = [worker EXCEPT ![u] = new]
    BY <1>1, <2>1
  <2>6. CASE stray' = [stray EXCEPT ![u] = m]
    <3>1. Truthful(j, new, n, m, Rows[u])
      BY <2>4
    <3>2. QED
      BY <1>1, <2>5, <2>6, <3>1, UploadKept
  <2>7. CASE stray' = [stray EXCEPT ![u] = m + 1]
    <3>1. Truthful(j, new, n, m + 1, Rows[u])
      BY <2>4
    <3>2. QED
      BY <1>1, <2>5, <2>7, <3>1, UploadKept
  <2>8. QED
    BY <2>1, <2>6, <2>7
<1>8. CASE WriteCounters(u) \/ FinishUpload(u)
  <2> DEFINE doc(status) == [j EXCEPT !.status = status, !.created = w.created,
                                      !.failed = w.failed]
             new(next) == [w EXCEPT !.at = next]
  <2>1. /\ UNCHANGED madeVars
        /\ \/ /\ w.at \in {"count", "countFailed"}
              /\ WithCounters(u, j.status) /\ Work(u, "row")
           \/ /\ w.at = "row" /\ w.created + w.failed - w.spoilt = Rows[u]
              /\ WithCounters(u, FinalStatus(u)) /\ Work(u, "ended")
    BY <1>8 DEF WriteCounters, FinishUpload, Counted
  <2>2. \A status : WithCounters(u, status) => job' = [job EXCEPT ![u] = doc(status)]
    BY DEF WithCounters, UploadInv
  <2>3. \A next : Work(u, next) => worker' = [worker EXCEPT ![u] = new(next)]
    BY DEF Work, UploadInv
  <2>a. ASSUME NEW status \in JobStatuses
        PROVE  /\ doc(status) \in JobDocument /\ doc(status).status = status
               /\ doc(status).created = w.created /\ doc(status).failed = w.failed
               /\ doc(status).fatal = j.fatal
    BY <1>0, <2>a DEF JobDocument
  <2>b. ASSUME NEW next \in Stages
        PROVE  /\ new(next) \in WorkerState /\ new(next).at = next
               /\ new(next).created = w.created /\ new(next).failed = w.failed
               /\ new(next).spoilt = w.spoilt
    BY <1>0, <2>b DEF WorkerState
  <2>c. j.status \in JobStatuses /\ FinalStatus(u) \in JobStatuses
        /\ "row" \in Stages /\ "ended" \in Stages
    BY <1>0 DEF JobDocument, FinalStatus, JobStatuses, Stages
  <2>d. FinalStatus(u) = "FAILED" => w.failed = Rows[u]
    BY DEF FinalStatus
  <2>e. FinalStatus(u) \in {"FAILED", "COMPLETED"}
    BY DEF FinalStatus
  <2>4. w.at \in {"count", "countFailed"} => Truthful(doc(j.status), new("row"), n, m, Rows[u])
    <3> SUFFICES ASSUME w.at \in {"count", "countFailed"}
                 PROVE  Truthful(doc(j.status), new("row"), n, m, Rows[u])
      OBVIOUS
    <3> HIDE DEF doc, new, j, w, n, m
    <3>1. QED
      BY <1>0, <1>1, <2>a, <2>b, <2>c DEF Truthful
  <2>5. w.at = "row" /\ w.created + w.failed - w.spoilt = Rows[u] =>
          Truthful(doc(FinalStatus(u)), new("ended"), n, m, Rows[u])
    <3> SUFFICES ASSUME w.at = "row", w.created + w.failed - w.spoilt = Rows[u]
                 PROVE  Truthful(doc(FinalStatus(u)), new("ended"), n, m, Rows[u])
      OBVIOUS
    <3> HIDE DEF doc, new, j, w, n, m
    <3>1. QED
      BY <1>0, <1>1, <2>a, <2>b, <2>c, <2>d, <2>e DEF Truthful
  <2>6. PICK status, next :
          /\ job' = [job EXCEPT ![u] = doc(status)]
          /\ worker' = [worker EXCEPT ![u] = new(next)]
          /\ Truthful(doc(status), new(next), n, m, Rows[u])
    <3> HIDE DEF doc, new
    <3>1. QED
      BY <2>1, <2>2, <2>3, <2>4, <2>5
  <2>7. booked' = [booked EXCEPT ![u] = n] /\ stray' = [stray EXCEPT ![u] = m]
    BY <1>1, <2>1 DEF madeVars
  <2> HIDE DEF doc, new, j, w, n, m
  <2>8. QED
    BY <2>6, <2>7, UploadKept
<1>9. CASE CountFails(u)
  <2> DEFINE new == [w EXCEPT !.failed = @ + 1, !.spoilt = @ + 1, !.at = "countFailed"]
  <2>1. worker' = [worker EXCEPT ![u] = new] /\ UNCHANGED madeVars /\ job' = job
    BY <1>9 DEF CountFails, UploadInv
  <2>2. w.at = "count"
    BY <1>9 DEF CountFails
  <2>3. /\ new \in WorkerState /\ new.at = "countFailed" /\ new.created = w.created
        /\ new.failed = w.failed + 1 /\ new.spoilt = w.spoilt + 1
    <3>1. ASSUME NEW c \in Nat, NEW d \in Nat
          PROVE  LET v == [w EXCEPT !.failed = c, !.spoilt = d, !.at = "countFailed"] IN
                 /\ v \in WorkerState /\ v.at = "countFailed" /\ v.created = w.created
                 /\ v.failed = c /\ v.spoilt = d
      <4> HIDE DEF w
      <4>1. QED
        BY <1>0 DEF WorkerState, Stages
    <3>2. w.created + 1 \in Nat /\ w.failed + 1 \in Nat /\ w.spoilt + 1 \in Nat
      BY <1>0
    <3>3. QED
      BY <3>1, <3>2
  <2> HIDE DEF new, j, w, n, m
  <2>4. Truthful(j, new, n, m, Rows[u])
    BY <1>0, <1>1, <2>2, <2>3 DEF Truthful
  <2>5. QED
    BY <1>1, <2>1, <2>4, UploadKept DEF madeVars
<1>10. CASE FatalUpload(u)
  BY <1>1, <1>2, <1>3, <1>10 DEF FatalUpload, Truthful, Stages, JobStatuses
<1>11. CASE LoseUpload(u)
  <2>1. w.at \notin {"idle", "ended", "lost"} /\ Work(u, "lost") /\ UNCHANGED <<job, booked>>
    BY <1>11 DEF LoseUpload
  <2>2. j.status \notin {"COMPLETED", "FAILED", "none"}
    BY <1>1, <2>1 DEF Truthful
  <2>3. CASE stray' = stray
    BY <1>2, <2>1, <2>2, <2>3 DEF madeVars, Stages
  <2>4. CASE stray' # stray
    <3> DEFINE new == [w EXCEPT !.at = "lost"]
    <3>1. /\ worker' = [worker EXCEPT ![u] = new] /\ stray' = [stray EXCEPT ![u] = m + 1]
          /\ w.at = "row" /\ w.created + w.failed - w.spoilt < Rows[u]
      BY <1>11, <2>4 DEF LoseUpload, MayStray, Work, Counted, UploadInv
    <3>2. /\ new \in WorkerState /\ new.at = "lost" /\ new.created = w.created
          /\ new.failed = w.failed /\ new.spoilt = w.spoilt
      BY <1>0 DEF WorkerState, Stages
    <3> HIDE DEF new, j, w, n, m
    <3>3. Truthful(j, new, n, m + 1, Rows[u])
      BY <1>0, <1>1, <2>2, <3>1, <3>2 DEF Truthful
    <3>4. QED
      BY <1>1, <2>1, <3>1, <3>3, UploadKept
  <2>5. QED
    BY <2>3, <2>4
<1>12. QED
  BY <1>4, <1>5, <1>6, <1>7, <1>8, <1>9, <1>10, <1>11 DEF UploadStep, UploadWork

LEMMA JobStepInv == UploadInv /\ ExportInv /\ [Next]_vars => UploadInv' /\ ExportInv'
<1> SUFFICES ASSUME UploadInv, ExportInv, [Next]_vars PROVE UploadInv' /\ ExportInv'
  OBVIOUS
<1>1. UploadInv'
  <2>1. CASE UNCHANGED uploadVars
    BY <2>1 DEF UploadInv, Truthful, uploadVars, madeVars
  <2>2. QED
    BY <2>1, UploadSteps, JobsAlone
<1>2. ExportInv'
  <2>1. CASE UNCHANGED exportVars
    BY <2>1 DEF ExportInv, exportVars
  <2>2. ASSUME NEW x \in Exports, ExportStep(x) PROVE ExportInv'
    BY <2>2 DEF ExportInv, ExportStep, ExportWork, AskForExport, StartExport, WriteFile,
                CompleteExport, ExportFails, LoseExport, GoOn
  <2>3. QED
    BY <2>1, <2>2, JobsAlone
<1>3. QED
  BY <1>1, <1>2

LEMMA JobInvHolds == Spec => [](UploadInv /\ ExportInv)
BY JobInitInv, JobStepInv, PTL DEF Spec

\* A job never shows a shipment that was not made; a COMPLETED upload shows all that
\* were returned to it and accounts for every row; one that FAILED without a fatal
\* error was returned only those whose counter was refused; a shipment that was
\* charged and is not shown is behind a row that is reported as failed; a COMPLETED
\* export has its file - for files of any length, wherever a worker dies or the
\* database refuses a write, also in the middle of a booking.
THEOREM JobsShowWhatTheyDid == Spec => []JobsTellTheTruth
BY JobInvHolds, JobsAreTrue, PTL

-------------------------------------------------------------------------------
(* Support tickets.                                                         *)

TicketStatuses == {"none", "deleted"} \cup OpenStatuses \cup Closed

\* What a request about a ticket has read.
TicketCall ==
  {Free}
  \cup [task : {"createTicket"}, id : Tickets, seen : Agents \cup {Nobody}]
  \cup [task : {"saveReply"}, id : Tickets,
        seen : [author : Staff \cup {Nobody}, open : BOOLEAN, free : BOOLEAN]]
  \cup [task : {"saveUpdate"}, id : Tickets, seen : OpenStatuses \cup Closed]

TicketInv ==
  /\ TicketTypeOK
  /\ desk = "tickets" => call \in [Slots -> TicketCall]

\* The sorted query has a first agent: the smallest number among the least loaded.
LEMMA LeastLoadedIsAnAgent == LeastLoaded \in Agents \cup {Nobody}
<1>1. CASE Agents = {}
  BY <1>1 DEF LeastLoaded
<1>2. CASE Agents # {}
  <2>1. \A a : Load(a) \in Nat
    <3> TAKE a
    <3> DEFINE mine == {t \in Tickets : ticket[t] \in OpenStatuses /\ assignee[t] = a}
    <3>1. IsFiniteSet(mine)
      BY TicketAssumption, FS_Subset
    <3>2. Cardinality(mine) \in Nat
      BY <3>1, FS_CardinalityType
    <3>3. QED
      BY <3>2 DEF Load
  <2> DEFINE loads == {Load(a) : a \in Agents}
  <2>2. loads \in SUBSET Nat /\ loads # {}
    BY <1>2, <2>1
  <2>3. PICK least \in loads : \A m \in loads : least <= m
    BY <2>2, LeastNumber
  <2> DEFINE best == {a \in Agents : Load(a) = least}
  <2>4. best \in SUBSET Nat /\ best # {}
    BY TicketAssumption DEF Agents
  <2>5. PICK first \in best : \A b \in best : first <= b
    BY <2>4, LeastNumber
  <2>6. first \in Agents
        /\ \A b \in Agents : Load(first) < Load(b) \/ (Load(first) = Load(b) /\ first <= b)
    <3>1. \A b \in Agents : Load(b) \in Nat /\ least <= Load(b) /\ least \in Nat
      BY <2>1, <2>3
    <3>2. \A b \in Agents : Load(b) # least => least < Load(b)
      BY <3>1
    <3>3. first \in Agents /\ Load(first) = least
      OBVIOUS
    <3>4. \A b \in Agents : Load(b) = least => first <= b
      BY <2>5
    <3>5. QED
      BY <3>2, <3>3, <3>4
  <2>7. QED
    BY <1>2, <2>6 DEF LeastLoaded
<1>3. QED
  BY <1>1, <1>2

LEMMA TicketInitInv == Init => TicketInv
BY TicketAssumption
   DEF Init, WalletInit, CallsInit, TicketInit, TicketInv, TicketTypeOK, TicketCall, Nobody,
       OpenStatuses, Closed

LEMMA TicketCallSaved ==
  ASSUME call \in [Slots -> TicketCall], NEW k \in Slots
  PROVE  LET c == call[k] IN
         /\ c.task = "createTicket" => c.id \in Tickets /\ c.seen \in Staff \cup {Nobody}
         /\ c.task = "saveReply" => c.id \in Tickets /\ c.seen.author \in Staff \cup {Nobody}
         /\ c.task = "saveUpdate" => c.id \in Tickets /\ c.seen \in OpenStatuses \cup Closed
BY DEF TicketCall, Free, Staff

LEMMA TicketStepInv == TicketInv /\ [Next]_vars => TicketInv'
<1> SUFFICES ASSUME TicketInv, [Next]_vars PROVE TicketInv'
  OBVIOUS
<1> USE DEF TicketInv
<1>0. desk' = desk
  BY OneDesk
<1>1. CASE UNCHANGED ticketVars /\ (desk = "tickets" => call' \in [Slots -> TicketCall])
  BY <1>0, <1>1 DEF ticketVars, TicketTypeOK
<1>2. ASSUME desk = "tickets", NEW k \in Slots, TicketStep(k) PROVE TicketInv'
  <2>0. call \in [Slots -> TicketCall]
    BY <1>2
  <2>1. ASSUME NEW new \in TicketCall, call' = [call EXCEPT ![k] = new]
        PROVE  call' \in [Slots -> TicketCall]
    BY <2>0, <2>1
  <2>2. Leave(k) => call' \in [Slots -> TicketCall]
    BY <2>1 DEF Leave, TicketCall
  <2>3. ASSUME NEW t \in Tickets, CountOpenTickets(k, t) PROVE TicketInv'
    <3> DEFINE new == [task |-> "createTicket", id |-> t, seen |-> LeastLoaded]
    <3>1. new \in TicketCall
      BY LeastLoadedIsAnAgent DEF TicketCall
    <3>2. UNCHANGED ticketVars /\ call' = [call EXCEPT ![k] = new]
      BY <2>3 DEF CountOpenTickets, ArriveWith
    <3> HIDE DEF new
    <3>3. QED
      BY <1>1, <2>1, <3>1, <3>2
  <2>4. ASSUME NEW t \in Tickets, ReadForReply(k, t) PROVE TicketInv'
    <3>1. PICK author \in Staff \cup {Nobody} :
            ArriveWith(k, "saveReply", t, [author |-> author, open |-> ticket[t] = "OPEN",
                                           free |-> assignee[t] = Nobody])
      BY <2>4 DEF ReadForReply
    <3> DEFINE seen == [author |-> author, open |-> ticket[t] = "OPEN",
                        free |-> assignee[t] = Nobody]
               new == [task |-> "saveReply", id |-> t, seen |-> seen]
    <3>2. seen \in [author : Staff \cup {Nobody}, open : BOOLEAN, free : BOOLEAN]
      OBVIOUS
    <3>3. UNCHANGED ticketVars /\ call' = [call EXCEPT ![k] = new]
      BY <2>4, <3>1 DEF ReadForReply, ArriveWith
    <3> HIDE DEF seen
    <3>4. new \in TicketCall
      BY <3>2 DEF TicketCall
    <3> HIDE DEF new
    <3>5. QED
      BY <1>1, <2>1, <3>3, <3>4
  <2>5. ASSUME NEW t \in Tickets, ReadForUpdate(k, t) PROVE TicketInv'
    <3>1. PICK status \in OpenStatuses \cup Closed :
            ArriveWith(k, "saveUpdate", t, status)
      BY <2>5 DEF ReadForUpdate
    <3> DEFINE new == [task |-> "saveUpdate", id |-> t, seen |-> status]
    <3>2. UNCHANGED ticketVars /\ call' = [call EXCEPT ![k] = new] /\ ticket[t] \in TicketStatuses
      BY <2>5, <3>1 DEF ReadForUpdate, ArriveWith, TicketStatuses
    <3>3. new \in TicketCall
      BY <3>2 DEF TicketCall
    <3> HIDE DEF new
    <3>4. QED
      BY <1>1, <2>1, <3>2, <3>3
  <2>6. CASE CreateTicket(k)
    <3>1. Leave(k) /\ TicketTypeOK'
      BY <2>0, <2>6, TicketCallSaved DEF CreateTicket, At, TicketTypeOK, OpenStatuses
    <3>2. QED
      BY <2>2, <3>1
  <2>7. CASE SaveReply(k)
    <3>1. Leave(k)
      BY <2>7 DEF SaveReply
    <3>2. TicketTypeOK'
      <4> DEFINE t == call[k].id
                 author == call[k].seen.author
      <4>1. t \in Tickets /\ author \in Staff \cup {Nobody}
        BY <2>0, <2>7, TicketCallSaved DEF SaveReply, At
      <4>2. CASE UNCHANGED ticketVars
        BY <4>2 DEF ticketVars, TicketTypeOK
      <4>3. CASE ~ UNCHANGED ticketVars
        <5>1. PICK status, who :
                /\ replies[t] < MaxReplies /\ replies' = [replies EXCEPT ![t] = @ + 1]
                /\ ticket' = [ticket EXCEPT ![t] = status]
                /\ status \in {"IN_PROGRESS", ticket[t]}
                /\ assignee' = [assignee EXCEPT ![t] = who] /\ who \in {author, assignee[t]}
          BY <2>7, <4>3 DEF SaveReply
        <5>2. replies' \in [Tickets -> 0..MaxReplies]
          BY <4>1, <5>1, TicketAssumption DEF TicketTypeOK
        <5>3. ticket' \in [Tickets -> TicketStatuses]
          BY <4>1, <5>1 DEF TicketTypeOK, TicketStatuses, OpenStatuses
        <5>4. assignee' \in [Tickets -> Staff \cup {Nobody}]
          BY <4>1, <5>1 DEF TicketTypeOK
        <5>5. QED
          BY <5>2, <5>3, <5>4 DEF TicketTypeOK, TicketStatuses
      <4>4. QED
        BY <4>2, <4>3
    <3>3. QED
      BY <2>2, <3>1, <3>2
  <2>8. CASE SaveUpdate(k)
    <3>1. Leave(k) /\ TicketTypeOK'
      BY <2>0, <2>8, TicketCallSaved DEF SaveUpdate, At, TicketTypeOK
    <3>2. QED
      BY <2>2, <3>1
  <2>9. CASE LoseTicket(k)
    BY <1>1, <2>2, <2>9 DEF LoseTicket, Drop
  <2>10. QED
    BY <1>2, <2>3, <2>4, <2>5, <2>6, <2>7, <2>8, <2>9 DEF TicketStep
<1>3. ASSUME desk = "tickets", NEW t \in Tickets, DeleteTicket(t) PROVE TicketInv'
  BY <1>0, <1>3 DEF DeleteTicket, TicketTypeOK
<1>4. QED
  BY <1>0, <1>1, <1>2, <1>3, OneDesk

LEMMA TicketInvHolds == Spec => []TicketInv
BY TicketInitInv, TicketStepInv, PTL DEF Spec

-------------------------------------------------------------------------------
(* The address book.                                                        *)

Entries == [state : {"none", "live", "deleted"}, made : 0..Moments, used : 0..Moments,
            text : {"first", "edited"}]

\* No date is given out twice: of the entries ever made no two have one date of
\* making, and of those used no two one date of use.
DatesDiffer ==
  /\ \A a \in Saved : entry[a].made <= today /\ entry[a].used <= today
  /\ \A a \in Saved : Live(a) => entry[a].made > 0
  /\ \A a, b \in Saved : a # b /\ entry[a].made > 0 => entry[a].made # entry[b].made
  /\ \A a, b \in Saved : a # b /\ entry[a].used > 0 => entry[a].used # entry[b].used

BookInv == entry \in [Saved -> Entries] /\ today \in 0..Moments /\ DatesDiffer

LEMMA BookInitInv == Init => BookInv
BY AddressBookAssumption DEF Init, BookInit, BookInv, Entries, Unsaved, DatesDiffer, Live

LEMMA BookStepInv == BookInv /\ [Next]_vars => BookInv'
<1> SUFFICES ASSUME BookInv, [Next]_vars PROVE BookInv'
  OBVIOUS
<1> USE DEF BookInv
<1>1. CASE UNCHANGED bookVars
  BY <1>1 DEF bookVars, DatesDiffer, Live
<1>2. Tick => today' \in 0..Moments /\ today' = today + 1 /\ today \in Nat
  BY AddressBookAssumption DEF Tick
<1>3. ASSUME NEW a \in Saved, SaveEntry(a) PROVE BookInv'
  <2>1. /\ entry[a].used = 0 /\ entry'[a].used = 0 /\ entry'[a].made = today + 1
        /\ \A b \in Saved \ {a} : entry'[b] = entry[b]
    BY <1>2, <1>3 DEF SaveEntry, Unsaved, Entries
  <2>2. entry' \in [Saved -> Entries]
    BY <1>2, <1>3 DEF SaveEntry, Entries
  <2>3. \A b \in Saved : entry[b].made \in Nat /\ entry[b].used \in Nat
    BY DEF Entries
  <2>4. DatesDiffer'
    BY <1>2, <1>3, <2>1, <2>3 DEF SaveEntry, DatesDiffer, Live
  <2>5. QED
    BY <1>2, <1>3, <2>2, <2>4 DEF SaveEntry
<1>4. ASSUME NEW a \in Saved, MarkUsed(a) PROVE BookInv'
  <2>1. /\ entry'[a].used = today + 1 /\ entry'[a].made = entry[a].made
        /\ entry'[a].state = entry[a].state
        /\ \A b \in Saved \ {a} : entry'[b] = entry[b]
    BY <1>2, <1>4 DEF MarkUsed, Entries
  <2>2. entry' \in [Saved -> Entries]
    BY <1>2, <1>4 DEF MarkUsed, Entries
  <2>3. \A b \in Saved : entry[b].made \in Nat /\ entry[b].used \in Nat
    BY DEF Entries
  <2>4. DatesDiffer'
    BY <1>2, <1>4, <2>1, <2>3 DEF MarkUsed, DatesDiffer, Live
  <2>5. QED
    BY <1>2, <1>4, <2>2, <2>4 DEF MarkUsed
<1>5. ASSUME NEW k \in Slots, EditEntry(k) \/ DeleteEntry(k) PROVE BookInv'
  <2>1. entry' \in [Saved -> Entries] /\ today' = today
    BY <1>5 DEF EditEntry, DeleteEntry, Entries
  <2>2. \A b \in Saved : /\ entry'[b].made = entry[b].made /\ entry'[b].used = entry[b].used
                         /\ entry'[b].state = "live" => entry[b].state = "live"
    BY <1>5 DEF EditEntry, DeleteEntry, Entries, Live
  <2>3. DatesDiffer'
    BY <2>1, <2>2 DEF DatesDiffer, Live
  <2>4. QED
    BY <2>1, <2>3
<1>6. ASSUME BookStep PROVE BookInv'
  BY <1>1, <1>3, <1>4, <1>5, <1>6 DEF BookStep, FindEntry, LoseEntry
<1>7. QED
  BY <1>1, <1>6, OneDesk DEF bookVars

LEMMA BookInvHolds == Spec => []BookInv
BY BookInitInv, BookStepInv, PTL DEF Spec

\* A bijection, spelled out.
LEMMA BijectionIs ==
  ASSUME NEW S, NEW T, NEW s
  PROVE  s \in Bijection(S, T) <=>
           /\ s \in [S -> T]
           /\ \A i, j \in S : s[i] = s[j] => i = j
           /\ \A t \in T : \E i \in S : s[i] = t
BY DEF Bijection, Injection, Surjection, IsInjective

\* Things that an order R compares, each pair one way, can be sorted by it.
LEMMA SortedExists ==
  ASSUME NEW S, IsFiniteSet(S), NEW R,
         \A x, y \in S : x # y => <<x, y>> \in R \/ <<y, x>> \in R,
         \A x, y, z \in S : <<x, y>> \in R /\ <<y, z>> \in R => <<x, z>> \in R
  PROVE  \E s \in Bijection(1..Cardinality(S), S) :
           \A i, j \in 1..Cardinality(S) : i < j => <<s[i], s[j]>> \in R
<1> DEFINE InOrder(s, A) == \A i, j \in 1..Cardinality(A) : i < j => <<s[i], s[j]>> \in R
           T == {A \in SUBSET S : ~\E s \in Bijection(1..Cardinality(A), A) : InOrder(s, A)}
<1> SUFFICES ASSUME T # {} PROVE FALSE
  OBVIOUS
<1>0. T \in SUBSET SUBSET S
  OBVIOUS
<1>1. PICK A \in T : \A B \in SUBSET A : B # A => B \notin T
  <2> HIDE DEF T
  <2> QED
    BY <1>0, SmallestSubset
<1>2. IsFiniteSet(A) /\ Cardinality(A) \in Nat /\ A \in SUBSET S
  BY <1>1, FS_Subset, FS_CardinalityType
<1>3. CASE A = {}
  <2>1. Cardinality(A) = 0 /\ 1..0 = {}
    BY <1>3, FS_EmptySet
  <2>2. PICK s : s = [i \in {} |-> 0]
    OBVIOUS
  <2>3. s \in Bijection(1..Cardinality(A), A) /\ InOrder(s, A)
    BY <1>3, <2>1, <2>2, BijectionIs
  <2>4. QED
    BY <1>1, <2>3
<1>4. CASE A # {}
  <2>1. PICK x \in A : \A y \in A \ {x} : <<x, y>> \in R
    <3>1. \A y, z \in A : y # z => <<y, z>> \in R \/ <<z, y>> \in R
      BY <1>2
    <3>2. \A u, y, z \in A : <<u, y>> \in R /\ <<y, z>> \in R => <<u, z>> \in R
      BY <1>2
    <3>3. QED
      BY <1>2, <1>4, <3>1, <3>2, FirstExists
  <2>2. PICK B : B = A \ {x}
    OBVIOUS
  <2>3. /\ IsFiniteSet(B) /\ Cardinality(B) \in Nat /\ Cardinality(A) = Cardinality(B) + 1
    <3>1. IsFiniteSet(B) /\ Cardinality(B) = Cardinality(A) - 1
      BY <1>2, <2>1, <2>2, FS_RemoveElement
    <3>2. Cardinality(B) \in Nat
      BY <3>1, FS_CardinalityType
    <3>3. QED
      BY <1>2, <3>1, <3>2
  <2>4. PICK t \in Bijection(1..Cardinality(B), B) : InOrder(t, B)
    <3>1. B \in SUBSET A /\ B # A /\ B \in SUBSET S
      BY <1>2, <2>1, <2>2
    <3>2. B \notin T
      BY <1>1, <3>1
    <3>3. QED
      BY <3>1, <3>2
  <2>5. PICK n \in Nat : n = Cardinality(B)
    BY <2>3
  <2>6. /\ t \in [1..n -> B] /\ \A i, j \in 1..n : t[i] = t[j] => i = j
        /\ \A y \in B : \E i \in 1..n : t[i] = y
        /\ \A i, j \in 1..n : i < j => <<t[i], t[j]>> \in R
    BY <2>4, <2>5, BijectionIs
  <2>7. PICK s : s = [i \in 1 .. n + 1 |-> IF i = 1 THEN x ELSE t[i - 1]]
    OBVIOUS
  <2>8. /\ s[1] = x
        /\ \A i \in 1 .. n + 1 : i # 1 => i - 1 \in 1..n /\ s[i] = t[i - 1] /\ t[i - 1] \in B
    <3>1. ASSUME NEW i \in 1 .. n + 1, i # 1
          PROVE  i - 1 \in 1..n /\ s[i] = t[i - 1] /\ t[i - 1] \in B
      <4>1. i - 1 \in 1..n
        BY <2>5, <3>1
      <4>2. QED
        BY <2>6, <2>7, <3>1, <4>1
    <3>2. 1 \in 1 .. n + 1
      BY <2>5
    <3>3. s[1] = x
      BY <2>7, <3>2
    <3>4. QED
      BY <3>1, <3>3
  <2>9. s \in [1 .. n + 1 -> A]
    BY <2>1, <2>2, <2>7, <2>8
  <2>10. ASSUME NEW i \in 1 .. n + 1, NEW j \in 1 .. n + 1, i < j
         PROVE  <<s[i], s[j]>> \in R /\ s[i] # s[j]
    <3>1. j # 1 /\ j - 1 \in 1..n /\ s[j] = t[j - 1] /\ s[j] \in A \ {x}
      BY <2>2, <2>8, <2>10
    <3>2. CASE i = 1
      BY <2>1, <2>8, <3>1, <3>2
    <3>3. CASE i # 1
      <4>1. i - 1 \in 1..n /\ s[i] = t[i - 1] /\ i - 1 < j - 1 /\ i - 1 # j - 1
        BY <2>8, <2>10, <3>3
      <4>2. QED
        BY <2>6, <3>1, <4>1
    <3>4. QED
      BY <3>2, <3>3
  <2>11. \A i, j \in 1 .. n + 1 : s[i] = s[j] => i = j
    <3>1. ASSUME NEW i \in 1 .. n + 1, NEW j \in 1 .. n + 1, i # j PROVE s[i] # s[j]
      <4>1. i < j \/ j < i
        BY <2>5, <3>1
      <4>2. QED
        BY <2>10, <4>1
    <3>2. QED
      BY <3>1
  <2>12. ASSUME NEW y \in A PROVE \E i \in 1 .. n + 1 : s[i] = y
    <3>1. CASE y = x
      BY <2>8, <3>1
    <3>2. CASE y # x
      <4>1. PICK i \in 1..n : t[i] = y
        BY <2>2, <2>6, <2>12, <3>2
      <4>2. i + 1 \in 1 .. n + 1 /\ i + 1 # 1 /\ (i + 1) - 1 = i
        BY <4>1
      <4>3. QED
        BY <2>8, <4>1, <4>2
    <3>3. QED
      BY <3>1, <3>2
  <2>13. s \in Bijection(1..Cardinality(A), A) /\ InOrder(s, A)
    BY <2>3, <2>5, <2>9, <2>10, <2>11, <2>12, BijectionIs
  <2>14. QED
    BY <1>1, <2>13
<1>5. QED
  BY <1>3, <1>4

\* The dates of two entries that are listed.
LEMMA DatesOf ==
  ASSUME BookInv, NEW a \in Listed, NEW b \in Listed
  PROVE  /\ a \in Saved /\ entry[a].made \in Nat /\ entry[a].used \in Nat
         /\ a # b => entry[a].made # entry[b].made
         /\ a # b => entry[a].used # entry[b].used \/ (entry[a].used = 0 /\ entry[b].used = 0)
<1>1. a \in Saved /\ b \in Saved /\ Live(a) /\ Live(b)
  BY DEF Listed
<1>2. entry[a].made \in Nat /\ entry[a].used \in Nat /\ entry[b].made \in Nat /\ entry[b].used \in Nat
  BY <1>1 DEF BookInv, Entries
<1>3. entry[a].made > 0
  BY <1>1 DEF BookInv, DatesDiffer
<1>4. a # b => entry[a].made # entry[b].made
  BY <1>1, <1>3 DEF BookInv, DatesDiffer
<1>5. a # b /\ (entry[a].used > 0 \/ entry[b].used > 0) => entry[a].used # entry[b].used
  BY <1>1 DEF BookInv, DatesDiffer
<1>6. QED
  BY <1>1, <1>2, <1>4, <1>5

\* The service compares two listed entries as MongoDB does.
LEMMA OneOrder ==
  ASSUME BookInv, NEW a \in Listed, NEW b \in Listed
  PROVE  /\ Precedes(a, b) <=> Before(a, b)
         /\ a # b => Before(a, b) \/ Before(b, a)
         /\ Before(a, b) => a # b /\ entry[a].used >= entry[b].used
         /\ Before(a, b) /\ entry[a].used = 0 => entry[a].made > entry[b].made
<1>1. PICK u \in Nat, v \in Nat, m \in Nat, n \in Nat :
        /\ u = entry[a].used /\ v = entry[b].used /\ m = entry[a].made /\ n = entry[b].made
        /\ a # b => m # n /\ (u # v \/ (u = 0 /\ v = 0))
  BY DatesOf
<1>2. /\ Before(a, b) <=> u > v \/ (u = v /\ m > n)
      /\ Before(b, a) <=> v > u \/ (v = u /\ n > m)
  BY <1>1 DEF Before
<1>3. Precedes(a, b) <=> IF u > 0 /\ v > 0 THEN u > v ELSE IF u > 0 \/ v > 0 THEN u > 0 ELSE m > n
  BY <1>1 DEF Precedes
<1>4. a = b => u = v /\ m = n
  BY <1>1
<1>5. a # b => m # n /\ (u # v \/ (u = 0 /\ v = 0))
  BY <1>1
<1>6. QED
  BY <1>1, <1>2, <1>3, <1>4, <1>5

LEMMA BeforeIsTransitive ==
  ASSUME BookInv, NEW a \in Listed, NEW b \in Listed, NEW c \in Listed, Before(a, b), Before(b, c)
  PROVE  Before(a, c)
<1>1. /\ entry[a].made \in Nat /\ entry[a].used \in Nat /\ entry[b].made \in Nat
      /\ entry[b].used \in Nat /\ entry[c].made \in Nat /\ entry[c].used \in Nat
  BY DatesOf
<1>2. QED
  BY <1>1 DEF Before

\* Whichever of the two sorts listed entries, they come out in MongoDB's order.
LEMMA SortedIs ==
  ASSUME BookInv, NEW A \in SUBSET Listed
  PROVE  /\ IsFiniteSet(A) /\ Cardinality(A) \in Nat
         /\ \A s \in {Sorted(A, Before), Sorted(A, Precedes)} :
              /\ s \in Bijection(1..Cardinality(A), A)
              /\ \A i, j \in 1..Cardinality(A) : i < j => Before(s[i], s[j])
<1>1. IsFiniteSet(A) /\ Cardinality(A) \in Nat
  <2>1. A \in SUBSET Saved
    BY DEF Listed
  <2>2. QED
    BY <2>1, AddressBookAssumption, FS_Subset, FS_CardinalityType
<1>2. PICK R : R = {x \in A \X A : Before(x[1], x[2])}
  OBVIOUS
<1>3. \A a, b \in A : <<a, b>> \in R <=> Before(a, b)
  BY <1>2
<1>4. \A a, b \in A : a # b => <<a, b>> \in R \/ <<b, a>> \in R
  BY <1>3, OneOrder
<1>5. \A a, b, c \in A : <<a, b>> \in R /\ <<b, c>> \in R => <<a, c>> \in R
  <2>1. ASSUME NEW a \in A, NEW b \in A, NEW c \in A, Before(a, b), Before(b, c) PROVE Before(a, c)
    BY <2>1, BeforeIsTransitive
  <2>2. QED
    BY <1>3, <2>1
<1>6. PICK n \in Nat : n = Cardinality(A)
  BY <1>1
<1>7. PICK s \in Bijection(1..n, A) : \A i, j \in 1..n : i < j => <<s[i], s[j]>> \in R
  BY <1>1, <1>4, <1>5, <1>6, SortedExists
<1>8. ASSUME NEW t \in Bijection(1..n, A)
      PROVE  /\ Len(t) = n /\ \A i \in 1..n : t[i] \in A
             /\ IsSorted(t, Before) <=> \A i, j \in 1..n : i < j => Before(t[i], t[j])
             /\ IsSorted(t, Precedes) <=> \A i, j \in 1..n : i < j => Before(t[i], t[j])
  <2>1. t \in [1..n -> A]
    BY <1>8, BijectionIs
  <2>2. Len(t) = n /\ \A i \in 1..n : t[i] \in A
    BY <1>6, <2>1
  <2>3. \A i, j \in 1..n : Precedes(t[i], t[j]) <=> Before(t[i], t[j])
    BY <2>2, OneOrder
  <2>4. QED
    BY <2>2, <2>3 DEF IsSorted
<1>9. IsSorted(s, Before) /\ IsSorted(s, Precedes)
  <2>1. \A i \in 1..n : s[i] \in A
    BY <1>7, <1>8
  <2>2. QED
    BY <1>3, <1>7, <1>8, <2>1
<1>10. PICK t : t = Sorted(A, Before)
  OBVIOUS
<1>11. t \in Bijection(1..n, A) /\ IsSorted(t, Before)
  BY <1>6, <1>7, <1>9, <1>10 DEF Sorted
<1>12. PICK r : r = Sorted(A, Precedes)
  OBVIOUS
<1>13. r \in Bijection(1..n, A) /\ IsSorted(r, Precedes)
  BY <1>6, <1>7, <1>9, <1>12 DEF Sorted
<1>14. QED
  BY <1>1, <1>6, <1>8, <1>10, <1>11, <1>12, <1>13

LEMMA TimesKeepsOrder ==
  ASSUME NEW x \in Int, NEW y \in Int, NEW k \in Nat, x <= y
  PROVE  x * k <= y * k /\ x * k \in Int /\ y * k \in Int
OBVIOUS

\* The positions that page p shows: PageSize of them after the pages before it,
\* as far as there are any.
Positions(p) == ((p - 1) * PageSize + 1) .. Min({p * PageSize, Cardinality(Listed)})

LEMMA PositionsAre ==
  ASSUME BookInv
  PROVE  /\ Cardinality(Listed) \in Nat /\ PageCount \in Int
         /\ \A p \in 1..PageCount : Positions(p) \subseteq 1..Cardinality(Listed)
         /\ \A p, q \in 1..PageCount : \A x \in Positions(p), y \in Positions(q) : p < q => x < y
         /\ \A x \in 1..Cardinality(Listed) : \E p \in 1..PageCount : x \in Positions(p)
<1>1. PICK n \in Nat : n = Cardinality(Listed)
  BY SortedIs
<1>2. PICK k \in Nat : k = PageSize /\ k >= 1
  BY AddressBookAssumption
<1>3. PICK c \in Int : c = PageCount /\ c = (n + k - 1) \div k
  BY <1>1, <1>2 DEF PageCount
<1>4. ASSUME NEW p \in 1..c
      PROVE  /\ (p - 1) * k \in Nat /\ p * k \in Nat /\ p * k = (p - 1) * k + k
             /\ \A x : x \in Positions(p) <=>
                         x \in Int /\ (p - 1) * k + 1 <= x /\ x <= p * k /\ x <= n
  <2>1. PICK a \in Int, b \in Int : a = (p - 1) * k /\ b = p * k
    BY <1>2, <1>3, <1>4
  <2>2. b = a + k
    BY <1>2, <1>3, <1>4, <2>1
  <2>3. a >= 0
    <3>1. 0 <= p - 1 /\ p - 1 \in Int
      BY <1>3, <1>4
    <3>2. QED
      BY <1>2, <2>1, <3>1, TimesKeepsOrder
  <2>4. PICK m : m = Min({b, n})
    OBVIOUS
  <2>5. m = IF b <= n THEN b ELSE n
    <3>1. m = CHOOSE x \in {b, n} : \A y \in {b, n} : x <= y
      BY <2>4 DEF Min
    <3>2. \E x \in {b, n} : \A y \in {b, n} : x <= y
      BY <1>1, <2>1
    <3>3. m \in {b, n} /\ \A y \in {b, n} : m <= y
      BY <3>1, <3>2
    <3>4. QED
      BY <1>1, <2>1, <3>3
  <2>6. Positions(p) = (a + 1)..m
    BY <1>1, <1>2, <2>1, <2>4 DEF Positions
  <2>7. \A x : x \in (a + 1)..m <=> x \in Int /\ a + 1 <= x /\ x <= b /\ x <= n
    BY <1>1, <2>1, <2>5
  <2>8. QED
    BY <2>1, <2>2, <2>3, <2>6, <2>7
<1>5. ASSUME NEW p \in 1..c PROVE Positions(p) \subseteq 1..n
  BY <1>1, <1>4, <1>5
<1>6. ASSUME NEW p \in 1..c, NEW q \in 1..c, NEW x \in Positions(p), NEW y \in Positions(q), p < q
      PROVE  x < y
  <2>1. p <= q - 1 /\ p \in Int /\ q - 1 \in Int
    BY <1>3, <1>6
  <2>2. p * k <= (q - 1) * k /\ p * k \in Int /\ (q - 1) * k \in Int
    BY <1>2, <2>1, TimesKeepsOrder
  <2>3. x \in Int /\ x <= p * k /\ y \in Int /\ (q - 1) * k + 1 <= y
    BY <1>4, <1>6
  <2>4. QED
    BY <2>2, <2>3
<1>7. ASSUME NEW x \in 1..n PROVE \E p \in 1..c : x \in Positions(p)
  <2>1. PICK d \in Int : d = (x - 1) \div k
    BY <1>1, <1>2, <1>7
  <2>2. d * k <= x - 1 /\ x - 1 < d * k + k /\ d >= 0 /\ d * k \in Int
    BY <1>1, <1>2, <1>7, <2>1
  <2>3. c * k \in Int /\ n + k - 1 < c * k + k
    BY <1>1, <1>2, <1>3
  <2>4. d + 1 \in 1..c
    <3>1. CASE c <= d
      <4>1. c * k <= d * k
        BY <1>2, <1>3, <2>1, <3>1, TimesKeepsOrder
      <4>2. QED
        BY <1>1, <1>2, <1>7, <2>2, <2>3, <4>1
    <3>2. QED
      BY <1>3, <2>1, <2>2, <3>1
  <2>5. (d + 1) - 1 = d /\ (d + 1) * k = d * k + k
    BY <1>2, <2>1
  <2>6. x \in Positions(d + 1)
    <3>1. x \in Int /\ d * k + 1 <= x /\ x <= d * k + k /\ x <= n
      BY <1>1, <1>2, <1>7, <2>2
    <3>2. QED
      BY <1>4, <2>4, <2>5, <3>1
  <2>7. QED
    BY <2>4, <2>6
<1>8. QED
  BY <1>1, <1>3, <1>5, <1>6, <1>7

LEMMA ListIs ==
  ASSUME BookInv
  PROVE  /\ InDatabase \in [1..Cardinality(Listed) -> Listed]
         /\ \A a \in Listed : \E i \in 1..Cardinality(Listed) : InDatabase[i] = a
<1>1. PICK A \in SUBSET Listed : A = Listed
  OBVIOUS
<1>2. PICK s : s = InDatabase
  OBVIOUS
<1>3. s \in Bijection(1..Cardinality(A), A) /\ Cardinality(A) \in Nat
  BY <1>1, <1>2, SortedIs DEF InDatabase
<1>4. s \in [1..Cardinality(A) -> A] /\ \A a \in A : \E i \in 1..Cardinality(A) : s[i] = a
  BY <1>3, BijectionIs
<1>5. QED
  BY <1>1, <1>2, <1>4

\* What a page shows, and in what order.
LEMMA PageIs ==
  ASSUME BookInv, NEW p \in 1..PageCount
  PROVE  /\ Slice(p) \in SUBSET Listed
         /\ DOMAIN Page(p) = 1..Cardinality(Slice(p)) /\ Cardinality(Slice(p)) \in Nat
         /\ \A i \in DOMAIN Page(p) : Page(p)[i] \in Slice(p)
         /\ \A a \in Slice(p) : \E i \in DOMAIN Page(p) : Page(p)[i] = a
         /\ \A i, j \in DOMAIN Page(p) : i < j => Before(Page(p)[i], Page(p)[j])
<1>1. Slice(p) = {InDatabase[x] : x \in Positions(p)}
  BY DEF Slice, Positions
<1>2. \A x \in Positions(p) : x \in 1..Cardinality(Listed)
  BY PositionsAre
<1>3. InDatabase \in [1..Cardinality(Listed) -> Listed]
  BY ListIs
<1>4. Slice(p) \in SUBSET Listed
  BY <1>1, <1>2, <1>3
<1>5. PICK A \in SUBSET Listed : A = Slice(p)
  BY <1>4
<1>6. PICK s : s = Page(p)
  OBVIOUS
<1>7. /\ s \in Bijection(1..Cardinality(A), A) /\ Cardinality(A) \in Nat
      /\ \A i, j \in 1..Cardinality(A) : i < j => Before(s[i], s[j])
  BY <1>5, <1>6, SortedIs DEF Page
<1>8. s \in [1..Cardinality(A) -> A] /\ \A a \in A : \E i \in 1..Cardinality(A) : s[i] = a
  BY <1>7, BijectionIs
<1>9. QED
  BY <1>5, <1>6, <1>7, <1>8

\* Page after page, each live address is shown once, the latest used first.
LEMMA PagesInOrder == BookInv => PagesShowTheBook
<1> SUFFICES ASSUME BookInv PROVE PagesShowTheBook
  OBVIOUS
<1> DEFINE pages == [p \in 1..PageCount |-> Page(p)]
           Places == UNION {{p} \X DOMAIN pages[p] : p \in 1..PageCount}
           Shown(x) == pages[x[1]][x[2]]
           Above(x, y) == x[1] < y[1] \/ (x[1] = y[1] /\ x[2] < y[2])
<1>1. ASSUME NEW x \in Places
      PROVE  /\ x[1] \in 1..PageCount /\ x[2] \in DOMAIN Page(x[1])
             /\ Shown(x) = Page(x[1])[x[2]] /\ Shown(x) \in Slice(x[1]) /\ Shown(x) \in Listed
  <2>1. PICK p \in 1..PageCount : x \in {p} \X DOMAIN pages[p]
    BY <1>1
  <2>2. x[1] = p /\ x[2] \in DOMAIN Page(p) /\ Shown(x) = Page(p)[x[2]]
    BY <2>1
  <2>3. QED
    BY <2>1, <2>2, PageIs
<1>2. ASSUME NEW a \in Listed PROVE \E x \in Places : Shown(x) = a
  <2>1. PICK i \in 1..Cardinality(Listed) : InDatabase[i] = a
    BY <1>2, ListIs
  <2>2. PICK p \in 1..PageCount : i \in Positions(p)
    BY <2>1, PositionsAre
  <2>3. a \in Slice(p)
    BY <2>1, <2>2 DEF Slice, Positions
  <2>4. PICK j \in DOMAIN Page(p) : Page(p)[j] = a
    BY <2>2, <2>3, PageIs
  <2>5. <<p, j>> \in Places /\ Shown(<<p, j>>) = a
    BY <2>2, <2>4
  <2>6. QED
    BY <2>5
<1>3. ASSUME NEW x \in Places, NEW y \in Places, Above(x, y)
      PROVE  Before(Shown(x), Shown(y))
  <2>1. /\ x[1] \in 1..PageCount /\ x[2] \in DOMAIN Page(x[1])
        /\ Shown(x) = Page(x[1])[x[2]] /\ Shown(x) \in Slice(x[1])
        /\ y[1] \in 1..PageCount /\ y[2] \in DOMAIN Page(y[1])
        /\ Shown(y) = Page(y[1])[y[2]] /\ Shown(y) \in Slice(y[1])
    BY <1>1, <1>3
  <2>2. CASE x[1] < y[1]
    <3>1. PICK i \in Positions(x[1]), j \in Positions(y[1]) :
            Shown(x) = InDatabase[i] /\ Shown(y) = InDatabase[j]
      BY <2>1 DEF Slice, Positions
    <3>2. i < j /\ i \in 1..Cardinality(Listed) /\ j \in 1..Cardinality(Listed)
      BY <2>1, <2>2, <3>1, PositionsAre
    <3>3. \A l, m \in 1..Cardinality(Listed) : l < m => Before(InDatabase[l], InDatabase[m])
      BY SortedIs DEF InDatabase
    <3>4. QED
      BY <3>1, <3>2, <3>3
  <2>3. CASE x[1] = y[1] /\ x[2] < y[2]
    BY <2>1, <2>3, PageIs
  <2>4. QED
    BY <1>3, <2>2, <2>3
<1>4. ASSUME NEW x \in Places, NEW y \in Places, Above(x, y)
      PROVE  /\ Shown(x) # Shown(y)
             /\ entry[Shown(x)].used >= entry[Shown(y)].used
             /\ entry[Shown(x)].used = 0 => entry[Shown(x)].made > entry[Shown(y)].made
  <2>1. PICK a \in Listed, b \in Listed : a = Shown(x) /\ b = Shown(y) /\ Before(a, b)
    BY <1>1, <1>3, <1>4
  <2>2. a # b /\ entry[a].used >= entry[b].used /\ (entry[a].used = 0 => entry[a].made > entry[b].made)
    BY <2>1, OneOrder
  <2>3. QED
    BY <2>1, <2>2
<1>5. {Shown(x) : x \in Places} = {a \in Saved : entry[a].state = "live"}
  <2>1. Listed = {a \in Saved : entry[a].state = "live"}
    BY DEF Listed, Live
  <2>2. \A a : a \in {Shown(x) : x \in Places} <=> a \in Listed
    <3>1. ASSUME NEW x \in Places PROVE Shown(x) \in Listed
      BY <1>1, <3>1
    <3>2. ASSUME NEW a \in Listed PROVE \E x \in Places : a = Shown(x)
      <4>1. PICK x \in Places : Shown(x) = a
        BY <1>2, <3>2
      <4>2. QED
        BY <4>1
    <3> HIDE DEF Places, Shown
    <3>3. QED
      BY <3>1, <3>2
  <2>3. QED
    BY <2>1, <2>2
<1>6. QED
  BY <1>4, <1>5 DEF PagesShowTheBook

\* The list of addresses, read page after page, shows each address that is not
\* deleted once, the latest used first and then the newest: the service's own sort
\* of each page leaves MongoDB's order as it was.
THEOREM PagesAreTheBook == Spec => []PagesShowTheBook
BY BookInvHolds, PagesInOrder, PTL

-------------------------------------------------------------------------------

\* Every document of every desk has its type: no step of any of them writes an
\* unknown status, a negative balance, an agent nobody knows, or an address that
\* nobody wanted.
THEOREM TypeCorrect == Spec => []TypeOK
<1>1. DisputeInv /\ WarehouseInv /\ TicketInv /\ BookInv /\ UploadInv /\ ExportInv => TypeOK
  <2>1. BookInv => BookTypeOK
    BY DEF BookInv, BookTypeOK, Entries
  <2>2. QED
    BY <2>1, WarehouseTyped, JobsAreTrue DEF DisputeInv, TicketInv, TypeOK
<1>2. QED
  BY <1>1, DisputeInvHolds, WarehouseInvHolds, TicketInvHolds, BookInvHolds, JobInvHolds, PTL

-------------------------------------------------------------------------------
(* What is decided.                                                         *)

DecidedStep ==
  /\ \A s \in Weighed :
       dispute[s] \in Rulings /\ dispute'[s] # dispute[s] =>
         SavedBy(s, DisputeTasks, Undecided)
  /\ \A q \in Changes :
       change[q] \in Answers /\ change'[q] # change[q] =>
         SavedBy(q, AnswerTasks, {"PENDING"})
  /\ \A a \in Saved : entry[a].state = "deleted" => entry'[a] = entry[a]

LEMMA RulingsStand ==
  ASSUME DisputeInv, [Next]_vars, NEW s \in Weighed, dispute[s] \in Rulings,
         dispute'[s] # dispute[s]
  PROVE  SavedBy(s, DisputeTasks, Undecided)
<1> USE DEF DisputeInv, DisputeTypeOK
<1>1. DisputeStep /\ DisputeCalls
  BY OneDesk DEF disputeVars
<1>2. dispute[s] \notin {"none", "OPEN"}
  BY DEF Rulings
<1>3. ASSUME NEW t \in Weighed, RaiseDispute(t) \/ BecomeOverdue(t) PROVE FALSE
  BY <1>2, <1>3 DEF RaiseDispute, ShipmentFree, BecomeOverdue
<1>4. ASSUME ExpireDisputes \/ ListWeightDisputes PROVE FALSE
  BY <1>2, <1>4 DEF ExpireDisputes, ListWeightDisputes, EndOverdue, OverdueOpen
<1>5. ASSUME NEW k \in Slots, NEW t \in Weighed, BeginProof(k, t) \/ BeginResolution(k, t)
      PROVE  FALSE
  BY <1>5 DEF BeginProof, BeginResolution, disputeVars
<1>6. ASSUME NEW k \in Slots, LoseDispute(k) PROVE FALSE
  BY <1>6 DEF LoseDispute, disputeVars
<1>7. PICK k \in Slots : SaveProof(k) \/ ApproveDispute(k) \/ RejectDispute(k)
  BY <1>1, <1>3, <1>4, <1>5, <1>6 DEF DisputeStep
<1>8. PICK status : SaveDispute(k, status)
  BY <1>7 DEF SaveProof, ApproveDispute, RejectDispute
<1>9. call[k].id = s /\ call'[k] = Free
  BY <1>1, <1>8 DEF SaveDispute, Leave, DisputeCalls
<1>10. call[k].task \in DisputeTasks
  BY <1>7 DEF SaveProof, ApproveDispute, RejectDispute, At, DisputeTasks
<1>11. call[k].seen \in Undecided
  BY <1>1, <1>10 DEF DisputeCalls, DisputeCall, Free, DisputeTasks
<1>12. QED
  BY <1>9, <1>10, <1>11 DEF SavedBy

LEMMA AnswersStand ==
  ASSUME WarehouseInv, [Next]_vars, NEW q \in Changes, change[q] \in Answers,
         change'[q] # change[q]
  PROVE  SavedBy(q, AnswerTasks, {"PENDING"})
<1> USE DEF WarehouseInv
<1>1. PICK k \in Slots : WarehouseStep(k) /\ WarehouseCalls /\ OneCreator
  BY OneDesk DEF warehouseVars
<1>2. /\ CreateChange(k) \/ SaveApproval(k) \/ RejectChange(k) \/ CancelChange(k)
      /\ \E status : SaveChange(k, status)
  BY <1>1 DEF WarehouseStep, AskForChange, ReadChange, FindPendingChange, CreateChange,
       ApplyAddress, SaveApproval, RejectChange, CancelChange, ReadWarehouse, EditWarehouse,
       Register, LoseChange, warehouseVars
<1>3. call[k].id = q /\ call'[k] = Free
  BY <1>1, <1>2 DEF SaveChange, Leave, WarehouseCalls
<1>4. ~CreateChange(k)
  BY <1>1, <1>3 DEF CreateChange, At, OneCreator, CreatingTasks, Answers
<1>5. call[k].task \in AnswerTasks
  BY <1>2, <1>4 DEF SaveApproval, RejectChange, CancelChange, At, AnswerTasks
<1>6. call[k].seen = "PENDING"
  BY <1>1, <1>5, ChangeTaskTells DEF AnsweringTasks
<1>7. QED
  BY <1>3, <1>5, <1>6 DEF SavedBy

LEMMA DeletedStay ==
  ASSUME BookInv, [Next]_vars, NEW a \in Saved, entry[a].state = "deleted"
  PROVE  entry'[a] = entry[a]
<1> USE DEF BookInv
<1>1. CASE UNCHANGED bookVars
  BY <1>1 DEF bookVars
<1>2. ASSUME NEW b \in Saved, SaveEntry(b) \/ MarkUsed(b) PROVE entry'[a] = entry[a]
  <2>1. b # a
    BY <1>2 DEF SaveEntry, MarkUsed, Unsaved, Live
  <2>2. QED
    BY <1>2, <2>1 DEF SaveEntry, MarkUsed
<1>3. ASSUME NEW k \in Slots, EditEntry(k) \/ DeleteEntry(k) PROVE entry'[a] = entry[a]
  <2>1. Live(call[k].id) => call[k].id # a
    BY DEF Live
  <2>2. QED
    BY <1>3, <2>1 DEF EditEntry, DeleteEntry
<1>4. ASSUME BookStep PROVE entry'[a] = entry[a]
  BY <1>1, <1>2, <1>3, <1>4 DEF BookStep, FindEntry, LoseEntry
<1>5. QED
  BY <1>1, <1>4, OneDesk DEF bookVars

\* A ruling on a dispute and an answer to a change request are final, except under a
\* request that read the document before it was decided and saves now; a deleted address stays as it
\* was even then: the two expiries, and every request that reads it later, leave all of
\* them alone.
THEOREM DecisionsStand == Spec => DecidedUnlessStale
<1>1. DisputeInv /\ WarehouseInv /\ BookInv /\ [Next]_vars => [DecidedStep]_vars
  BY RulingsStand, AnswersStand, DeletedStay DEF DecidedStep
<1>2. Spec => [][DecidedStep]_vars
  BY <1>1, DisputeInvHolds, WarehouseInvHolds, BookInvHolds, PTL DEF Spec
<1>3. QED
  BY <1>2, PTL DEF DecidedUnlessStale, DecidedStep

===============================================================================
