---------------------------- MODULE SupportTickets ----------------------------
(***************************************************************************)
(* support/support.service.js: a new ticket goes to the agent with the      *)
(* fewest open ones, counted before the insert.  A staff reply claims a     *)
(* ticket that nobody has and takes it from OPEN to IN_PROGRESS; an update  *)
(* sets any status.  Both read the document and save the fields they        *)
(* changed, wherever the document is by then; replies are pushed.           *)
(***************************************************************************)
EXTENDS Calls

CONSTANTS
  Tickets,
  AgentCount,   \* active Super Admins, 1 .. AgentCount in the order of the query
  MaxReplies    \* bound: replies to a ticket

ASSUME TicketAssumption ==
  /\ IsFiniteSet(Tickets)
  /\ AgentCount \in Nat /\ MaxReplies \in Nat

VARIABLES
  ticket,     \* ticket[t]: the status, "none" before it is created, "deleted" after
  assignee,   \* assignee[t]: one of the staff, or Nobody
  replies     \* replies[t]: the replies it holds

ticketVars == <<ticket, assignee, replies>>

Agents == 1..AgentCount

\* A distributor answers as staff too, but is given no tickets.
Staff == Agents \cup {AgentCount + 1}

Nobody == 0

TicketInit ==
  /\ ticket = [t \in Tickets |-> "none"]
  /\ assignee = [t \in Tickets |-> Nobody]
  /\ replies = [t \in Tickets |-> 0]

OpenStatuses == {"OPEN", "IN_PROGRESS"}

Closed == {"RESOLVED", "CLOSED"}

-------------------------------------------------------------------------------
(* createTicketService.                                                     *)

Load(a) == Cardinality({t \in Tickets : ticket[t] \in OpenStatuses /\ assignee[t] = a})

\* The first of the agents with the smallest count.
LeastLoaded ==
  IF Agents = {} THEN Nobody
  ELSE CHOOSE a \in Agents :
         \A b \in Agents : Load(a) < Load(b) \/ (Load(a) = Load(b) /\ a <= b)

CountOpenTickets(k, t) ==
  /\ ticket[t] = "none"
  /\ \A j \in Slots : call[j].id # t
  /\ ArriveWith(k, "createTicket", t, LeastLoaded)
  /\ UNCHANGED ticketVars

CreateTicket(k) ==
  /\ At(k, "createTicket")
  /\ ticket' = [ticket EXCEPT ![call[k].id] = "OPEN"]
  /\ assignee' = [assignee EXCEPT ![call[k].id] = call[k].seen]
  /\ Leave(k)
  /\ UNCHANGED replies

-------------------------------------------------------------------------------
(* addReplyService: by the owner (Nobody) or by one of the staff.           *)

TakesReplies(t) == ticket[t] \in OpenStatuses

ReadForReply(k, t) ==
  /\ TakesReplies(t)
  /\ \E author \in Staff \cup {Nobody} :
       ArriveWith(k, "saveReply", t,
                  [author |-> author, open |-> ticket[t] = "OPEN", free |-> assignee[t] = Nobody])
  /\ UNCHANGED ticketVars

\* The save of a deleted document fails.
SaveReply(k) ==
  LET t == call[k].id  seen == call[k].seen  staff == seen.author # Nobody IN
  /\ At(k, "saveReply")
  /\ IF ticket[t] = "deleted" THEN UNCHANGED ticketVars
     ELSE /\ replies[t] < MaxReplies
          /\ replies' = [replies EXCEPT ![t] = @ + 1]
          /\ ticket' = [ticket EXCEPT ![t] = IF staff /\ seen.open THEN "IN_PROGRESS" ELSE @]
          /\ assignee' = [assignee EXCEPT ![t] = IF staff /\ seen.free THEN seen.author ELSE @]
  /\ Leave(k)

-------------------------------------------------------------------------------
(* updateTicketService and deleteTicketService.                             *)

\* An update to the status the document has, or of other fields, changes nothing here.
ReadForUpdate(k, t) ==
  /\ ticket[t] \in OpenStatuses \cup Closed
  /\ \E status \in (OpenStatuses \cup Closed) \ {ticket[t]} :
       ArriveWith(k, "saveUpdate", t, status)
  /\ UNCHANGED ticketVars

SaveUpdate(k) ==
  /\ At(k, "saveUpdate")
  /\ ticket' = [ticket EXCEPT ![call[k].id] = IF @ = "deleted" THEN @ ELSE call[k].seen]
  /\ Leave(k)
  /\ UNCHANGED <<assignee, replies>>

DeleteTicket(t) ==
  /\ ticket[t] \in OpenStatuses \cup Closed
  /\ ticket' = [ticket EXCEPT ![t] = "deleted"]
  /\ UNCHANGED <<call, assignee, replies>>

LoseTicket(k) == Drop(k) /\ UNCHANGED ticketVars

TicketStep(k) ==
  \/ \E t \in Tickets : CountOpenTickets(k, t) \/ ReadForReply(k, t) \/ ReadForUpdate(k, t)
  \/ CreateTicket(k) \/ SaveReply(k) \/ SaveUpdate(k) \/ LoseTicket(k)

-------------------------------------------------------------------------------

TicketTypeOK ==
  /\ ticket \in [Tickets -> {"none", "deleted"} \cup OpenStatuses \cup Closed]
  /\ assignee \in [Tickets -> Staff \cup {Nobody}]
  /\ replies \in [Tickets -> 0..MaxReplies]

===============================================================================
