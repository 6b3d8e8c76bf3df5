------------------------------ MODULE BackOffice ------------------------------
(***************************************************************************)
(* The workflows around the shipments: weight disputes, changes of a        *)
(* warehouse's address, support tickets, the address book, and the jobs     *)
(* that work in the background.  They share no documents, so a behaviour     *)
(* exercises one desk, with several requests under way at it.               *)
(***************************************************************************)
EXTENDS WeightDisputes, WarehouseRequests, SupportTickets, AddressBook, Jobs

CONSTANT Desks   \* the desks that are open

ASSUME DesksAssumption ==
  Desks \subseteq {"disputes", "warehouses", "tickets", "addresses", "jobs"}

VARIABLE desk   \* the desk a behaviour is about

jobVars == <<uploadVars, exportVars>>

vars == <<walletVars, disputeVars, warehouseVars, ticketVars, bookVars, jobVars, call, desk>>

Init ==
  /\ WalletInit
  /\ DisputeInit /\ WarehouseInit /\ TicketInit /\ BookInit /\ JobInit
  /\ desk \in Desks

Disputing ==
  /\ desk = "disputes"
  /\ DisputeStep
  /\ UNCHANGED <<warehouseVars, ticketVars, bookVars, jobVars, desk>>

Moving ==
  /\ desk = "warehouses"
  /\ \E k \in Slots : WarehouseStep(k)
  /\ UNCHANGED <<walletVars, disputeVars, ticketVars, bookVars, jobVars, desk>>

Supporting ==
  /\ desk = "tickets"
  /\ (\E k \in Slots : TicketStep(k)) \/ (\E t \in Tickets : DeleteTicket(t))
  /\ UNCHANGED <<walletVars, disputeVars, warehouseVars, bookVars, jobVars, desk>>

Addressing ==
  /\ desk = "addresses"
  /\ BookStep
  /\ UNCHANGED <<walletVars, disputeVars, warehouseVars, ticketVars, jobVars, desk>>

Others == <<walletVars, disputeVars, warehouseVars, ticketVars, bookVars, call, desk>>

Uploading(u) == UploadStep(u) /\ desk = "jobs" /\ UNCHANGED <<exportVars, Others>>

Exporting(x) == ExportStep(x) /\ desk = "jobs" /\ UNCHANGED <<uploadVars, Others>>

Next ==
  \/ Disputing \/ Moving \/ Supporting \/ Addressing
  \/ \E u \in Uploads : Uploading(u)
  \/ \E x \in Exports : Exporting(x)

Spec == Init /\ [][Next]_vars

\* Node goes on with a worker that is not lost.
FairSpec ==
  /\ Spec
  /\ \A u \in Uploads : WF_vars(Uploading(u) /\ UploadWork(u))
  /\ \A x \in Exports : WF_vars(Exporting(x) /\ ExportWork(x))

-------------------------------------------------------------------------------

TypeOK ==
  /\ balance \in [Users -> Nat]
  /\ DisputeTypeOK /\ WarehouseTypeOK /\ TicketTypeOK /\ BookTypeOK /\ JobTypeOK

\* Document id is saved by a request, at one of the tasks, that read it when its
\* status was one of the set.
SavedBy(id, tasks, status) ==
  \E k \in Slots : /\ call[k].task \in tasks /\ call[k].id = id
                   /\ call[k].seen \in status
                   /\ call'[k] = Free

\* Decided disputes and change requests stay what they are, except under a
\* request that read them before they were decided and saves now: neither the
\* midnight job, nor a list, nor a request that reads one decided changes it.  A
\* deleted address stays as it was even then.
DecidedUnlessStale ==
  [][/\ \A s \in Weighed :
          dispute[s] \in Rulings /\ dispute'[s] # dispute[s] =>
            SavedBy(s, DisputeTasks, Undecided)
     /\ \A q \in Changes :
          change[q] \in Answers /\ change'[q] # change[q] =>
            SavedBy(q, AnswerTasks, {"PENDING"})
     /\ \A a \in Saved : entry[a].state = "deleted" => entry'[a] = entry[a]]_vars

\* Every upload ends and says so, and so does every export, unless its process
\* dies or the database refuses the last word.
JobsEnd ==
  /\ \A u \in Uploads :
       job[u].status = "QUEUED" ~>
         job[u].status \in {"COMPLETED", "FAILED"} \/ worker[u].at \in {"lost", "unsaid"}
  /\ \A x \in Exports :
       export[x] = "PENDING" ~>
         export[x] \in {"COMPLETED", "FAILED"} \/ exporter[x] \in {"lost", "unsaid"}

===============================================================================
