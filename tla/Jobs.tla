--------------------------------- MODULE Jobs ---------------------------------
(***************************************************************************)
(* The two kinds of work that go on after the answer was sent.              *)
(*   Bulk uploads (shipment-bulk.service.js): the controller creates the    *)
(*   job; processBulkUploadAsync books one shipment per row and writes its  *)
(*   counters to the job after each.  The counter is written inside the try *)
(*   that books the row: a write that fails after the booking also counts   *)
(*   the row as failed.  So does a write that fails inside                  *)
(*   createShipmentService: after the charge and the carrier's order, or in  *)
(*   the compensation of an order that was refused.                         *)
(*   Exports (export.service.js): the worker writes a file and then the job. *)
(* Nothing takes up again the job of a process that died.                   *)
(***************************************************************************)
EXTENDS Integers, FiniteSets

CONSTANTS
  Uploads,      \* bulk uploads
  Rows,         \* [Uploads -> Nat]: the rows of the file
  Exports,      \* export jobs
  WritesFail    \* the database may refuse a write of the worker, or the process die

ASSUME JobAssumption == Rows \in [Uploads -> Nat] /\ WritesFail \in BOOLEAN

VARIABLES
  job,      \* job[u]: the BulkJob document
  worker,   \* worker[u]: what processBulkUploadAsync does next, and its counters
  booked,   \* booked[u]: shipments createShipmentService returned for the upload
  stray,    \* stray[u]: shipments it charged and left without returning them
  export,   \* export[x]: the status of the ExportJob document
  exporter, \* exporter[x]: what processExportJobAsync does next
  files     \* the export files on the disk

madeVars == <<booked, stray>>
uploadVars == <<job, worker, madeVars>>
exportVars == <<export, exporter, files>>

NoJob == [status |-> "none", created |-> 0, failed |-> 0, fatal |-> FALSE]

Idle == [at |-> "idle", created |-> 0, failed |-> 0, spoilt |-> 0]

JobInit ==
  /\ job = [u \in Uploads |-> NoJob]
  /\ worker = [u \in Uploads |-> Idle]
  /\ booked = [u \in Uploads |-> 0]
  /\ stray = [u \in Uploads |-> 0]
  /\ export = [x \in Exports |-> "none"]
  /\ exporter = [x \in Exports |-> "idle"]
  /\ files = {}

-------------------------------------------------------------------------------
(* bulkUpload and processBulkUploadAsync.                                   *)

Work(u, next) == worker' = [worker EXCEPT ![u].at = next]

Upload(u) ==
  /\ job[u] = NoJob
  /\ job' = [job EXCEPT ![u].status = "QUEUED"]
  /\ Work(u, "start")
  /\ UNCHANGED madeVars

StartUpload(u) ==
  /\ worker[u].at = "start"
  /\ job' = [job EXCEPT ![u].status = "PROCESSING"]
  /\ Work(u, "parse")
  /\ UNCHANGED madeVars

\* Faulty variant: the return after a parse error leaves the job as it is.
ParseReturns(u) ==
  /\ worker[u].at = "parse"
  /\ Work(u, "row") \/ Work(u, "ended")
  /\ UNCHANGED <<job, madeVars>>

\* parseFileBuffer.
ParseUpload(u) ==
  /\ worker[u].at = "parse"
  /\ \/ Work(u, "row") /\ UNCHANGED <<job, madeVars>>
     \/ /\ job' = [job EXCEPT ![u].status = "FAILED", ![u].fatal = TRUE]
        /\ Work(u, "ended")
        /\ UNCHANGED madeVars

Counted(u) == worker[u].created + worker[u].failed - worker[u].spoilt

\* createShipmentService succeeds ...
BookRow(u) ==
  /\ worker[u].at = "row"
  /\ Counted(u) < Rows[u]
  /\ booked' = [booked EXCEPT ![u] = @ + 1]
  /\ worker' = [worker EXCEPT ![u].created = @ + 1, ![u].at = "count"]
  /\ UNCHANGED <<job, stray>>

\* A shipment of the row may stay behind, charged: the booking could not be
\* persisted, or the charge of a refused one not be refunded.
MayStray(u) ==
  \/ UNCHANGED stray
  \/ WritesFail /\ stray' = [stray EXCEPT ![u] = @ + 1]

\* ... or the row is wrong, or createShipmentService throws.
RowFails(u) ==
  /\ worker[u].at = "row"
  /\ Counted(u) < Rows[u]
  /\ worker' = [worker EXCEPT ![u].failed = @ + 1, ![u].at = "countFailed"]
  /\ MayStray(u)
  /\ UNCHANGED <<job, booked>>

WithCounters(u, status) ==
  job' = [job EXCEPT ![u].status = status,
                     ![u].created = worker[u].created, ![u].failed = worker[u].failed]

WriteCounters(u) ==
  /\ worker[u].at \in {"count", "countFailed"}
  /\ WithCounters(u, job[u].status)
  /\ Work(u, "row")
  /\ UNCHANGED madeVars

\* Faulty variant: one row that failed is enough.
AnyFailed(u) == IF worker[u].failed > 0 THEN "FAILED" ELSE "COMPLETED"

FinalStatus(u) ==
  IF worker[u].failed = Rows[u] /\ Rows[u] > 0 THEN "FAILED" ELSE "COMPLETED"

FinishUpload(u) ==
  /\ worker[u].at = "row"
  /\ Counted(u) = Rows[u]
  /\ WithCounters(u, FinalStatus(u))
  /\ Work(u, "ended")
  /\ UNCHANGED madeVars

\* The write of the counters after a booking fails: the catch of the row.
CountFails(u) ==
  /\ WritesFail
  /\ worker[u].at = "count"
  /\ worker' = [worker EXCEPT ![u].failed = @ + 1, ![u].spoilt = @ + 1,
                              ![u].at = "countFailed"]
  /\ UNCHANGED <<job, madeVars>>

\* Any other write fails: the outer catch.  It writes FAILED, if it can.
FatalUpload(u) ==
  /\ WritesFail
  /\ \/ worker[u].at \in {"start", "parse", "countFailed"}
     \/ worker[u].at = "row" /\ Counted(u) = Rows[u]
  /\ \/ job' = [job EXCEPT ![u].status = "FAILED", ![u].fatal = TRUE] /\ Work(u, "ended")
     \/ UNCHANGED job /\ Work(u, "unsaid")
  /\ UNCHANGED madeVars

\* The process dies, perhaps in the middle of a row.
LoseUpload(u) ==
  /\ WritesFail
  /\ worker[u].at \notin {"idle", "ended", "unsaid", "lost"}
  /\ Work(u, "lost")
  /\ IF worker[u].at = "row" /\ Counted(u) < Rows[u] THEN MayStray(u) ELSE UNCHANGED stray
  /\ UNCHANGED <<job, booked>>

UploadWork(u) ==
  \/ StartUpload(u) \/ ParseUpload(u) \/ BookRow(u) \/ RowFails(u)
  \/ WriteCounters(u) \/ FinishUpload(u)

UploadStep(u) ==
  Upload(u) \/ UploadWork(u) \/ CountFails(u) \/ FatalUpload(u) \/ LoseUpload(u)

-------------------------------------------------------------------------------
(* createExportJobService and processExportJobAsync.                        *)

GoOn(x, next) == exporter' = [exporter EXCEPT ![x] = next]

AskForExport(x) ==
  /\ export[x] = "none"
  /\ export' = [export EXCEPT ![x] = "PENDING"]
  /\ GoOn(x, "start")
  /\ UNCHANGED files

StartExport(x) ==
  /\ exporter[x] = "start"
  /\ export' = [export EXCEPT ![x] = "PROCESSING"]
  /\ GoOn(x, "write")
  /\ UNCHANGED files

\* generateFileBuffer reads page by page; then the file is written at once.
WriteFile(x) ==
  /\ exporter[x] = "write"
  /\ files' = files \cup {x}
  /\ GoOn(x, "complete")
  /\ UNCHANGED export

CompleteExport(x) ==
  /\ exporter[x] = "complete"
  /\ export' = [export EXCEPT ![x] = "COMPLETED"]
  /\ GoOn(x, "ended")
  /\ UNCHANGED files

\* The catch writes FAILED, if it can.
ExportFails(x) ==
  /\ WritesFail
  /\ exporter[x] \in {"start", "write", "complete"}
  /\ \/ export' = [export EXCEPT ![x] = "FAILED"] /\ GoOn(x, "ended")
     \/ UNCHANGED export /\ GoOn(x, "unsaid")
  /\ UNCHANGED files

LoseExport(x) ==
  /\ WritesFail
  /\ exporter[x] \in {"start", "write", "complete"}
  /\ GoOn(x, "lost")
  /\ UNCHANGED <<export, files>>

ExportWork(x) == StartExport(x) \/ WriteFile(x) \/ CompleteExport(x)

ExportStep(x) == AskForExport(x) \/ ExportWork(x) \/ ExportFails(x) \/ LoseExport(x)

-------------------------------------------------------------------------------

\* The job says how the upload came out.
Ended(u) ==
  job[u].status = "COMPLETED" \/ (job[u].status = "FAILED" /\ ~job[u].fatal)

JobTypeOK ==
  /\ \A u \in Uploads :
       /\ job[u].status \in {"none", "QUEUED", "PROCESSING", "COMPLETED", "FAILED"}
       /\ booked[u] \in Nat /\ stray[u] \in Nat
       /\ booked[u] + stray[u] <= Rows[u]
  /\ export \in [Exports -> {"none", "PENDING", "PROCESSING", "COMPLETED", "FAILED"}]
  /\ files \subseteq Exports

\* A job never shows a shipment that was not made; a COMPLETED upload shows
\* every one that was returned to it and accounts for every row of its file; one
\* that FAILED in the ordinary way (no fatalError) was returned none, unless the
\* writing of the counters failed after it; behind every shipment that was
\* charged and is not shown by either is a row they report as failed - which does
\* not mean that the row was not charged; and a COMPLETED export has its file.
JobsTellTheTruth ==
  /\ \A u \in Uploads :
       /\ job[u].created <= booked[u]
       /\ job[u].status = "COMPLETED" =>
            /\ job[u].created = booked[u]
            /\ job[u].created + job[u].failed >= Rows[u]
       /\ job[u].status = "FAILED" /\ ~job[u].fatal => booked[u] = worker[u].spoilt
       /\ Ended(u) => stray[u] + worker[u].spoilt <= job[u].failed
  /\ \A x \in Exports : export[x] = "COMPLETED" => x \in files

===============================================================================
