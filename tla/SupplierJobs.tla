---------------------------- MODULE SupplierJobs ----------------------------
(***************************************************************************)
(* The sourcing jobs of the shop's suppliers.  Staff and the nightly check *)
(* queue them; one worker process at a time, the one that holds the lease, *)
(* goes through the rows of the oldest job, and reads a live supplier's    *)
(* rows first, without any lock; a browser job has a collector process of  *)
(* its own.  Workers and collectors may stop at any point.                 *)
(***************************************************************************)
EXTENDS Naturals, Sequences, FiniteSets

CONSTANTS
    Suppliers,
    Live,         \* suppliers with a live connector
    Credentials,  \* suppliers with stored API credentials
    Workers,      \* processes that call run_jobs
    Scheduler,    \* those of them that run the nightly check
    MaxBrowserJobs,  \* MAX_BROWSER_JOBS
    MaxJobs,      \* bound: jobs
    MaxRows,      \* bound: rows of a job
    MaxNights,    \* bound: nightly checks that fall due
    MaxStops,     \* bound: processes that stop
    MaxLapses     \* bound: leases that run out under a live worker

NoWorker == "no worker"

ASSUME SupplierAssumption ==
    /\ Suppliers # {} /\ Live \subseteq Suppliers
    /\ Scheduler \subseteq Workers
    /\ MaxJobs \in Nat /\ MaxRows \in Nat
    /\ MaxNights \in Nat
    /\ NoWorker \notin Workers

VARIABLES
    supplierJob,  \* the SupplierJob rows, in the order of created_at
    allowed,      \* suppliers enabled under terms, their staff permitted
    lease,        \* worker_token and worker_until of the policy row
    worker,       \* what a worker process is doing
    collector,    \* what the collector of a browser job is doing
    night,        \* last_nightly_date is behind, and how often it was
    stops,        \* history: processes that stopped
    lapses        \* history: leases that ran out under a live worker

supplierVars ==
    <<supplierJob, allowed, lease, worker, collector, night, stops, lapses>>

JobIds == 1..MaxJobs
Active == {"queued", "running", "cancel_requested"}
Ended == {"cancelled", "completed", "completed_with_errors", "failed"}

(* kind "rows" is a snapshot upload, "screen" filter or recheck.  rows is   *)
(* the read its rows come from, once they are there; done lists the row     *)
(* that each checkpoint processed.                                          *)
SupplierJob ==
    [status : Active \cup Ended \cup {"none"},
     kind : {"rows", "live", "screen", "browser"},
     supplier : Suppliers,
     rows : Nat,
     total : 0..MaxRows,
     failed : BOOLEAN,
     done : Seq(Nat \X Nat)]

Resting == [pc |-> "idle", job |-> 0, found |-> 0, moved |-> FALSE]

SupplierTypeOK ==
    /\ supplierJob \in [JobIds -> SupplierJob]
    /\ allowed \subseteq Suppliers
    /\ lease \in [token : Workers \cup {NoWorker}, lapsed : BOOLEAN]
    /\ worker \in [Workers ->
                     [pc : {"idle", "loop", "check", "start", "reading",
                            "read", "refused", "row"},
                      job : 0..MaxJobs, found : 0..MaxRows,
                      moved : BOOLEAN]]
    /\ collector \in [JobIds -> {"none", "launched", "accepted", "running"}]
    /\ night \in [due : BOOLEAN, count : Nat]
    /\ stops \in Nat
    /\ lapses \in Nat

SupplierInit ==
    /\ supplierJob = [j \in JobIds |->
                        [status |-> "none", kind |-> "rows",
                         supplier |-> CHOOSE s \in Suppliers : TRUE,
                         rows |-> 0, total |-> 0, failed |-> FALSE,
                         done |-> <<>>]]
    /\ allowed = Suppliers
    /\ lease = [token |-> NoWorker, lapsed |-> FALSE]
    /\ worker = [w \in Workers |-> Resting]
    /\ collector = [j \in JobIds |-> "none"]
    /\ night = [due |-> FALSE, count |-> 0]
    /\ stops = 0
    /\ lapses = 0

Status(j) == supplierJob[j].status
Kind(j) == supplierJob[j].kind
IsActive(j) == Status(j) \in Active
Busy(s) == \E j \in JobIds : IsActive(j) /\ supplierJob[j].supplier = s
Allowed(j) == supplierJob[j].supplier \in allowed

(* The id that the next job of the staff gets; some are kept for the        *)
(* nightly checks to come, so that the bound stops the staff only.          *)
PerNight == Cardinality(Live)
        * (MaxNights - night.count + IF night.due THEN 1 ELSE 0)

IsNext(j) ==
    /\ Status(j) = "none"
    /\ \A i \in JobIds : i < j => Status(i) # "none"
    /\ j + PerNight <= MaxJobs

NewJob(kind, s, total) ==
    [status |-> "queued", kind |-> kind, supplier |-> s,
     rows |-> IF kind = "live" THEN 0 ELSE 1, total |-> total,
     failed |-> FALSE, done |-> <<>>]

Finished(j, status) == [supplierJob EXCEPT ![j].status = status]

(* A job ends completed only without errors.                                *)
EndStatus(job) ==
    IF job.failed THEN "completed_with_errors" ELSE "completed"

---------------------------------------------------------------------------
(* Staff.                                                                   *)

(* queue_job, in one transaction that holds the supplier.                   *)
QueueJob(j, s) ==
    /\ IsNext(j)
    /\ s \in allowed
    /\ ~Busy(s)
    /\ \/ /\ s \in Live \cap Credentials
          /\ supplierJob' = [supplierJob EXCEPT ![j] = NewJob("live", s, 0)]
       \/ \E kind \in {"rows", "screen"}, total \in 1..MaxRows :
             supplierJob' = [supplierJob EXCEPT ![j] = NewJob(kind, s, total)]
    /\ UNCHANGED <<allowed, lease, worker, collector, night, stops, lapses>>

Cancellable(j) == IsActive(j)

Cancel(j) ==
    /\ Cancellable(j)
    /\ supplierJob' = Finished(j, "cancel_requested")
    /\ UNCHANGED <<allowed, lease, worker, collector, night, stops, lapses>>

(* A supplier is disabled or its staff loses the permission, or the reverse.*)
ChangeAccess(s) ==
    /\ allowed' = IF s \in allowed THEN allowed \ {s} ELSE allowed \cup {s}
    /\ UNCHANGED <<supplierJob, lease, worker, collector, night, stops,
                   lapses>>

---------------------------------------------------------------------------
(* run_jobs.                                                                *)

Owns(w) == lease.token = w
Go(w, pc) == worker' = [worker EXCEPT ![w].pc = pc]
Leave(w) == worker' = [worker EXCEPT ![w] = Resting]
Renewed(w) == IF Owns(w) THEN [lease EXCEPT !.lapsed = FALSE] ELSE lease
Released(w) ==
    IF Owns(w) THEN [token |-> NoWorker, lapsed |-> FALSE] ELSE lease

LeaseReturned == lease.token = NoWorker
LeaseFree == lease.token = NoWorker \/ lease.lapsed

StartRun(w) ==
    /\ worker[w].pc = "idle"
    /\ w \in Scheduler => ~night.due
    /\ LeaseFree
    /\ lease' = [token |-> w, lapsed |-> FALSE]
    /\ worker' = [worker EXCEPT ![w] = [Resting EXCEPT !.pc = "loop"]]
    /\ UNCHANGED <<supplierJob, allowed, collector, night, stops, lapses>>

Waiting(j) == IsActive(j) /\ Kind(j) # "browser"

PickJob(w, j) ==
    /\ worker[w].pc = "loop"
    /\ Waiting(j)
    /\ \A i \in JobIds : i < j => ~Waiting(i)
    /\ worker' = [worker EXCEPT
                    ![w].job = j,
                    ![w].pc = IF supplierJob[j].rows = 0
                              THEN "check" ELSE "row"]
    /\ UNCHANGED <<supplierJob, allowed, lease, collector, night, stops,
                   lapses>>

(* max_items is reached, or there is no job left.                           *)
EndRun(w) ==
    /\ worker[w].pc = "loop"
    /\ \/ worker[w].moved
       \/ \A j \in JobIds : ~Waiting(j)
    /\ lease' = Released(w)
    /\ Leave(w)
    /\ UNCHANGED <<supplierJob, allowed, collector, night, stops, lapses>>

(* allowed() of prepare_live_job; it renews the lease.                      *)
MayRead(w, j) ==
    Owns(w) /\ Status(j) \in {"queued", "running"} /\ Allowed(j)

CheckAccess(w) ==
    LET j == worker[w].job IN
    /\ worker[w].pc = "check"
    /\ lease' = Renewed(w)
    /\ Go(w, IF MayRead(w, j) THEN "start" ELSE "refused")
    /\ UNCHANGED <<supplierJob, allowed, collector, night, stops, lapses>>

Starts(j) == Status(j) \in {"queued", "running"}

StartReading(w) ==
    LET j == worker[w].job IN
    /\ worker[w].pc = "start"
    /\ supplierJob' = IF Starts(j) THEN Finished(j, "running")
                                   ELSE supplierJob
    /\ Go(w, "reading")
    /\ UNCHANGED <<allowed, lease, collector, night, stops, lapses>>

(* The response is read while allowed() holds; any other failure of the     *)
(* connector refuses it, too.                                               *)
EndReading(w) ==
    /\ worker[w].pc = "reading"
    /\ lease' = Renewed(w)
    /\ \/ /\ MayRead(w, worker[w].job)
          /\ \E n \in 0..MaxRows :
                worker' = [worker EXCEPT ![w].pc = "read", ![w].found = n]
       \/ Go(w, "refused")
    /\ UNCHANGED <<supplierJob, allowed, collector, night, stops, lapses>>

FencedNever(w) == TRUE
Fenced(w) == Owns(w)

WithRows(job, n, errors) ==
    [job EXCEPT !.rows = @ + 1, !.total = n, !.failed = errors]

(* The rows are committed under the fence, or the job ends.  Identities     *)
(* that were not returned or are invalid count as errors.                   *)
CommitRows(w) ==
    LET j == worker[w].job
        n == worker[w].found IN
    /\ worker[w].pc \in {"read", "refused"}
    /\ IF ~Fenced(w)
       THEN Leave(w) /\ UNCHANGED supplierJob
       ELSE \/ /\ ~IsActive(j)
               /\ Go(w, "loop")
               /\ UNCHANGED supplierJob
            \/ /\ Status(j) = "cancel_requested"
               /\ supplierJob' = Finished(j, "cancelled")
               /\ Go(w, "loop")
            \/ /\ Status(j) \in {"queued", "running"}
               /\ worker[w].pc = "refused" \/ ~Allowed(j)
               /\ supplierJob' = Finished(j, "failed")
               /\ Go(w, "loop")
            \/ /\ Status(j) \in {"queued", "running"}
               /\ worker[w].pc = "read" /\ Allowed(j)
               /\ \E errors \in BOOLEAN :
                     LET read == WithRows(supplierJob[j], n, errors) IN
                     supplierJob' =
                        [supplierJob EXCEPT
                           ![j] = IF n = 0
                                  THEN [read EXCEPT
                                          !.status = EndStatus(read)]
                                  ELSE read]
               /\ Go(w, IF n = 0 THEN "loop" ELSE "row")
    /\ UNCHANGED <<allowed, lease, collector, night, stops, lapses>>

(* A row's effect, the checkpoint behind it and, after the last row, the    *)
(* end of the job are one transaction, so no job is found with all of its   *)
(* rows processed.                                                          *)
AfterRow(j, error) ==
    LET job == supplierJob[j]
        next == [job EXCEPT !.status = "running",
                            !.failed = @ \/ error,
                            !.done = Append(@, <<job.rows, Len(@) + 1>>)] IN
    IF Len(next.done) = job.total
    THEN [next EXCEPT !.status = EndStatus(next)]
    ELSE next

CancelUnseen(j) == FALSE
CancelSeen(j) == Status(j) = "cancel_requested"

(* Another row is processed, or the job ends: because it was cancelled, its *)
(* access is gone, or the offers of its scope have become fewer.            *)
ProcessRow(w) ==
    LET j == worker[w].job IN
    /\ worker[w].pc = "row"
    /\ IF ~Fenced(w)
       THEN Leave(w) /\ UNCHANGED <<supplierJob, lease>>
       ELSE \/ /\ ~IsActive(j) \/ CancelSeen(j) \/ ~Allowed(j)
               /\ supplierJob' = IF ~IsActive(j) THEN supplierJob
                                 ELSE IF CancelSeen(j)
                                      THEN Finished(j, "cancelled")
                                      ELSE Finished(j, "failed")
               /\ Go(w, "loop")
               /\ UNCHANGED lease
            \/ /\ IsActive(j) /\ ~CancelSeen(j) /\ Allowed(j)
               /\ Kind(j) = "screen"
               /\ supplierJob' = Finished(j, "completed_with_errors")
               /\ Go(w, "loop")
               /\ UNCHANGED lease
            \/ /\ IsActive(j) /\ ~CancelSeen(j) /\ Allowed(j)
               /\ \E error \in BOOLEAN :
                     supplierJob' = [supplierJob EXCEPT
                                       ![j] = AfterRow(j, error)]
               /\ worker' = [worker EXCEPT ![w].pc = "loop",
                                           ![w].moved = TRUE]
               /\ lease' = Renewed(w)
    /\ UNCHANGED <<allowed, collector, night, stops, lapses>>

(* A process is killed, or an unexpected error leaves run_jobs.             *)
StopWorker(w) ==
    /\ worker[w].pc # "idle"
    /\ stops < MaxStops
    /\ stops' = stops + 1
    /\ Leave(w)
    /\ lease' \in {lease, Released(w)}
    /\ UNCHANGED <<supplierJob, allowed, collector, night, lapses>>

Abandoned == lease.token # NoWorker /\ worker[lease.token].pc = "idle"

(* Five minutes pass without a checkpoint.                                  *)
LapseLease ==
    /\ lease.token # NoWorker
    /\ ~lease.lapsed
    /\ Abandoned \/ lapses < MaxLapses
    /\ lapses' = IF Abandoned THEN lapses ELSE lapses + 1
    /\ lease' = [lease EXCEPT !.lapsed = TRUE]
    /\ UNCHANGED <<supplierJob, allowed, worker, collector, night, stops>>

---------------------------------------------------------------------------
(* nightly, which a scheduler runs before run_jobs.                         *)

FallDue ==
    /\ ~night.due
    /\ night.count < MaxNights
    /\ night' = [due |-> TRUE, count |-> night.count + 1]
    /\ UNCHANGED <<supplierJob, allowed, lease, worker, collector, stops,
                   lapses>>

Refreshed == {s \in Live \cap allowed : ~Busy(s)}

QueueUpdates(S) ==
    \E at \in [S -> {j \in JobIds : Status(j) = "none"}] :
        /\ \A s, t \in S : at[s] = at[t] => s = t
        /\ \A i \in JobIds, s \in S :
              i < at[s] => \/ Status(i) # "none"
                           \/ \E t \in S : at[t] = i
        /\ supplierJob' =
              [j \in JobIds |->
                 IF \E s \in S : at[s] = j
                 THEN NewJob("live", CHOOSE s \in S : at[s] = j, 0)
                 ELSE supplierJob[j]]

(* An update of every live supplier that is enabled and idle is queued.  If *)
(* one has no credentials, queue_job raises: nothing is queued, and the     *)
(* process ends.                                                            *)
Nightly(w) ==
    /\ worker[w].pc = "idle"
    /\ w \in Scheduler
    /\ night.due
    /\ Refreshed \subseteq Credentials
    /\ QueueUpdates(Refreshed)
    /\ night' = [night EXCEPT !.due = FALSE]
    /\ UNCHANGED <<allowed, lease, worker, collector, stops, lapses>>

---------------------------------------------------------------------------
(* Browser jobs.                                                            *)

(* start_job: staff queue it for a child process, or a command starts it.   *)
Launch(j, s) ==
    /\ IsNext(j)
    /\ s \in allowed
    /\ ~Busy(s)
    /\ Cardinality({i \in JobIds : IsActive(i) /\ Kind(i) = "browser"})
          < MaxBrowserJobs
    /\ \/ /\ supplierJob' = [supplierJob EXCEPT
                               ![j] = NewJob("browser", s, 0)]
          /\ collector' = [collector EXCEPT ![j] = "launched"]
       \/ /\ supplierJob' = [supplierJob EXCEPT
                               ![j] = [NewJob("browser", s, 0) EXCEPT
                                         !.status = "running"]]
          /\ collector' = [collector EXCEPT ![j] = "running"]
    /\ UNCHANGED <<allowed, lease, worker, night, stops, lapses>>

LaunchFails(j) ==
    /\ collector[j] = "launched"
    /\ supplierJob' = Finished(j, "failed")
    /\ collector' = [collector EXCEPT ![j] = "none"]
    /\ UNCHANGED <<allowed, lease, worker, night, stops, lapses>>

(* The command asks for its queued job; without one it ends with an error.  *)
AcceptJob(j) ==
    /\ collector[j] = "launched"
    /\ collector' = [collector EXCEPT
                       ![j] = IF Status(j) = "queued"
                              THEN "accepted" ELSE "none"]
    /\ UNCHANGED <<supplierJob, allowed, lease, worker, night, stops, lapses>>

(* It saves the status it gives to the job that it has read.                *)
MarkRunning(j) ==
    /\ collector[j] = "accepted"
    /\ supplierJob' = Finished(j, "running")
    /\ collector' = [collector EXCEPT ![j] = "running"]
    /\ UNCHANGED <<allowed, lease, worker, night, stops, lapses>>

(* check() stops a traversal at the next page; one that gets to its end     *)
(* does not look again; any error ends it as well.                          *)
EndCollection(j) ==
    /\ collector[j] = "running"
    /\ \E status \in Ended :
          /\ status = "failed" => Status(j) # "cancel_requested"
          /\ supplierJob' = Finished(j, status)
    /\ collector' = [collector EXCEPT ![j] = "none"]
    /\ UNCHANGED <<allowed, lease, worker, night, stops, lapses>>

StopCollector(j) ==
    /\ collector[j] # "none"
    /\ stops < MaxStops
    /\ stops' = stops + 1
    /\ collector' = [collector EXCEPT ![j] = "none"]
    /\ UNCHANGED <<supplierJob, allowed, lease, worker, night, lapses>>

---------------------------------------------------------------------------
RunJobs(w) ==
    \/ StartRun(w)
    \/ \E j \in JobIds : PickJob(w, j)
    \/ EndRun(w)
    \/ CheckAccess(w)
    \/ StartReading(w)
    \/ EndReading(w)
    \/ CommitRows(w)
    \/ ProcessRow(w)

Collect(j) == AcceptJob(j) \/ MarkRunning(j) \/ EndCollection(j)

SupplierNext ==
    \/ \E j \in JobIds :
          \/ \E s \in Suppliers : QueueJob(j, s) \/ Launch(j, s)
          \/ Cancel(j) \/ LaunchFails(j) \/ Collect(j) \/ StopCollector(j)
    \/ \E s \in Suppliers : ChangeAccess(s)
    \/ \E w \in Workers : RunJobs(w) \/ Nightly(w) \/ StopWorker(w)
    \/ LapseLease
    \/ FallDue

(* Worker processes and collectors go on, and a lease that nobody renews    *)
(* runs out.  A process that stopped is started again.                      *)
SupplierFairness ==
    /\ \A w \in Workers : WF_supplierVars(RunJobs(w) \/ Nightly(w))
    /\ \A j \in JobIds : WF_supplierVars(Collect(j))
    /\ WF_supplierVars(LapseLease /\ Abandoned)

SupplierSpec ==
    SupplierInit /\ [][SupplierNext]_supplierVars /\ SupplierFairness

---------------------------------------------------------------------------
(* A worker's job that ends completed, with errors or without, has gone     *)
(* through every row of one reading of its supplier, once each and in       *)
(* order, whichever workers took part (a screening may end earlier when its *)
(* scope has changed).                                                      *)
EveryRowOnce ==
    \A j \in JobIds :
        /\ Status(j) \in {"completed", "completed_with_errors"}
        /\ Kind(j) \in {"rows", "live"}
        => supplierJob[j].done =
              [i \in 1..supplierJob[j].total |-> <<supplierJob[j].rows, i>>]

(* What was settled about a job stays, whatever staff, a late worker or a   *)
(* collector still does.  A job that has ended stays as it ended.  The      *)
(* cancellation of a worker's job is never lost: the job ends as cancelled, *)
(* and no further row of it is processed.  That of a browser job holds      *)
(* until the job has ended, unless its collector is about to mark the job   *)
(* that it has read as queued.                                              *)
StatusesKept ==
    [][\A j \in JobIds :
         /\ Status(j) \in Ended => supplierJob'[j] = supplierJob[j]
         /\ Status(j) = "cancel_requested" /\ Kind(j) # "browser" =>
               /\ supplierJob'[j].status \in {"cancel_requested", "cancelled"}
               /\ supplierJob'[j].done = supplierJob[j].done
         /\ Status(j) = "cancel_requested" /\ collector[j] # "accepted" =>
               supplierJob'[j].status \in {"cancel_requested"} \cup Ended
      ]_supplierVars

(* Every job that waits for the worker comes to its end.                    *)
EveryWorkerJobEnds ==
    \A j \in JobIds : Waiting(j) ~> ~Waiting(j)
=============================================================================
