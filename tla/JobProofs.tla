------------------------------ MODULE JobProofs ------------------------------
(***************************************************************************)
(* The back office: the jobs of the suppliers' workers and collectors, the *)
(* recovery of passwords and the requests for a catalogue synchronisation, *)
(* the three taken together, as MCBackOffice runs them; and the billing of *)
(* the extension.                                                          *)
(***************************************************************************)
EXTENDS MCBackOffice, ExtensionBilling, SumProofs, FiniteSetTheorems, TLAPS

(* A collector's job is its own; a worker reads rows only for a job that    *)
(* has none yet, unless it was fenced out; the processed rows of a job are  *)
(* the first ones of one reading.                                           *)
Prefix(reading, done) == \A i \in 1..Len(done) : done[i] = <<reading, i>>

InTurn(job) ==
    /\ Prefix(job.rows, job.done)
    /\ job.rows = 0 => job.done = <<>>
    /\ /\ job.status \in {"completed", "completed_with_errors"}
       /\ job.kind \in {"rows", "live"}
       => Len(job.done) = job.total

CollectorInStep(j) ==
    collector[j] # "none" =>
        /\ Kind(j) = "browser"
        /\ Status(j) \in {"cancel_requested"} \cup
              IF collector[j] = "running" THEN {"running"} ELSE {"queued"}

WorkerInStep(w) ==
    worker[w].pc \notin {"idle", "loop"} =>
        LET j == worker[w].job IN
        /\ j \in JobIds /\ Status(j) # "none" /\ Kind(j) # "browser"
        /\ IF worker[w].pc = "row" THEN supplierJob[j].rows # 0
           ELSE Owns(w) => supplierJob[j].rows = 0

SupplierInv ==
    /\ SupplierTypeOK
    /\ \A j \in JobIds : InTurn(supplierJob[j]) /\ CollectorInStep(j)
    /\ \A w \in Workers : WorkerInStep(w)

LEMMA NextInPrefix ==
  ASSUME NEW reading \in Nat, NEW done \in Seq(Nat \X Nat),
         Prefix(reading, done)
  PROVE  LET next == Append(done, <<reading, Len(done) + 1>>) IN
         /\ next \in Seq(Nat \X Nat)
         /\ Len(next) = Len(done) + 1
         /\ Prefix(reading, next)
<1> DEFINE next == Append(done, <<reading, Len(done) + 1>>)
<1>1. Len(done) \in Nat /\ next \in Seq(Nat \X Nat)
  OBVIOUS
<1>2. /\ Len(next) = Len(done) + 1
      /\ next[Len(done) + 1] = <<reading, Len(done) + 1>>
  OBVIOUS
<1>3. ASSUME NEW i \in 1..Len(next), i # Len(done) + 1
      PROVE  next[i] = <<reading, i>>
  <2>1. i \in 1..Len(done) /\ next[i] = done[i]
    BY <1>1, <1>2, <1>3
  <2> QED BY <2>1 DEF Prefix
<1> QED BY <1>1, <1>2, <1>3 DEF Prefix

LEMMA NothingDone ==
  <<>> \in Seq(Nat \X Nat) /\ \A reading : Prefix(reading, <<>>)
  BY DEF Prefix

LEMMA NewJobInTurn ==
  ASSUME NEW kind \in {"rows", "live", "screen", "browser"},
         NEW s \in Suppliers, NEW total \in 0..MaxRows
  PROVE  /\ NewJob(kind, s, total) \in SupplierJob
         /\ InTurn(NewJob(kind, s, total))
  BY NothingDone DEF NewJob, SupplierJob, InTurn, Active, Ended

LEMMA SupplierStarts == SupplierInit => SupplierInv
<1> SUFFICES ASSUME SupplierInit PROVE SupplierInv
  OBVIOUS
<1>1. (CHOOSE s \in Suppliers : TRUE) \in Suppliers
  BY SupplierAssumption
<1>2. \A j \in JobIds :
         supplierJob[j] \in SupplierJob /\ InTurn(supplierJob[j])
  BY <1>1, NothingDone, SupplierAssumption
  DEF SupplierInit, SupplierJob, InTurn, Active, Ended
<1>3. SupplierTypeOK
  <2>1. supplierJob \in [JobIds -> SupplierJob]
    BY <1>2 DEF SupplierInit
  <2>2. /\ worker \in [Workers ->
                          [pc : {"idle", "loop", "check", "start", "reading",
                                 "read", "refused", "row"},
                           job : 0..MaxJobs, found : 0..MaxRows,
                           moved : BOOLEAN]]
        /\ lease \in [token : Workers \cup {NoWorker}, lapsed : BOOLEAN]
    BY SupplierAssumption DEF SupplierInit, Resting
  <2> QED BY <2>1, <2>2 DEF SupplierInit, SupplierTypeOK
<1> QED
  BY <1>2, <1>3
  DEF SupplierInv, SupplierInit, CollectorInStep, WorkerInStep, Resting

(* A step that replaces one row of the table keeps the invariant, if the    *)
(* row stays in turn, its number of readings and its kind stay, unless it   *)
(* is new, and a collector at work still finds the status it expects.       *)
LEMMA OneRowChanged ==
  ASSUME SupplierInv, NEW j \in JobIds, NEW row \in SupplierJob,
         supplierJob' = [supplierJob EXCEPT ![j] = row],
         InTurn(row), row.status # "none",
         \/ Status(j) = "none"
         \/ row.kind = Kind(j) /\ row.rows = supplierJob[j].rows
  PROVE  /\ supplierJob' \in [JobIds -> SupplierJob]
         /\ \A i \in JobIds : InTurn(supplierJob'[i])
         /\ \A i \in JobIds \ {j} : supplierJob'[i] = supplierJob[i]
         /\ supplierJob'[j] = row
         /\ \A w \in Workers :
               worker'[w] = worker[w] /\ lease'.token = lease.token
               => WorkerInStep(w)'
         /\ \A i \in JobIds :
               /\ collector'[i] = collector[i]
               /\ i = j => \/ collector[i] = "none"
                          \/ row.status = "cancel_requested"
               => CollectorInStep(i)'
<1>1. /\ supplierJob' \in [JobIds -> SupplierJob]
      /\ supplierJob'[j] = row
      /\ \A i \in JobIds \ {j} : supplierJob'[i] = supplierJob[i]
  BY DEF SupplierInv, SupplierTypeOK
<1>2. ASSUME NEW w \in Workers, worker'[w] = worker[w],
             lease'.token = lease.token
      PROVE  WorkerInStep(w)'
  BY <1>1, <1>2 DEF SupplierInv, WorkerInStep, Status, Kind, Owns
<1>3. ASSUME NEW i \in JobIds, collector'[i] = collector[i],
             i = j => collector[i] = "none" \/ row.status = "cancel_requested"
      PROVE  CollectorInStep(i)'
  <2>1. CASE i # j
    BY <1>1, <1>3, <2>1 DEF SupplierInv, CollectorInStep, Status, Kind
  <2>2. CASE i = j
    BY <1>1, <1>3, <2>2 DEF SupplierInv, CollectorInStep, Status, Kind
  <2> QED BY <2>1, <2>2
<1> QED BY <1>1, <1>2, <1>3 DEF SupplierInv

LEMMA OnlyRowChanged ==
  ASSUME SupplierInv, NEW j \in JobIds, NEW row \in SupplierJob,
         supplierJob' = [supplierJob EXCEPT ![j] = row],
         InTurn(row), row.status # "none",
         \/ Status(j) = "none"
         \/ row.kind = Kind(j) /\ row.rows = supplierJob[j].rows,
         collector[j] = "none" \/ row.status = "cancel_requested",
         UNCHANGED <<allowed, lease, worker, collector, night, stops, lapses>>
  PROVE  SupplierInv'
<1>1. supplierJob' \in [JobIds -> SupplierJob]
  BY OneRowChanged
<1>2. \A i \in JobIds : InTurn(supplierJob'[i]) /\ CollectorInStep(i)'
  BY OneRowChanged
<1>3. \A w \in Workers : WorkerInStep(w)'
  BY OneRowChanged
<1> QED BY <1>1, <1>2, <1>3 DEF SupplierInv, SupplierTypeOK

LEMMA StatusInTurn ==
  ASSUME NEW job \in SupplierJob, InTurn(job),
         NEW status \in Active \cup Ended,
         /\ status \in {"completed", "completed_with_errors"}
         /\ job.kind \in {"rows", "live"}
         => Len(job.done) = job.total
  PROVE  LET row == [job EXCEPT !.status = status] IN
         /\ row \in SupplierJob /\ InTurn(row)
         /\ row.status = status /\ row.kind = job.kind /\ row.rows = job.rows
  BY DEF SupplierJob, InTurn

LEMMA StaffSteps ==
  ASSUME SupplierInv, NEW j \in JobIds, NEW s \in Suppliers,
         QueueJob(j, s) \/ Cancel(j) \/ ChangeAccess(s)
  PROVE  SupplierInv'
<1>1. CASE QueueJob(j, s)
  <2>1. PICK kind \in {"rows", "live", "screen"}, total \in 0..MaxRows :
           supplierJob' = [supplierJob EXCEPT ![j] = NewJob(kind, s, total)]
    BY <1>1, SupplierAssumption DEF QueueJob
  <2>2. Status(j) = "none" /\ collector[j] = "none"
    BY <1>1 DEF QueueJob, IsNext, SupplierInv, CollectorInStep
  <2>3. NewJob(kind, s, total).status # "none"
    BY DEF NewJob
  <2>4. UNCHANGED <<allowed, lease, worker, collector, night, stops, lapses>>
    BY <1>1 DEF QueueJob
  <2> DEFINE row == NewJob(kind, s, total)
  <2>5. row \in SupplierJob /\ InTurn(row) /\ row.status # "none"
    BY <2>3, NewJobInTurn
  <2> HIDE DEF row
  <2>6. supplierJob' = [supplierJob EXCEPT ![j] = row]
    BY <2>1 DEF row
  <2> QED
    BY <2>2, <2>4, <2>5, <2>6, OnlyRowChanged
<1>2. CASE Cancel(j)
  <2> DEFINE row == [supplierJob[j] EXCEPT !.status = "cancel_requested"]
  <2>1. supplierJob' = [supplierJob EXCEPT ![j] = row]
    BY <1>2 DEF Cancel, Finished
  <2>2. row \in SupplierJob /\ InTurn(row) /\ row.status = "cancel_requested"
        /\ row.kind = Kind(j) /\ row.rows = supplierJob[j].rows
    <3>1. supplierJob[j] \in SupplierJob /\ InTurn(supplierJob[j])
      BY DEF SupplierInv, SupplierTypeOK
    <3> QED BY <3>1, StatusInTurn DEF Active, Kind
  <2> HIDE DEF row
  <2>3. UNCHANGED <<allowed, lease, worker, collector, night, stops, lapses>>
    BY <1>2 DEF Cancel
  <2>4. Status(j) # "none"
    BY <1>2 DEF Cancel, Cancellable, IsActive, Active
  <2> QED
    BY <2>1, <2>2, <2>3, <2>4, OnlyRowChanged
<1>3. CASE ChangeAccess(s)
  BY <1>3
  DEF ChangeAccess, SupplierInv, SupplierTypeOK, CollectorInStep, WorkerInStep,
      Status, Kind, Owns
<1> QED BY <1>1, <1>2, <1>3

(* The launch of a collector and what it does with the job.                 *)
LEMMA CollectorSteps ==
  ASSUME SupplierInv, NEW j \in JobIds, NEW s \in Suppliers,
         Launch(j, s) \/ LaunchFails(j) \/ Collect(j) \/ StopCollector(j)
  PROVE  SupplierInv'
<1>0. /\ supplierJob[j] \in SupplierJob /\ InTurn(supplierJob[j])
      /\ CollectorInStep(j)
      /\ collector \in [JobIds -> {"none", "launched", "accepted", "running"}]
  BY DEF SupplierInv, SupplierTypeOK
<1>1. ASSUME NEW row \in SupplierJob, InTurn(row),
             NEW at \in {"none", "launched", "accepted", "running"},
             supplierJob' = [supplierJob EXCEPT ![j] = row],
             collector' = [collector EXCEPT ![j] = at],
             UNCHANGED <<allowed, lease, worker, night, stops, lapses>>,
             row.kind = "browser", row.status # "none",
             \/ Status(j) = "none"
             \/ Kind(j) = "browser" /\ row.rows = supplierJob[j].rows,
             at # "none" =>
                row.status = IF at = "running" THEN "running" ELSE "queued"
      PROVE  SupplierInv'
  <2>1. supplierJob' \in [JobIds -> SupplierJob]
    BY <1>1, OneRowChanged
  <2>2. \A i \in JobIds : InTurn(supplierJob'[i])
    BY <1>1, OneRowChanged
  <2>3. \A w \in Workers : WorkerInStep(w)'
    BY <1>1, OneRowChanged
  <2>4. \A i \in JobIds \ {j} : CollectorInStep(i)'
    <3>1. \A i \in JobIds \ {j} :
             collector'[i] = collector[i] /\ supplierJob'[i] = supplierJob[i]
      BY <1>0, <1>1, OneRowChanged
    <3> QED BY <3>1 DEF SupplierInv, CollectorInStep, Status, Kind
  <2>5. CollectorInStep(j)'
    <3>1. collector'[j] = at /\ supplierJob'[j] = row
      BY <1>0, <1>1, OneRowChanged
    <3> QED BY <1>1, <3>1 DEF CollectorInStep, Status, Kind
  <2>6. collector' \in [JobIds -> {"none", "launched", "accepted", "running"}]
    BY <1>0, <1>1
  <2> QED
    BY <1>1, <2>1, <2>2, <2>3, <2>4, <2>5, <2>6
    DEF SupplierInv, SupplierTypeOK
<1>2. CASE Launch(j, s)
  <2> DEFINE queued == NewJob("browser", s, 0)
             started == [queued EXCEPT !.status = "running"]
  <2>1. /\ queued \in SupplierJob /\ InTurn(queued)
        /\ queued.kind = "browser" /\ queued.status = "queued"
    BY NewJobInTurn, SupplierAssumption DEF NewJob
  <2>2. /\ started \in SupplierJob /\ InTurn(started)
        /\ started.kind = "browser" /\ started.status = "running"
    BY <2>1, StatusInTurn DEF Active
  <2>3. /\ Status(j) = "none"
        /\ UNCHANGED <<allowed, lease, worker, night, stops, lapses>>
        /\ \/ /\ supplierJob' = [supplierJob EXCEPT ![j] = queued]
              /\ collector' = [collector EXCEPT ![j] = "launched"]
           \/ /\ supplierJob' = [supplierJob EXCEPT ![j] = started]
              /\ collector' = [collector EXCEPT ![j] = "running"]
    BY <1>2 DEF Launch, IsNext
  <2> HIDE DEF queued, started
  <2> QED BY <1>1, <2>1, <2>2, <2>3
<1>3. ASSUME NEW status \in Active \cup Ended,
             NEW at \in {"none", "running"},
             at = "running" => status = "running",
             supplierJob' = Finished(j, status),
             collector[j] # "none",
             collector' = [collector EXCEPT ![j] = at],
             UNCHANGED <<allowed, lease, worker, night, stops, lapses>>
      PROVE  SupplierInv'
  <2> DEFINE row == [supplierJob[j] EXCEPT !.status = status]
  <2>1. Kind(j) = "browser" /\ supplierJob[j].kind = "browser"
    BY <1>0, <1>3 DEF CollectorInStep, Kind
  <2>2. /\ row \in SupplierJob /\ InTurn(row) /\ row.status = status
        /\ row.kind = "browser" /\ row.rows = supplierJob[j].rows
    BY <1>0, <2>1, StatusInTurn
  <2>3. supplierJob' = [supplierJob EXCEPT ![j] = row]
    BY <1>3 DEF Finished
  <2>4. row.status # "none"
    BY <2>2 DEF Active, Ended
  <2> HIDE DEF row
  <2> QED BY <1>1, <1>3, <2>1, <2>2, <2>3, <2>4
<1>4. CASE LaunchFails(j)
  BY <1>3, <1>4 DEF LaunchFails, Ended
<1>5. CASE MarkRunning(j)
  BY <1>3, <1>5 DEF MarkRunning, Active
<1>6. CASE EndCollection(j)
  BY <1>3, <1>6 DEF EndCollection
<1>7. ASSUME NEW at \in {"none", "accepted"},
             at = "accepted" => Status(j) = "queued" /\ Kind(j) = "browser",
             collector' = [collector EXCEPT ![j] = at], stops' \in Nat,
             UNCHANGED <<supplierJob, allowed, lease, worker, night, lapses>>
      PROVE  SupplierInv'
  <2>1. collector' \in [JobIds -> {"none", "launched", "accepted", "running"}]
    BY <1>0, <1>7
  <2>2. \A i \in JobIds : CollectorInStep(i)'
    BY <1>0, <1>7 DEF SupplierInv, CollectorInStep, Status, Kind
  <2>3. SupplierTypeOK'
    BY <1>7, <2>1 DEF SupplierInv, SupplierTypeOK
  <2>4. \A w \in Workers : WorkerInStep(w)'
    BY <1>7 DEF SupplierInv, WorkerInStep, Status, Kind, Owns
  <2> QED BY <1>7, <2>2, <2>3, <2>4 DEF SupplierInv
<1>8. CASE AcceptJob(j)
  BY <1>0, <1>7, <1>8
  DEF AcceptJob, CollectorInStep, SupplierInv, SupplierTypeOK
<1>9. CASE StopCollector(j)
  BY <1>7, <1>9 DEF StopCollector, SupplierInv, SupplierTypeOK
<1> QED BY <1>2, <1>4, <1>5, <1>6, <1>8, <1>9 DEF Collect

Working ==
    [pc : {"idle", "loop", "check", "start", "reading", "read", "refused",
           "row"},
     job : 0..MaxJobs, found : 0..MaxRows, moved : BOOLEAN]

LEMMA LeaseKept ==
  ASSUME SupplierInv, NEW w \in Workers
  PROVE  /\ Released(w) \in [token : Workers \cup {NoWorker}, lapsed : BOOLEAN]
         /\ Renewed(w) \in [token : Workers \cup {NoWorker}, lapsed : BOOLEAN]
         /\ Renewed(w).token = lease.token
         /\ Released(w).token \in {NoWorker, lease.token}
<1>1. lease \in [token : Workers \cup {NoWorker}, lapsed : BOOLEAN]
  BY DEF SupplierInv, SupplierTypeOK
<1>2. CASE Owns(w)
  BY <1>1, <1>2 DEF Released, Renewed
<1>3. CASE ~Owns(w)
  BY <1>1, <1>3 DEF Released, Renewed
<1> QED BY <1>2, <1>3

LEMMA LeaseSteps ==
  ASSUME SupplierInv,
         \/ LapseLease
         \/ FallDue
         \/ \E w \in Workers : \/ StartRun(w) \/ EndRun(w) \/ StopWorker(w)
                               \/ \E j \in JobIds : PickJob(w, j)
  PROVE  SupplierInv'
<1>1. ASSUME UNCHANGED <<supplierJob, collector>>,
             SupplierTypeOK', \A w \in Workers : WorkerInStep(w)'
      PROVE  SupplierInv'
  BY <1>1 DEF SupplierInv, CollectorInStep, Status, Kind
<1>2. CASE LapseLease \/ FallDue
  <2>1. SupplierTypeOK'
    <3>1. CASE LapseLease
      <4>1. lease' \in [token : Workers \cup {NoWorker}, lapsed : BOOLEAN]
        BY <3>1 DEF LapseLease, SupplierInv, SupplierTypeOK
      <4>2. lapses' \in Nat
        BY <3>1 DEF LapseLease, SupplierInv, SupplierTypeOK
      <4> QED
        BY <3>1, <4>1, <4>2 DEF LapseLease, SupplierInv, SupplierTypeOK
    <3>2. CASE FallDue
      BY <3>2 DEF FallDue, SupplierInv, SupplierTypeOK
    <3> QED BY <1>2, <3>1, <3>2
  <2>2. /\ UNCHANGED <<supplierJob, collector, worker>>
        /\ lease'.token = lease.token
    BY <1>2 DEF LapseLease, FallDue, SupplierInv, SupplierTypeOK
  <2>3. \A w \in Workers : WorkerInStep(w)'
    BY <2>2 DEF SupplierInv, WorkerInStep, Status, Kind, Owns
  <2> QED BY <1>1, <2>1, <2>2, <2>3
<1>3. ASSUME NEW w \in Workers, StartRun(w) \/ EndRun(w) \/ StopWorker(w)
      PROVE  SupplierInv'
  <2>1. /\ UNCHANGED <<supplierJob, collector, allowed, night, lapses>>
        /\ stops' \in Nat
        /\ worker' \in {[worker EXCEPT ![w] = Resting],
                       [worker EXCEPT ![w] = [Resting EXCEPT !.pc = "loop"]]}
    <3>1. CASE StartRun(w)
      BY <3>1 DEF StartRun, SupplierInv, SupplierTypeOK
    <3>2. CASE EndRun(w)
      BY <3>2 DEF EndRun, Leave, SupplierInv, SupplierTypeOK
    <3>3. CASE StopWorker(w)
      BY <3>3 DEF StopWorker, Leave, SupplierInv, SupplierTypeOK
    <3> QED BY <1>3, <3>1, <3>2, <3>3
  <2>2. /\ lease' \in [token : Workers \cup {NoWorker}, lapsed : BOOLEAN]
        /\ lease'.token \in {w, NoWorker, lease.token}
    <3>1. CASE StartRun(w)
      BY <3>1 DEF StartRun
    <3>2. CASE EndRun(w)
      BY <3>2, LeaseKept DEF EndRun
    <3>3. CASE StopWorker(w)
      BY <3>3, LeaseKept DEF StopWorker, SupplierInv, SupplierTypeOK
    <3> QED BY <1>3, <3>1, <3>2, <3>3
  <2>3. /\ worker'[w].pc \in {"idle", "loop"}
        /\ \A v \in Workers \ {w} : worker'[v] = worker[v]
        /\ worker' \in [Workers -> Working]
    <3>1. /\ Resting \in Working /\ Resting.pc = "idle"
          /\ [Resting EXCEPT !.pc = "loop"] \in Working
          /\ [Resting EXCEPT !.pc = "loop"].pc = "loop"
      <4>1. Resting \in Working /\ Resting.pc = "idle"
        BY SupplierAssumption DEF Resting, Working
      <4> QED BY <4>1 DEF Working
    <3>2. worker \in [Workers -> Working]
      BY DEF Working, SupplierInv, SupplierTypeOK
    <3> QED BY <2>1, <3>1, <3>2
  <2>4. \A v \in Workers : WorkerInStep(v)'
    <3>1. \A v \in Workers \ {w} : lease'.token = v => lease.token = v
      BY <2>2, SupplierAssumption
    <3> QED
      BY <2>1, <2>3, <3>1 DEF SupplierInv, WorkerInStep, Status, Kind, Owns
  <2>5. SupplierTypeOK'
    BY <2>1, <2>2, <2>3 DEF Working, SupplierInv, SupplierTypeOK
  <2> QED BY <1>1, <2>1, <2>4, <2>5
<1>4. ASSUME NEW w \in Workers, NEW j \in JobIds, PickJob(w, j)
      PROVE  SupplierInv'
  <2>1. /\ UNCHANGED <<supplierJob, allowed, lease, collector, night, stops,
                       lapses>>
        /\ Waiting(j)
        /\ worker' = [worker EXCEPT
                        ![w].job = j,
                        ![w].pc = IF supplierJob[j].rows = 0
                                  THEN "check" ELSE "row"]
    BY <1>4 DEF PickJob
  <2>2. /\ worker'[w].job = j
        /\ worker'[w].pc = IF supplierJob[j].rows = 0 THEN "check" ELSE "row"
        /\ \A v \in Workers \ {w} : worker'[v] = worker[v]
        /\ worker' \in [Workers -> Working]
    <3> DEFINE pc == IF supplierJob[j].rows = 0 THEN "check" ELSE "row"
               at == [worker[w] EXCEPT !.job = j, !.pc = pc]
    <3>1. worker \in [Workers -> Working] /\ worker[w] \in Working
      BY DEF Working, SupplierInv, SupplierTypeOK
    <3>2. pc \in {"check", "row"} /\ j \in 0..MaxJobs
      BY SupplierAssumption DEF JobIds
    <3>3. worker' = [worker EXCEPT ![w] = at]
      BY <2>1, <3>1
    <3> HIDE DEF pc
    <3>4. at \in Working /\ at.job = j /\ at.pc = pc
      BY <3>1, <3>2 DEF Working
    <3> QED BY <3>1, <3>3, <3>4 DEF pc
  <2>3. SupplierTypeOK'
    BY <2>1, <2>2 DEF Working, SupplierInv, SupplierTypeOK
  <2>4. \A v \in Workers : WorkerInStep(v)'
    BY <2>1, <2>2
    DEF SupplierInv, WorkerInStep, Status, Kind, Owns, Waiting, IsActive,
        Active
  <2> QED BY <1>1, <2>1, <2>3, <2>4
<1> QED BY <1>2, <1>3, <1>4

(* The nightly check queues new jobs only.                                  *)
LEMMA NightlySteps ==
  ASSUME SupplierInv, NEW w \in Workers, Nightly(w)
  PROVE  SupplierInv'
<1> DEFINE S == Refreshed
<1>1. /\ UNCHANGED <<allowed, lease, worker, collector, stops, lapses>>
      /\ night' \in [due : BOOLEAN, count : Nat]
      /\ S \subseteq Suppliers
  BY SupplierAssumption DEF Nightly, SupplierInv, SupplierTypeOK, Refreshed
<1>2. PICK at \in [S -> {j \in JobIds : Status(j) = "none"}] :
         supplierJob' =
            [j \in JobIds |->
               IF \E s \in S : at[s] = j
               THEN NewJob("live", CHOOSE s \in S : at[s] = j, 0)
               ELSE supplierJob[j]]
  BY DEF Nightly, QueueUpdates
<1> HIDE DEF S
<1>3. ASSUME NEW j \in JobIds
      PROVE  /\ supplierJob'[j] \in SupplierJob /\ InTurn(supplierJob'[j])
             /\ Status(j) # "none" => supplierJob'[j] = supplierJob[j]
  <2>1. CASE \E s \in S : at[s] = j
    <3>1. (CHOOSE s \in S : at[s] = j) \in Suppliers
      BY <1>1, <2>1
    <3>2. Status(j) = "none"
      BY <2>1
    <3>3. supplierJob'[j] = NewJob("live", CHOOSE s \in S : at[s] = j, 0)
      BY <1>2, <2>1
    <3> QED BY <3>1, <3>2, <3>3, NewJobInTurn, SupplierAssumption
  <2>2. CASE ~\E s \in S : at[s] = j
    BY <1>2, <2>2 DEF SupplierInv, SupplierTypeOK
  <2> QED BY <2>1, <2>2
<1>4. supplierJob' \in [JobIds -> SupplierJob]
  BY <1>2, <1>3
<1>5. SupplierTypeOK'
  BY <1>1, <1>4 DEF SupplierInv, SupplierTypeOK
<1>6. \A j \in JobIds : CollectorInStep(j)'
  BY <1>1, <1>3 DEF SupplierInv, CollectorInStep, Status, Kind
<1>7. \A v \in Workers : WorkerInStep(v)'
  BY <1>1, <1>3 DEF SupplierInv, WorkerInStep, Status, Kind, Owns
<1> QED BY <1>3, <1>5, <1>6, <1>7 DEF SupplierInv

(* A worker that is at a job changes that job's row only, and brings new    *)
(* rows only while it holds the lease.                                      *)
LEMMA WorkerMoves ==
  ASSUME SupplierInv, NEW w \in Workers, worker[w].pc \notin {"idle", "loop"},
         NEW row \in SupplierJob, NEW at \in Working,
         supplierJob' = [supplierJob EXCEPT ![worker[w].job] = row],
         worker' = [worker EXCEPT ![w] = at],
         lease' \in [token : Workers \cup {NoWorker}, lapsed : BOOLEAN],
         lease'.token = lease.token,
         UNCHANGED <<allowed, collector, night, stops, lapses>>,
         InTurn(row), row.status # "none", row.kind # "browser",
         \/ row.rows = supplierJob[worker[w].job].rows
         \/ Owns(w) /\ row.rows # 0,
         at.pc \notin {"idle", "loop"} =>
            /\ at.job = worker[w].job
            /\ IF at.pc = "row" THEN row.rows # 0
               ELSE Owns(w) => row.rows = 0
  PROVE  SupplierInv'
<1> DEFINE j == worker[w].job
<1>1. /\ j \in JobIds /\ Status(j) # "none" /\ Kind(j) # "browser"
      /\ supplierJob \in [JobIds -> SupplierJob]
      /\ worker \in [Workers -> Working]
  BY DEF SupplierInv, SupplierTypeOK, WorkerInStep, Working
<1>2. /\ supplierJob' \in [JobIds -> SupplierJob]
      /\ supplierJob'[j] = row
      /\ \A i \in JobIds \ {j} : supplierJob'[i] = supplierJob[i]
      /\ worker' \in [Workers -> Working]
      /\ worker'[w] = at
      /\ \A v \in Workers \ {w} : worker'[v] = worker[v]
  BY <1>1
<1>3. SupplierTypeOK'
  BY <1>2 DEF SupplierInv, SupplierTypeOK, Working
<1>4. \A i \in JobIds : InTurn(supplierJob'[i])
  BY <1>2 DEF SupplierInv
<1>5. ASSUME NEW i \in JobIds PROVE CollectorInStep(i)'
  <2>1. CASE i = j
    BY <1>1, <2>1 DEF SupplierInv, CollectorInStep
  <2>2. CASE i # j
    BY <1>2, <2>2 DEF SupplierInv, CollectorInStep, Status, Kind
  <2> QED BY <2>1, <2>2
<1>6. ASSUME NEW v \in Workers PROVE WorkerInStep(v)'
  <2>1. CASE v = w
    BY <1>1, <1>2, <2>1 DEF WorkerInStep, Status, Kind, Owns
  <2>2. CASE v # w
    <3>1. worker'[v] = worker[v] /\ WorkerInStep(v)
      BY <1>2, <2>2 DEF SupplierInv
    <3>2. CASE worker[v].job = j
      BY <1>2, <2>2, <3>1, <3>2 DEF WorkerInStep, Status, Kind, Owns
    <3>3. CASE worker[v].job # j
      BY <1>2, <2>2, <3>1, <3>3 DEF WorkerInStep, Status, Kind, Owns
    <3> QED BY <3>2, <3>3
  <2> QED BY <2>1, <2>2
<1> QED BY <1>3, <1>4, <1>5, <1>6 DEF SupplierInv

LEMMA ReadingSteps ==
  ASSUME SupplierInv, NEW w \in Workers,
         CheckAccess(w) \/ StartReading(w) \/ EndReading(w)
  PROVE  SupplierInv'
<1> DEFINE j == worker[w].job
           job == supplierJob[j]
<1>1. /\ worker[w].pc \in {"check", "start", "reading"}
      /\ UNCHANGED <<allowed, collector, night, stops, lapses>>
  BY DEF CheckAccess, StartReading, EndReading
<1>2. /\ j \in JobIds /\ job.status # "none" /\ job.kind # "browser"
      /\ job \in SupplierJob /\ InTurn(job)
      /\ Owns(w) => job.rows = 0
      /\ supplierJob = [supplierJob EXCEPT ![j] = job]
      /\ worker \in [Workers -> Working] /\ worker[w] \in Working
  BY <1>1
  DEF SupplierInv, SupplierTypeOK, WorkerInStep, Working, Status, Kind
<1>3. ASSUME NEW pc \in {"start", "reading", "read", "refused"},
             NEW found \in 0..MaxRows
      PROVE  LET at == [worker[w] EXCEPT !.pc = pc, !.found = found] IN
             /\ at \in Working /\ at.pc = pc /\ at.job = j
             /\ [worker EXCEPT ![w].pc = pc, ![w].found = found]
                   = [worker EXCEPT ![w] = at]
  BY <1>2 DEF Working
<1>4. ASSUME NEW pc \in {"start", "reading", "read", "refused"}
      PROVE  LET at == [worker[w] EXCEPT !.pc = pc] IN
             /\ at \in Working /\ at.pc = pc /\ at.job = j
             /\ [worker EXCEPT ![w].pc = pc] = [worker EXCEPT ![w] = at]
  BY <1>2 DEF Working
<1>5. /\ lease \in [token : Workers \cup {NoWorker}, lapsed : BOOLEAN]
      /\ Renewed(w) \in [token : Workers \cup {NoWorker}, lapsed : BOOLEAN]
      /\ Renewed(w).token = lease.token
  BY LeaseKept DEF SupplierInv, SupplierTypeOK
<1>6. CASE CheckAccess(w)
  <2>1. PICK pc \in {"start", "refused"} :
           worker' = [worker EXCEPT ![w].pc = pc]
    BY <1>6 DEF CheckAccess, Go
  <2>2. supplierJob' = supplierJob /\ lease' = Renewed(w)
    BY <1>6 DEF CheckAccess
  <2> DEFINE at == [worker[w] EXCEPT !.pc = pc]
  <2>3. at \in Working /\ at.pc = pc /\ at.job = j
        /\ worker' = [worker EXCEPT ![w] = at]
    BY <1>4, <2>1
  <2> HIDE DEF at, job, j
  <2> QED BY <1>1, <1>2, <1>5, <2>1, <2>2, <2>3, WorkerMoves,
     ZenonT(40) DEF j, job
<1>7. CASE StartReading(w)
  <2> DEFINE row == IF Starts(j)
                    THEN [job EXCEPT !.status = "running"] ELSE job
             at == [worker[w] EXCEPT !.pc = "reading"]
  <2>1. /\ supplierJob' = [supplierJob EXCEPT ![j] = row]
        /\ lease' = lease
    BY <1>2, <1>7 DEF StartReading, Finished
  <2>2. /\ row \in SupplierJob /\ InTurn(row) /\ row.status # "none"
        /\ row.kind = job.kind /\ row.rows = job.rows
    BY <1>2, StatusInTurn DEF Active
  <2>3. at \in Working /\ at.pc = "reading" /\ at.job = j
        /\ worker' = [worker EXCEPT ![w] = at]
    BY <1>4, <1>7 DEF StartReading, Go
  <2> HIDE DEF row, at
  <2> QED BY <1>1, <1>2, <1>5, <2>1, <2>2, <2>3, WorkerMoves
<1>8. CASE EndReading(w)
  <2>1. PICK at \in Working :
           /\ at.pc \in {"read", "refused"} /\ at.job = j
           /\ worker' = [worker EXCEPT ![w] = at]
    <3>1. CASE worker' = [worker EXCEPT ![w].pc = "refused"]
      BY <1>4, <3>1
    <3>2. CASE \E n \in 0..MaxRows :
                  worker' = [worker EXCEPT ![w].pc = "read", ![w].found = n]
      <4>1. PICK n \in 0..MaxRows :
               worker' = [worker EXCEPT ![w].pc = "read", ![w].found = n]
        BY <3>2
      <4> QED BY <1>3, <4>1, ZenonT(40)
    <3> QED BY <1>8, <3>1, <3>2 DEF EndReading, Go
  <2>2. supplierJob' = supplierJob /\ lease' = Renewed(w)
    BY <1>8 DEF EndReading
  <2> QED BY <1>1, <1>2, <1>5, <2>1, <2>2, WorkerMoves
<1> QED BY <1>6, <1>7, <1>8

LEMMA RowsCommitted ==
  ASSUME NEW job \in SupplierJob, job.rows = 0, InTurn(job),
         job.status \in {"queued", "running"},
         NEW n \in 0..MaxRows, NEW errors \in BOOLEAN
  PROVE  LET read == WithRows(job, n, errors)
             ended == [read EXCEPT !.status = EndStatus(read)] IN
         /\ read \in SupplierJob /\ InTurn(read)
         /\ read.kind = job.kind /\ read.status = job.status /\ read.rows = 1
         /\ n = 0 => /\ ended \in SupplierJob /\ InTurn(ended)
                     /\ ended.kind = job.kind /\ ended.rows = 1
                     /\ ended.status \in Ended
<1> DEFINE read == WithRows(job, n, errors)
<1>1. /\ read \in SupplierJob /\ read.kind = job.kind
      /\ read.status = job.status /\ read.rows = 1 /\ read.total = n
      /\ read.done = <<>>
  <2>1. job.rows + 1 = 1 /\ job.done = <<>>
    BY DEF InTurn
  <2> DEFINE row == [job EXCEPT !.rows = 1, !.total = n, !.failed = errors]
  <2>2. /\ row \in SupplierJob /\ row.kind = job.kind
        /\ row.status = job.status /\ row.rows = 1 /\ row.total = n
        /\ row.done = job.done
    BY DEF SupplierJob
  <2>3. read = row
    BY <2>1 DEF WithRows
  <2> HIDE DEF row, read
  <2> QED BY <2>1, <2>2, <2>3, Zenon
<1>2. InTurn(read)
  BY <1>1, NothingDone DEF InTurn
<1> HIDE DEF read
<1>3. EndStatus(read) \in {"completed", "completed_with_errors"}
  BY DEF EndStatus
<1>4. CASE n = 0
  BY <1>1, <1>2, <1>3, <1>4, StatusInTurn DEF read, Ended
<1> QED BY <1>1, <1>2, <1>4 DEF read

LEMMA RowDone ==
  ASSUME NEW j \in JobIds, supplierJob[j] \in SupplierJob,
         InTurn(supplierJob[j]), supplierJob[j].rows # 0,
         supplierJob[j].status \in Active, NEW error \in BOOLEAN
  PROVE  LET row == AfterRow(j, error) IN
         /\ row \in SupplierJob /\ InTurn(row)
         /\ row.kind = supplierJob[j].kind /\ row.rows = supplierJob[j].rows
         /\ row.status # "none"
<1> DEFINE job == supplierJob[j]
           done == Append(job.done, <<job.rows, Len(job.done) + 1>>)
           next == [job EXCEPT !.status = "running",
                               !.failed = @ \/ error,
                               !.done = Append(@, <<job.rows, Len(@) + 1>>)]
<1>1. job.rows \in Nat /\ job.done \in Seq(Nat \X Nat)
      /\ Prefix(job.rows, job.done)
  BY DEF SupplierJob, InTurn
<1>2. done \in Seq(Nat \X Nat) /\ Prefix(job.rows, done)
  BY <1>1, NextInPrefix
<1> HIDE DEF done
<1>3. next = [job EXCEPT !.status = "running", !.failed = @ \/ error,
                         !.done = done]
  BY DEF done
<1>4. /\ next \in SupplierJob /\ next.kind = job.kind
      /\ next.rows = job.rows /\ next.done = done
      /\ next.status = "running" /\ next.total = job.total
  BY <1>2, <1>3 DEF SupplierJob, Active
<1> HIDE DEF next
<1>5. InTurn(next)
  BY <1>2, <1>4 DEF InTurn
<1>6. EndStatus(next) \in {"completed", "completed_with_errors"}
  BY DEF EndStatus
<1>7. AfterRow(j, error) = IF Len(next.done) = job.total
                           THEN [next EXCEPT !.status = EndStatus(next)]
                           ELSE next
  BY DEF AfterRow, next
<1>8. CASE Len(next.done) = job.total
  BY <1>4, <1>5, <1>6, <1>7, <1>8, StatusInTurn DEF Ended
<1>9. CASE Len(next.done) # job.total
  BY <1>4, <1>5, <1>7, <1>9
<1> QED BY <1>8, <1>9

LEMMA RowSteps ==
  ASSUME SupplierInv, NEW w \in Workers, CommitRows(w) \/ ProcessRow(w)
  PROVE  SupplierInv'
<1> DEFINE j == worker[w].job
           job == supplierJob[j]
<1>1. /\ worker[w].pc \in {"read", "refused", "row"}
      /\ UNCHANGED <<allowed, collector, night, stops, lapses>>
  BY DEF CommitRows, ProcessRow
<1>2. /\ j \in JobIds /\ job.status # "none" /\ job.kind # "browser"
      /\ job \in SupplierJob /\ InTurn(job)
      /\ IF worker[w].pc = "row" THEN job.rows # 0
         ELSE Owns(w) => job.rows = 0
      /\ supplierJob = [supplierJob EXCEPT ![j] = job]
      /\ worker \in [Workers -> Working] /\ worker[w] \in Working
  BY <1>1
  DEF SupplierInv, SupplierTypeOK, WorkerInStep, Working, Status, Kind
<1>3. /\ lease \in [token : Workers \cup {NoWorker}, lapsed : BOOLEAN]
      /\ Renewed(w) \in [token : Workers \cup {NoWorker}, lapsed : BOOLEAN]
      /\ Renewed(w).token = lease.token
  BY LeaseKept DEF SupplierInv, SupplierTypeOK
<1>4. ASSUME NEW row \in SupplierJob, NEW at \in Working,
             supplierJob' = [supplierJob EXCEPT ![j] = row],
             worker' = [worker EXCEPT ![w] = at],
             lease' \in {lease, Renewed(w)},
             InTurn(row), row.status # "none", row.kind = job.kind,
             \/ row.rows = job.rows
             \/ Owns(w) /\ row.rows # 0,
             \/ at.pc \in {"idle", "loop"}
             \/ at.pc = "row" /\ at.job = j /\ row.rows # 0
      PROVE  SupplierInv'
  BY <1>1, <1>2, <1>3, <1>4, WorkerMoves
<1>5. ASSUME NEW pc \in {"loop", "row"}, Go(w, pc)
      PROVE  \E at \in Working : /\ worker' = [worker EXCEPT ![w] = at]
                                 /\ at.pc = pc /\ at.job = j
  <2> DEFINE at == [worker[w] EXCEPT !.pc = pc]
  <2>1. at \in Working /\ at.pc = pc /\ at.job = j
    BY <1>2 DEF Working
  <2>2. worker' = [worker EXCEPT ![w] = at]
    BY <1>2, <1>5 DEF Go
  <2> HIDE DEF at
  <2> QED BY <2>1, <2>2
<1>6. CASE Leave(w) /\ UNCHANGED <<supplierJob, lease>>
  <2>1. Resting \in Working /\ Resting.pc = "idle"
    BY SupplierAssumption DEF Resting, Working
  <2> QED BY <1>2, <1>4, <1>6, <2>1 DEF Leave
<1>7. ASSUME NEW status \in Ended,
             supplierJob' = Finished(j, status),
             status \in {"completed", "completed_with_errors"}
                => job.kind \notin {"rows", "live"},
             Go(w, "loop"), UNCHANGED lease
      PROVE  SupplierInv'
  <2> DEFINE row == [job EXCEPT !.status = status]
  <2>1. /\ row \in SupplierJob /\ InTurn(row) /\ row.status = status
        /\ row.kind = job.kind /\ row.rows = job.rows
    <3>1. job \in SupplierJob /\ InTurn(job)
      BY <1>2
    <3>2. /\ status \in Active \cup Ended
          /\ status \in {"completed", "completed_with_errors"}
                => job.kind \notin {"rows", "live"}
      BY <1>7
    <3> HIDE DEF job
    <3> QED BY <3>1, <3>2, StatusInTurn
  <2>2. supplierJob' = [supplierJob EXCEPT ![j] = row] /\ row.status # "none"
    BY <1>7, <2>1 DEF Finished, Ended
  <2> HIDE DEF row
  <2> QED BY <1>4, <1>5, <1>7, <2>1, <2>2
<1>8. CASE UNCHANGED <<supplierJob, lease>> /\ Go(w, "loop")
  BY <1>2, <1>4, <1>5, <1>8
<1>9. CASE CommitRows(w)
  <2>1. ASSUME Owns(w), Status(j) \in {"queued", "running"}, lease' = lease,
               NEW n \in 0..MaxRows, NEW errors \in BOOLEAN,
               LET read == WithRows(job, n, errors) IN
               supplierJob' = [supplierJob EXCEPT
                                 ![j] = IF n = 0
                                        THEN [read EXCEPT
                                                !.status = EndStatus(read)]
                                        ELSE read],
               Go(w, IF n = 0 THEN "loop" ELSE "row")
        PROVE  SupplierInv'
    <3> DEFINE read == WithRows(job, n, errors)
               ended == [read EXCEPT !.status = EndStatus(read)]
    <3>1. job.rows = 0
      BY <1>1, <1>2, <1>9, <2>1 DEF CommitRows
    <3>2. /\ read \in SupplierJob /\ InTurn(read)
          /\ read.kind = job.kind /\ read.status # "none" /\ read.rows = 1
          /\ n = 0 => /\ ended \in SupplierJob /\ InTurn(ended)
                      /\ ended.kind = job.kind /\ ended.rows = 1
                      /\ ended.status # "none"
      BY <1>2, <2>1, <3>1, RowsCommitted DEF Status, Ended
    <3> HIDE DEF read, ended
    <3>3. CASE n = 0
      <4>1. supplierJob' = [supplierJob EXCEPT ![j] = ended]
        BY <2>1, <3>3 DEF read, ended
      <4>2. PICK at \in Working : /\ worker' = [worker EXCEPT ![w] = at]
                                 /\ at.pc = "loop" /\ at.job = j
        BY <1>5, <2>1, <3>3
      <4>3. /\ ended \in SupplierJob /\ InTurn(ended) /\ ended.status # "none"
            /\ ended.kind = job.kind /\ ended.rows # 0
        BY <3>2, <3>3
      <4>4. Owns(w) /\ lease' \in {lease, Renewed(w)}
        BY <2>1
      <4> QED BY <1>4, <4>1, <4>2, <4>3, <4>4
    <3>4. CASE n # 0
      <4>1. supplierJob' = [supplierJob EXCEPT ![j] = read]
        BY <2>1, <3>4 DEF read
      <4>2. PICK at \in Working : /\ worker' = [worker EXCEPT ![w] = at]
                                 /\ at.pc = "row" /\ at.job = j
        BY <1>5, <2>1, <3>4
      <4>3. /\ read \in SupplierJob /\ InTurn(read) /\ read.status # "none"
            /\ read.kind = job.kind /\ read.rows # 0
        BY <3>2
      <4>4. Owns(w) /\ lease' \in {lease, Renewed(w)}
        BY <2>1
      <4> QED BY <1>4, <4>1, <4>2, <4>3, <4>4
    <3> QED BY <3>3, <3>4
  <2>2. worker[w].found \in 0..MaxRows /\ lease' = lease
    BY <1>2, <1>9 DEF Working, CommitRows
  <2>3. CASE ~Fenced(w)
    BY <1>6, <1>9, <2>2, <2>3 DEF CommitRows
  <2>4. CASE Fenced(w)
    BY <1>7, <1>8, <1>9, <2>1, <2>2, <2>4 DEF CommitRows, Fenced, Ended
  <2> QED BY <2>3, <2>4
<1>10. CASE ProcessRow(w)
  <2>1. worker[w].pc = "row"
    BY <1>10 DEF ProcessRow
  <2>2. CASE ~Fenced(w)
    BY <1>6, <1>10, <2>2 DEF ProcessRow
  <2>3. CASE ~IsActive(j) \/ CancelSeen(j) \/ ~Allowed(j)
    BY <1>6, <1>7, <1>8, <1>10, <2>3 DEF ProcessRow, Ended
  <2>4. CASE /\ Kind(j) = "screen" /\ UNCHANGED lease
             /\ supplierJob' = Finished(j, "completed_with_errors")
             /\ Go(w, "loop")
    BY <1>7, <2>4 DEF Ended, Kind
  <2>5. ASSUME IsActive(j), NEW error \in BOOLEAN,
               supplierJob' = [supplierJob EXCEPT ![j] = AfterRow(j, error)],
               worker' = [worker EXCEPT ![w].pc = "loop", ![w].moved = TRUE],
               lease' = Renewed(w)
        PROVE  SupplierInv'
    <3> DEFINE at == [worker[w] EXCEPT !.pc = "loop", !.moved = TRUE]
    <3>1. /\ at \in Working /\ at.pc = "loop"
          /\ worker' = [worker EXCEPT ![w] = at]
      BY <1>2, <2>5 DEF Working
    <3>2. LET row == AfterRow(j, error) IN
          /\ row \in SupplierJob /\ InTurn(row) /\ row.status # "none"
          /\ row.kind = job.kind /\ row.rows = job.rows
      BY <1>2, <2>1, <2>5, RowDone DEF IsActive, Status
    <3> HIDE DEF at
    <3> QED BY <1>4, <2>5, <3>1, <3>2
  <2> QED BY <1>10, <2>2, <2>3, <2>4, <2>5 DEF ProcessRow
<1> QED BY <1>9, <1>10

LEMMA SupplierSteps ==
  SupplierInv /\ [SupplierNext]_supplierVars => SupplierInv'
<1> SUFFICES ASSUME SupplierInv, [SupplierNext]_supplierVars
             PROVE  SupplierInv'
  OBVIOUS
<1>1. ASSUME NEW j \in JobIds, NEW s \in Suppliers,
             QueueJob(j, s) \/ Launch(j, s)
      PROVE  SupplierInv'
  BY <1>1, StaffSteps, CollectorSteps
<1>2. ASSUME NEW j \in JobIds,
             \/ Cancel(j) \/ LaunchFails(j) \/ Collect(j) \/ StopCollector(j)
      PROVE  SupplierInv'
  <2>1. PICK s : s \in Suppliers
    BY SupplierAssumption
  <2> QED BY <1>2, <2>1, StaffSteps, CollectorSteps
<1>3. ASSUME NEW s \in Suppliers, ChangeAccess(s)
      PROVE  SupplierInv'
  BY <1>3
  DEF ChangeAccess, SupplierInv, SupplierTypeOK, CollectorInStep, WorkerInStep,
      Status, Kind, Owns
<1>4. ASSUME NEW w \in Workers, RunJobs(w) \/ Nightly(w) \/ StopWorker(w)
      PROVE  SupplierInv'
  BY <1>4, LeaseSteps, ReadingSteps, RowSteps, NightlySteps DEF RunJobs
<1>5. CASE LapseLease \/ FallDue
  BY <1>5, LeaseSteps
<1>6. CASE UNCHANGED supplierVars
  BY <1>6
  DEF supplierVars, SupplierInv, SupplierTypeOK, CollectorInStep,
      WorkerInStep, Status, Kind, Owns
<1> QED BY <1>1, <1>2, <1>3, <1>4, <1>5, <1>6 DEF SupplierNext

LEMMA SupplierAlways == SupplierSpec => []SupplierInv
  BY SupplierStarts, SupplierSteps, PTL DEF SupplierSpec

(* Every row of the supplier's answer is processed once and in order, for   *)
(* any number of suppliers, workers, jobs and rows, and any number of       *)
(* workers that stop or lose the lease.                                     *)
THEOREM RowsOnce == SupplierSpec => []EveryRowOnce
<1>1. SupplierInv => EveryRowOnce
  <2> SUFFICES ASSUME SupplierInv, NEW j \in JobIds,
                      Status(j) \in {"completed", "completed_with_errors"},
                      Kind(j) \in {"rows", "live"}
               PROVE  supplierJob[j].done =
                         [i \in 1..supplierJob[j].total |->
                            <<supplierJob[j].rows, i>>]
    BY DEF EveryRowOnce
  <2>1. /\ supplierJob[j].done \in Seq(Nat \X Nat)
        /\ Prefix(supplierJob[j].rows, supplierJob[j].done)
        /\ Len(supplierJob[j].done) = supplierJob[j].total
    BY DEF SupplierInv, SupplierTypeOK, InTurn, SupplierJob, Status, Kind
  <2> DEFINE done == supplierJob[j].done
  <2>2. DOMAIN done = 1..supplierJob[j].total
        /\ done = [i \in DOMAIN done |-> done[i]]
    BY <2>1
  <2>3. \A i \in DOMAIN done : done[i] = <<supplierJob[j].rows, i>>
    BY <2>1, <2>2 DEF Prefix
  <2> QED BY <2>2, <2>3
<1> QED BY <1>1, SupplierAlways, PTL

(* What a step may do to the row of a job: a row that is not new belongs to *)
(* an active job; only the worker ends the cancelled job of a worker, and a *)
(* collector that has marked its job only ends it.                          *)
MayChange(j, row) ==
    \/ row = supplierJob[j]
    \/ Status(j) = "none"
    \/ /\ IsActive(j)
       /\ Status(j) = "cancel_requested" /\ Kind(j) # "browser" =>
             row \in {[supplierJob[j] EXCEPT !.status = "cancel_requested"],
                      [supplierJob[j] EXCEPT !.status = "cancelled"]}
       /\ Status(j) = "cancel_requested" /\ collector[j] # "accepted" =>
             row.status \in {"cancel_requested"} \cup Ended

LEMMA RowChanges ==
  ASSUME SupplierInv, [SupplierNext]_supplierVars
  PROVE  \A j \in JobIds : MayChange(j, supplierJob'[j])
<1>0. ASSUME NEW j \in JobIds, NEW status
      PROVE  [supplierJob[j] EXCEPT !.status = status].status = status
  <2>1. supplierJob[j] \in SupplierJob
    BY DEF SupplierInv, SupplierTypeOK
  <2> QED BY <2>1 DEF SupplierJob
<1>1. CASE supplierJob' = supplierJob
  BY <1>1 DEF MayChange
<1>2. ASSUME NEW i \in JobIds, NEW row, MayChange(i, row),
             supplierJob' = [supplierJob EXCEPT ![i] = row]
      PROVE  \A j \in JobIds : MayChange(j, supplierJob'[j])
  <2>1. /\ supplierJob'[i] = row
        /\ \A j \in JobIds \ {i} : supplierJob'[j] = supplierJob[j]
    BY <1>2 DEF SupplierInv, SupplierTypeOK
  <2> QED BY <1>2, <2>1 DEF MayChange
<1>3. ASSUME NEW i \in JobIds, NEW status, supplierJob' = Finished(i, status),
             MayChange(i, [supplierJob[i] EXCEPT !.status = status])
      PROVE  \A j \in JobIds : MayChange(j, supplierJob'[j])
  BY <1>2, <1>3 DEF Finished
<1>4. ASSUME NEW j \in JobIds, NEW s \in Suppliers,
             QueueJob(j, s) \/ Launch(j, s)
      PROVE  \E row : supplierJob' = [supplierJob EXCEPT ![j] = row]
                      /\ MayChange(j, row)
  <2>1. Status(j) = "none"
    BY <1>4 DEF QueueJob, Launch, IsNext
  <2> QED BY <1>4, <2>1 DEF QueueJob, Launch, MayChange
<1>5. ASSUME NEW j \in JobIds, Cancel(j)
      PROVE  \A i \in JobIds : MayChange(i, supplierJob'[i])
  BY <1>0, <1>3, <1>5 DEF Cancel, Cancellable, MayChange
<1>6. ASSUME NEW j \in JobIds, LaunchFails(j) \/ Collect(j)
      PROVE  \A i \in JobIds : MayChange(i, supplierJob'[i])
  <2>1. collector[j] # "none"
    BY <1>6 DEF LaunchFails, Collect, AcceptJob, MarkRunning, EndCollection
  <2>2. Kind(j) = "browser" /\ IsActive(j)
    BY <2>1 DEF SupplierInv, CollectorInStep, IsActive, Active
  <2>3. ASSUME NEW status \in Ended
        PROVE  MayChange(j, [supplierJob[j] EXCEPT !.status = status])
    BY <1>0, <2>2 DEF MayChange
  <2>4. CASE LaunchFails(j) \/ EndCollection(j)
    <3>1. PICK status \in Ended : supplierJob' = Finished(j, status)
      BY <2>4 DEF LaunchFails, EndCollection, Ended
    <3> QED BY <1>3, <2>3, <3>1
  <2>5. CASE MarkRunning(j)
    <3>1. MayChange(j, [supplierJob[j] EXCEPT !.status = "running"])
      BY <2>2, <2>5 DEF MarkRunning, MayChange
    <3> QED BY <1>3, <2>5, <3>1 DEF MarkRunning
  <2>6. CASE AcceptJob(j)
    BY <1>1, <2>6 DEF AcceptJob
  <2> QED BY <1>6, <2>4, <2>5, <2>6 DEF Collect
<1>7. ASSUME NEW w \in Workers, Nightly(w)
      PROVE  \A j \in JobIds : MayChange(j, supplierJob'[j])
  <2> DEFINE S == Refreshed
  <2>1. PICK at \in [S -> {j \in JobIds : Status(j) = "none"}] :
           supplierJob' =
              [j \in JobIds |->
                 IF \E s \in S : at[s] = j
                 THEN NewJob("live", CHOOSE s \in S : at[s] = j, 0)
                 ELSE supplierJob[j]]
    BY <1>7 DEF Nightly, QueueUpdates
  <2> HIDE DEF S
  <2> QED BY <2>1 DEF MayChange
<1>8. ASSUME NEW w \in Workers, StartReading(w)
      PROVE  \A j \in JobIds : MayChange(j, supplierJob'[j])
  <2>1. worker[w].job \in JobIds
    BY <1>8 DEF StartReading, SupplierInv, WorkerInStep
  <2>2. CASE Starts(worker[w].job)
    BY <1>3, <1>8, <2>1, <2>2
    DEF StartReading, Starts, MayChange, IsActive, Active
  <2> QED BY <1>1, <1>8, <2>2 DEF StartReading
<1>9. ASSUME NEW w \in Workers, CommitRows(w)
      PROVE  \A j \in JobIds : MayChange(j, supplierJob'[j])
  <2>1. worker[w].job \in JobIds
    BY <1>9 DEF CommitRows, SupplierInv, WorkerInStep
  <2>2. CASE Status(worker[w].job) = "cancel_requested"
    <3>1. MayChange(worker[w].job,
                    [supplierJob[worker[w].job] EXCEPT !.status = "cancelled"])
      BY <1>0, <2>1, <2>2 DEF MayChange, IsActive, Active, Ended
    <3> QED
      BY <1>1, <1>3, <1>9, <2>1, <2>2, <3>1 DEF CommitRows, IsActive, Active
  <2>3. CASE Status(worker[w].job) \in {"queued", "running"}
    <3>1. \A row : MayChange(worker[w].job, row)
      BY <2>3 DEF MayChange, IsActive, Active
    <3> QED BY <1>1, <1>2, <1>3, <1>9, <2>1, <3>1 DEF CommitRows
  <2> QED BY <1>1, <1>9, <2>2, <2>3 DEF CommitRows
<1>10. ASSUME NEW w \in Workers, ProcessRow(w)
       PROVE  \A j \in JobIds : MayChange(j, supplierJob'[j])
  <2>1. worker[w].job \in JobIds
    BY <1>10 DEF ProcessRow, SupplierInv, WorkerInStep
  <2>2. CASE CancelSeen(worker[w].job)
    <3>1. MayChange(worker[w].job,
                    [supplierJob[worker[w].job] EXCEPT !.status = "cancelled"])
      BY <1>0, <2>1, <2>2 DEF CancelSeen, MayChange, IsActive, Active, Ended
    <3> QED
      BY <1>1, <1>3, <1>10, <2>1, <2>2, <3>1
      DEF ProcessRow, CancelSeen, IsActive, Active
  <2>3. CASE ~IsActive(worker[w].job)
    BY <1>1, <1>10, <2>3 DEF ProcessRow
  <2>4. CASE IsActive(worker[w].job) /\ ~CancelSeen(worker[w].job)
    <3>1. \A row : MayChange(worker[w].job, row)
      BY <2>4 DEF MayChange, CancelSeen
    <3> QED BY <1>1, <1>2, <1>3, <1>10, <2>1, <3>1 DEF ProcessRow
  <2> QED BY <2>2, <2>3, <2>4
<1>11. ASSUME NEW w \in Workers,
              \/ StartRun(w) \/ EndRun(w) \/ StopWorker(w) \/ CheckAccess(w)
              \/ EndReading(w) \/ \E j \in JobIds : PickJob(w, j)
       PROVE  supplierJob' = supplierJob
  BY <1>11
  DEF StartRun, EndRun, StopWorker, CheckAccess, EndReading, PickJob
<1>12. CASE \/ \E s \in Suppliers : ChangeAccess(s)
            \/ \E j \in JobIds : StopCollector(j)
            \/ LapseLease \/ FallDue \/ UNCHANGED supplierVars
  BY <1>1, <1>12
  DEF ChangeAccess, StopCollector, LapseLease, FallDue, supplierVars
<1> QED
  BY <1>1, <1>2, <1>4, <1>5, <1>6, <1>7, <1>8, <1>9, <1>10, <1>11, <1>12
  DEF SupplierNext, RunJobs

(* No late worker, collector, cancellation or nightly check changes a job   *)
(* that has ended or loses a cancellation, for any number of them.          *)
THEOREM StatusesAreKept == SupplierSpec => StatusesKept
<1> DEFINE Settled(j) ==
      /\ Status(j) \in Ended => supplierJob'[j] = supplierJob[j]
      /\ Status(j) = "cancel_requested" /\ Kind(j) # "browser" =>
            /\ supplierJob'[j].status \in {"cancel_requested", "cancelled"}
            /\ supplierJob'[j].done = supplierJob[j].done
      /\ Status(j) = "cancel_requested" /\ collector[j] # "accepted" =>
            supplierJob'[j].status \in {"cancel_requested"} \cup Ended
<1>1. SupplierInv /\ [SupplierNext]_supplierVars =>
        [\A j \in JobIds : Settled(j)]_supplierVars
  <2> SUFFICES ASSUME SupplierInv, [SupplierNext]_supplierVars,
                      NEW j \in JobIds
               PROVE  Settled(j)
    OBVIOUS
  <2>1. /\ supplierJob[j] \in SupplierJob
        /\ supplierJob[j].status = Status(j)
    BY DEF SupplierInv, SupplierTypeOK, Status
  <2>2. MayChange(j, supplierJob'[j])
    BY RowChanges
  <2>3. CASE Status(j) \in Ended
    BY <2>2, <2>3 DEF MayChange, IsActive, Active, Ended
  <2>4. CASE Status(j) = "cancel_requested"
    <3>1. Kind(j) # "browser" =>
            supplierJob'[j] \in
               {supplierJob[j],
                [supplierJob[j] EXCEPT !.status = "cancel_requested"],
                [supplierJob[j] EXCEPT !.status = "cancelled"]}
      BY <2>2, <2>4 DEF MayChange
    <3>2. collector[j] # "accepted" =>
            supplierJob'[j].status \in {"cancel_requested"} \cup Ended
      BY <2>1, <2>2, <2>4 DEF MayChange
    <3> QED BY <2>1, <2>4, <3>1, <3>2 DEF SupplierJob, Ended
  <2> QED BY <2>3, <2>4
<1> QED BY <1>1, SupplierAlways, PTL DEF SupplierSpec, StatusesKept

---------------------------------------------------------------------------
(* The challenge is for the latest code, which nobody has used, and its     *)
(* attempts are the wrong codes that were counted.                          *)
CodesInv ==
    /\ lastCode \in 0..MaxCodes
    /\ wrong \in [Codes -> Nat]
    /\ used \subseteq 1..lastCode
    /\ \A row \in challenge :
          /\ row \in [code : {lastCode}, attempts : {wrong[lastCode]}]
          /\ lastCode \in Codes \ used
          /\ challenge = {row}
    /\ \A c \in Codes : /\ wrong[c] <= MaxWrong
                        /\ c > lastCode => wrong[c] = 0

(* Each password that was saved, and each request about to save one, has    *)
(* used up a code of its own.                                               *)
Verified == {r \in Resets : reset[r].pc = "verified"}

EarnedInv ==
    /\ reset \in [Resets -> [pc : {"idle", "read", "verified"}, rest : Nat]]
    /\ customer \in [password : Nat, rest : Nat]
    /\ customer.password + Cardinality(Verified) <= Cardinality(used)

RecoveryInv == CodesInv /\ EarnedInv

LEMMA RecoveryStarts == RecoveryInit => RecoveryInv
<1> SUFFICES ASSUME RecoveryInit PROVE RecoveryInv
  OBVIOUS
<1>1. Verified = {}
  BY DEF RecoveryInit, Verified
<1>2. Cardinality(Verified) = 0 /\ Cardinality(used) = 0
  BY <1>1, FS_EmptySet DEF RecoveryInit
<1> QED
  BY <1>2, RecoveryAssumption
  DEF RecoveryInit, RecoveryInv, CodesInv, EarnedInv, Codes, NoChallenge

LEMMA CodesStep == CodesInv /\ [RecoveryNext]_recoveryVars => CodesInv'
<1> SUFFICES ASSUME CodesInv, [RecoveryNext]_recoveryVars PROVE CodesInv'
  OBVIOUS
<1> USE RecoveryAssumption DEF CodesInv, Codes
<1>1. ASSUME NEW q \in Sends, StoreCode(q) PROVE CodesInv'
  BY <1>1 DEF StoreCode, Stored
<1>2. ASSUME NEW q \in Sends, DeliverCode(q) \/ WithdrawCode(q)
      PROVE  CodesInv'
  BY <1>2 DEF DeliverCode, WithdrawCode, NoChallenge
<1>3. CASE \/ \E c \in Codes : ExpireCode(c)
           \/ \E r \in Resets : ReadCustomer(r) \/ FindNoCode(r)
                                \/ SavePassword(r) \/ RefuseContact(r)
           \/ ChangeAccount
           \/ UNCHANGED recoveryVars
  BY <1>3
  DEF ExpireCode, ReadCustomer, FindNoCode, SavePassword, RefuseContact,
      ChangeAccount, recoveryVars
<1>4. ASSUME NEW r \in Resets, NEW row \in challenge, DropCode(r, row)
      PROVE  CodesInv'
  BY <1>4 DEF DropCode
<1>5. ASSUME NEW r \in Resets, NEW row \in challenge, CountWrong(r, row)
      PROVE  CodesInv'
  <2>1. /\ row.code = lastCode /\ row.attempts = wrong[lastCode]
        /\ row.attempts < MaxWrong
        /\ lastCode \in Codes \ used
        /\ challenge = {row}
    BY <1>5 DEF CountWrong, Exhausted
  <2>2. wrong' = [wrong EXCEPT ![lastCode] = @ + 1]
    BY <1>5, <2>1 DEF CountWrong
  <2>3. challenge' = {[row EXCEPT !.attempts = @ + 1]}
    BY <1>5, <2>1 DEF CountWrong
  <2>4. /\ [row EXCEPT !.attempts = @ + 1] \in
              [code : {lastCode}, attempts : {wrong'[lastCode]}]
        /\ lastCode' = lastCode /\ used' = used
    BY <1>5, <2>1, <2>2 DEF CountWrong
  <2>5. \A c \in Codes : /\ wrong'[c] <= MaxWrong
                         /\ c > lastCode' => wrong'[c] = 0
    BY <2>1, <2>2, <2>4
  <2> QED BY <2>1, <2>2, <2>3, <2>4, <2>5
<1>6. ASSUME NEW r \in Resets, NEW row \in challenge, AcceptCode(r, row)
      PROVE  CodesInv'
  BY <1>6 DEF AcceptCode, SpendChallenge, NoChallenge
<1> QED
  BY <1>1, <1>2, <1>3, <1>4, <1>5, <1>6 DEF RecoveryNext, VerifyCode

LEMMA EarnedFinite ==
  CodesInv => /\ IsFiniteSet(used) /\ Cardinality(used) \in Nat
              /\ IsFiniteSet(Verified) /\ Cardinality(Verified) \in Nat
<1> SUFFICES ASSUME CodesInv
             PROVE  /\ IsFiniteSet(used) /\ Cardinality(used) \in Nat
                    /\ IsFiniteSet(Verified) /\ Cardinality(Verified) \in Nat
  OBVIOUS
<1>1. lastCode \in Nat /\ used \subseteq 1..lastCode
  BY RecoveryAssumption DEF CodesInv
<1>2. IsFiniteSet(1..lastCode)
  BY <1>1, FS_Interval
<1>3. Verified \subseteq Resets
  BY DEF Verified
<1> QED
  BY <1>1, <1>2, <1>3, RecoveryAssumption, FS_Subset, FS_CardinalityType

LEMMA EarnedStep == RecoveryInv /\ [RecoveryNext]_recoveryVars => EarnedInv'
<1> SUFFICES ASSUME RecoveryInv, [RecoveryNext]_recoveryVars PROVE EarnedInv'
  OBVIOUS
<1> USE RecoveryAssumption DEF RecoveryInv, EarnedInv
<1>1. /\ IsFiniteSet(used) /\ Cardinality(used) \in Nat
      /\ IsFiniteSet(Verified) /\ Cardinality(Verified) \in Nat
  BY EarnedFinite
<1>2. ASSUME NEW r \in Resets, reset[r].pc # "verified",
             ReadCustomer(r) \/ reset' = Refused(r),
             used' = used, customer' = customer
      PROVE  EarnedInv'
  <2>1. Verified' = Verified
    BY <1>2 DEF ReadCustomer, Refused, Verified
  <2>2. reset' \in [Resets ->
                      [pc : {"idle", "read", "verified"}, rest : Nat]]
    BY <1>2 DEF ReadCustomer, Refused
  <2> QED BY <1>2, <2>1, <2>2
<1>3. ASSUME NEW r \in Resets, reset[r].pc = "verified", reset' = Refused(r)
      PROVE  /\ Cardinality(Verified') = Cardinality(Verified) - 1
             /\ reset' \in [Resets ->
                              [pc : {"idle", "read", "verified"}, rest : Nat]]
  <2>1. Verified' = Verified \ {r} /\ r \in Verified
    BY <1>3 DEF Verified, Refused
  <2>2. Cardinality(Verified \ {r}) = Cardinality(Verified) - 1
    BY <1>1, <2>1, FS_RemoveElement
  <2> QED BY <1>3, <2>1, <2>2 DEF Refused
<1>4. ASSUME NEW r \in Resets, NEW row \in challenge, AcceptCode(r, row)
      PROVE  EarnedInv'
  <2>1. row.code \notin used
    BY DEF CodesInv
  <2>2. Cardinality(used') = Cardinality(used) + 1
    BY <1>1, <1>4, <2>1, FS_AddElement DEF AcceptCode
  <2>3. Verified' = Verified \cup {r} /\ r \notin Verified
    BY <1>4 DEF AcceptCode, Verified
  <2>4. Cardinality(Verified') = Cardinality(Verified) + 1
    BY <1>1, <2>3, FS_AddElement
  <2>5. reset' \in [Resets ->
                      [pc : {"idle", "read", "verified"}, rest : Nat]]
    BY <1>4 DEF AcceptCode
  <2>6. customer' = customer
    BY <1>4 DEF AcceptCode
  <2> QED BY <1>1, <2>2, <2>4, <2>5, <2>6
<1>5. ASSUME NEW r \in Resets, SavePassword(r)
      PROVE  EarnedInv'
  <2>1. /\ used' = used
        /\ customer' = [password |-> customer.password + 1,
                        rest |-> reset[r].rest]
    BY <1>5 DEF SavePassword
  <2>2. customer' \in [password : Nat, rest : Nat]
    BY <2>1
  <2> QED BY <1>1, <1>3, <1>5, <2>1, <2>2 DEF SavePassword
<1>6. ASSUME NEW r \in Resets, RefuseContact(r)
      PROVE  EarnedInv'
  BY <1>1, <1>3, <1>6 DEF RefuseContact
<1>7. ASSUME NEW r \in Resets,
             \/ ReadCustomer(r) \/ FindNoCode(r)
             \/ \E row \in challenge : DropCode(r, row) \/ CountWrong(r, row)
      PROVE  EarnedInv'
  BY <1>2, <1>7 DEF ReadCustomer, FindNoCode, DropCode, CountWrong
<1>8. CASE ChangeAccount
  <2>1. /\ reset' = reset /\ used' = used
        /\ customer' = [customer EXCEPT !.rest = @ + 1]
    BY <1>8 DEF ChangeAccount
  <2>2. /\ customer' \in [password : Nat, rest : Nat]
        /\ customer'.password = customer.password
    BY <2>1
  <2> QED BY <2>1, <2>2 DEF Verified
<1>9. CASE \/ \E q \in Sends : StoreCode(q) \/ DeliverCode(q)
                               \/ WithdrawCode(q)
           \/ \E c \in Codes : ExpireCode(c)
           \/ UNCHANGED recoveryVars
  <2>1. reset' = reset /\ used' = used /\ customer' = customer
    BY <1>9
    DEF StoreCode, DeliverCode, WithdrawCode, ExpireCode, recoveryVars
  <2> QED BY <2>1 DEF Verified
<1> QED
  BY <1>4, <1>5, <1>6, <1>7, <1>8, <1>9 DEF RecoveryNext, VerifyCode

LEMMA RecoveryAlways == RecoverySpec => []RecoveryInv
<1>1. RecoveryInv /\ [RecoveryNext]_recoveryVars => RecoveryInv'
  BY CodesStep, EarnedStep DEF RecoveryInv
<1> QED BY <1>1, RecoveryStarts, PTL DEF RecoverySpec

(* A code cannot be tried more often than its attempts allow, and no two    *)
(* changes of a password come from one code, whatever the number of         *)
(* requests and however they overlap.                                       *)
THEOREM CodesAreEarned == RecoverySpec => []CodesEarned
<1>1. RecoveryInv => CodesEarned
  BY EarnedFinite DEF RecoveryInv, CodesInv, EarnedInv, CodesEarned
<1> QED BY <1>1, RecoveryAlways, PTL

(* A replaced or expired code is refused.                                   *)
THEOREM CurrentAccepted == RecoverySpec => OnlyCurrentAccepted
<1>1. RecoveryInv /\ [RecoveryNext]_recoveryVars =>
        [\A c \in used' \ used :
            c = lastCode /\ c \notin expired]_recoveryVars
  <2> SUFFICES ASSUME CodesInv, RecoveryNext, NEW c \in used' \ used
               PROVE  c = lastCode /\ c \notin expired
    BY DEF RecoveryInv
  <2>1. PICK r \in Resets, row \in challenge : AcceptCode(r, row)
    BY DEF RecoveryNext, VerifyCode, StoreCode, DeliverCode, WithdrawCode,
           ExpireCode, ReadCustomer, FindNoCode, DropCode, CountWrong,
           SavePassword, RefuseContact, ChangeAccount
  <2> QED BY <2>1 DEF AcceptCode, Exhausted, CodesInv
<1> QED BY <1>1, RecoveryAlways, PTL DEF RecoverySpec, OnlyCurrentAccepted

---------------------------------------------------------------------------
(* While a cycle of the worker or its clean-up is under way, every request  *)
(* that no cycle met is still to come.                                      *)
SyncInv == UnmetOnFile /\ (WorkerRuns => early = {})

(* For any number of requests and failures.                                 *)
THEOREM UnmetRequestsKept == SyncSpec => []UnmetOnFile
<1>1. SyncInit => SyncInv
  BY DEF SyncInit, SyncInv, UnmetOnFile, WorkerRuns
<1>2. SyncInv /\ [SyncNext]_syncVars => SyncInv'
  <2> SUFFICES ASSUME SyncInv, [SyncNext]_syncVars PROVE SyncInv'
    OBVIOUS
  <2> USE DEF SyncInv, UnmetOnFile, WorkerRuns
  <2>1. ASSUME NEW c \in Clicks, NEW host \in Hosts, Request(c, host)
        PROVE  SyncInv'
    BY <2>1 DEF Request
  <2>2. ASSUME NEW c \in Clicks, StartInBackground(c)
        PROVE  SyncInv'
    BY <2>2 DEF StartInBackground, Serve
  <2>3. CASE EndInBackground \/ GiveUp \/ UNCHANGED syncVars
    BY <2>3 DEF EndInBackground, GiveUp, syncVars
  <2>4. CASE WorkerNext
    BY <2>4
    DEF WorkerNext, Poll, WhenPolled, StartCycle, Serve, EndCycle, ClearHere,
        ClearLive
  <2> QED BY <2>1, <2>2, <2>3, <2>4 DEF SyncNext
<1>3. SyncInv => UnmetOnFile
  BY DEF SyncInv
<1> QED BY <1>1, <1>2, <1>3, PTL DEF SyncSpec

---------------------------------------------------------------------------
(* The back office.  A step of MCBackOffice is a step of one component and  *)
(* leaves the others alone, so the invariants above hold there as well.     *)
LEMMA OfficeStep ==
  [OfficeNext]_officeVars =>
     /\ [SupplierNext]_supplierVars
     /\ [RecoveryNext]_recoveryVars
     /\ [SyncNext]_syncVars
BY DEF OfficeNext, officeVars, supplierVars, recoveryVars, syncVars

LEMMA RecoveryTypeStep ==
  RecoveryInv /\ RecoveryTypeOK /\ [RecoveryNext]_recoveryVars
  => RecoveryTypeOK'
<1> SUFFICES ASSUME RecoveryInv, RecoveryTypeOK, [RecoveryNext]_recoveryVars
             PROVE  RecoveryTypeOK'
  OBVIOUS
<1>1. CodesInv' /\ EarnedInv'
  BY CodesStep, EarnedStep DEF RecoveryInv
<1>2. send' \in [Sends -> 0..MaxCodes]
  <2>1. ASSUME NEW q \in Sends, StoreCode(q) PROVE lastCode + 1 \in 0..MaxCodes
    BY <2>1, RecoveryAssumption DEF StoreCode, RecoveryTypeOK
  <2>2. \/ send' = send
        \/ \E q \in Sends, n \in 0..MaxCodes : send' = [send EXCEPT ![q] = n]
    BY <2>1, RecoveryAssumption
    DEF RecoveryNext, VerifyCode, StoreCode, DeliverCode, WithdrawCode,
        ExpireCode, ReadCustomer, FindNoCode, DropCode, CountWrong, AcceptCode,
        SavePassword, RefuseContact, ChangeAccount, recoveryVars
  <2> QED BY <2>2 DEF RecoveryTypeOK
<1>3. expired' \subseteq Codes
  BY DEF RecoveryTypeOK, RecoveryNext, VerifyCode, StoreCode, DeliverCode,
         WithdrawCode, ExpireCode, ReadCustomer, FindNoCode, DropCode,
         CountWrong, AcceptCode, SavePassword, RefuseContact, ChangeAccount,
         recoveryVars
<1>4. challenge' \subseteq [code : Codes, attempts : 0..MaxWrong]
  BY <1>1, RecoveryAssumption DEF CodesInv, Codes
<1>5. Cardinality(challenge') <= 1
  <2>1. CASE challenge' = {}
    BY <2>1, FS_EmptySet
  <2>2. CASE challenge' # {}
    <3>1. PICK row \in challenge' : challenge' = {row}
      BY <1>1, <2>2 DEF CodesInv
    <3> QED BY <3>1, FS_Singleton
  <2> QED BY <2>1, <2>2
<1> QED
  BY <1>1, <1>2, <1>3, <1>4, <1>5, RecoveryAssumption
  DEF CodesInv, EarnedInv, RecoveryTypeOK, Codes

LEMMA SyncTypeStep ==
  SyncTypeOK /\ [SyncNext]_syncVars => SyncTypeOK'
<1> SUFFICES ASSUME SyncTypeOK, [SyncNext]_syncVars PROVE SyncTypeOK'
  OBVIOUS
<1> USE DEF SyncTypeOK
<1>1. ASSUME NEW c \in Clicks, NEW host \in Hosts, Request(c, host)
      PROVE  SyncTypeOK'
  BY <1>1 DEF Request
<1>2. ASSUME NEW c \in Clicks, StartInBackground(c)
      PROVE  SyncTypeOK'
  <2>1. cycles' \in Nat /\ early' \subseteq Clicks
    BY <1>2 DEF StartInBackground, Serve
  <2>2. running' \in BOOLEAN
    BY <1>2, Zenon DEF StartInBackground
  <2>3. /\ click' \in [Clicks -> {"new", "starting", "pc", "live"}]
        /\ UNCHANGED <<file, poller, failures>>
    BY <1>2 DEF StartInBackground
  <2> QED BY <2>1, <2>2, <2>3
<1>3. CASE EndInBackground \/ GiveUp
  <2>1. cycles' \in Nat /\ failures' \in Nat
    BY <1>3 DEF EndInBackground, GiveUp, Fail
  <2>2. running' \in BOOLEAN
    BY <1>3, Zenon DEF EndInBackground, GiveUp
  <2>3. UNCHANGED <<file, click, early>> /\ poller' \in {poller, "waiting"}
    BY <1>3 DEF EndInBackground, GiveUp
  <2> QED BY <2>1, <2>2, <2>3
<1>4. CASE WorkerNext \/ UNCHANGED syncVars
  BY <1>4
  DEF WorkerNext, Poll, WhenPolled, StartCycle, Serve, EndCycle, ClearHere,
      ClearLive, syncVars
<1> QED BY <1>1, <1>2, <1>3, <1>4 DEF SyncNext

(* The three components keep their types in every run of the back office,   *)
(* for any number of jobs, codes and requests.                              *)
THEOREM OfficeTyping == OfficeSpec => []OfficeTypeOK
<1> DEFINE Inv == SupplierInv /\ RecoveryInv /\ RecoveryTypeOK /\ SyncTypeOK
<1>1. OfficeInit => Inv
  <2>1. RecoveryInit => RecoveryTypeOK
    BY FS_EmptySet, RecoveryAssumption
    DEF RecoveryInit, RecoveryTypeOK, NoChallenge, Codes
  <2>2. SyncInit => SyncTypeOK
    <3>1. SyncInit => running \in BOOLEAN
      BY Zenon DEF SyncInit
    <3> QED BY <3>1 DEF SyncInit, SyncTypeOK
  <2> QED
    BY <2>1, <2>2, SupplierStarts, RecoveryStarts DEF OfficeInit
<1>2. Inv /\ [OfficeNext]_officeVars => Inv'
  BY OfficeStep, SupplierSteps, CodesStep, EarnedStep, RecoveryTypeStep,
     SyncTypeStep DEF RecoveryInv
<1>3. Inv => OfficeTypeOK
  BY DEF SupplierInv, OfficeTypeOK
<1> HIDE DEF Inv
<1> QED BY <1>1, <1>2, <1>3, PTL DEF OfficeSpec

---------------------------------------------------------------------------
(* What a team owes for the extension, whatever calls overlap.              *)
DbRow ==
    [plan : Plans, payg : BOOLEAN, due : Nat,
     credit : Nat, added : Nat, spent : Nat,
     usage : [Users -> Seq(Nat)], claimed : SUBSET Users,
     bonus : [Users -> Nat], guest : 0..Quota["free"]]

LEMMA UsageNat ==
  ASSUME NEW d \in DbRow
  PROVE  /\ \A u \in Users : UsedBy(d, u) \in Nat
         /\ Used(d) \in Nat /\ Bill(d) \in Nat
         /\ \A u \in Users : d.usage[u] \in Seq(Nat)
<1>1. \A u \in Users : d.usage[u] \in Seq(Nat)
  BY DEF DbRow
<1>2. \A u \in Users : UsedBy(d, u) \in Nat
  BY <1>1, SumAppended DEF UsedBy, Sum
<1>3. Used(d) \in Nat
  <2> DEFINE f == [u \in Users |-> UsedBy(d, u)]
  <2>1. DOMAIN f = Users /\ \A u \in Users : f[u] \in Nat
    BY <1>2
  <2>2. Used(d) = SumFunctionOnSet(f, Users)
    BY <2>1 DEF Used, Sum, SumFunction
  <2> HIDE DEF f
  <2> QED BY <2>1, <2>2, SumNat, BillingAssumption
<1>4. Bill(d) \in Nat
  <2>1. Quota[d.plan] \in Nat
    BY BillingAssumption DEF DbRow, Plans
  <2> QED BY <1>3, <2>1 DEF Bill, Beyond
<1> QED BY <1>1, <1>2, <1>3, <1>4

(* The usage rows alone say how much was used.                              *)
LEMMA SameUsage ==
  ASSUME NEW d, NEW e, d.usage = e.usage
  PROVE  Used(d) = Used(e) /\ \A u \in Users : UsedBy(d, u) = UsedBy(e, u)
BY DEF Used, UsedBy

LEMMA SpendFits ==
  ASSUME NEW read \in DbRow
  PROVE  Spend(read) \in Nat /\ Spend(read) <= read.credit
                             /\ Bill(read) - Spend(read) \in Nat
<1>1. Bill(read) \in Nat /\ read.credit \in Nat
  BY UsageNat DEF DbRow
<1> QED BY <1>1 DEF Spend

(* The rows a call has read are rows, however the calls overlap.            *)
CallTyped(x) ==
    /\ x.pc \in {"chat", "usage", "login"} => x.user \in Users
    /\ x.pc \in {"usage", "login", "webhook"} => x.read \in DbRow
    /\ x.pc = "webhook" => x.notice \in Notice
    /\ x.pc = "due" => x.due \in Nat

BillingTyped ==
    /\ BillingTypeOK
    /\ charges \subseteq [number : Nat, amount : Nat]
    /\ \A c \in Calls : CallTyped(call[c])

LEMMA BillingTypesStart == BillingInit => BillingTyped
<1> SUFFICES ASSUME BillingInit PROVE BillingTyped
  OBVIOUS
<1>1. db \in DbRow
  <2>1. <<>> \in Seq(Nat)
    OBVIOUS
  <2> QED BY <2>1, BillingAssumption DEF BillingInit, DbRow, Plans
<1> QED
  BY <1>1, BillingAssumption
  DEF BillingInit, BillingTyped, BillingTypeOK, DbRow, CallTyped, AtRest

LEMMA CountedTyped ==
  ASSUME NEW read \in DbRow, db \in DbRow, NEW u \in Users, NEW n \in Nat
  PROVE  [db.usage EXCEPT ![u] = Counted(read, u, n)] \in [Users -> Seq(Nat)]
<1> DEFINE s == db.usage[u]
           r == read.usage[u]
<1>1. s \in Seq(Nat) /\ r \in Seq(Nat)
  BY DEF DbRow
<1>2. Counted(read, u, n) \in Seq(Nat)
  <2>1. CASE r = <<>>
    BY <1>1, <2>1 DEF Counted
  <2>2. CASE r # <<>>
    <3>1. Counted(read, u, n) = [s EXCEPT ![1] = r[1] + n]
      BY <2>2 DEF Counted
    <3>2. r[1] + n \in Nat
      BY <1>1, <2>2
    <3> HIDE DEF s, r
    <3>3. [s EXCEPT ![1] = r[1] + n] \in Seq(Nat)
      <4>1. s \in [1..Len(s) -> Nat] /\ Len(s) \in Nat
        BY <1>1
      <4>2. [s EXCEPT ![1] = r[1] + n] \in [1..Len(s) -> Nat]
        BY <3>2, <4>1
      <4> QED BY <4>1, <4>2
    <3> QED BY <3>1, <3>3
  <2> QED BY <2>1, <2>2
<1> QED BY <1>2 DEF DbRow

(* A call goes on, and the row of the team stays a row.                     *)
LEMMA CallGoesOn ==
  ASSUME BillingTyped, NEW c \in Calls, NEW x, Begin(c, x), CallTyped(x),
         db' \in DbRow, notices' \subseteq Notice,
         UNCHANGED <<charges, buys, topped>>,
         made' \in [Users -> Nat], merged' \in [Users -> Nat],
         lost' \subseteq Users \cup {Purse}
  PROVE  BillingTyped'
<1>1. /\ DOMAIN call' = Calls
      /\ \A d \in Calls : call'[d] = call[d] \/ call'[d] = x
  BY DEF Begin, BillingTyped, BillingTypeOK
<1>2. \A d \in Calls : CallTyped(call'[d])
  BY <1>1 DEF BillingTyped
<1>3. BillingTypeOK'
  BY <1>1 DEF BillingTyped, BillingTypeOK, DbRow
<1> QED BY <1>2, <1>3 DEF BillingTyped, CallTyped, DbRow

LEMMA RowTyped ==
  BillingTyped => /\ db \in DbRow /\ DOMAIN call = Calls
                  /\ notices \subseteq Notice /\ buys \in Nat
                  /\ topped \in Nat /\ made \in [Users -> Nat]
                  /\ merged \in [Users -> Nat]
                  /\ lost \subseteq Users \cup {Purse}
BY BillingAssumption DEF BillingTyped, BillingTypeOK, DbRow

LEMMA BeginTyped ==
  ASSUME BillingTyped, NEW c \in Calls,
         \/ \E u \in Users : Start(c, u) \/ ReadDevice(c, u)
         \/ ReadUsage(c)
         \/ \E n \in notices : ReadNotice(c, n)
  PROVE  BillingTyped'
<1>1. /\ db \in DbRow /\ made \in [Users -> Nat] /\ merged \in [Users -> Nat]
      /\ notices \subseteq Notice /\ CallTyped(call[c])
      /\ lost \subseteq Users \cup {Purse}
  BY RowTyped DEF BillingTyped
<1>2. PICK x : Begin(c, x) /\ CallTyped(x)
  <2>1. ASSUME NEW u \in Users, Start(c, u) \/ ReadDevice(c, u)
        PROVE  \E x : Begin(c, x) /\ CallTyped(x)
    BY <1>1, <2>1 DEF Start, ReadDevice, CallTyped
  <2>2. ASSUME ReadUsage(c) PROVE \E x : Begin(c, x) /\ CallTyped(x)
    BY <1>1, <2>2 DEF ReadUsage, CallTyped
  <2>3. ASSUME NEW n \in notices, ReadNotice(c, n)
        PROVE  \E x : Begin(c, x) /\ CallTyped(x)
    BY <1>1, <2>3 DEF ReadNotice, CallTyped
  <2> QED BY <2>1, <2>2, <2>3
<1>3. UNCHANGED <<db, charges, buys, made, merged, topped, lost>>
      /\ notices' \subseteq notices
  BY DEF Start, ReadDevice, ReadUsage, ReadNotice
<1> QED BY <1>1, <1>2, <1>3, CallGoesOn

LEMMA WriteTyped ==
  ASSUME BillingTyped, NEW c \in Calls,
         \/ RecordUsage(c) \/ RecordAndSpend(c) \/ WriteDue(c)
         \/ MergeDevice(c) \/ ApplyCheckout(c)
  PROVE  BillingTyped'
<1> DEFINE u == call[c].user
           read == call[c].read
<1>1. /\ db \in DbRow /\ made \in [Users -> Nat] /\ merged \in [Users -> Nat]
      /\ notices \subseteq Notice /\ CallTyped(call[c])
      /\ lost \subseteq Users \cup {Purse}
  BY RowTyped DEF BillingTyped
<1>2. CallTyped(AtRest)
  BY DEF CallTyped, AtRest
<1>3. ASSUME RecordUsage(c) \/ RecordAndSpend(c)
      PROVE  /\ u \in Users /\ read \in DbRow
             /\ Recording(read, u) \in DbRow
             /\ Recording(read, u).due = db.due
             /\ Bill(read) \in Nat /\ Spend(read) \in Nat
             /\ read.credit - Spend(read) \in Nat
             /\ Bill(read) - Spend(read) \in Nat
             /\ made' \in [Users -> Nat]
             /\ lost' \subseteq Users \cup {Purse}
             /\ UNCHANGED <<charges, notices, buys, merged, topped>>
  <2>1. u \in Users /\ read \in DbRow
    BY <1>1, <1>3 DEF RecordUsage, RecordAndSpend, CallTyped
  <2> HIDE DEF u, read
  <2>2. /\ Bill(read) \in Nat /\ Spend(read) \in Nat
        /\ Spend(read) <= read.credit /\ Bill(read) - Spend(read) \in Nat
        /\ read.credit \in Nat
    BY <2>1, SpendFits, UsageNat DEF DbRow
  <2>3. [db.usage EXCEPT ![u] = Counted(read, u, 1)] \in [Users -> Seq(Nat)]
    BY <1>1, <2>1, CountedTyped
  <2>4. read.bonus[u] + 1 \in Nat
    BY <2>1 DEF DbRow
  <2>5. Recording(read, u) \in DbRow /\ Recording(read, u).due = db.due
    BY <1>1, <2>3, <2>4 DEF Recording, DbRow
  <2>6. made' \in [Users -> Nat]
        /\ UNCHANGED <<charges, notices, buys, merged, topped>>
    BY <1>1, <1>3, <2>1 DEF RecordUsage, RecordAndSpend, Record, u, read
  <2>7. lost' \subseteq Users \cup {Purse}
    <3>1. \/ lost' = lost \cup UnseenUsage(read, u) \cup UnseenBonus(read, u)
          \/ lost' = lost \cup UnseenUsage(read, u) \cup UnseenBonus(read, u)
                          \cup UnseenCredit(read)
      BY <1>3 DEF RecordUsage, RecordAndSpend, u, read
    <3> QED
      BY <1>1, <2>1, <3>1 DEF UnseenUsage, UnseenBonus, UnseenCredit
  <2> QED BY <2>1, <2>2, <2>5, <2>6, <2>7
<1>4. CASE RecordUsage(c)
  <2> HIDE DEF u, read
  <2>1. db' = [Recording(read, u) EXCEPT
                 !.due = IF PayAsYouGo(read) /\ Bill(read) > 0
                           THEN Written(Bill(read), read.due, @) ELSE @]
        /\ Begin(c, AtRest)
    BY <1>4 DEF RecordUsage, Finish, Begin, u, read
  <2>2. db' \in DbRow
    <3> DEFINE row == Recording(read, u)
    <3>1. row \in DbRow /\ row.due \in Nat /\ Bill(read) \in Nat
      BY <1>3, <1>4 DEF DbRow
    <3>2. (IF PayAsYouGo(read) /\ Bill(read) > 0
             THEN Written(Bill(read), read.due, row.due) ELSE row.due) \in Nat
      BY <3>1 DEF Written
    <3> HIDE DEF row
    <3>3. db' = [row EXCEPT !.due = IF PayAsYouGo(read) /\ Bill(read) > 0
                           THEN Written(Bill(read), read.due, @) ELSE @]
      BY <2>1 DEF row
    <3> QED BY <3>1, <3>2, <3>3 DEF DbRow
  <2> QED BY <1>1, <1>2, <1>3, <1>4, <2>1, <2>2, CallGoesOn
<1>5. CASE RecordAndSpend(c)
  <2> HIDE DEF u, read
  <2> DEFINE x == [pc |-> "due", due |-> Bill(read) - Spend(read)]
  <2>1. db' = Spent(Recording(read, u), read) /\ Begin(c, x)
    BY <1>5 DEF RecordAndSpend, u, read
  <2>2. db' \in DbRow
    <3> DEFINE row == Recording(read, u)
    <3>1. /\ row \in DbRow /\ read \in DbRow /\ Spend(read) \in Nat
          /\ read.credit - Spend(read) \in Nat
      BY <1>3, <1>5
    <3> HIDE DEF row
    <3>3. read.spent + Spend(read) \in Nat
      BY <3>1 DEF DbRow
    <3>2. db' = Spent(row, read)
      BY <2>1 DEF row
    <3> QED BY <3>1, <3>2, <3>3 DEF Spent, DbRow
  <2>3. CallTyped(x)
    BY <1>3, <1>5 DEF CallTyped
  <2> HIDE DEF x
  <2> QED BY <1>1, <1>3, <1>5, <2>1, <2>2, <2>3, CallGoesOn
<1>6. CASE WriteDue(c)
  <2>1. call[c].due \in Nat
    BY <1>1, <1>6 DEF WriteDue, CallTyped
  <2>2. db' \in DbRow
    BY <1>1, <1>6, <2>1 DEF WriteDue, DbRow
  <2>3. Begin(c, AtRest)
        /\ UNCHANGED <<charges, notices, buys, made, merged, topped, lost>>
    BY <1>6 DEF WriteDue, Finish, Begin
  <2> QED BY <1>1, <1>2, <2>2, <2>3, CallGoesOn
<1>7. CASE MergeDevice(c)
  <2>1. u \in Users /\ read \in DbRow
    BY <1>1, <1>7 DEF MergeDevice, CallTyped
  <2>2. /\ db' = [db EXCEPT !.usage[u] = Counted(read, u, read.guest)]
        /\ merged' = [merged EXCEPT ![u] = @ + read.guest]
        /\ Begin(c, AtRest)
        /\ UNCHANGED <<charges, notices, buys, made, topped>>
    BY <1>7 DEF MergeDevice, Finish, Begin
  <2> HIDE DEF u, read
  <2>3. read.guest \in Nat
    BY <2>1, BillingAssumption DEF DbRow
  <2>4. merged' \in [Users -> Nat]
    BY <1>1, <2>1, <2>2, <2>3
  <2>5. [db.usage EXCEPT ![u] = Counted(read, u, read.guest)]
           \in [Users -> Seq(Nat)]
    BY <1>1, <2>1, <2>3, CountedTyped
  <2>6. db' \in DbRow
    BY <1>1, <2>2, <2>5 DEF DbRow
  <2>7. lost' \subseteq Users \cup {Purse}
    BY <1>1, <1>7, <2>1 DEF MergeDevice, UnseenUsage, u, read
  <2> QED BY <1>1, <1>2, <2>2, <2>4, <2>6, <2>7, CallGoesOn
<1>8. CASE ApplyCheckout(c)
  <2> DEFINE n == call[c].notice
  <2>1. n \in Notice /\ read \in DbRow
    BY <1>1, <1>8 DEF ApplyCheckout, CallTyped
  <2>2. db' = Applied(n, read) /\ Begin(c, AtRest)
        /\ UNCHANGED <<charges, notices, buys, made, merged, topped>>
    BY <1>8 DEF ApplyCheckout, Finish, Begin
  <2> HIDE DEF n, read
  <2>3. /\ Written("paid", read.plan, db.plan) \in Plans
        /\ Written(0, read.due, db.due) \in Nat
        /\ read.credit + n.amount \in Nat /\ read.added + n.amount \in Nat
    <3>1. /\ db.plan \in Plans /\ db.due \in Nat
          /\ read.credit \in Nat /\ read.added \in Nat
      BY <1>1, <2>1 DEF DbRow
    <3>2. n.amount \in Nat
      BY <2>1 DEF Notice
    <3> QED BY <3>1, <3>2 DEF Written, Plans
  <2>4. db' \in DbRow
    <3>1. CASE n.kind = "subscription"
      BY <1>1, <2>2, <2>3, <3>1 DEF Applied, DbRow
    <3>2. CASE n.kind = "payg"
      BY <1>1, <2>2, <2>3, <3>2 DEF Applied, DbRow
    <3>3. CASE n.kind = "credit_topup"
      BY <1>1, <2>2, <2>3, <3>3 DEF Applied, DbRow
    <3> QED BY <2>1, <3>1, <3>2, <3>3 DEF Notice
  <2>5. lost' \subseteq Users \cup {Purse}
    BY <1>1, <1>8 DEF ApplyCheckout, UnseenCredit
  <2> QED BY <1>1, <1>2, <2>2, <2>4, <2>5, CallGoesOn
<1> QED BY <1>4, <1>5, <1>6, <1>7, <1>8

LEMMA ChoiceTyped ==
  ASSUME BillingTyped,
         \/ \E u \in Users : ClaimFreeExtension(u)
         \/ \E enabled \in BOOLEAN : EnablePayg(enabled)
         \/ UseAsGuest \/ CancelSubscription
  PROVE  BillingTyped'
<1>1. db \in DbRow
  BY RowTyped
<1>2. db' \in DbRow
  <2>1. ASSUME NEW u \in Users, ClaimFreeExtension(u) PROVE db' \in DbRow
    BY <1>1, <2>1 DEF ClaimFreeExtension, DbRow
  <2>2. ASSUME NEW enabled \in BOOLEAN, EnablePayg(enabled)
        PROVE  db' \in DbRow
    BY <1>1, <2>2, Zenon DEF EnablePayg, DbRow
  <2>3. CASE UseAsGuest
    <3>1. db.guest + 1 \in 0..Quota["free"]
      BY <1>1, <2>3, BillingAssumption DEF UseAsGuest, DbRow
    <3> QED BY <1>1, <2>3, <3>1 DEF UseAsGuest, DbRow
  <2>4. CASE CancelSubscription
    BY <1>1, <2>4 DEF CancelSubscription, DbRow, Plans
  <2> QED BY <2>1, <2>2, <2>3, <2>4
<1>3. UNCHANGED <<call, charges, notices, buys, made, merged, topped, lost>>
  BY DEF ClaimFreeExtension, EnablePayg, UseAsGuest, CancelSubscription
<1> QED
  BY <1>2, <1>3 DEF BillingTyped, BillingTypeOK, DbRow, CallTyped

LEMMA PurchaseTyped ==
  ASSUME BillingTyped,
         \/ OpenCharge \/ Subscribe
         \/ \E charge \in charges : PayCharge(charge)
         \/ \E amount \in TopUps : BuyCredit(amount)
  PROVE  BillingTyped'
<1>1. /\ db \in DbRow /\ buys \in Nat /\ topped \in Nat /\ Bill(db) \in Nat
      /\ notices \subseteq Notice
      /\ charges \subseteq [number : Nat, amount : Nat]
  BY RowTyped, UsageNat DEF BillingTyped
<1>2. ASSUME NEW number \in Nat, NEW amount \in Nat,
             NEW kind \in {"subscription", "payg", "credit_topup"}
      PROVE  Reports(number, kind, amount) \subseteq Notice
  BY <1>2 DEF Reports, Notice
<1>3. /\ charges' \subseteq [number : Nat, amount : Nat]
      /\ notices' \subseteq Notice
      /\ buys' \in 0..MaxBuys /\ topped' \in Nat
      /\ UNCHANGED <<db, call, made, merged, lost>>
  <2>1. CASE OpenCharge
    BY <1>1, <2>1, BillingAssumption DEF OpenCharge
  <2>2. CASE Subscribe
    BY <1>1, <1>2, <2>2, BillingAssumption DEF Subscribe
  <2>3. ASSUME NEW charge \in charges, PayCharge(charge)
        PROVE  /\ charges' \subseteq [number : Nat, amount : Nat]
               /\ notices' \subseteq Notice
               /\ buys' \in 0..MaxBuys /\ topped' \in Nat
               /\ UNCHANGED <<db, call, made, merged, lost>>
    BY <1>1, <1>2, <2>3 DEF PayCharge, BillingTyped, BillingTypeOK
  <2>4. ASSUME NEW amount \in TopUps, BuyCredit(amount)
        PROVE  /\ charges' = charges /\ notices' \subseteq Notice
               /\ buys' \in 0..MaxBuys /\ topped' \in Nat
               /\ UNCHANGED <<db, call, made, merged, lost>>
    <3>1. amount \in Nat /\ buys + 1 \in 0..MaxBuys /\ topped + amount \in Nat
      BY <1>1, <2>4, BillingAssumption DEF BuyCredit
    <3>2. Reports(buys + 1, "credit_topup", amount) \subseteq Notice
      BY <1>1, <1>2, <3>1
    <3> QED BY <1>1, <2>4, <3>1, <3>2 DEF BuyCredit
  <2> QED BY <1>1, <2>1, <2>2, <2>3, <2>4
<1> QED
  BY <1>3 DEF BillingTyped, BillingTypeOK, CallTyped, DbRow

LEMMA BillingTypeStep ==
  BillingTyped /\ [BillingNext]_billingVars => BillingTyped'
<1> SUFFICES ASSUME BillingTyped, [BillingNext]_billingVars
             PROVE  BillingTyped'
  OBVIOUS
<1>1. CASE UNCHANGED billingVars
  BY <1>1 DEF billingVars, BillingTyped, BillingTypeOK, CallTyped, DbRow
<1>2. CASE BillingNext
  BY <1>2, BeginTyped, WriteTyped, ChoiceTyped, PurchaseTyped DEF BillingNext
<1> QED BY <1>1, <1>2

(* The rows, the calls, the events and what the histories count keep their  *)
(* types, for any team, any number of calls and any of their overlaps.      *)
THEOREM BillingTyping == BillingSpec => []BillingTypeOK
<1>1. BillingTyped => BillingTypeOK
  BY DEF BillingTyped
<1> QED BY <1>1, BillingTypesStart, BillingTypeStep, PTL DEF BillingSpec

---------------------------------------------------------------------------
(* The accounts agree.  A call that found a usage row writes what it read   *)
(* there and what it counts.  So what it read, with what the member's other *)
(* rows say, must not be more than what was made and merged.                *)
Attached(u) == made[u] + merged[u]

Behind(x) ==
    /\ x.pc \in {"usage", "login"}
    /\ x.read.usage[x.user] # <<>>
    => /\ db.usage[x.user] # <<>>
       /\ x.read.usage[x.user][1] + UsedBy(db, x.user)
             <= Attached(x.user) + db.usage[x.user][1]

AllCounted ==
    \A u \in Users :
       /\ UsedBy(db, u) <= Attached(u)
       /\ u \notin lost => UsedBy(db, u) = Attached(u)

CreditLeft == Purse \notin lost => db.credit + db.spent = db.added

AgreeInv ==
    /\ BillingTyped
    /\ AllCounted
    /\ CreditLeft
    /\ \A c \in Calls : Behind(call[c])

LEMMA AgreeStarts == BillingInit => AgreeInv
<1> SUFFICES ASSUME BillingInit PROVE AgreeInv
  OBVIOUS
<1>1. \A u \in Users : UsedBy(db, u) = 0
  <2>1. Sum(<<>>) = 0
    <3>1. DOMAIN <<>> = {}
      OBVIOUS
    <3> QED BY <3>1, SumNothing DEF Sum, SumFunction
  <2> QED BY <2>1 DEF BillingInit, UsedBy
<1>2. \A u \in Users : Attached(u) = 0
  BY DEF BillingInit, Attached
<1>3. \A c \in Calls : call[c].pc = "rest"
  BY DEF BillingInit, AtRest
<1>4. CreditLeft
  BY DEF BillingInit, CreditLeft
<1> QED
  BY <1>1, <1>2, <1>3, <1>4, BillingTypesStart
  DEF AgreeInv, AllCounted, Behind

LEMMA FirstNat == ASSUME NEW s \in Seq(Nat), s # <<>> PROVE s[1] \in Nat
OBVIOUS

LEMMA FirstStays ==
  ASSUME NEW s \in Seq(Nat), s # <<>>, NEW n \in Nat
  PROVE  /\ Append(s, n) # <<>> /\ Append(s, n)[1] = s[1]
         /\ [s EXCEPT ![1] = n] # <<>> /\ [s EXCEPT ![1] = n][1] = n
OBVIOUS

(* What a call that counts n requests of u makes of the usage rows, from    *)
(* those it has read.                                                       *)
CountsAs(after, read, u, n) ==
    /\ \A v \in Users \ {u} : after.usage[v] = db.usage[v]
    /\ read.usage[u] = <<>> =>
          /\ UsedBy(after, u) = UsedBy(db, u) + n
          /\ db.usage[u] # <<>> =>
                /\ after.usage[u] # <<>>
                /\ after.usage[u][1] = db.usage[u][1]
    /\ read.usage[u] # <<>> =>
          /\ after.usage[u] # <<>>
          /\ after.usage[u][1] = read.usage[u][1] + n
          /\ UsedBy(after, u) + db.usage[u][1]
                = UsedBy(db, u) + read.usage[u][1] + n

LEMMA UsageWritten ==
  ASSUME NEW read \in DbRow, db \in DbRow, NEW e \in DbRow,
         NEW u \in Users, NEW n \in Nat,
         read.usage[u] # <<>> => db.usage[u] # <<>>,
         e.usage = [db.usage EXCEPT ![u] = Counted(read, u, n)]
  PROVE  CountsAs(e, read, u, n)
<1> DEFINE s == db.usage[u]
           r == read.usage[u]
<1>1. PICK t : t = Counted(read, u, n)
  OBVIOUS
<1>2. /\ s \in Seq(Nat) /\ r \in Seq(Nat) /\ DOMAIN db.usage = Users
      /\ SumFunction(s) \in Nat
      /\ UsedBy(db, u) = SumFunction(s) /\ UsedBy(e, u) = SumFunction(t)
      /\ e.usage[u] = t
  BY <1>1, UsageNat DEF DbRow, UsedBy, Sum
<1>3. t = IF r = <<>> THEN Append(s, n) ELSE [s EXCEPT ![1] = r[1] + n]
  BY <1>1 DEF Counted
<1>4. \A v \in Users \ {u} : e.usage[v] = db.usage[v]
  BY <1>2
<1>5. r # <<>> => s # <<>>
  OBVIOUS
<1> HIDE DEF s, r
<1>6. ASSUME r = <<>>
      PROVE  /\ SumFunction(t) = SumFunction(s) + n
             /\ s # <<>> => t # <<>> /\ t[1] = s[1]
  <2>1. t = Append(s, n)
    BY <1>3, <1>6
  <2>2. SumFunction(Append(s, n)) = SumFunction(s) + n
    BY <1>2, SumAppended
  <2>3. s # <<>> => Append(s, n) # <<>> /\ Append(s, n)[1] = s[1]
    BY <1>2, FirstStays
  <2> QED BY <2>1, <2>2, <2>3
<1>7. ASSUME r # <<>>
      PROVE  /\ t # <<>> /\ t[1] = r[1] + n
             /\ SumFunction(t) + s[1] = SumFunction(s) + r[1] + n
  <2>1. s # <<>> /\ r[1] \in Nat /\ s[1] \in Nat
    BY <1>2, <1>5, <1>7
  <2>2. PICK m \in Nat : m = r[1] + n
    BY <2>1
  <2>3. t = [s EXCEPT ![1] = m]
    BY <1>3, <1>7, <2>2
  <2>4. t # <<>> /\ t[1] = m
    <3>1. s \in Seq(Nat)
      BY <1>2
    <3> QED BY <2>1, <2>2, <2>3, <3>1, FirstStays
  <2>5. SumFunction(t) = SumFunction(s) - s[1] + m
    BY <1>2, <2>1, <2>3, SumFirstChanged
  <2>6. SumFunction(t) + s[1] = SumFunction(s) + m
    BY <1>2, <2>1, <2>5
  <2>7. SumFunction(s) + r[1] + n = SumFunction(s) + m
    BY <1>2, <2>1, <2>2
  <2> QED BY <2>2, <2>4, <2>6, <2>7
<1> QED BY <1>2, <1>4, <1>6, <1>7 DEF CountsAs, s, r

(* A first value that grows by what is counted leaves the others behind it. *)
LEMMA Outgrown ==
  ASSUME NEW p \in Nat, NEW before \in Nat, NEW after \in Nat,
         NEW a \in Nat, NEW f \in Nat, NEW r \in Nat, NEW n \in Nat,
         p + before <= a + f, after + f = before + r + n
  PROVE  p + after <= (a + n) + (r + n)
  OBVIOUS

(* Counting keeps the books of the usage: a value that was not seen may be  *)
(* lost with it, nothing is ever counted twice.                             *)
LEMMA CountingAgrees ==
  ASSUME AgreeInv, NEW c \in Calls, call[c].pc \in {"usage", "login"},
         NEW u, u = call[c].user, NEW read, read = call[c].read,
         NEW n \in Nat, NEW x, Begin(c, x), x.pc \in {"rest", "due"},
         db' \in DbRow,
         db'.usage = [db.usage EXCEPT ![u] = Counted(read, u, n)],
         Attached(u)' = Attached(u) + n,
         \A v \in Users \ {u} : Attached(v)' = Attached(v),
         lost \subseteq lost', UnseenUsage(read, u) \subseteq lost'
  PROVE  AllCounted' /\ \A d \in Calls : Behind(call[d])'
<1>1. /\ u \in Users /\ read \in DbRow /\ db \in DbRow
      /\ DOMAIN call = Calls
      /\ made \in [Users -> Nat] /\ merged \in [Users -> Nat]
      /\ \A d \in Calls : Behind(call[d]) /\ CallTyped(call[d])
  BY RowTyped DEF AgreeInv, BillingTyped, CallTyped
<1>2. /\ \A v \in Users : /\ Attached(v) \in Nat /\ UsedBy(db, v) \in Nat
                          /\ UsedBy(db', v) \in Nat
                          /\ db.usage[v] \in Seq(Nat)
                          /\ db'.usage[v] \in Seq(Nat)
      /\ read.usage[u] \in Seq(Nat)
  <2> DEFINE e == db'
  <2>1. e \in DbRow
    OBVIOUS
  <2> HIDE DEF e
  <2>2. \A v \in Users : UsedBy(e, v) \in Nat /\ e.usage[v] \in Seq(Nat)
    BY <2>1, UsageNat
  <2>3. /\ \A v \in Users : /\ UsedBy(db, v) \in Nat
                            /\ db.usage[v] \in Seq(Nat)
        /\ read.usage[u] \in Seq(Nat)
    BY <1>1, UsageNat
  <2>4. \A v \in Users : Attached(v) \in Nat
    BY <1>1 DEF Attached
  <2> QED BY <2>2, <2>3, <2>4 DEF e
<1>3. read.usage[u] # <<>> =>
         /\ db.usage[u] # <<>>
         /\ read.usage[u][1] + UsedBy(db, u) <= Attached(u) + db.usage[u][1]
         /\ read.usage[u][1] \in Nat /\ db.usage[u][1] \in Nat
  <2> HAVE read.usage[u] # <<>>
  <2>1. /\ db.usage[u] # <<>>
        /\ read.usage[u][1] + UsedBy(db, u) <= Attached(u) + db.usage[u][1]
    BY <1>1 DEF Behind
  <2>2. read.usage[u][1] \in Nat /\ db.usage[u][1] \in Nat
    BY <1>1, <1>2, <2>1, FirstNat
  <2> QED BY <2>1, <2>2
<1>4. CountsAs(db', read, u, n)
  <2> DEFINE e == db'
  <2>1. e \in DbRow
        /\ e.usage = [db.usage EXCEPT ![u] = Counted(read, u, n)]
    OBVIOUS
  <2> HIDE DEF e
  <2>2. read.usage[u] # <<>> => db.usage[u] # <<>>
    BY <1>3
  <2>3. CountsAs(e, read, u, n)
    BY <1>1, <2>1, <2>2, UsageWritten
  <2> QED BY <2>3 DEF e
<1>5. \A v \in Users \ {u} : UsedBy(db', v) = UsedBy(db, v)
  BY <1>4 DEF UsedBy, CountsAs
<1>6. \A v \in Users : UsedBy(db, v)' = UsedBy(db', v)
  BY DEF UsedBy
<1>7. AllCounted'
  <2>1. ASSUME NEW v \in Users \ {u}
        PROVE  /\ UsedBy(db', v) <= Attached(v)'
               /\ v \notin lost' => UsedBy(db', v) = Attached(v)'
    BY <1>5 DEF AgreeInv, AllCounted
  <2>2. UsedBy(db', u) <= Attached(u)'
    <3>1. /\ UsedBy(db, u) <= Attached(u) /\ Attached(u)' = Attached(u) + n
          /\ UsedBy(db, u) \in Nat /\ UsedBy(db', u) \in Nat
          /\ Attached(u) \in Nat
      BY <1>1, <1>2 DEF AgreeInv, AllCounted
    <3>2. CASE read.usage[u] = <<>>
      <4>1. UsedBy(db', u) = UsedBy(db, u) + n
        BY <1>4, <3>2 DEF CountsAs
      <4> QED BY <3>1, <4>1
    <3>3. CASE read.usage[u] # <<>>
      <4>1. PICK r \in Nat, f \in Nat :
               r = read.usage[u][1] /\ f = db.usage[u][1]
        BY <1>3, <3>3
      <4>2. UsedBy(db', u) + f = UsedBy(db, u) + r + n
        BY <1>4, <3>3, <4>1 DEF CountsAs
      <4>3. r + UsedBy(db, u) <= Attached(u) + f
        BY <1>3, <3>3, <4>1
      <4> QED BY <3>1, <4>2, <4>3
    <3> QED BY <3>2, <3>3
  <2>3. ASSUME u \notin lost' PROVE UsedBy(db', u) = Attached(u)'
    <3>1. UsedBy(db, u) = Attached(u)
      BY <1>1, <2>3 DEF AgreeInv, AllCounted
    <3>2. read.usage[u] # <<>> => db.usage[u][1] = read.usage[u][1]
      BY <2>3 DEF UnseenUsage
    <3>3. CASE read.usage[u] = <<>>
      BY <1>4, <3>1, <3>3 DEF CountsAs
    <3>4. CASE read.usage[u] # <<>>
      <4>1. PICK r \in Nat : r = read.usage[u][1] /\ r = db.usage[u][1]
        BY <1>3, <3>2, <3>4
      <4>2. UsedBy(db', u) + r = UsedBy(db, u) + r + n
        BY <1>4, <3>4, <4>1 DEF CountsAs
      <4>3. UsedBy(db, u) \in Nat /\ UsedBy(db', u) \in Nat
        BY <1>1, <1>2
      <4>4. UsedBy(db', u) = UsedBy(db, u) + n
        BY <4>2, <4>3
      <4> QED BY <3>1, <4>4
    <3> QED BY <3>3, <3>4
  <2> QED BY <1>6, <2>1, <2>2, <2>3 DEF AllCounted
<1>8. ASSUME NEW d \in Calls PROVE Behind(call[d])'
  <2>1. CASE d = c
    BY <1>1, <2>1 DEF Begin, Behind
  <2>2. CASE d # c
    <3>1. PICK y : /\ y = call[d] /\ y = call'[d]
                   /\ Behind(y) /\ CallTyped(y)
      BY <1>1, <2>2 DEF Begin
    <3>2. ASSUME y.pc \in {"usage", "login"}, y.read.usage[y.user] # <<>>
          PROVE  /\ db'.usage[y.user] # <<>>
                 /\ y.read.usage[y.user][1] + UsedBy(db', y.user)
                       <= Attached(y.user)' + db'.usage[y.user][1]
      <4>1. PICK w \in Users, k \in Seq(Nat) :
               /\ w = y.user /\ k = y.read.usage[w] /\ k # <<>>
               /\ db.usage[w] # <<>>
               /\ k[1] + UsedBy(db, w) <= Attached(w) + db.usage[w][1]
        <5>1. y.user \in Users /\ y.read \in DbRow
          BY <3>1, <3>2 DEF CallTyped
        <5>2. y.read.usage[y.user] \in Seq(Nat)
          BY <5>1, UsageNat
        <5> QED BY <3>1, <3>2, <5>1, <5>2 DEF Behind
      <4>2. PICK p \in Nat, f \in Nat : p = k[1] /\ f = db.usage[w][1]
        BY <1>2, <4>1, FirstNat
      <4>3. /\ UsedBy(db, w) \in Nat /\ UsedBy(db', w) \in Nat
            /\ Attached(w) \in Nat
            /\ p + UsedBy(db, w) <= Attached(w) + f
        BY <1>2, <4>1, <4>2
      <4>4. CASE w # u
        <5>1. /\ UsedBy(db', w) = UsedBy(db, w)
              /\ db'.usage[w] = db.usage[w] /\ Attached(w)' = Attached(w)
          BY <1>4, <1>5, <4>1, <4>4 DEF CountsAs
        <5> QED BY <4>1, <5>1
      <4>5. CASE w = u /\ read.usage[u] = <<>>
        <5>1. /\ UsedBy(db', w) = UsedBy(db, w) + n
              /\ db'.usage[w] # <<>> /\ db'.usage[w][1] = f
              /\ Attached(w)' = Attached(w) + n
          BY <1>4, <4>1, <4>2, <4>5 DEF CountsAs
        <5>2. p + UsedBy(db', w) <= Attached(w)' + f
          BY <4>3, <5>1
        <5> QED BY <4>1, <4>2, <5>1, <5>2
      <4>6. CASE w = u /\ read.usage[u] # <<>>
        <5>1. PICK r \in Nat : r = read.usage[u][1]
          BY <1>3, <4>6
        <5>2. /\ UsedBy(db', w) + f = UsedBy(db, w) + r + n
              /\ db'.usage[w] # <<>> /\ db'.usage[w][1] = r + n
              /\ Attached(w)' = Attached(w) + n
          BY <1>4, <4>2, <4>6, <5>1 DEF CountsAs
        <5>3. PICK a \in Nat, b \in Nat, e \in Nat :
                 a = Attached(w) /\ b = UsedBy(db, w) /\ e = UsedBy(db', w)
          BY <4>3
        <5>4. p + b <= a + f /\ e + f = b + r + n /\ Attached(w)' = a + n
          BY <4>3, <5>2, <5>3
        <5>5. p + e <= (a + n) + (r + n)
          BY <5>4, Outgrown
        <5>6. p + UsedBy(db', w) <= Attached(w)' + db'.usage[w][1]
          BY <5>2, <5>3, <5>4, <5>5
        <5> QED BY <4>1, <4>2, <5>2, <5>6
      <4> QED BY <4>4, <4>5, <4>6
    <3>3. Behind(y)'
      BY <1>6, <3>2 DEF Behind
    <3> QED BY <3>1, <3>3 DEF Behind
  <2> QED BY <2>1, <2>2
<1> QED BY <1>7, <1>8

(* Where nothing is counted, a call may go on, or start from the rows as    *)
(* they are.                                                                *)
LEMMA NothingCounted ==
  ASSUME AgreeInv, BillingTyped', db'.usage = db.usage,
         UNCHANGED <<made, merged>>, lost \subseteq lost',
         \A d \in Calls : \/ call'[d] = call[d]
                          \/ call'[d].pc \notin {"usage", "login"}
                          \/ call'[d].read = db
  PROVE  AllCounted' /\ \A d \in Calls : Behind(call[d])'
<1>1. /\ \A v \in Users : /\ UsedBy(db, v)' = UsedBy(db, v)
                          /\ Attached(v)' = Attached(v)
                          /\ Attached(v) \in Nat /\ UsedBy(db, v) \in Nat
                          /\ db.usage[v] \in Seq(Nat)
      /\ \A d \in Calls : Behind(call[d])
      /\ \A d \in Calls : CallTyped(call'[d]) /\ CallTyped(call[d])
  <2>1. /\ db \in DbRow /\ made \in [Users -> Nat]
        /\ merged \in [Users -> Nat]
    BY RowTyped DEF AgreeInv
  <2>2. \A d \in Calls : CallTyped(call'[d]) /\ CallTyped(call[d])
    BY DEF AgreeInv, BillingTyped, CallTyped, DbRow
  <2> QED BY <2>1, <2>2, UsageNat DEF AgreeInv, UsedBy, Attached
<1>2. AllCounted'
  BY <1>1 DEF AgreeInv, AllCounted
<1>3. ASSUME NEW d \in Calls PROVE Behind(call[d])'
  <2> DEFINE y == call'[d]
  <2>1. /\ CallTyped(y)
        /\ Behind(y) \/ y.pc \notin {"usage", "login"} \/ y.read = db
    BY <1>1
  <2> HIDE DEF y
  <2>2. ASSUME y.pc \in {"usage", "login"}, y.read.usage[y.user] # <<>>
        PROVE  /\ db.usage[y.user] # <<>>
               /\ y.read.usage[y.user][1] + UsedBy(db, y.user)
                     <= Attached(y.user) + db.usage[y.user][1]
               /\ y.user \in Users
    <3>1. y.user \in Users
      BY <2>1, <2>2 DEF CallTyped
    <3>2. CASE Behind(y)
      BY <2>2, <3>1, <3>2 DEF Behind
    <3>3. CASE y.read = db
      <4>1. db.usage[y.user][1] \in Nat /\ db.usage[y.user] # <<>>
        BY <1>1, <2>2, <3>1, <3>3
      <4>2. UsedBy(db, y.user) <= Attached(y.user)
        BY <3>1 DEF AgreeInv, AllCounted
      <4> QED BY <1>1, <3>1, <3>3, <4>1, <4>2
    <3> QED BY <2>1, <2>2, <3>2, <3>3
  <2> QED BY <1>1, <2>2 DEF Behind, y
<1> QED BY <1>2, <1>3

(* What a call that records a request changes.                              *)
CreditSpent(read) ==
    /\ db'.credit = read.credit - Spend(read)
    /\ db'.spent = read.spent + Spend(read)
    /\ UnseenCredit(read) \subseteq lost'

Recorded(c, u, read) ==
    /\ db'.usage = [db.usage EXCEPT ![u] = Counted(read, u, 1)]
    /\ db'.bonus = IF TakesBonus(read, u)
                     THEN [db.bonus EXCEPT ![u] = read.bonus[u] + 1]
                     ELSE db.bonus
    /\ UNCHANGED <<db.claimed, db.plan, db.payg, db.added>>
    /\ UNCHANGED <<db.credit, db.spent>> \/ CreditSpent(read)
    /\ made' = [made EXCEPT ![u] = @ + 1]
    /\ UNCHANGED <<charges, notices, buys, merged, topped>>
    /\ lost \subseteq lost' /\ UnseenUsage(read, u) \subseteq lost'
    /\ UnseenBonus(read, u) \subseteq lost'
    /\ \E x : Begin(c, x) /\ x.pc \in {"rest", "due"}

LEMMA RecordChanges ==
  ASSUME BillingTyped, NEW c \in Calls, NEW u, u = call[c].user,
         NEW read, read = call[c].read,
         RecordUsage(c) \/ RecordAndSpend(c)
  PROVE  /\ call[c].pc = "usage" /\ u \in Users /\ read \in DbRow
         /\ Recorded(c, u, read)
<1>1. call[c].pc = "usage" /\ u \in Users /\ read \in DbRow /\ db \in DbRow
  BY RowTyped DEF BillingTyped, CallTyped, RecordUsage, RecordAndSpend
<1>2. /\ made' = [made EXCEPT ![u] = @ + 1]
      /\ UNCHANGED <<charges, notices, buys, merged, topped>>
  BY DEF RecordUsage, RecordAndSpend, Record
<1> DEFINE rec == Recording(read, u)
<1>3. /\ rec.usage = [db.usage EXCEPT ![u] = Counted(read, u, 1)]
      /\ rec.bonus = IF TakesBonus(read, u)
                       THEN [db.bonus EXCEPT ![u] = read.bonus[u] + 1]
                       ELSE db.bonus
      /\ rec.claimed = db.claimed /\ rec.plan = db.plan
      /\ rec.payg = db.payg /\ rec.added = db.added
      /\ rec.credit = db.credit /\ rec.spent = db.spent
      /\ DOMAIN rec = DOMAIN db
  BY <1>1 DEF Recording, DbRow
<1>4. DOMAIN db = {"plan", "payg", "due", "credit", "added", "spent",
                   "usage", "claimed", "bonus", "guest"}
  BY <1>1 DEF DbRow
<1> HIDE DEF rec
<1>5. CASE RecordUsage(c)
  <2>1. db' = [rec EXCEPT !.due = IF PayAsYouGo(read) /\ Bill(read) > 0
                                    THEN Written(Bill(read), read.due, @)
                                    ELSE @]
    BY <1>5 DEF RecordUsage, rec
  <2>2. lost' = lost \cup UnseenUsage(read, u) \cup UnseenBonus(read, u)
    BY <1>5 DEF RecordUsage
  <2>3. Begin(c, AtRest) /\ AtRest.pc = "rest"
    BY <1>5 DEF RecordUsage, Finish, Begin, AtRest
  <2> QED BY <1>1, <1>2, <1>3, <1>4, <2>1, <2>2, <2>3 DEF Recorded
<1>6. CASE RecordAndSpend(c)
  <2>1. db' = [rec EXCEPT !.credit = read.credit - Spend(read),
                          !.spent = read.spent + Spend(read)]
    BY <1>6 DEF RecordAndSpend, Spent, rec
  <2>2. lost' = lost \cup UnseenUsage(read, u) \cup UnseenBonus(read, u)
                     \cup UnseenCredit(read)
    BY <1>6 DEF RecordAndSpend
  <2> DEFINE x == [pc |-> "due", due |-> Bill(read) - Spend(read)]
  <2>3. Begin(c, x) /\ x.pc = "due"
    BY <1>6 DEF RecordAndSpend
  <2> HIDE DEF x
  <2> QED BY <1>1, <1>2, <1>3, <1>4, <2>1, <2>2, <2>3
     DEF CreditSpent, Recorded
<1> QED BY <1>5, <1>6

(* Credit that is spent, or added, on what was read.                        *)
LEMMA CreditAgrees ==
  ASSUME BillingTyped, CreditLeft, lost \subseteq lost',
         NEW read \in DbRow, db'.added = db.added,
         UNCHANGED <<db.credit, db.spent>> \/ CreditSpent(read)
  PROVE  CreditLeft'
<1>1. db \in DbRow
  BY RowTyped
<1>2. CASE UNCHANGED <<db.credit, db.spent>>
  BY <1>2 DEF CreditLeft
<1>3. CASE CreditSpent(read)
  <2>1. ASSUME Purse \notin lost' PROVE db'.credit + db'.spent = db'.added
    <3>1. /\ db.credit = read.credit /\ db.added = read.added
          /\ db.spent = read.spent /\ db.credit + db.spent = db.added
      BY <1>3, <2>1 DEF CreditSpent, UnseenCredit, CreditLeft
    <3>2. /\ db.credit \in Nat /\ db.spent \in Nat /\ db.added \in Nat
          /\ Spend(read) \in Nat
      BY <1>1, SpendFits DEF DbRow
    <3>3. /\ db'.credit = db.credit - Spend(read)
          /\ db'.spent = db.spent + Spend(read)
      BY <1>3, <3>1 DEF CreditSpent
    <3> QED BY <3>1, <3>2, <3>3
  <2> QED BY <2>1 DEF CreditLeft
<1> QED BY <1>2, <1>3

LEMMA RecordsAgree ==
  ASSUME AgreeInv, BillingTyped', NEW c \in Calls,
         RecordUsage(c) \/ RecordAndSpend(c)
  PROVE  AgreeInv'
<1>1. PICK u, read : u = call[c].user /\ read = call[c].read
  OBVIOUS
<1>2. /\ call[c].pc = "usage" /\ u \in Users /\ read \in DbRow
      /\ db'.usage = [db.usage EXCEPT ![u] = Counted(read, u, 1)]
      /\ db'.added = db.added
      /\ UNCHANGED <<db.credit, db.spent>> \/ CreditSpent(read)
      /\ made' = [made EXCEPT ![u] = @ + 1] /\ merged' = merged
      /\ lost \subseteq lost' /\ UnseenUsage(read, u) \subseteq lost'
      /\ \E x : Begin(c, x) /\ x.pc \in {"rest", "due"}
  <2>1. /\ call[c].pc = "usage" /\ u \in Users /\ read \in DbRow
        /\ Recorded(c, u, read)
    BY <1>1, RecordChanges DEF AgreeInv
  <2> QED BY <2>1 DEF Recorded
<1>3. PICK x : Begin(c, x) /\ x.pc \in {"rest", "due"}
  BY <1>2
<1>4. db' \in DbRow
  BY DEF BillingTyped, BillingTypeOK, DbRow
<1>5. /\ Attached(u)' = Attached(u) + 1
      /\ \A v \in Users \ {u} : Attached(v)' = Attached(v)
  <2>1. made \in [Users -> Nat] /\ merged \in [Users -> Nat]
    BY RowTyped DEF AgreeInv
  <2> QED BY <1>2, <2>1 DEF Attached
<1>6. AllCounted' /\ \A d \in Calls : Behind(call[d])'
  <2>1. call[c].pc \in {"usage", "login"} /\ 1 \in Nat
    BY <1>2
  <2> QED BY <1>1, <1>2, <1>3, <1>4, <1>5, <2>1, CountingAgrees
<1>7. CreditLeft'
  BY <1>2, CreditAgrees DEF AgreeInv
<1> QED BY <1>6, <1>7 DEF AgreeInv

LEMMA MergeAgrees ==
  ASSUME AgreeInv, BillingTyped', NEW c \in Calls, MergeDevice(c)
  PROVE  AgreeInv'
<1>1. PICK u, read, n : /\ u = call[c].user /\ read = call[c].read
                        /\ n = read.guest
  OBVIOUS
<1>2. /\ call[c].pc = "login" /\ u \in Users /\ read \in DbRow
      /\ db \in DbRow
      /\ made \in [Users -> Nat] /\ merged \in [Users -> Nat]
  BY <1>1, RowTyped DEF AgreeInv, BillingTyped, CallTyped, MergeDevice
<1>3. n \in Nat
  <2>1. Quota["free"] \in Nat
    BY BillingAssumption
  <2>2. n \in 0..Quota["free"]
    BY <1>1, <1>2 DEF DbRow
  <2> QED BY <2>1, <2>2
<1>4. /\ db' = [db EXCEPT !.usage[u] = Counted(read, u, n)]
      /\ merged' = [merged EXCEPT ![u] = @ + n] /\ made' = made
      /\ lost' = lost \cup UnseenUsage(read, u)
      /\ Begin(c, AtRest) /\ AtRest.pc = "rest"
  BY <1>1 DEF MergeDevice, Finish, Begin, AtRest
<1>5. /\ db' \in DbRow
      /\ db'.usage = [db.usage EXCEPT ![u] = Counted(read, u, n)]
      /\ UNCHANGED <<db.credit, db.spent, db.added>>
  <2>1. db' \in DbRow
    BY DEF BillingTyped, BillingTypeOK, DbRow
  <2> QED BY <1>2, <1>4, <2>1 DEF DbRow
<1>6. /\ Attached(u)' = Attached(u) + n
      /\ \A v \in Users \ {u} : Attached(v)' = Attached(v)
  BY <1>2, <1>3, <1>4 DEF Attached
<1>7. AllCounted' /\ \A d \in Calls : Behind(call[d])'
  <2>1. PICK x : x = AtRest
    OBVIOUS
  <2>2. /\ call[c].pc \in {"usage", "login"}
        /\ Begin(c, x) /\ x.pc \in {"rest", "due"}
        /\ lost \subseteq lost' /\ UnseenUsage(read, u) \subseteq lost'
    BY <1>2, <1>4, <2>1
  <2> QED BY <1>1, <1>3, <1>5, <1>6, <2>2, CountingAgrees
<1>8. CreditLeft'
  <2>1. lost \subseteq lost'
    BY <1>4
  <2> QED BY <1>5, <2>1 DEF AgreeInv, CreditLeft
<1> QED BY <1>7, <1>8 DEF AgreeInv

LEMMA CheckoutAgrees ==
  ASSUME AgreeInv, BillingTyped', NEW c \in Calls, ApplyCheckout(c)
  PROVE  AgreeInv'
<1>1. PICK n, read : n = call[c].notice /\ read = call[c].read
  OBVIOUS
<1>2. /\ n \in Notice /\ read \in DbRow /\ db \in DbRow
      /\ db' = Applied(n, read)
      /\ lost' = IF n.kind = "credit_topup" THEN lost \cup UnseenCredit(read)
                                            ELSE lost
      /\ UNCHANGED <<made, merged>>
  BY <1>1, RowTyped DEF AgreeInv, BillingTyped, CallTyped, ApplyCheckout
<1>3. /\ db.credit \in Nat /\ db.spent \in Nat /\ db.added \in Nat
      /\ n.amount \in Nat
      /\ n.kind \in {"subscription", "payg", "credit_topup"}
  BY <1>2 DEF DbRow, Notice
<1>4. \A d \in Calls : call'[d] = call[d] \/ call'[d].pc = "rest"
  BY DEF ApplyCheckout, Finish, Begin, AtRest, AgreeInv, BillingTyped,
         BillingTypeOK
<1>5. db'.usage = db.usage /\ CreditLeft'
  <2>1. CASE n.kind = "credit_topup"
    <3>1. db' = [db EXCEPT !.credit = read.credit + n.amount,
                           !.added = read.added + n.amount]
      BY <1>2, <2>1 DEF Applied
    <3>2. /\ db'.usage = db.usage /\ db'.spent = db.spent
          /\ db'.credit = read.credit + n.amount
          /\ db'.added = read.added + n.amount
      BY <1>2, <3>1 DEF DbRow
    <3>3. ASSUME Purse \notin lost' PROVE db'.credit + db'.spent = db'.added
      <4>1. /\ db.credit = read.credit /\ db.added = read.added
            /\ db.credit + db.spent = db.added
        BY <1>2, <2>1, <3>3 DEF UnseenCredit, AgreeInv, CreditLeft
      <4>2. PICK a \in Nat : a = n.amount
        BY <1>3
      <4> QED BY <1>3, <3>2, <4>1, <4>2
    <3> QED BY <3>2, <3>3 DEF CreditLeft
  <2>2. CASE n.kind # "credit_topup"
    <3>1. /\ db'.usage = db.usage /\ db'.spent = db.spent
          /\ db'.credit = db.credit /\ db'.added = db.added
      <4>1. CASE n.kind = "subscription"
        BY <1>2, <4>1 DEF Applied, DbRow
      <4>2. CASE n.kind = "payg"
        BY <1>2, <4>2 DEF Applied, DbRow
      <4> QED BY <1>3, <2>2, <4>1, <4>2
    <3> QED BY <1>2, <2>2, <3>1 DEF AgreeInv, CreditLeft
  <2> QED BY <2>1, <2>2
<1>6. AllCounted' /\ \A d \in Calls : Behind(call[d])'
  <2>1. lost \subseteq lost'
    BY <1>2
  <2>2. \A d \in Calls : call'[d] = call[d]
                         \/ call'[d].pc \notin {"usage", "login"}
    BY <1>4
  <2> QED BY <1>2, <1>5, <2>1, <2>2, NothingCounted
<1> QED BY <1>5, <1>6 DEF AgreeInv

(* The steps that neither count a request nor move credit.                  *)
LEMMA OthersAgree ==
  ASSUME AgreeInv, BillingTyped',
         UNCHANGED <<db.usage, db.credit, db.added, db.spent>>,
         UNCHANGED <<made, merged, lost>>,
         \A d \in Calls : \/ call'[d] = call[d]
                          \/ call'[d].pc \notin {"usage", "login"}
                          \/ call'[d].read = db
  PROVE  AgreeInv'
<1>1. AllCounted' /\ \A d \in Calls : Behind(call[d])'
  BY NothingCounted
<1> QED BY <1>1 DEF AgreeInv, CreditLeft

LEMMA CallsAgree ==
  ASSUME AgreeInv, BillingTyped', NEW c \in Calls,
         \/ \E u \in Users : Start(c, u) \/ ReadDevice(c, u)
         \/ ReadUsage(c) \/ WriteDue(c)
         \/ \E n \in notices : ReadNotice(c, n)
  PROVE  AgreeInv'
<1>1. DOMAIN call = Calls /\ db \in DbRow
  BY RowTyped DEF AgreeInv
<1>2. UNCHANGED <<db.usage, db.credit, db.added, db.spent>>
      /\ UNCHANGED <<made, merged, lost>>
  BY <1>1 DEF Start, ReadDevice, ReadUsage, ReadNotice, WriteDue, DbRow
<1>3. ASSUME NEW d \in Calls
      PROVE  \/ call'[d] = call[d]
             \/ call'[d].pc \notin {"usage", "login"}
             \/ call'[d].read = db
  <2>1. ASSUME NEW u \in Users, Start(c, u) \/ ReadDevice(c, u)
        PROVE  \/ call'[d] = call[d] \/ call'[d].pc = "chat"
               \/ call'[d].read = db
    BY <1>1, <2>1 DEF Start, ReadDevice, Begin
  <2>2. ASSUME ReadUsage(c)
        PROVE  call'[d] = call[d] \/ call'[d].read = db
    BY <1>1, <2>2 DEF ReadUsage, Begin
  <2>3. ASSUME WriteDue(c)
        PROVE  call'[d] = call[d] \/ call'[d].pc = "rest"
    BY <1>1, <2>3 DEF WriteDue, Finish, AtRest
  <2>4. ASSUME NEW n \in notices, ReadNotice(c, n)
        PROVE  call'[d] = call[d] \/ call'[d].read = db
    BY <1>1, <2>4 DEF ReadNotice, Begin
  <2> QED BY <2>1, <2>2, <2>3, <2>4
<1> QED BY <1>2, <1>3, OthersAgree

LEMMA ChoicesAgree ==
  ASSUME AgreeInv, BillingTyped',
         \/ \E u \in Users : ClaimFreeExtension(u)
         \/ \E enabled \in BOOLEAN : EnablePayg(enabled)
         \/ UseAsGuest \/ CancelSubscription
         \/ OpenCharge \/ Subscribe
         \/ \E charge \in charges : PayCharge(charge)
         \/ \E amount \in TopUps : BuyCredit(amount)
  PROVE  AgreeInv'
<1>1. db \in DbRow
  BY RowTyped DEF AgreeInv
<1>2. UNCHANGED <<db.usage, db.credit, db.added, db.spent>>
      /\ UNCHANGED <<call, made, merged, lost>>
  BY <1>1 DEF ClaimFreeExtension, EnablePayg, UseAsGuest,
              CancelSubscription, OpenCharge, Subscribe, PayCharge,
              BuyCredit, DbRow
<1> QED BY <1>2, OthersAgree

LEMMA AgreeStep == AgreeInv /\ [BillingNext]_billingVars => AgreeInv'
<1> SUFFICES ASSUME AgreeInv, [BillingNext]_billingVars
             PROVE  AgreeInv'
  OBVIOUS
<1>1. BillingTyped'
  BY BillingTypeStep DEF AgreeInv
<1>2. CASE UNCHANGED billingVars
  BY <1>1, <1>2, OthersAgree DEF billingVars
<1>3. CASE BillingNext
  BY <1>1, <1>3, CallsAgree, RecordsAgree, MergeAgrees, CheckoutAgrees,
     ChoicesAgree DEF BillingNext
<1> QED BY <1>2, <1>3

(* However the calls overlap, no member is billed for more than was made    *)
(* and merged, and what no call wrote over unseen adds up exactly: the      *)
(* usage, and the prepaid credit.                                           *)
THEOREM AccountsAlwaysAgree == BillingSpec => []AccountsAgree
<1>1. AgreeInv => AccountsAgree
  BY DEF AgreeInv, AllCounted, Attached, CreditLeft, AccountsAgree
<1> QED BY <1>1, AgreeStarts, AgreeStep, PTL DEF BillingSpec

---------------------------------------------------------------------------
(* What covers a request from its start until it is recorded.  Calls under  *)
(* way together may have been let in by the same unit, all but the first of *)
(* them in excess.  Plain are the calls whose request no bonus will cover.  *)
InFlight == {c \in Calls : call[c].pc \in {"chat", "usage"}}
Of(u) == {c \in InFlight : call[c].user = u}

Plain(x) ==
    \/ /\ x.pc = "chat"
       /\ ~ (Used(db) >= Quota["free"] /\ x.user \in db.claimed)
    \/ x.pc = "usage" /\ ~ TakesBonus(x.read, x.user)
Plainly == {c \in Calls : Plain(call[c])}

Bonuses == SumFunctionOnSet(db.bonus, db.claimed)
Limit == Quota["paid"] + Cap + db.added + Together

(* What a call knows while the team has bought nothing.                     *)
FreeCall(x) ==
    /\ x.pc # "webhook"
    /\ x.pc = "usage" =>
          /\ x.read.plan = "free" /\ ~x.read.payg
          /\ x.read.claimed \subseteq db.claimed
          /\ Used(x.read) <= Used(db)

FreeInv ==
    buys = 0 /\ lost = {} =>
       /\ db.plan = "free" /\ ~db.payg /\ charges = {} /\ notices = {}
       /\ \A c \in Calls : FreeCall(call[c])
       /\ Used(db) < Quota["free"] => \A u \in Users : db.bonus[u] = 0
       /\ \A u \in Users :
             db.bonus[u] + Cardinality(Of(u)) <= Quota["free"] + Together
       /\ Sum(made) + Cardinality(Plainly)
             <= Quota["free"] + Together + Bonuses

PaidInv ==
    lost = {} /\ db.claimed = {} =>
       Sum(made) + Cardinality(InFlight) <= Limit

LEMMA CallSets ==
  /\ Together \in Nat
  /\ \A S \in SUBSET Calls :
        /\ IsFiniteSet(S) /\ Cardinality(S) \in Nat
        /\ Cardinality(S) <= Together + 1
        /\ \A R \in SUBSET S : Cardinality(R) <= Cardinality(S)
        /\ \A c \in S : Cardinality(S \ {c}) = Cardinality(S) - 1
<1>1. IsFiniteSet(Calls) /\ Cardinality(Calls) \in Nat
  BY BillingAssumption, FS_CardinalityType
<1>2. Cardinality(Calls) # 0
  BY <1>1, BillingAssumption, FS_EmptySet
<1>3. Together \in Nat /\ Cardinality(Calls) = Together + 1
  BY <1>1, <1>2 DEF Together
<1>4. ASSUME NEW S \in SUBSET Calls
      PROVE  /\ IsFiniteSet(S) /\ Cardinality(S) \in Nat
             /\ Cardinality(S) <= Cardinality(Calls)
             /\ \A R \in SUBSET S : Cardinality(R) <= Cardinality(S)
             /\ \A c \in S : Cardinality(S \ {c}) = Cardinality(S) - 1
  <2>1. IsFiniteSet(S) /\ Cardinality(S) <= Cardinality(Calls)
    BY <1>1, FS_Subset
  <2>2. Cardinality(S) \in Nat
    BY <2>1, FS_CardinalityType
  <2>3. \A R \in SUBSET S : Cardinality(R) <= Cardinality(S)
    BY <2>1, FS_Subset
  <2>4. \A c \in S : Cardinality(S \ {c}) = Cardinality(S) - 1
    BY <2>1, FS_RemoveElement
  <2> QED BY <2>1, <2>2, <2>3, <2>4
<1> QED BY <1>3, <1>4

LEMMA QuotaNat ==
  /\ Quota["free"] \in Nat /\ Quota["paid"] \in Nat
  /\ Quota["free"] <= Quota["paid"] /\ Cap \in Nat /\ Cap > 0
BY BillingAssumption

LEMMA InCalls ==
  /\ InFlight \in SUBSET Calls /\ Plainly \in SUBSET Calls
  /\ \A u : Of(u) \in SUBSET Calls
BY DEF InFlight, Plainly, Of

(* The sums of what was made, and of the bonuses.                           *)
LEMMA MadeNat ==
  ASSUME made \in [Users -> Nat]
  PROVE  Sum(made) \in Nat /\ Sum(made) = SumFunctionOnSet(made, Users)
<1>1. DOMAIN made = Users /\ \A u \in Users : made[u] \in Nat
  OBVIOUS
<1>2. Sum(made) = SumFunctionOnSet(made, Users)
  BY <1>1 DEF Sum, SumFunction
<1> QED BY <1>1, <1>2, SumNat, BillingAssumption

(* What was made and not lost is part of what was used.                     *)
LEMMA MadeWithin ==
  ASSUME AgreeInv, lost = {}
  PROVE  Sum(made) <= Used(db)
<1> DEFINE f == [u \in Users |-> UsedBy(db, u)]
<1>1. /\ db \in DbRow /\ made \in [Users -> Nat] /\ merged \in [Users -> Nat]
      /\ IsFiniteSet(Users)
  BY RowTyped, BillingAssumption DEF AgreeInv
<1>2. \A u \in Users : /\ f[u] = made[u] + merged[u]
                       /\ made[u] \in Nat /\ merged[u] \in Nat
  BY <1>1 DEF AgreeInv, AllCounted, Attached
<1>3. Used(db) = SumFunctionOnSet(f, Users)
  BY DEF Used, Sum, SumFunction
<1> HIDE DEF f
<1>4. \A u \in Users : f[u] \in Nat /\ made[u] \in Nat /\ made[u] <= f[u]
  BY <1>2
<1> QED BY <1>1, <1>3, <1>4, MadeNat, SumAtMost

(* While nothing is lost, the usage only grows.                             *)
LEMMA UsedGrows ==
  ASSUME AgreeInv, AgreeInv', lost' = {}, lost \subseteq lost',
         \A u \in Users : Attached(u) <= Attached(u)'
  PROVE  Used(db) <= Used(db')
<1> DEFINE f == [u \in Users |-> UsedBy(db, u)]
           g == [u \in Users |-> UsedBy(db', u)]
<1>1. db \in DbRow /\ db' \in DbRow /\ IsFiniteSet(Users)
  BY BillingAssumption DEF AgreeInv, BillingTyped, BillingTypeOK, DbRow
<1>2. \A u \in Users : /\ UsedBy(db, u) = Attached(u)
                       /\ UsedBy(db', u) = Attached(u)'
  <2>1. lost = {}
    OBVIOUS
  <2> QED BY <2>1 DEF AgreeInv, AllCounted, UsedBy
<1>3. \A u \in Users : UsedBy(db, u) \in Nat
  BY <1>1, UsageNat
<1>4. \A u \in Users : UsedBy(db', u) \in Nat
  <2> DEFINE e == db'
  <2>1. e \in DbRow
    BY <1>1
  <2> HIDE DEF e
  <2>2. \A u \in Users : UsedBy(e, u) \in Nat
    BY <2>1, UsageNat
  <2> QED BY <2>2 DEF e
<1>5. /\ Used(db) = SumFunctionOnSet(f, Users)
      /\ Used(db') = SumFunctionOnSet(g, Users)
  BY DEF Used, Sum, SumFunction
<1>6. \A u \in Users : f[u] \in Nat /\ g[u] \in Nat /\ f[u] <= g[u]
  BY <1>2, <1>3, <1>4
<1> HIDE DEF f, g
<1> QED BY <1>1, <1>5, <1>6, SumAtMost

LEMMA BonusesNat ==
  ASSUME BillingTyped
  PROVE  /\ Bonuses \in Nat /\ IsFiniteSet(db.claimed)
         /\ db.claimed \subseteq Users
         /\ \A u \in Users : db.bonus[u] \in Nat
<1>1. /\ db.claimed \subseteq Users
      /\ \A u \in Users : db.bonus[u] \in Nat
  BY RowTyped DEF DbRow
<1>2. IsFiniteSet(db.claimed)
  BY <1>1, BillingAssumption, FS_Subset
<1> QED BY <1>1, <1>2, SumNat DEF Bonuses

(* The invariants say what they should.                                     *)
LEMMA Covered ==
  ASSUME AgreeInv, FreeInv, PaidInv
  PROVE  UsageCovered
<1>1. /\ Sum(made) \in Nat /\ Together \in Nat
      /\ Cardinality(InFlight) \in Nat /\ Cardinality(Plainly) \in Nat
      /\ \A u : Cardinality(Of(u)) \in Nat
  BY RowTyped, MadeNat, CallSets, InCalls DEF AgreeInv
<1>2. Limit \in Nat
  <2>1. db.added \in Nat
    BY RowTyped DEF DbRow, AgreeInv
  <2> QED BY <1>1, <2>1, QuotaNat DEF Limit
<1>3. ASSUME lost = {}, db.claimed = {} PROVE Sum(made) <= Limit
  BY <1>1, <1>2, <1>3 DEF PaidInv
<1>4. ASSUME lost = {}, buys = 0
      PROVE  Sum(made) <= (Quota["free"] + Together)
                            * (1 + Cardinality(db.claimed))
  <2>1. PICK k \in Nat : k = Quota["free"] + Together
    BY <1>1, QuotaNat
  <2>2. /\ Bonuses \in Nat /\ IsFiniteSet(db.claimed)
        /\ db.claimed \subseteq Users
        /\ \A u \in Users : db.bonus[u] \in Nat
    BY BonusesNat DEF AgreeInv
  <2>3. \A u \in db.claimed : db.bonus[u] \in Nat /\ db.bonus[u] <= k
    <3>1. \A u \in Users : db.bonus[u] + Cardinality(Of(u)) <= k
      BY <1>4, <2>1 DEF FreeInv
    <3> QED BY <1>1, <2>2, <3>1
  <2>4. Bonuses <= k * Cardinality(db.claimed)
    BY <2>2, <2>3, SumTimes DEF Bonuses
  <2>5. Sum(made) + Cardinality(Plainly) <= k + Bonuses
    BY <1>4, <2>1 DEF FreeInv
  <2>6. PICK m \in Nat : m = Cardinality(db.claimed)
    BY <2>2, FS_CardinalityType
  <2>7. k * m \in Nat /\ k * (1 + m) = k + k * m
    BY <2>1, <2>6
  <2>8. Sum(made) <= k * (1 + m)
    BY <1>1, <2>2, <2>4, <2>5, <2>6, <2>7
  <2> QED BY <2>1, <2>6, <2>8
<1> QED BY <1>3, <1>4 DEF UsageCovered, Limit

LEMMA CoverStarts == BillingInit => FreeInv /\ PaidInv
<1> SUFFICES ASSUME BillingInit PROVE FreeInv /\ PaidInv
  OBVIOUS
<1>1. /\ \A c \in Calls : call[c].pc = "rest"
      /\ db.plan = "free" /\ ~db.payg /\ charges = {} /\ notices = {}
      /\ db.claimed = {} /\ db.added = 0
      /\ \A u \in Users : db.bonus[u] = 0
  BY DEF BillingInit, AtRest
<1>2. made = [u \in Users |-> 0]
  BY DEF BillingInit
<1>3. Sum(made) = 0
  <2>1. DOMAIN made = Users /\ \A u \in Users : made[u] = 0
    BY <1>2
  <2>2. Sum(made) <= 0 * Cardinality(Users)
    BY <2>1, BillingAssumption, SumTimes DEF Sum, SumFunction
  <2>3. Cardinality(Users) \in Nat
    BY BillingAssumption, FS_CardinalityType
  <2>4. Sum(made) \in Nat
    BY <1>2, MadeNat
  <2> QED BY <2>2, <2>3, <2>4
<1>4. InFlight = {} /\ Plainly = {} /\ \A u : Of(u) = {}
  BY <1>1 DEF InFlight, Plainly, Plain, Of
<1>5. Cardinality({}) = 0
  BY FS_EmptySet
<1>6. Bonuses \in Nat /\ Together \in Nat
  BY BillingTypesStart, BonusesNat, CallSets
<1>7. FreeInv
  <2>1. \A c \in Calls : FreeCall(call[c])
    BY <1>1 DEF FreeCall
  <2>2. ASSUME NEW u \in Users
        PROVE  db.bonus[u] + Cardinality(Of(u)) <= Quota["free"] + Together
    <3>1. db.bonus[u] = 0 /\ Cardinality(Of(u)) = 0
      BY <1>1, <1>4, <1>5
    <3> QED BY <1>6, <3>1, QuotaNat
  <2>3. Sum(made) + Cardinality(Plainly)
           <= Quota["free"] + Together + Bonuses
    BY <1>3, <1>4, <1>5, <1>6, QuotaNat
  <2> QED BY <1>1, <2>1, <2>2, <2>3 DEF FreeInv
<1>8. PaidInv
  BY <1>1, <1>3, <1>4, <1>5, <1>6, QuotaNat DEF PaidInv, Limit
<1> QED BY <1>7, <1>8

(* No request is let in, or recorded.                                       *)
LEMMA PaidKept ==
  ASSUME BillingTyped, BillingTyped', PaidInv, lost \subseteq lost',
         made' = made, db.claimed \subseteq db'.claimed,
         lost' = {} => db.added <= db'.added,
         InFlight' \subseteq InFlight
  PROVE  PaidInv'
<1> SUFFICES ASSUME lost' = {}, db'.claimed = {}
             PROVE  Sum(made)' + Cardinality(InFlight)' <= Limit'
  BY DEF PaidInv
<1>1. Sum(made) + Cardinality(InFlight) <= Limit
  BY DEF PaidInv
<1>2. /\ db.added \in Nat /\ db'.added \in Nat /\ db.added <= db'.added
      /\ Sum(made) \in Nat /\ Sum(made)' = Sum(made)
  <2>1. db.added \in Nat /\ db'.added \in Nat
    BY DEF BillingTyped, BillingTypeOK
  <2> QED BY <2>1, RowTyped, MadeNat
<1>3. /\ Cardinality(InFlight) \in Nat /\ Cardinality(InFlight') \in Nat
      /\ Cardinality(InFlight') <= Cardinality(InFlight)
      /\ Together \in Nat
  <2>1. InFlight \in SUBSET Calls /\ InFlight' \in SUBSET InFlight
    BY InCalls
  <2> HIDE DEF InFlight
  <2> DEFINE R == InFlight'
  <2>2. R \in SUBSET InFlight /\ R \in SUBSET Calls
    BY <2>1
  <2> HIDE DEF R
  <2>3. /\ Cardinality(InFlight) \in Nat /\ Cardinality(R) \in Nat
        /\ Cardinality(R) <= Cardinality(InFlight) /\ Together \in Nat
    BY <2>1, <2>2, CallSets
  <2> QED BY <2>3 DEF R
<1>4. /\ Limit = Quota["paid"] + Cap + db.added + Together
      /\ Limit' = Quota["paid"] + Cap + db'.added + Together
  BY DEF Limit, Together
<1> QED BY <1>1, <1>2, <1>3, <1>4, QuotaNat

LEMMA FreeKept ==
  ASSUME AgreeInv, AgreeInv', FreeInv, lost \subseteq lost', made' = made,
         \A u \in Users : Attached(u) <= Attached(u)',
         buys' = 0 /\ lost' = {} =>
            /\ buys = 0
            /\ UNCHANGED <<db.plan, db.payg, charges, notices>>
            /\ db.claimed \subseteq db'.claimed
            /\ Bonuses' = Bonuses
            /\ \A u \in Users : db'.bonus[u] <= db.bonus[u]
            /\ \A c \in Calls :
                  \/ call'[c] = call[c]
                  \/ call'[c].pc \notin {"chat", "usage", "webhook"}
                  \/ /\ call[c].pc = "chat" /\ db' = db
                     /\ call'[c].pc = "usage" /\ call'[c].read = db
                     /\ call'[c].user = call[c].user
  PROVE  FreeInv'
<1> SUFFICES ASSUME buys' = 0, lost' = {} PROVE FreeInv'
  BY DEF FreeInv
<1>1. /\ db.plan = "free" /\ ~db.payg /\ charges = {} /\ notices = {}
      /\ \A c \in Calls : FreeCall(call[c])
      /\ Used(db) < Quota["free"] => \A u \in Users : db.bonus[u] = 0
      /\ \A u \in Users :
            db.bonus[u] + Cardinality(Of(u)) <= Quota["free"] + Together
      /\ Sum(made) + Cardinality(Plainly)
            <= Quota["free"] + Together + Bonuses
  BY DEF FreeInv
<1>2. Used(db) <= Used(db') /\ Used(db) \in Nat /\ Used(db') \in Nat
  <2>1. db \in DbRow /\ db' \in DbRow
    BY DEF AgreeInv, BillingTyped, BillingTypeOK, DbRow
  <2> DEFINE e == db'
  <2>2. e \in DbRow
    BY <2>1
  <2> HIDE DEF e
  <2>3. Used(e) \in Nat /\ Used(db) \in Nat
    BY <2>1, <2>2, UsageNat
  <2>4. Used(db) <= Used(db')
    BY UsedGrows
  <2> QED BY <2>3, <2>4 DEF e
<1>3. ASSUME NEW c \in Calls
      PROVE  /\ FreeCall(call[c])'
             /\ Plain(call[c])' => Plain(call[c])
             /\ call'[c].pc \in {"chat", "usage"} =>
                   /\ call[c].pc \in {"chat", "usage"}
                   /\ call'[c].user = call[c].user
  <2>1. PICK x, y : x = call[c] /\ y = call'[c]
    OBVIOUS
  <2>2. FreeCall(x)
    BY <1>1, <2>1
  <2>3. /\ Used(db)' = Used(db') /\ Quota["free"] \in Nat
        /\ db.claimed \subseteq db'.claimed
    BY QuotaNat DEF Used, UsedBy
  <2>4. CASE y = x
    <3>1. x.pc = "usage" => Used(x.read) \in Nat
      <4>1. x.pc = "usage" => x.read \in DbRow
        BY <2>1 DEF AgreeInv, BillingTyped, CallTyped
      <4> QED BY <4>1, UsageNat
    <3>2. FreeCall(x)'
      BY <1>2, <2>2, <2>3, <3>1 DEF FreeCall
    <3>3. Plain(x)' => Plain(x)
      BY <1>2, <2>3 DEF Plain
    <3> QED BY <2>1, <2>4, <3>2, <3>3 DEF FreeCall, Plain
  <2>5. CASE y.pc \notin {"chat", "usage", "webhook"}
    BY <2>1, <2>5 DEF FreeCall, Plain
  <2>6. CASE /\ x.pc = "chat" /\ db' = db /\ y.pc = "usage"
             /\ y.read = db /\ y.user = x.user
    <3>1. Plain(y) <=> Plain(x)
      BY <1>1, <2>6 DEF Plain, TakesBonus, PayAsYouGo
    <3>2. FreeCall(y)
      BY <1>1, <1>2, <2>6 DEF FreeCall
    <3>3. Plain(y)' <=> Plain(y)
      BY <2>3, <2>6 DEF Plain
    <3>4. FreeCall(y)' <=> FreeCall(y)
      BY <2>3, <2>6 DEF FreeCall
    <3> QED BY <2>1, <2>6, <3>1, <3>2, <3>3, <3>4 DEF FreeCall, Plain
  <2> QED BY <2>1, <2>4, <2>5, <2>6
<1>4. /\ Cardinality(Plainly)' <= Cardinality(Plainly)
      /\ Cardinality(Plainly)' \in Nat /\ Cardinality(Plainly) \in Nat
  <2>1. PICK R : R = Plainly'
    OBVIOUS
  <2>2. R \in SUBSET Plainly
    BY <1>3, <2>1 DEF Plainly
  <2>3. /\ Cardinality(R) <= Cardinality(Plainly)
        /\ Cardinality(R) \in Nat /\ Cardinality(Plainly) \in Nat
    BY <2>2, CallSets, InCalls
  <2> QED BY <2>1, <2>3
<1>5. ASSUME NEW u \in Users
      PROVE  /\ Cardinality(Of(u))' <= Cardinality(Of(u))
             /\ Cardinality(Of(u))' \in Nat /\ Cardinality(Of(u)) \in Nat
  <2>1. PICK R : R = Of(u)'
    OBVIOUS
  <2>2. R \in SUBSET Of(u)
    BY <1>3, <2>1 DEF Of, InFlight
  <2>3. /\ Cardinality(R) <= Cardinality(Of(u))
        /\ Cardinality(R) \in Nat /\ Cardinality(Of(u)) \in Nat
    BY <2>2, CallSets, InCalls
  <2> QED BY <2>1, <2>3
<1>6. /\ Sum(made)' = Sum(made) /\ Sum(made) \in Nat /\ Bonuses \in Nat
      /\ Together' = Together /\ Together \in Nat
      /\ \A u \in Users : db.bonus[u] \in Nat /\ db'.bonus[u] \in Nat
  <2>1. \A u \in Users : db.bonus[u] \in Nat /\ db'.bonus[u] \in Nat
    BY DEF AgreeInv, BillingTyped, BillingTypeOK
  <2> QED
    BY <2>1, RowTyped, MadeNat, BonusesNat, CallSets DEF AgreeInv, Together
<1>7. Used(db') < Quota["free"] => \A u \in Users : db'.bonus[u] = 0
  BY <1>1, <1>2, <1>6, QuotaNat
<1>8. \A u \in Users : db'.bonus[u] + Cardinality(Of(u))'
                          <= Quota["free"] + Together
  BY <1>1, <1>5, <1>6, QuotaNat
<1>9. Sum(made)' + Cardinality(Plainly)'
         <= Quota["free"] + Together + Bonuses'
  BY <1>1, <1>4, <1>6, QuotaNat
<1>10. Used(db)' = Used(db')
  BY DEF Used, UsedBy
<1> QED
  BY <1>1, <1>3, <1>6, <1>7, <1>8, <1>9, <1>10 DEF FreeInv, Together

(* A request is let in: CanStart, and at most all the calls together.       *)
LEMMA StartCovers ==
  ASSUME AgreeInv, FreeInv, PaidInv, NEW c \in Calls, NEW u \in Users,
         Start(c, u)
  PROVE  FreeInv' /\ PaidInv'
<1> DEFINE x == [pc |-> "chat", user |-> u]
<1>1. /\ call[c].pc = "rest" /\ CanStart(db, u)
      /\ call' = [call EXCEPT ![c] = x]
      /\ UNCHANGED <<db, charges, notices, buys, made, merged, topped, lost>>
  BY DEF Start, Begin, AtRest
<1>2. /\ db \in DbRow /\ DOMAIN call = Calls /\ Used(db) \in Nat
      /\ Bill(db) \in Nat /\ Sum(made) \in Nat
      /\ db.credit \in Nat /\ db.spent \in Nat /\ db.added \in Nat
      /\ Quota[db.plan] \in Nat /\ Quota[db.plan] <= Quota["paid"]
  <2>1. db \in DbRow /\ DOMAIN call = Calls /\ made \in [Users -> Nat]
    BY RowTyped DEF AgreeInv
  <2>2. Used(db) \in Nat /\ Bill(db) \in Nat /\ Sum(made) \in Nat
    BY <2>1, UsageNat, MadeNat
  <2>3. /\ db.credit \in Nat /\ db.spent \in Nat /\ db.added \in Nat
        /\ db.plan \in {"free", "paid"}
    BY <2>1 DEF DbRow, Plans
  <2> QED BY <2>1, <2>2, <2>3, QuotaNat
<1>3. /\ x.pc = "chat" /\ x.user = u
      /\ call'[c] = x /\ \A d \in Calls \ {c} : call'[d] = call[d]
  BY <1>1, <1>2
<1> HIDE DEF x
<1>4. /\ Used(db)' = Used(db) /\ Sum(made)' = Sum(made)
      /\ Bonuses' = Bonuses /\ Limit' = Limit /\ Together' = Together
  BY <1>1 DEF Bonuses, Limit, Together
<1>5. ASSUME NEW S, S \in SUBSET Calls
      PROVE  Cardinality(S) \in Nat /\ Cardinality(S) <= Together + 1
  BY <1>5, CallSets
<1>6. /\ Together \in Nat /\ Together + 1 \in Nat
      /\ Cardinality(InFlight)' <= Together + 1
      /\ Cardinality(Plainly)' <= Together + 1
      /\ \A v : Cardinality(Of(v))' <= Together + 1
      /\ Cardinality(InFlight)' \in Nat /\ Cardinality(Plainly)' \in Nat
      /\ \A v : Cardinality(Of(v))' \in Nat
  <2>1. /\ InFlight' \in SUBSET Calls /\ Plainly' \in SUBSET Calls
        /\ \A v : Of(v)' \in SUBSET Calls
    BY DEF InFlight, Plainly, Of
  <2> QED BY <1>5, <2>1, CallSets
<1>7. PaidInv'
  <2> SUFFICES ASSUME lost = {}, db.claimed = {}
               PROVE  Sum(made) + Cardinality(InFlight)' <= Limit
    BY <1>1, <1>4 DEF PaidInv
  <2>1. db.credit + db.spent = db.added /\ Sum(made) <= Used(db)
    BY MadeWithin DEF AgreeInv, CreditLeft
  <2>2. PICK q \in Nat : q = Quota[db.plan]
    BY <1>2
  <2>3. Used(db) < q \/ Bill(db) < db.credit + Cap
    BY <1>1, <2>2 DEF CanStart
  <2>4. Bill(db) = IF Used(db) > q THEN Used(db) - q ELSE 0
    BY <2>2 DEF Bill, Beyond
  <2>5. Used(db) < Quota["paid"] + Cap + db.added
    BY <1>2, <2>1, <2>2, <2>3, <2>4, QuotaNat
  <2>6. Limit = Quota["paid"] + Cap + db.added + Together
    BY DEF Limit
  <2> QED BY <1>2, <1>6, <2>1, <2>5, <2>6, QuotaNat
<1>8. FreeInv'
  <2> SUFFICES ASSUME buys = 0, lost = {} PROVE FreeInv'
    BY <1>1 DEF FreeInv
  <2>1. /\ db.plan = "free" /\ ~db.payg /\ charges = {} /\ notices = {}
        /\ \A d \in Calls : FreeCall(call[d])
        /\ Used(db) < Quota["free"] => \A v \in Users : db.bonus[v] = 0
        /\ \A v \in Users :
              db.bonus[v] + Cardinality(Of(v)) <= Quota["free"] + Together
        /\ Sum(made) + Cardinality(Plainly)
              <= Quota["free"] + Together + Bonuses
    BY DEF FreeInv
  <2>2. \/ Used(db) < Quota["free"]
        \/ u \in db.claimed /\ db.bonus[u] < Quota["free"]
    BY <1>1, <2>1 DEF CanStart, PayAsYouGo
  <2>3. \A d \in Calls : FreeCall(call[d])'
    <3>1. PICK y : y = x
      OBVIOUS
    <3>2. FreeCall(y)'
      BY <1>3, <3>1 DEF FreeCall
    <3>3. ASSUME NEW d \in Calls \ {c} PROVE FreeCall(call[d])'
      BY <1>1, <1>3, <1>4, <2>1 DEF FreeCall
    <3> QED BY <1>3, <3>1, <3>2, <3>3 DEF FreeCall
  <2>4. Bonuses \in Nat /\ \A v \in Users : db.bonus[v] \in Nat
    BY BonusesNat DEF AgreeInv
  <2>5. ASSUME NEW v \in Users
        PROVE  db.bonus[v] + Cardinality(Of(v))' <= Quota["free"] + Together
    <3>1. CASE v # u
      <4>1. Of(v)' = Of(v)
        BY <1>1, <1>2, <1>3, <3>1 DEF Of, InFlight
      <4> QED BY <2>1, <4>1
    <3>2. CASE v = u
      <4>1. db.bonus[u] < Quota["free"]
        BY <1>2, <2>1, <2>2, QuotaNat
      <4> QED BY <1>6, <2>4, <3>2, <4>1, QuotaNat
    <3> QED BY <3>1, <3>2
  <2>6. Sum(made) + Cardinality(Plainly)'
           <= Quota["free"] + Together + Bonuses
    <3>1. CASE Used(db) < Quota["free"]
      <4>1. Sum(made) <= Used(db)
        BY MadeWithin
      <4> QED BY <1>2, <1>6, <2>4, <3>1, <4>1, QuotaNat
    <3>2. CASE ~(Used(db) < Quota["free"])
      <4>1. PICK y : y = x
        OBVIOUS
      <4>2. ~Plain(y)'
        BY <1>1, <1>2, <1>3, <1>4, <2>2, <3>2, <4>1, QuotaNat DEF Plain
      <4>3. \A d \in Calls \ {c} : Plain(call[d])' <=> Plain(call[d])
        BY <1>1, <1>3, <1>4 DEF Plain
      <4>4. ~Plain(call[c])' /\ ~Plain(call[c])
        BY <1>1, <1>3, <4>1, <4>2 DEF Plain
      <4>5. Plainly' = Plainly
        BY <4>3, <4>4 DEF Plainly
      <4> QED BY <2>1, <4>5
    <3> QED BY <3>1, <3>2
  <2> QED BY <1>1, <1>4, <2>1, <2>3, <2>5, <2>6 DEF FreeInv, Together
<1> QED BY <1>7, <1>8

(* Recording ends a call, and takes a bonus only where none was left plain. *)
LEMMA MadeOneMore ==
  ASSUME made \in [Users -> Nat], NEW u \in Users,
         made' = [made EXCEPT ![u] = @ + 1]
  PROVE  Sum(made)' = Sum(made) + 1
<1> DEFINE g == made'
<1>1. /\ IsFiniteSet(Users) /\ \A v \in Users : made[v] \in Int
      /\ g[u] \in Int /\ g[u] = made[u] + 1
      /\ \A v \in Users \ {u} : g[v] = made[v]
      /\ DOMAIN g = Users /\ g \in [Users -> Nat]
  BY BillingAssumption
<1> HIDE DEF g
<1>2. SumFunctionOnSet(g, Users)
         = SumFunctionOnSet(made, Users) - made[u] + g[u]
  <2>1. /\ IsFiniteSet(Users) /\ \A v \in Users : made[v] \in Int
        /\ g[u] \in Int /\ \A v \in Users \ {u} : g[v] = made[v]
    BY <1>1
  <2> QED BY <2>1, SumChanged
<1>3. SumFunctionOnSet(made, Users) \in Int /\ made[u] \in Int
  BY <1>1, SumInt
<1>4. Sum(g) = SumFunctionOnSet(g, Users)
  BY <1>1 DEF Sum, SumFunction
<1>5. Sum(made) = SumFunctionOnSet(made, Users)
  BY MadeNat
<1>6. Sum(g) = Sum(made) + 1
  BY <1>1, <1>2, <1>3, <1>4, <1>5
<1> QED BY <1>6 DEF g

LEMMA RecordCovers ==
  ASSUME AgreeInv, AgreeInv', FreeInv, PaidInv, NEW c \in Calls,
         RecordUsage(c) \/ RecordAndSpend(c)
  PROVE  FreeInv' /\ PaidInv'
<1>1. PICK u, read : u = call[c].user /\ read = call[c].read
  OBVIOUS
<1>2. /\ call[c].pc = "usage" /\ u \in Users /\ read \in DbRow
      /\ Recorded(c, u, read)
  BY <1>1, RecordChanges DEF AgreeInv
<1>3. PICK x : Begin(c, x) /\ x.pc \in {"rest", "due"}
  BY <1>2 DEF Recorded
<1>4. /\ made' = [made EXCEPT ![u] = @ + 1] /\ buys' = buys
      /\ UNCHANGED <<charges, notices, merged>> /\ lost \subseteq lost'
      /\ UNCHANGED <<db.claimed, db.plan, db.payg, db.added>>
  BY <1>2 DEF Recorded
<1>5. /\ db \in DbRow /\ DOMAIN call = Calls /\ made \in [Users -> Nat]
      /\ merged \in [Users -> Nat]
  BY RowTyped DEF AgreeInv
<1>6. call'[c] = x /\ \A d \in Calls \ {c} : call'[d] = call[d]
  BY <1>3, <1>5 DEF Begin
<1>7. Sum(made)' = Sum(made) + 1 /\ Sum(made) \in Nat
  BY <1>2, <1>4, <1>5, MadeOneMore, MadeNat
<1>8. /\ InFlight' = InFlight \ {c} /\ c \in InFlight
      /\ Of(u)' = Of(u) \ {c} /\ c \in Of(u)
      /\ \A v \in Users \ {u} : Of(v)' = Of(v)
  BY <1>1, <1>2, <1>3, <1>6 DEF InFlight, Of
<1>9. PaidInv'
  <2> SUFFICES ASSUME lost' = {}, db'.claimed = {}
               PROVE  Sum(made)' + Cardinality(InFlight)' <= Limit'
    BY DEF PaidInv
  <2>1. Sum(made) + Cardinality(InFlight) <= Limit /\ Limit' = Limit
    BY <1>4 DEF PaidInv, Limit, Together
  <2>2. /\ Cardinality(InFlight)' = Cardinality(InFlight) - 1
        /\ Cardinality(InFlight) \in Nat
    <3>1. /\ Cardinality(InFlight \ {c}) = Cardinality(InFlight) - 1
          /\ Cardinality(InFlight) \in Nat
      BY <1>8, CallSets, InCalls
    <3> QED BY <1>8, <3>1
  <2>3. Limit \in Nat
    <3>1. db.added \in Nat
      BY <1>5 DEF DbRow
    <3> QED BY <3>1, CallSets, QuotaNat DEF Limit
  <2> QED BY <1>7, <2>1, <2>2, <2>3
<1>10. FreeInv'
  <2> SUFFICES ASSUME buys = 0, lost' = {} PROVE FreeInv'
    BY <1>4 DEF FreeInv
  <2>1. /\ db.plan = "free" /\ ~db.payg /\ charges = {} /\ notices = {}
        /\ \A d \in Calls : FreeCall(call[d])
        /\ Used(db) < Quota["free"] => \A v \in Users : db.bonus[v] = 0
        /\ \A v \in Users :
              db.bonus[v] + Cardinality(Of(v)) <= Quota["free"] + Together
        /\ Sum(made) + Cardinality(Plainly)
              <= Quota["free"] + Together + Bonuses
    BY <1>4 DEF FreeInv
  <2>2. /\ read.plan = "free" /\ ~read.payg
        /\ read.claimed \subseteq db.claimed /\ Used(read) <= Used(db)
    BY <1>1, <1>2, <2>1 DEF FreeCall
  <2>3. TakesBonus(read, u) <=>
           Used(read) >= Quota["free"] /\ u \in read.claimed
    BY <2>2 DEF TakesBonus, PayAsYouGo
  <2>4. db'.bonus = IF TakesBonus(read, u)
                      THEN [db.bonus EXCEPT ![u] = db.bonus[u] + 1]
                      ELSE db.bonus
    BY <1>2 DEF Recorded, UnseenBonus
  <2>5. /\ Used(db) <= Used(db') /\ Used(db) \in Nat /\ Used(db') \in Nat
        /\ Used(read) \in Nat
    <3>1. \A v \in Users : Attached(v) <= Attached(v)'
      BY <1>2, <1>4, <1>5 DEF Attached
    <3>2. Used(db) <= Used(db')
      BY <1>4, <3>1, UsedGrows
    <3> DEFINE e == db'
    <3>3. e \in DbRow
      BY DEF AgreeInv, BillingTyped, BillingTypeOK, DbRow
    <3> HIDE DEF e
    <3>4. Used(e) \in Nat /\ Used(db) \in Nat /\ Used(read) \in Nat
      BY <1>2, <1>5, <3>3, UsageNat
    <3> QED BY <3>2, <3>4 DEF e
  <2>6. ASSUME NEW d \in Calls
        PROVE  /\ FreeCall(call[d])'
               /\ Plain(call[d])' => d # c /\ Plain(call[d])
    <3>1. CASE d = c
      BY <1>3, <1>6, <3>1 DEF FreeCall, Plain
    <3>2. CASE d # c
      <4>1. PICK y : y = call[d] /\ y = call'[d]
        BY <1>6, <3>2
      <4>2. /\ FreeCall(y) /\ Used(db)' = Used(db')
            /\ y.pc = "usage" => Used(y.read) \in Nat
        <5>1. y.pc = "usage" => y.read \in DbRow
          BY <4>1 DEF AgreeInv, BillingTyped, CallTyped
        <5> QED BY <2>1, <4>1, <5>1, UsageNat DEF Used, UsedBy
      <4>3. FreeCall(y)'
        BY <1>4, <2>5, <4>2 DEF FreeCall
      <4>4. Plain(y)' => Plain(y)
        BY <1>4, <2>5, <4>2, QuotaNat DEF Plain
      <4> QED BY <3>2, <4>1, <4>3, <4>4 DEF FreeCall, Plain
    <3> QED BY <3>1, <3>2
  <2>7. /\ \A v \in Users : db.bonus[v] \in Nat
        /\ Bonuses \in Nat /\ IsFiniteSet(db.claimed)
        /\ db.claimed \subseteq Users /\ DOMAIN db.bonus = Users
        /\ Together' = Together /\ Together \in Nat
    BY <1>5, BonusesNat, CallSets DEF AgreeInv, Together, DbRow
  <2>8. Used(db') < Quota["free"] => \A v \in Users : db'.bonus[v] = 0
    BY <2>1, <2>2, <2>3, <2>4, <2>5, QuotaNat
  <2>9. ASSUME NEW v \in Users
        PROVE  db'.bonus[v] + Cardinality(Of(v))' <= Quota["free"] + Together
    <3>1. CASE v # u
      BY <1>8, <2>1, <2>4, <2>7, <3>1
    <3>2. CASE v = u
      <4>1. /\ Cardinality(Of(u) \ {c}) = Cardinality(Of(u)) - 1
            /\ Cardinality(Of(u)) \in Nat
        BY <1>8, CallSets, InCalls
      <4>2. Cardinality(Of(u))' = Cardinality(Of(u)) - 1
        BY <1>8, <4>1
      <4>3. db'.bonus[u] <= db.bonus[u] + 1 /\ db'.bonus[u] \in Nat
        BY <1>2, <2>4, <2>7
      <4> QED BY <1>2, <2>1, <2>7, <3>2, <4>1, <4>2, <4>3, QuotaNat
    <3> QED BY <3>1, <3>2
  <2>10. Sum(made)' + Cardinality(Plainly)'
            <= Quota["free"] + Together + Bonuses'
    <3>1. PICK R : R = Plainly'
      OBVIOUS
    <3>2. R \subseteq Plainly \ {c}
      BY <2>6, <3>1 DEF Plainly
    <3>3. Plainly \in SUBSET Calls
      BY InCalls
    <3>4. CASE TakesBonus(read, u)
      <4>1. /\ Cardinality(R) <= Cardinality(Plainly)
            /\ Cardinality(R) \in Nat /\ Cardinality(Plainly) \in Nat
        <5>1. R \in SUBSET Plainly /\ R \in SUBSET Calls
          BY <3>2, <3>3
        <5> QED BY <3>3, <5>1, CallSets
      <4>2. u \in db.claimed
        BY <2>2, <2>3, <3>4
      <4>3. PICK g, S : g = db'.bonus /\ S = db.claimed
        OBVIOUS
      <4>4. /\ IsFiniteSet(S) /\ u \in S /\ \A v \in S : db.bonus[v] \in Int
            /\ g[u] = db.bonus[u] + 1 /\ g[u] \in Int
            /\ \A v \in S \ {u} : g[v] = db.bonus[v]
        BY <1>2, <2>4, <2>7, <3>4, <4>2, <4>3
      <4>5. SumFunctionOnSet(g, S)
               = SumFunctionOnSet(db.bonus, S) - db.bonus[u] + g[u]
        BY <4>4, SumChanged
      <4>6. Bonuses' = Bonuses + 1
        <5>1. /\ Bonuses' = SumFunctionOnSet(g, S)
              /\ Bonuses = SumFunctionOnSet(db.bonus, S)
          BY <1>4, <4>3 DEF Bonuses
        <5>2. db.bonus[u] \in Int
          BY <4>4
        <5> QED BY <2>7, <4>4, <4>5, <5>1, <5>2
      <4> QED BY <1>7, <2>1, <2>7, <3>1, <4>1, <4>6, QuotaNat
    <3>5. CASE ~TakesBonus(read, u)
      <4>1. c \in Plainly
        BY <1>1, <1>2, <3>5 DEF Plainly, Plain
      <4>2. /\ Cardinality(R) <= Cardinality(Plainly) - 1
            /\ Cardinality(R) \in Nat /\ Cardinality(Plainly) \in Nat
        <5>1. Cardinality(Plainly \ {c}) = Cardinality(Plainly) - 1
              /\ Cardinality(Plainly) \in Nat
          BY <3>3, <4>1, CallSets
        <5>2. /\ R \in SUBSET (Plainly \ {c})
              /\ Plainly \ {c} \in SUBSET Calls /\ R \in SUBSET Calls
          BY <3>2, <3>3
        <5>3. /\ Cardinality(R) <= Cardinality(Plainly \ {c})
              /\ Cardinality(R) \in Nat
          BY <5>2, CallSets
        <5> QED BY <5>1, <5>3
      <4>3. Bonuses' = Bonuses
        BY <1>4, <2>4, <3>5 DEF Bonuses
      <4> QED BY <1>7, <2>1, <2>7, <3>1, <4>2, <4>3, QuotaNat
    <3> QED BY <3>4, <3>5
  <2>11. Used(db)' = Used(db')
    BY DEF Used, UsedBy
  <2> QED
    BY <1>4, <2>1, <2>6, <2>7, <2>8, <2>9, <2>10, <2>11 DEF FreeInv
<1> QED BY <1>9, <1>10

(* The other steps of a call let in no request and record none.             *)
LEMMA CallsCover ==
  ASSUME AgreeInv, AgreeInv', FreeInv, PaidInv, NEW c \in Calls,
         \/ \E u \in Users : ReadDevice(c, u)
         \/ ReadUsage(c) \/ WriteDue(c) \/ MergeDevice(c)
         \/ \E n \in notices : ReadNotice(c, n)
         \/ ApplyCheckout(c)
  PROVE  FreeInv' /\ PaidInv'
<1>1. /\ db \in DbRow /\ DOMAIN call = Calls
      /\ made \in [Users -> Nat] /\ merged \in [Users -> Nat]
      /\ CallTyped(call[c])
  BY RowTyped DEF AgreeInv, BillingTyped
<1>2. PICK x : /\ Begin(c, x)
               /\ \/ x.pc \in {"rest", "login"}
                  \/ x.pc = "webhook" /\ notices # {}
                  \/ /\ call[c].pc = "chat" /\ db' = db
                     /\ x.pc = "usage" /\ x.read = db
                     /\ x.user = call[c].user
  <2>1. ASSUME NEW u \in Users, ReadDevice(c, u)
        PROVE  \E x : Begin(c, x) /\ x.pc = "login"
    BY <2>1 DEF ReadDevice
  <2>2. ASSUME ReadUsage(c)
        PROVE  \E x : /\ Begin(c, x) /\ call[c].pc = "chat" /\ db' = db
                      /\ x.pc = "usage" /\ x.read = db
                      /\ x.user = call[c].user
    BY <2>2 DEF ReadUsage
  <2>3. ASSUME NEW n \in notices, ReadNotice(c, n)
        PROVE  \E x : Begin(c, x) /\ x.pc = "webhook"
    BY <2>3 DEF ReadNotice
  <2>4. ASSUME WriteDue(c) \/ MergeDevice(c) \/ ApplyCheckout(c)
        PROVE  \E x : Begin(c, x) /\ x.pc = "rest"
    <3>1. Begin(c, AtRest) /\ AtRest.pc = "rest"
      BY <2>4 DEF WriteDue, MergeDevice, ApplyCheckout, Finish, Begin, AtRest
    <3> QED BY <3>1
  <2> QED BY <2>1, <2>2, <2>3, <2>4
<1>3. call'[c] = x /\ \A d \in Calls \ {c} : call'[d] = call[d]
  BY <1>1, <1>2 DEF Begin
<1>4. UNCHANGED <<charges, buys, made>> /\ lost \subseteq lost'
  BY DEF ReadDevice, ReadUsage, WriteDue, MergeDevice, ReadNotice,
         ApplyCheckout
<1>5. \A u \in Users : Attached(u) <= Attached(u)'
  <2>1. CASE MergeDevice(c)
    <3>1. merged' \in [Users -> Nat]
      BY DEF AgreeInv, BillingTyped, BillingTypeOK
    <3>2. merged' = [merged EXCEPT ![call[c].user] = @ + call[c].read.guest]
      BY <2>1 DEF MergeDevice
    <3>3. PICK u, n : /\ u = call[c].user /\ n = call[c].read.guest
                      /\ u \in Users /\ n \in Nat
      <4>1. call[c].user \in Users /\ call[c].read \in DbRow
        BY <1>1, <2>1 DEF MergeDevice, CallTyped
      <4>2. call[c].read.guest \in 0..Quota["free"]
        BY <4>1 DEF DbRow
      <4>3. call[c].read.guest \in Nat
        BY <4>2, QuotaNat
      <4> QED BY <4>1, <4>3
    <3>4. \A v \in Users : merged[v] <= merged'[v] /\ merged'[v] \in Nat
      BY <1>1, <3>1, <3>2, <3>3
    <3> QED BY <1>1, <1>4, <3>4 DEF Attached
  <2>2. CASE ~MergeDevice(c)
    <3>1. UNCHANGED <<made, merged>>
      BY <2>2 DEF ReadDevice, ReadUsage, WriteDue, ReadNotice, ApplyCheckout
    <3> QED BY <1>1, <3>1 DEF Attached
  <2> QED BY <2>1, <2>2
<1>6. /\ db'.claimed = db.claimed
      /\ lost' = {} => db.added <= db'.added
      /\ call[c].pc # "webhook" => UNCHANGED <<db.plan, db.payg, db.bonus>>
  <2>1. CASE ~ApplyCheckout(c)
    <3>1. UNCHANGED <<db.claimed, db.added, db.plan, db.payg, db.bonus>>
      BY <1>1, <2>1 DEF ReadDevice, ReadUsage, WriteDue, MergeDevice,
                        ReadNotice, DbRow
    <3>2. db.added \in Nat
      BY <1>1 DEF DbRow
    <3> QED BY <3>1, <3>2
  <2>2. CASE ApplyCheckout(c)
    <3>1. PICK n, read : n = call[c].notice /\ read = call[c].read
      OBVIOUS
    <3>2. /\ call[c].pc = "webhook" /\ n \in Notice /\ read \in DbRow
          /\ db' = Applied(n, read)
          /\ lost' = IF n.kind = "credit_topup"
                       THEN lost \cup UnseenCredit(read) ELSE lost
      BY <1>1, <2>2, <3>1 DEF ApplyCheckout, CallTyped
    <3>3. /\ db.added \in Nat /\ n.amount \in Nat
          /\ n.kind \in {"subscription", "payg", "credit_topup"}
      BY <1>1, <3>2 DEF DbRow, Notice
    <3>4. CASE n.kind # "credit_topup"
      <4>1. \/ db' = [db EXCEPT !.plan = Written("paid", read.plan, @),
                               !.due = Written(0, read.due, @)]
            \/ db' = [db EXCEPT !.due = Written(0, read.due, @)]
        BY <3>2, <3>3, <3>4 DEF Applied
      <4>2. db'.claimed = db.claimed /\ db'.added = db.added
        BY <1>1, <4>1 DEF DbRow
      <4> QED BY <3>2, <3>3, <4>2
    <3>5. CASE n.kind = "credit_topup"
      <4>1. db' = [db EXCEPT !.credit = read.credit + n.amount,
                             !.added = read.added + n.amount]
        BY <3>2, <3>5 DEF Applied
      <4>2. db'.claimed = db.claimed /\ db'.added = read.added + n.amount
        BY <1>1, <4>1 DEF DbRow
      <4>3. lost' = {} => read.added = db.added
        BY <3>2, <3>5 DEF UnseenCredit
      <4> QED BY <3>2, <3>3, <4>2, <4>3
    <3> QED BY <3>4, <3>5
  <2> QED BY <2>1, <2>2
<1>7. PaidInv'
  <2>1. InFlight' \subseteq InFlight
    BY <1>2, <1>3 DEF InFlight
  <2> QED BY <1>4, <1>6, <2>1, PaidKept DEF AgreeInv
<1>8. FreeInv'
  <2>1. ASSUME buys' = 0, lost' = {}
        PROVE  /\ buys = 0
               /\ UNCHANGED <<db.plan, db.payg, charges, notices>>
               /\ db.claimed \subseteq db'.claimed
               /\ Bonuses' = Bonuses
               /\ \A u \in Users : db'.bonus[u] <= db.bonus[u]
               /\ \A d \in Calls :
                     \/ call'[d] = call[d]
                     \/ call'[d].pc \notin {"chat", "usage", "webhook"}
                     \/ /\ call[d].pc = "chat" /\ db' = db
                        /\ call'[d].pc = "usage" /\ call'[d].read = db
                        /\ call'[d].user = call[d].user
    <3>1. notices = {} /\ call[c].pc # "webhook"
      BY <1>4, <2>1 DEF FreeInv, FreeCall
    <3>2. UNCHANGED <<db.plan, db.payg, db.bonus, db.claimed>>
      BY <1>6, <3>1
    <3>3. notices' = notices
      BY <3>1 DEF ReadDevice, ReadUsage, WriteDue, MergeDevice, ReadNotice,
                  ApplyCheckout
    <3>4. Bonuses' = Bonuses
      BY <3>2 DEF Bonuses
    <3>5. \A u \in Users : db.bonus[u] \in Nat
      BY <1>1 DEF DbRow
    <3> QED BY <1>2, <1>3, <1>4, <2>1, <3>1, <3>2, <3>3, <3>4, <3>5
  <2> QED BY <1>4, <1>5, <2>1, FreeKept
<1> QED BY <1>7, <1>8

LEMMA ChoicesCover ==
  ASSUME AgreeInv, AgreeInv', FreeInv, PaidInv,
         \/ \E u \in Users : ClaimFreeExtension(u)
         \/ \E enabled \in BOOLEAN : EnablePayg(enabled)
         \/ UseAsGuest \/ CancelSubscription
  PROVE  FreeInv' /\ PaidInv'
<1>1. db \in DbRow /\ made \in [Users -> Nat] /\ merged \in [Users -> Nat]
  BY RowTyped DEF AgreeInv
<1>2. UNCHANGED <<call, charges, notices, buys, made, merged, lost>>
  BY DEF ClaimFreeExtension, EnablePayg, UseAsGuest, CancelSubscription
<1>3. db'.added = db.added /\ db.added \in Nat
  BY <1>1 DEF ClaimFreeExtension, EnablePayg, UseAsGuest,
              CancelSubscription, DbRow
<1> DEFINE Claims(u) == /\ u \notin db.claimed /\ db'.bonus[u] = 0
                        /\ db'.claimed = db.claimed \cup {u}
                        /\ UNCHANGED <<db.plan, db.payg>>
                        /\ \A v \in Users \ {u} : db'.bonus[v] = db.bonus[v]
<1>4. ASSUME NEW u \in Users, ClaimFreeExtension(u) PROVE Claims(u)
  <2>1. /\ u \notin db.claimed
        /\ db' = [db EXCEPT !.claimed = @ \cup {u}, !.bonus[u] = 0]
    BY <1>4 DEF ClaimFreeExtension
  <2> QED BY <1>1, <2>1 DEF DbRow
<1>5. ASSUME \A u \in Users : ~ClaimFreeExtension(u)
      PROVE  UNCHANGED <<db.claimed, db.bonus>>
  BY <1>1, <1>5 DEF EnablePayg, UseAsGuest, CancelSubscription, DbRow
<1>6. db.claimed \subseteq db'.claimed
  BY <1>4, <1>5
<1>7. PaidInv'
  <2>1. InFlight' = InFlight
    BY <1>2 DEF InFlight
  <2> QED BY <1>2, <1>3, <1>6, <2>1, PaidKept DEF AgreeInv
<1>8. ASSUME NEW u \in Users, Claims(u)
      PROVE  Bonuses' = Bonuses /\ \A v \in Users : db'.bonus[v] <= db.bonus[v]
  <2>1. /\ IsFiniteSet(db.claimed) /\ db.claimed \subseteq Users
        /\ \A v \in Users : db.bonus[v] \in Nat
    BY BonusesNat DEF AgreeInv
  <2>2. PICK g, S : g = db'.bonus /\ S = db.claimed
    OBVIOUS
  <2>3. /\ IsFiniteSet(S) /\ u \notin S /\ g[u] = 0
        /\ \A v \in S : g[v] = db.bonus[v]
        /\ \A v \in S \cup {u} : g[v] \in Int
    BY <1>8, <2>1, <2>2
  <2>4. SumFunctionOnSet(g, S \cup {u}) = SumFunctionOnSet(g, S)
    BY <2>3, SumNothingMore
  <2>5. SumFunctionOnSet(g, S) = SumFunctionOnSet(db.bonus, S)
    BY <2>3, SumSame
  <2>6. Bonuses' = SumFunctionOnSet(g, S \cup {u})
    BY <1>8, <2>2 DEF Bonuses
  <2>7. Bonuses = SumFunctionOnSet(db.bonus, S)
    BY <2>2 DEF Bonuses
  <2>8. \A v \in Users : db'.bonus[v] <= db.bonus[v]
    BY <1>8, <2>1
  <2> QED BY <2>4, <2>5, <2>6, <2>7, <2>8
<1>9. ASSUME buys = 0, lost = {}
      PROVE  /\ UNCHANGED <<db.plan, db.payg>> /\ Bonuses' = Bonuses
             /\ \A v \in Users : db'.bonus[v] <= db.bonus[v]
  <2>1. db.plan = "free" /\ db.payg = FALSE
    <3>1. db.payg \in BOOLEAN
      BY <1>1 DEF DbRow
    <3> QED BY <1>9, <3>1 DEF FreeInv
  <2>2. ASSUME NEW u \in Users, ClaimFreeExtension(u)
        PROVE  /\ UNCHANGED <<db.plan, db.payg>> /\ Bonuses' = Bonuses
               /\ \A v \in Users : db'.bonus[v] <= db.bonus[v]
    BY <1>4, <1>8, <2>2
  <2>3. CASE UseAsGuest
    <3>1. UNCHANGED <<db.plan, db.payg, db.claimed, db.bonus>>
      BY <1>1, <2>3 DEF UseAsGuest, DbRow
    <3>2. \A v \in Users : db.bonus[v] \in Nat
      BY <1>1 DEF DbRow
    <3> QED BY <3>1, <3>2 DEF Bonuses
  <2>4. ASSUME NEW enabled \in BOOLEAN, EnablePayg(enabled) PROVE FALSE
    BY <2>1, <2>4 DEF EnablePayg
  <2>5. ~CancelSubscription
    BY <2>1 DEF CancelSubscription
  <2> QED BY <2>2, <2>3, <2>4, <2>5
<1>10. FreeInv'
  <2>1. \A u \in Users : Attached(u) <= Attached(u)'
    BY <1>1, <1>2 DEF Attached
  <2>2. \A c \in Calls : call'[c] = call[c]
    BY <1>2
  <2>3. buys' = 0 /\ lost' = {} =>
           /\ buys = 0 /\ UNCHANGED <<db.plan, db.payg, charges, notices>>
           /\ Bonuses' = Bonuses
           /\ \A v \in Users : db'.bonus[v] <= db.bonus[v]
    BY <1>2, <1>9
  <2>4. lost \subseteq lost' /\ made' = made
    BY <1>2
  <2> QED BY <1>6, <2>1, <2>2, <2>3, <2>4, FreeKept
<1> QED BY <1>7, <1>10

LEMMA PurchasesCover ==
  ASSUME AgreeInv, AgreeInv', FreeInv, PaidInv,
         \/ OpenCharge \/ Subscribe
         \/ \E charge \in charges : PayCharge(charge)
         \/ \E amount \in TopUps : BuyCredit(amount)
  PROVE  FreeInv' /\ PaidInv'
<1>1. UNCHANGED <<db, call, made, lost>>
  BY DEF OpenCharge, PayCharge, BuyCredit, Subscribe
<1>2. PaidInv'
  BY <1>1 DEF PaidInv, Limit, InFlight, Together
<1>3. buys' = 0 => lost # {}
  <2>1. buys \in Nat
    BY RowTyped DEF AgreeInv
  <2>2. \/ buys' = buys + 1
        \/ charges # {} /\ buys' = buys
    BY DEF OpenCharge, PayCharge, BuyCredit, Subscribe
  <2>3. charges # {} /\ buys = 0 => lost # {}
    BY DEF FreeInv
  <2> QED BY <2>1, <2>2, <2>3
<1> QED BY <1>1, <1>2, <1>3 DEF FreeInv

LEMMA CoverStep ==
  ASSUME AgreeInv, AgreeInv', FreeInv, PaidInv, [BillingNext]_billingVars
  PROVE  FreeInv' /\ PaidInv'
<1>1. CASE UNCHANGED billingVars
  BY <1>1 DEF billingVars, FreeInv, PaidInv, FreeCall, Plainly, Plain, Of,
              InFlight, Bonuses, Limit, Together
<1>2. CASE BillingNext
  BY <1>2, StartCovers, RecordCovers, CallsCover, ChoicesCover,
     PurchasesCover DEF BillingNext
<1> QED BY <1>1, <1>2

(* However the calls overlap, and whatever their number: while no usage was *)
(* lost, a team makes no more requests than are covered and than were let   *)
(* in together; of its quota and of the bonuses while it buys nothing, of   *)
(* its quota, its prepaid credit and the cap without a bonus.               *)
THEOREM UsageAlwaysCovered == BillingSpec => []UsageCovered
<1> DEFINE CoverInv == AgreeInv /\ FreeInv /\ PaidInv
<1>1. BillingInit => CoverInv
  BY AgreeStarts, CoverStarts
<1>2. CoverInv /\ [BillingNext]_billingVars => CoverInv'
  BY AgreeStep, CoverStep
<1>3. CoverInv => UsageCovered
  BY Covered
<1> HIDE DEF CoverInv
<1> QED BY <1>1, <1>2, <1>3, PTL DEF BillingSpec

=============================================================================
