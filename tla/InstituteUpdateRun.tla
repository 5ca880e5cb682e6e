------------------------- MODULE InstituteUpdateRun -------------------------
(***************************************************************************)
(* One scheduled pass over all institutes, in batches that a worker or a   *)
(* staff session runs under a lease, followed by up to three rounds over   *)
(* the institutes that failed.  A batch works through its institutes in    *)
(* order and saves how far it is; its lease may run out meanwhile, and its *)
(* process may die between any two steps.                                  *)
(***************************************************************************)
EXTENDS Naturals, FiniteSets

CONSTANTS
    Last,        \* the institutes are 1..Last, in the order of their EIINs
    Worker,      \* the worker process
    Staff,       \* staff sessions that run batches
    BatchSize,   \* BATCH_SIZE
    Rounds,      \* retry rounds of a scheduled run
    MaxLapses,   \* bound: leases that run out
    MaxRetries   \* bound: staff retry what was tried less often than this

ASSUME RunAssumption ==
    /\ Last \in Nat
    /\ BatchSize \in Nat \ {0}
    /\ Rounds \in Nat \ {0}
    /\ IsFiniteSet(Staff)

VARIABLES
    run,        \* the InstituteUpdateRun row
    attempts,   \* attempts[e]: how often e has been tried in the run
    failed,     \* the institutes whose last attempt failed
    failedLog,  \* the institutes failed.txt names
    logged,     \* the log files exist
    batch,      \* the batches under way
    lapses,     \* history: leases that ran out
    calm        \* history: no batch died, failed to write its log or lost
                \* its lease, and no run was closed beside a batch

runVars == <<run, attempts, failed, failedLog, logged, batch, lapses, calm>>

Batches == Staff \cup {Worker}
Institute == 1..Last
Stages == {"idle", "picked", "recorded", "finishing", "logging", "rebuild"}
NoBatch == [stage |-> "idle", mode |-> "all", tracked |-> FALSE,
            cursor |-> 0, left |-> {}, bad |-> {}, more |-> FALSE]

RunTypeOK ==
    /\ run \in [status : {"running", "complete"}, cursor : 0..Last,
                retry : 0..Last, round : 0..Rounds,
                lease : {"none", "held", "lapsed"}]
    /\ attempts \in [Institute -> Nat]
    /\ failed \subseteq Institute
    /\ failedLog \subseteq Institute
    /\ logged \in BOOLEAN
    /\ batch \in [Batches ->
         [stage : Stages, mode : {"all", "failed"}, tracked : BOOLEAN,
          cursor : 0..Last, left : SUBSET Institute, bad : SUBSET Institute,
          more : BOOLEAN]]
    /\ lapses \in Nat
    /\ calm \in BOOLEAN

RunInit ==
    /\ run = [status |-> "running", cursor |-> 0, retry |-> 0, round |-> 0,
              lease |-> "none"]
    /\ attempts = [e \in Institute |-> 0]
    /\ failed = {}
    /\ failedLog = {}
    /\ logged = FALSE
    /\ batch = [b \in Batches |-> NoBatch]
    /\ lapses = 0
    /\ calm = TRUE

Active == {b \in Batches : batch[b].stage # "idle"}
Tried(e) == attempts[e] > 0
After(S, c) == {e \in S : e > c}

(* The first BatchSize of S.                                                *)
FirstOf(S) == {e \in S : Cardinality({f \in S : f < e}) < BatchSize}

(* failed_eiins_from_file: a missing file is written from the attempts.     *)
FromFile == IF logged THEN failedLog \cap failed ELSE failed

---------------------------------------------------------------------------
(* process_step.                                                            *)

AcquireAnyway(b) ==
    /\ batch[b].stage = "idle"
    /\ run' = [run EXCEPT !.lease = "held"]
    /\ UNCHANGED <<attempts, failed, lapses, calm>>

Acquire(b) ==
    /\ batch[b].stage = "idle"
    /\ run.lease # "held"
    /\ run' = [run EXCEPT !.lease = "held"]
    /\ UNCHANGED <<attempts, failed, lapses, calm>>

(* The institutes b is going to try, after the given cursor.                *)
Pick(b, mode, tracked, after, S) ==
    batch' = [batch EXCEPT
                ![b] = [stage |-> IF S = {} THEN "finishing" ELSE "picked",
                        mode |-> mode, tracked |-> tracked,
                        cursor |-> after, left |-> FirstOf(S), bad |-> {},
                        more |-> FALSE]]

StartAll(b) ==
    /\ Acquire(b)
    /\ Pick(b, "all", FALSE, run.cursor,
            IF run.status = "complete" THEN {}
                                       ELSE After(Institute, run.cursor))
    /\ UNCHANGED <<failedLog, logged>>

StartFailed(b, tracked, after) ==
    /\ Acquire(b)
    /\ Pick(b, "failed", tracked, after, After(FromFile, after))
    /\ failedLog' = IF logged THEN failedLog ELSE failed
    /\ logged' = TRUE

(* process_scheduled_step: the worker goes on with the pass, then with the  *)
(* rounds, then closes them, this without the lease.                        *)
WorkerPass == run.status = "running" /\ StartAll(Worker)

RoundsOpen == run.status = "complete" /\ run.round < Rounds

RetryRound ==
    /\ RoundsOpen
    /\ FromFile # {}
    /\ StartFailed(Worker, TRUE, run.retry)

(* Staff name the cursor themselves.                                        *)
StaffRetry(b, after) ==
    /\ \A e \in FromFile : attempts[e] < MaxRetries
    /\ StartFailed(b, FALSE, after)

CloseRounds ==
    /\ RoundsOpen
    /\ batch[Worker].stage = "idle"
    /\ FromFile = {}
    /\ run' = [run EXCEPT !.round = Rounds, !.retry = 0]
    /\ failedLog' = IF logged THEN failedLog ELSE failed
    /\ logged' = TRUE
    /\ calm' = (calm /\ Active = {})
    /\ UNCHANGED <<attempts, failed, batch, lapses>>

(* _update_eiin: the institute is tried and the attempt recorded.           *)
Attempt(b, e, ok) ==
    LET s == batch[b] IN
    /\ s.stage = "picked"
    /\ e \in s.left
    /\ \A f \in s.left : e <= f
    /\ attempts' = [attempts EXCEPT ![e] = @ + 1]
    /\ failed' = IF ok THEN failed \ {e} ELSE failed \cup {e}
    /\ batch' = [batch EXCEPT
                   ![b].stage = "recorded",
                   ![b].cursor = e,
                   ![b].left = @ \ {e},
                   ![b].bad = IF ok THEN @ ELSE @ \cup {e}]
    /\ UNCHANGED <<run, failedLog, logged, lapses, calm>>

(* In a pass over all institutes the cursor is saved after each of them.    *)
Advance(b) ==
    LET s == batch[b] IN
    /\ s.stage = "recorded"
    /\ run' = IF s.mode = "all" THEN [run EXCEPT !.cursor = s.cursor] ELSE run
    /\ batch' = [batch EXCEPT ![b].stage = IF s.left = {} THEN "finishing"
                                                         ELSE "picked"]
    /\ UNCHANGED <<attempts, failed, failedLog, logged, lapses, calm>>

(* The batch is through: the pass is complete or it is not, the round is    *)
(* over or it is not.                                                       *)
FinishAll(b) ==
    LET more == After(Institute, batch[b].cursor) # {} IN
    /\ batch[b].mode = "all"
    /\ run' = IF more THEN run ELSE [run EXCEPT !.status = "complete"]
    /\ batch' = [batch EXCEPT ![b].stage = "logging", ![b].more = more]

FinishEachBatch(b) ==
    LET more == After(FromFile, batch[b].cursor) # {} IN
    /\ batch[b].mode = "failed"
    /\ run' = IF batch[b].tracked /\ run.round < Rounds
              THEN [run EXCEPT !.retry = IF more THEN batch[b].cursor ELSE 0,
                               !.round = @ + 1]
              ELSE run
    /\ batch' = [batch EXCEPT ![b].stage = "logging", ![b].more = more]

FinishFailed(b) ==
    LET more == After(FromFile, batch[b].cursor) # {} IN
    /\ batch[b].mode = "failed"
    /\ run' = CASE ~batch[b].tracked -> run
                [] batch[b].tracked /\ more ->
                     [run EXCEPT !.retry = batch[b].cursor]
                [] OTHER ->
                     [run EXCEPT !.retry = 0,
                                 !.round = IF @ < Rounds THEN @ + 1 ELSE @]
    /\ batch' = [batch EXCEPT ![b].stage = "logging", ![b].more = more]

Finish(b) ==
    /\ batch[b].stage = "finishing"
    /\ FinishAll(b) \/ FinishFailed(b)
    /\ UNCHANGED <<attempts, failed, failedLog, logged, lapses, calm>>

(* The lease is given up, whoever holds it by now.                          *)
GiveUpLease(b) ==
    /\ run' = [run EXCEPT !.lease = "none"]
    /\ batch' = [batch EXCEPT ![b] = NoBatch]
    /\ UNCHANGED <<attempts, failed, lapses>>

(* failed.txt after the batch: rewritten from the attempts when it did not  *)
(* exist or a round is over, else the new failures are appended to it.      *)
WriteLog(b) ==
    /\ batch[b].stage = "logging"
    /\ failedLog' =
         CASE ~logged -> failed
           [] logged /\ batch[b].mode = "all" -> failedLog \cup batch[b].bad
           [] logged /\ batch[b].mode = "failed" /\ ~batch[b].more -> failed
           [] OTHER -> failedLog
    /\ logged' = TRUE
    /\ GiveUpLease(b)
    /\ UNCHANGED calm

(* An error ends the batch; the lease is given up all the same.             *)
Fail(b) ==
    /\ batch[b].stage # "idle"
    /\ calm' = FALSE
    /\ GiveUpLease(b)
    /\ UNCHANGED <<failedLog, logged>>

(* The process dies, and the lease stays behind.                            *)
DieInBatch(b) ==
    /\ batch[b].stage # "idle"
    /\ batch' = [batch EXCEPT ![b] = NoBatch]
    /\ calm' = FALSE
    /\ UNCHANGED <<run, attempts, failed, failedLog, logged, lapses>>

LapseOfRun ==
    /\ run.lease = "held"
    /\ lapses < MaxLapses
    /\ run' = [run EXCEPT !.lease = "lapsed"]
    /\ lapses' = lapses + 1
    /\ calm' = FALSE
    /\ UNCHANGED <<attempts, failed, failedLog, logged, batch>>

(* start_or_resume_run and the log downloads write the files anew, under    *)
(* the lease.                                                               *)
StartRebuild(b) ==
    /\ Acquire(b)
    /\ batch' = [batch EXCEPT ![b] = [NoBatch EXCEPT !.stage = "rebuild"]]
    /\ UNCHANGED <<failedLog, logged>>

Rebuild(b) ==
    /\ batch[b].stage = "rebuild"
    /\ failedLog' = failed
    /\ logged' = TRUE
    /\ GiveUpLease(b)
    /\ UNCHANGED calm

BatchStep(b) ==
    \/ \E e \in Institute, ok \in BOOLEAN : Attempt(b, e, ok)
    \/ Advance(b)
    \/ Finish(b)
    \/ WriteLog(b)
    \/ Fail(b)
    \/ Rebuild(b)
    \/ DieInBatch(b)

RunNext ==
    \/ WorkerPass
    \/ RetryRound
    \/ \E b \in Staff : \/ StartAll(b)
                        \/ StartRebuild(b)
                        \/ \E after \in 0..Last : StaffRetry(b, after)
    \/ \E b \in Batches : BatchStep(b)
    \/ CloseRounds
    \/ LapseOfRun

RunSpec == RunInit /\ [][RunNext]_runVars

---------------------------------------------------------------------------
(* No more batches work at a time than leases have run out, plus one, even  *)
(* though a late batch gives up the lease of the one that followed it.      *)
BatchesBounded == Cardinality(Active) <= lapses + 1

(* Every institute up to the saved cursor has been tried, and a complete    *)
(* run has tried them all: whatever dies or overlaps, none is skipped.      *)
CompleteCovers ==
    /\ \A e \in 1..run.cursor : Tried(e)
    /\ run.status = "complete" => \A e \in Institute : Tried(e)

(* Once the rounds are closed, an institute that still fails was tried in   *)
(* each of them.  It holds only as long as the run is calm: a batch that    *)
(* dies before it has written its log leaves a failure no round will try.   *)
FailedRetried ==
    calm /\ run.round = Rounds => \A e \in failed : attempts[e] > Rounds

(* A pass covers every institute, and retries those that failed.            *)
RunCovers == CompleteCovers /\ FailedRetried
=============================================================================
