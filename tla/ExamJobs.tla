------------------------------ MODULE ExamJobs ------------------------------
(***************************************************************************)
(* The progress file of one background exam job.  The worker thread and an *)
(* administrator who cancels both read the file, change what they read and *)
(* write it back: through one temporary file, which either of them opens   *)
(* (and empties), fills and moves over the job file, without a lock.       *)
(***************************************************************************)
EXTENDS Naturals

VARIABLES
    jobFile,     \* the status in the job file, or "garbled"
    tmpFile,     \* the same of the temporary file, or "empty" or "absent"
    writer,      \* how far each writer is, and what it writes
    thread,      \* "working", "ending", "over" or "dead"
    collided,    \* history: a writer opened the file of another
    ioFailed     \* history: an OSError was swallowed

examVars == <<jobFile, tmpFile, writer, thread, collided, ioFailed>>

Writers == {"worker", "admin"}
Other(p) == IF p = "worker" THEN "admin" ELSE "worker"
JobStatuses == {"running", "done", "error", "cancelled"}
Terminal == JobStatuses \ {"running"}

(* Where the file a writer has opened is: "tmp", moved to "file" or gone.   *)
Handles == {"none", "tmp", "file", "gone"}
NoWrite == [stage |-> "idle", value |-> "running", handle |-> "none"]

ExamTypeOK ==
    /\ jobFile \in JobStatuses \cup {"garbled"}
    /\ tmpFile \in JobStatuses \cup {"garbled", "empty", "absent"}
    /\ writer \in [Writers -> [stage : {"idle", "read", "opened", "filled"},
                               value : JobStatuses, handle : Handles]]
    /\ thread \in {"working", "ending", "over", "dead"}
    /\ collided \in BOOLEAN
    /\ ioFailed \in BOOLEAN

(* start_job has written the file before it starts the thread.              *)
ExamInit ==
    /\ jobFile = "running"
    /\ tmpFile = "absent"
    /\ writer = [p \in Writers |-> NoWrite]
    /\ thread = "working"
    /\ collided = FALSE
    /\ ioFailed = FALSE

Readable == jobFile \in JobStatuses
ReadBy(p, value) ==
    writer' = [writer EXCEPT ![p] = [NoWrite EXCEPT !.stage = "read",
                                                    !.value = value]]

(* update_job for a progress report: every other field is what was read; a  *)
(* file that cannot be read is left alone.                                  *)
Progress ==
    /\ thread = "working"
    /\ writer["worker"].stage = "idle"
    /\ Readable
    /\ ReadBy("worker", jobFile)
    /\ UNCHANGED <<jobFile, tmpFile, thread, collided, ioFailed>>

SeenStatus(seen, outcome) == seen

(* The status the last update_job leaves in the file it has read.           *)
FinalStatus(seen, outcome) == outcome

EndJob(outcome) ==
    /\ thread = "working"
    /\ writer["worker"].stage = "idle"
    /\ IF Readable
       THEN /\ ReadBy("worker", FinalStatus(jobFile, outcome))
            /\ thread' = "ending"
       ELSE thread' = "over" /\ UNCHANGED writer
    /\ UNCHANGED <<jobFile, tmpFile, collided, ioFailed>>

(* set_cancelled.                                                           *)
CancelJob ==
    /\ writer["admin"].stage = "idle"
    /\ jobFile = "running"
    /\ ReadBy("admin", "cancelled")
    /\ UNCHANGED <<jobFile, tmpFile, thread, collided, ioFailed>>

---------------------------------------------------------------------------
(* _write.                                                                  *)

OpenTmp(p) ==
    /\ writer[p].stage = "read"
    /\ tmpFile' = "empty"
    /\ writer' = [writer EXCEPT ![p].stage = "opened", ![p].handle = "tmp"]
    /\ collided' = (collided \/ writer[Other(p)].handle # "none")
    /\ UNCHANGED <<jobFile, thread, ioFailed>>

(* What a file may hold after value is written over it from its start.      *)
Overwritten(content, value) ==
    IF content = "empty" THEN {value} ELSE {value, "garbled"}

Fill(p) ==
    LET s == writer[p] IN
    /\ s.stage = "opened"
    /\ CASE s.handle = "tmp" -> /\ tmpFile' \in Overwritten(tmpFile, s.value)
                                /\ UNCHANGED jobFile
         [] s.handle = "file" -> /\ jobFile' \in Overwritten(jobFile, s.value)
                                 /\ UNCHANGED tmpFile
         [] OTHER -> UNCHANGED <<jobFile, tmpFile>>
    /\ writer' = [writer EXCEPT ![p].stage = "filled"]
    /\ UNCHANGED <<thread, collided, ioFailed>>

(* A writer is through; the thread of the last update ends with it.         *)
Closed(p) ==
    thread' = IF p = "worker" /\ thread = "ending" THEN "over" ELSE thread

Moved(handle) == IF handle = "tmp" THEN "file"
                 ELSE IF handle = "file" THEN "gone" ELSE handle

(* os.replace: a file that still is empty cannot be read in its new place.  *)
ReplaceFile(p) ==
    /\ writer[p].stage = "filled"
    /\ IF tmpFile # "absent"
       THEN /\ jobFile' = IF tmpFile = "empty" THEN "garbled" ELSE tmpFile
            /\ tmpFile' = "absent"
            /\ writer' = [q \in Writers |->
                            IF q = p THEN NoWrite
                            ELSE [writer[q] EXCEPT !.handle = Moved(@)]]
            /\ UNCHANGED ioFailed
       ELSE /\ writer' = [writer EXCEPT ![p] = NoWrite]
            /\ ioFailed' = TRUE
            /\ UNCHANGED <<jobFile, tmpFile>>
    /\ Closed(p)
    /\ UNCHANGED collided

(* An OSError on the way is swallowed: nothing more of this write happens.  *)
LoseWrite(p) ==
    /\ writer[p].stage # "idle"
    /\ writer' = [writer EXCEPT ![p] = NoWrite]
    /\ Closed(p)
    /\ ioFailed' = TRUE
    /\ UNCHANGED <<jobFile, tmpFile, collided>>

(* The server process ends, and its daemon thread with it.                  *)
StopServer ==
    /\ thread \in {"working", "ending"}
    /\ thread' = "dead"
    /\ writer' = [writer EXCEPT !["worker"] = NoWrite]
    /\ UNCHANGED <<jobFile, tmpFile, collided, ioFailed>>

ExamNext ==
    \/ Progress
    \/ \E outcome \in {"done", "error"} : EndJob(outcome)
    \/ CancelJob
    \/ \E p \in Writers : \/ OpenTmp(p)
                          \/ Fill(p)
                          \/ ReplaceFile(p)
                          \/ LoseWrite(p)
    \/ StopServer

ExamSpec == ExamInit /\ [][ExamNext]_examVars

---------------------------------------------------------------------------
(* Whatever order the two of them read and write in, a job whose thread is  *)
(* over does not stay "running" in its file, as long as they never had the  *)
(* temporary file open together and no write was lost; and the file can be  *)
(* read.                                                                    *)
JobEndsTerminal ==
    ~collided /\ ~ioFailed =>
        /\ Readable
        /\ thread = "over" => jobFile \in Terminal
=============================================================================
