----------------------------- MODULE CatalogSync -----------------------------
(***************************************************************************)
(* The run-now requests of the catalogue synchronisation.  A request is a  *)
(* file on the host where it was made.  The shop PC starts a cycle in the  *)
(* background for its own; its worker polls the files of both hosts, runs  *)
(* a cycle, and then removes them.  The worker may stop at any point, and  *)
(* the connection to the live shop may fail.                               *)
(***************************************************************************)
EXTENDS Naturals, FiniteSets

CONSTANTS
    Clicks,      \* requests of the Reports page
    MaxFailures  \* bound: cycles, workers and connections that fail

VARIABLES
    file,     \* hosts with a request file
    click,    \* what the request of a page is doing
    running,  \* status.json of the PC says running
    cycles,   \* background cycles under way
    poller,   \* what the polling worker is doing
    early,    \* history: requests made while the worker ran no cycle, after
              \* which no cycle has started yet
    failures  \* history

syncVars == <<file, click, running, cycles, poller, early, failures>>

Hosts == {"live", "pc"}

SyncTypeOK ==
    /\ file \subseteq Hosts
    /\ click \in [Clicks -> {"new", "starting", "pc", "live"}]
    /\ running \in BOOLEAN
    /\ cycles \in Nat
    /\ poller \in {"waiting", "polled", "syncing", "synced", "clearing"}
    /\ early \subseteq Clicks
    /\ failures \in Nat

SyncInit ==
    /\ file = {}
    /\ click = [c \in Clicks |-> "new"]
    /\ running = FALSE
    /\ cycles = 0
    /\ poller = "waiting"
    /\ early = {}
    /\ failures = 0

(* From the start of a cycle to the end of its clean-up.                    *)
WorkerRuns == poller \in {"syncing", "synced", "clearing"}

(* A cycle that starts serves every request made so far.                    *)
Serve == early' = {}

Fail == failures < MaxFailures /\ failures' = failures + 1

---------------------------------------------------------------------------
(* queue_or_run_sync.                                                       *)

Request(c, host) ==
    /\ click[c] = "new"
    /\ file' = file \cup {host}
    /\ click' = [click EXCEPT ![c] = IF host = "pc" THEN "starting"
                                                    ELSE "live"]
    /\ early' = IF WorkerRuns THEN early ELSE early \cup {c}
    /\ UNCHANGED <<running, cycles, poller, failures>>

(* The status file of the PC is read, and written before the script runs.   *)
StartInBackground(c) ==
    /\ click[c] = "starting"
    /\ click' = [click EXCEPT ![c] = "pc"]
    /\ \/ /\ running
          /\ UNCHANGED <<running, cycles, early>>
       \/ /\ ~running
          /\ running' = TRUE
          /\ cycles' = cycles + 1
          /\ Serve
    /\ UNCHANGED <<file, poller, failures>>

(* The script itself: its last words are in the status file; one that is    *)
(* killed has none.                                                         *)
EndInBackground ==
    /\ cycles > 0
    /\ cycles' = cycles - 1
    /\ \/ running' = FALSE /\ UNCHANGED failures
       \/ UNCHANGED running /\ Fail
    /\ UNCHANGED <<file, click, poller, early>>

---------------------------------------------------------------------------
(* poll_requested_sync.                                                     *)

ClearedWhenPolled == {}
WhenPolled == file

Poll ==
    /\ poller = "waiting"
    /\ file # {}
    /\ poller' = "polled"
    /\ file' = WhenPolled
    /\ UNCHANGED <<click, running, cycles, early, failures>>

StartCycle ==
    /\ poller = "polled"
    /\ poller' = "syncing"
    /\ running' = TRUE
    /\ Serve
    /\ UNCHANGED <<file, click, cycles, failures>>

(* Completed or failed, the requests are cleared.                           *)
EndCycle ==
    /\ poller = "syncing"
    /\ poller' = "synced"
    /\ running' = FALSE
    /\ UNCHANGED <<file, click, cycles, early, failures>>

ClearHere ==
    /\ poller = "synced"
    /\ poller' = "clearing"
    /\ file' = file \ {"pc"}
    /\ UNCHANGED <<click, running, cycles, early, failures>>

ClearLive ==
    /\ poller = "clearing"
    /\ poller' = "waiting"
    /\ file' = file \ {"live"}
    /\ UNCHANGED <<click, running, cycles, early, failures>>

(* No script, a cycle of more than ten minutes, no connection, or the       *)
(* worker stops: what is requested by then stays requested.                 *)
GiveUp ==
    /\ poller # "waiting"
    /\ Fail
    /\ poller' = "waiting"
    /\ UNCHANGED <<file, click, running, cycles, early>>

WorkerNext == Poll \/ StartCycle \/ EndCycle \/ ClearHere \/ ClearLive

SyncNext ==
    \/ \E c \in Clicks :
          \/ \E host \in Hosts : Request(c, host)
          \/ StartInBackground(c)
    \/ EndInBackground
    \/ WorkerNext
    \/ GiveUp

(* The worker polls in an endless loop.                                     *)
SyncFairness == WF_syncVars(WorkerNext)

SyncSpec == SyncInit /\ [][SyncNext]_syncVars /\ SyncFairness

---------------------------------------------------------------------------
(* A request that no cycle of the worker met is on file until one starts:   *)
(* a cycle that gave up, a worker that stopped or a lost connection leaves  *)
(* it for the next poll (catalog_sync_control.py 148, 306).                 *)
UnmetOnFile == early # {} => file # {}

(* Such a request gets its cycle, of the worker or in the background.       *)
UnmetServed == \A c \in Clicks : c \in early ~> c \notin early
=============================================================================
