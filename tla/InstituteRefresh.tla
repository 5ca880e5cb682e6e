-------------------------- MODULE InstituteRefresh --------------------------
(***************************************************************************)
(* The public queue that refreshes institutes: callers ask for an EIIN,    *)
(* workers claim the oldest requests under a lease and save the answers.   *)
(* A caller reads the clock, waits for the row of its institute, decides   *)
(* and saves in one transaction that holds this row, but counts the        *)
(* backlog without a lock.  A worker's lease may run out before its        *)
(* answer, because it died or because the source was slow.                 *)
(***************************************************************************)
EXTENDS Naturals, FiniteSets

CONSTANTS
    Eiins,        \* institutes
    Callers,      \* public requests under way at once
    Workers,      \* worker processes
    QueueLimit,   \* PUBLIC_QUEUE_LIMIT
    MaxRequests,  \* bound: requests
    MaxDeaths     \* bound: workers that die with a claim

NoEiin == "no eiin"

ASSUME QueueAssumption ==
    /\ IsFiniteSet(Eiins) /\ IsFiniteSet(Callers)
    /\ QueueLimit \in Nat \ {0}
    /\ MaxRequests \in Nat
    /\ NoEiin \notin Eiins

VARIABLES
    requests,  \* the InstituteRefreshRequest rows
    asked,     \* calls so far, numbered as they read the clock
    caller,    \* what a caller asks for, and whether it holds the row
    job,       \* what a worker is doing
    deaths     \* history: workers that died with a claim

refreshVars == <<requests, asked, caller, job, deaths>>

(* "answered" stands for complete and failed, which differ in the length of *)
(* their windows only.  number is that of the latest request; answer is the *)
(* request the saved answer was made for, and late whether its worker had   *)
(* lost its lease.                                                          *)
Request == [status : {"none", "queued", "running", "answered"},
            lease : {"none", "held", "lapsed"},
            fresh : BOOLEAN,
            number : Nat,
            answer : Nat,
            late : BOOLEAN]

(* What a caller asks for, with the clock it has read (requested_at).       *)
Call == [eiin : Eiins \cup {NoEiin}, number : Nat, holds : BOOLEAN]
NoCall == [eiin |-> NoEiin, number |-> 0, holds |-> FALSE]

(* A row of the list a worker reads.                                        *)
Candidate == [eiin : Eiins, number : Nat]

NoJob == [eiin |-> NoEiin, number |-> 0, late |-> FALSE, candidates |-> {}]

RefreshTypeOK ==
    /\ requests \in [Eiins -> Request]
    /\ asked \in 0..MaxRequests
    /\ caller \in [Callers -> Call]
    /\ job \in [Workers -> [eiin : Eiins \cup {NoEiin}, number : Nat,
                            late : BOOLEAN, candidates : SUBSET Candidate]]
    /\ deaths \in Nat

(* Some institutes have an answer from long ago.                            *)
RefreshInit ==
    /\ \E old \in SUBSET Eiins :
          requests = [e \in Eiins |->
                        [status |-> IF e \in old THEN "answered" ELSE "none",
                         lease |-> "none", fresh |-> FALSE, number |-> 0,
                         answer |-> 0, late |-> FALSE]]
    /\ asked = 0
    /\ caller = [c \in Callers |-> NoCall]
    /\ job = [w \in Workers |-> NoJob]
    /\ deaths = 0

Status(e) == requests[e].status
Answered(e) == Status(e) = "answered"
Backlog == {e \in Eiins : Status(e) \in {"queued", "running"}}
Held(e) == \E c \in Callers : caller[c].holds /\ caller[c].eiin = e

---------------------------------------------------------------------------
(* enqueue_public_refresh.                                                  *)

UnderWayQueued(e) == Status(e) = "queued"

UnderWay(e) ==
    \/ Status(e) = "queued"
    \/ Status(e) = "running" /\ requests[e].lease = "held"

CountedQueued(e) == {f \in Backlog : Status(f) = "queued"}

(* A row the transaction has just created counts itself.                    *)
Counted(e) == Backlog \cup IF Status(e) = "none" THEN {e} ELSE {}

Arrive(c, e) ==
    /\ caller[c] = NoCall
    /\ asked < MaxRequests
    /\ asked' = asked + 1
    /\ caller' = [caller EXCEPT
                     ![c] = [eiin |-> e, number |-> asked', holds |-> FALSE]]
    /\ UNCHANGED <<requests, job, deaths>>

(* The caller gets the row and passes the checks; every other outcome       *)
(* changes nothing.  With a clock that is out of date fewer would pass.     *)
Pass(c) ==
    LET e == caller[c].eiin IN
    /\ e # NoEiin
    /\ ~Held(e)
    /\ ~UnderWay(e)
    /\ ~requests[e].fresh
    /\ Cardinality(Counted(e)) < QueueLimit
    /\ caller' = [caller EXCEPT ![c].holds = TRUE]
    /\ UNCHANGED <<requests, asked, job, deaths>>

Enqueue(c) ==
    LET e == caller[c].eiin IN
    /\ caller[c].holds
    /\ requests' = [requests EXCEPT ![e].status = "queued",
                                    ![e].lease = "none",
                                    ![e].number = caller[c].number,
                                    ![e].answer = 0,
                                    ![e].late = FALSE]
    /\ caller' = [caller EXCEPT ![c] = NoCall]
    /\ UNCHANGED <<asked, job, deaths>>

(* The caller is refused, or its transaction fails.                         *)
GiveUp(c) ==
    /\ caller[c] # NoCall
    /\ caller' = [caller EXCEPT ![c] = NoCall]
    /\ UNCHANGED <<requests, asked, job, deaths>>

---------------------------------------------------------------------------
(* process_one_public_refresh.                                              *)

ClaimableQueued(e) == Status(e) = "queued"

Claimable(e) ==
    \/ Status(e) = "queued"
    \/ Status(e) = "running" /\ requests[e].lease = "lapsed"

Listed == {[eiin |-> e, number |-> requests[e].number] :
              e \in {f \in Eiins : Claimable(f)}}
Unoccupied(w) == job[w] = NoJob

ListCandidates(w) ==
    /\ Unoccupied(w)
    /\ \E e \in Eiins : Claimable(e)
    /\ job' = [job EXCEPT ![w].candidates = Listed]
    /\ UNCHANGED <<requests, asked, caller, deaths>>

(* In the order of requested_at, as they were listed, the first candidate   *)
(* that can still be claimed is; the others are dropped.                    *)
Claim(w, row) ==
    LET e == row.eiin IN
    /\ \A other \in job[w].candidates : row.number <= other.number
    /\ ~Held(e)
    /\ \/ /\ Claimable(e)
          /\ requests' = [requests EXCEPT ![e].status = "running",
                                          ![e].lease = "held"]
          /\ job' = [job EXCEPT ![w] = [NoJob EXCEPT
                                          !.eiin = e,
                                          !.number = requests[e].number]]
       \/ /\ ~Claimable(e)
          /\ job' = [job EXCEPT ![w].candidates = @ \ {row}]
          /\ UNCHANGED requests
    /\ UNCHANGED <<asked, caller, deaths>>

(* The answer is saved if the row is running, whoever has claimed it.       *)
TakesAnswer(e) == Status(e) = "running"

SaveAnswer(w) ==
    LET e == job[w].eiin IN
    /\ e # NoEiin
    /\ ~Held(e)
    /\ job' = [job EXCEPT ![w] = NoJob]
    /\ IF TakesAnswer(e)
       THEN requests' = [requests EXCEPT ![e].status = "answered",
                                         ![e].lease = "none",
                                         ![e].fresh = TRUE,
                                         ![e].answer = job[w].number,
                                         ![e].late = job[w].late]
       ELSE UNCHANGED requests
    /\ UNCHANGED <<asked, caller, deaths>>

(* The jobs under way for e outlive their leases.                           *)
Overrun(e) ==
    [w \in Workers |-> [job[w] EXCEPT !.late = @ \/ job[w].eiin = e]]

(* WORKER_LEASE runs out on a claim nobody has answered.                    *)
Lapse(e) ==
    /\ Status(e) = "running"
    /\ requests[e].lease = "held"
    /\ requests' = [requests EXCEPT ![e].lease = "lapsed"]
    /\ job' = Overrun(e)
    /\ UNCHANGED <<asked, caller, deaths>>

Die(w) ==
    /\ job[w].eiin # NoEiin
    /\ deaths < MaxDeaths
    /\ deaths' = deaths + 1
    /\ job' = [job EXCEPT ![w] = NoJob]
    /\ UNCHANGED <<requests, asked, caller>>

(* PUBLIC_SUCCESS_INTERVAL or PUBLIC_FAILURE_INTERVAL is over; both are     *)
(* longer than WORKER_LEASE.                                                *)
GrowOld(e) ==
    /\ Answered(e)
    /\ requests[e].fresh
    /\ requests' = [requests EXCEPT ![e].fresh = FALSE]
    /\ job' = Overrun(e)
    /\ UNCHANGED <<asked, caller, deaths>>

(* prune_old_update_records.                                                *)
Prune(e) ==
    /\ Answered(e)
    /\ ~requests[e].fresh
    /\ ~Held(e)
    /\ requests' = [requests EXCEPT ![e].status = "none",
                                    ![e].answer = 0,
                                    ![e].late = FALSE]
    /\ UNCHANGED <<asked, caller, job, deaths>>

Work(w) ==
    \/ ListCandidates(w)
    \/ \E row \in job[w].candidates : Claim(w, row)
    \/ SaveAnswer(w)

RefreshNext ==
    \/ \E c \in Callers : \/ \E e \in Eiins : Arrive(c, e)
                          \/ Pass(c) \/ Enqueue(c) \/ GiveUp(c)
    \/ \E w \in Workers : Work(w) \/ Die(w)
    \/ \E e \in Eiins : Lapse(e) \/ GrowOld(e) \/ Prune(e)

(* Some worker goes on, and it gets the row it waits for in turn although   *)
(* callers come and go (hence the strong fairness); transactions end; time  *)
(* passes on a lease nobody is working under.                               *)
Orphaned(e) == \A w \in Workers : job[w].eiin # e

RefreshFairness ==
    /\ SF_refreshVars(\E w \in Workers : Work(w))
    /\ \A c \in Callers : WF_refreshVars(Enqueue(c) \/ GiveUp(c))
    /\ WF_refreshVars(\E e \in Eiins : Lapse(e) /\ Orphaned(e))

RefreshSpec == RefreshInit /\ [][RefreshNext]_refreshVars /\ RefreshFairness

---------------------------------------------------------------------------
(* The backlog exceeds its limit by no more than the callers that counted   *)
(* it at the same time.                                                     *)
BacklogBounded ==
    Cardinality(Backlog) <= QueueLimit + Cardinality(Callers) - 1

(* A saved answer was fetched for the latest request of its institute,      *)
(* unless the worker that fetched it had already lost its lease.            *)
AnswerFresh ==
    \A e \in Eiins :
        Answered(e) => \/ requests[e].answer = requests[e].number
                       \/ requests[e].late

(* An answer stays as it was saved until its window is over: no worker      *)
(* and no caller replaces it before.                                        *)
AnswerKept ==
    [][\A e \in Eiins :
         Answered(e) /\ requests[e].fresh =>
            /\ requests'[e].status = requests[e].status
            /\ requests'[e].answer = requests[e].answer]_refreshVars

(* Requests are served in their order, nearly: a caller reads the clock     *)
(* before it waits for the row and saves it later, so that a worker may     *)
(* have listed newer ones meanwhile; but a claim passes over no more older  *)
(* requests than there are callers at once.                                 *)
FewOvertaken ==
    [][\A w \in Workers :
         job[w].eiin = NoEiin /\ job'[w].eiin # NoEiin =>
            \E row \in job[w].candidates :
               /\ row.eiin = job'[w].eiin
               /\ Cardinality({e \in Eiins :
                     /\ Status(e) = "queued"
                     /\ requests[e].number < row.number})
                    <= Cardinality(Callers)]_refreshVars

(* Every request is answered, although workers die with their claims and    *)
(* are overtaken: the lease of a lost claim runs out and it is claimed      *)
(* again.                                                                   *)
EveryRequestAnswered ==
    \A e \in Eiins : Status(e) = "queued" ~> Answered(e)
=============================================================================
