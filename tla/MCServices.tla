----------------------------- MODULE MCServices -----------------------------
(***************************************************************************)
(* The services beside the shop, one scene each: they share neither state  *)
(* nor steps, so one run takes them in turn.                               *)
(***************************************************************************)
EXTENDS PackageRenewal, InstituteRefresh, InstituteUpdateRun, ExamJobs,
        OrderReceipts, ExamAttempts

VARIABLE scene

serviceVars ==
    <<packageVars, refreshVars, runVars, examVars, receiptVars, attemptVars,
      scene>>

(* Free, two paid plans of a track, to go up and down between, and the      *)
(* combined plan of one package family.                                     *)
MCTrackOf ==
    [p \in Plans |-> IF p = "combo" THEN "combined" ELSE "academic"]
MCRankOf ==
    [p \in Plans |-> CASE p = "free" -> 0 [] p = "basic" -> 1 [] OTHER -> 2]
MCPriceOf == MCRankOf
(* One result from before the rows, and counters beyond it. *)
MCLegacy == {[attempt |-> 9, passed |-> TRUE]}
MCRenewals == [p \in Plans |-> {1}]

ServicesInit ==
    /\ PackageInit
    /\ RefreshInit
    /\ RunInit
    /\ ExamInit
    /\ ReceiptInit
    /\ AttemptInit
    /\ scene \in {"packages", "refresh", "update", "exam", "receipts",
                  "attempts"}

(* The visits are interchangeable: the first to come is v1.                 *)
FirstComesFirst ==
    (\A v \in Visits : visit[v] = Idle) => visit'["v2"] = Idle

ServicesNext ==
    /\ UNCHANGED scene
    /\ \/ /\ scene = "packages"
          /\ PackageNext
          /\ FirstComesFirst
          /\ UNCHANGED <<refreshVars, runVars, examVars, receiptVars,
                         attemptVars>>
       \/ /\ scene = "refresh"
          /\ RefreshNext
          /\ UNCHANGED <<packageVars, runVars, examVars, receiptVars,
                         attemptVars>>
       \/ /\ scene = "update"
          /\ RunNext
          /\ UNCHANGED <<packageVars, refreshVars, examVars, receiptVars,
                         attemptVars>>
       \/ /\ scene = "exam"
          /\ ExamNext
          /\ UNCHANGED <<packageVars, refreshVars, runVars, receiptVars,
                         attemptVars>>
       \/ /\ scene = "receipts"
          /\ ReceiptNext
          /\ UNCHANGED <<packageVars, refreshVars, runVars, examVars,
                         attemptVars>>
       \/ /\ scene = "attempts"
          /\ AttemptNext
          /\ UNCHANGED <<packageVars, refreshVars, runVars, examVars,
                         receiptVars>>

(* Nothing the fairness is about is enabled in the other scenes.            *)
ServicesSpec ==
    /\ ServicesInit
    /\ [][ServicesNext]_serviceVars
    /\ RefreshFairness
    /\ ReceiptFairness

ServicesTypeOK ==
    /\ PackageTypeOK /\ RefreshTypeOK /\ RunTypeOK
    /\ ExamTypeOK /\ ReceiptTypeOK /\ AttemptTypeOK

(* Every refresh request gets its answer, and every receipt is settled.     *)
ServicesProgress == EveryRequestAnswered /\ EveryReceiptSettled

---------------------------------------------------------------------------
(* Bounds of the run.                                                       *)

Meets(p) ==
    \/ \E i \in Rows : subs[i].plan = p
    \/ \E v \in Visits : visit[v].want = p

(* Packages: requests of the first two days charge coins themselves, later  *)
(* ones only look; two are under way together when one began on the first,  *)
(* and then neither saves questions; one package is used up; the higher     *)
(* plan is wanted on the first day, and not beside the combined one, nor by *)
(* one of two requests.                                                     *)
PackagesBound ==
    /\ ~(Meets("plus") /\ Meets("combo"))
    /\ \A v \in Visits : visit[v].want = "plus" => clock < 2
    /\ Cardinality({i \in Rows : subs[i].usedUp}) <= 1
    /\ \A v \in Visits :
          visit[v].want = Nobody \/ (visit[v].at < 3 /\ clock < 3)
    /\ \/ \E v \in Visits : visit[v].pc = "idle"
       \/ /\ \E v \in Visits : visit[v].at < 2
          /\ \A v \in Visits : visit[v].want # CreateQuestions
          /\ ~Meets("plus")

(* The queue: the first institute is new, the others, interchangeable, have *)
(* old answers; three calls, or four for as many institutes before any is   *)
(* answered; a second worker, a dead one or a late one only while no other  *)
(* institute than the first was asked for.                                  *)
RefreshBound ==
    /\ \A e \in Eiins :
          requests[e].number = 0 => (Status(e) = "none") = (e = "e1")
    /\ requests["e3"].number > 0 => requests["e2"].number > 0
    /\ requests["e4"].number > 0 => requests["e3"].number > 0
    /\ asked > 3 => \A e \in Eiins :
          /\ ~requests[e].fresh
          /\ requests[e].number > 0 \/ \E c \in Callers : caller[c].eiin = e
    /\ \/ deaths > 0
       \/ \E w \in Workers : job[w].late
       \/ job["w2"] # NoJob
       => \A e \in Eiins \ {"e1"} : requests[e].number = 0

(* The pass: four attempts of an institute, two once it is not calm.        *)
UpdateBound == \A e \in Institute : attempts[e] <= IF calm THEN 4 ELSE 2

ServicesBound == PackagesBound /\ RefreshBound /\ UpdateBound
=============================================================================
