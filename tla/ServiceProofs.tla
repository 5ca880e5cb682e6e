---------------------------- MODULE ServiceProofs ----------------------------
(***************************************************************************)
(* What the services beside the shop promise for any number of institutes, *)
(* workers, receipts and attempts.  The public queue: its backlog is       *)
(* bounded, requests are served nearly in order, and a saved answer is the *)
(* one that was asked for last.  The update run: how many batches it has   *)
(* at once, and what it covers, whatever dies, lapses or overlaps.  The    *)
(* exam job's file, the receipts of commerce_maintenance and the count of  *)
(* a student's exams.  And these and the packages taken together, as       *)
(* MCServices runs them.                                                   *)
(***************************************************************************)
EXTENDS MCServices, PackageRenewalProofs, FiniteSetTheorems, TLAPS

---------------------------------------------------------------------------
(* The public queue: InstituteRefresh. *)

(* RefreshTypeOK but for the counters and the workers' lists.               *)
RefreshShape ==
    /\ requests \in [Eiins -> Request]
    /\ caller \in [Callers -> Call]
    /\ \A c \in Callers : caller[c].holds => caller[c].eiin \in Eiins
    /\ job = [w \in Workers |->
                [eiin |-> job[w].eiin, number |-> job[w].number,
                 late |-> job[w].late, candidates |-> job[w].candidates]]
    /\ \A w \in Workers : /\ job[w].eiin \in Eiins \cup {NoEiin}
                          /\ job[w].number \in Nat
                          /\ job[w].late \in BOOLEAN

(* Two callers never hold one row, and a caller holds only what it may      *)
(* still enqueue.                                                           *)
CallersApart ==
    /\ \A c, d \in Callers :
          caller[c].holds /\ caller[d].holds /\ caller[c].eiin = caller[d].eiin
          => c = d
    /\ \A c \in Callers : caller[c].holds =>
          LET e == caller[c].eiin IN
          /\ ~UnderWay(e)
          /\ ~(Answered(e) /\ requests[e].fresh)

(* A worker that still has its lease works for the latest request, which    *)
(* nobody can renew until its answer, or the late answer of another, is     *)
(* old.                                                                     *)
JobsCurrent ==
    \A w \in Workers :
        LET e == job[w].eiin IN
        e # NoEiin /\ ~job[w].late =>
            /\ job[w].number = requests[e].number
            /\ \/ Status(e) = "running" /\ requests[e].lease = "held"
               \/ Answered(e) /\ requests[e].fresh

RefreshInv == RefreshShape /\ CallersApart /\ JobsCurrent /\ AnswerFresh

(* The counters, which every action leaves alone or counts up within its    *)
(* bound.                                                                   *)
CountersTyped == asked \in 0..MaxRequests /\ deaths \in Nat

LEMMA CountersStarts == RefreshInit => CountersTyped
BY QueueAssumption DEF RefreshInit, CountersTyped

LEMMA CountersSteps ==
  CountersTyped /\ [RefreshNext]_refreshVars => CountersTyped'
<1> SUFFICES ASSUME CountersTyped, [RefreshNext]_refreshVars
             PROVE  CountersTyped'
  OBVIOUS
<1> USE QueueAssumption DEF CountersTyped
<1>1. ASSUME NEW c \in Callers, NEW e \in Eiins, Arrive(c, e)
      PROVE  CountersTyped'
  BY <1>1 DEF Arrive
<1>2. ASSUME NEW c \in Callers, Pass(c) \/ Enqueue(c) \/ GiveUp(c)
      PROVE  CountersTyped'
  BY <1>2 DEF Pass, Enqueue, GiveUp
<1>3. ASSUME NEW w \in Workers, Work(w) \/ Die(w)
      PROVE  CountersTyped'
  <2>1. CASE Die(w)
    BY <2>1 DEF Die
  <2>2. CASE Work(w)
    <3>1. asked' = asked /\ deaths' = deaths
      BY <2>2 DEF Work, ListCandidates, Claim, SaveAnswer
    <3> QED BY <3>1
  <2> QED BY <1>3, <2>1, <2>2
<1>4. ASSUME NEW e \in Eiins, Lapse(e) \/ GrowOld(e) \/ Prune(e)
      PROVE  CountersTyped'
  BY <1>4 DEF Lapse, GrowOld, Prune
<1>5. CASE UNCHANGED refreshVars
  BY <1>5 DEF refreshVars
<1> QED BY <1>1, <1>2, <1>3, <1>4, <1>5 DEF RefreshNext

LEMMA RefreshStarts == RefreshInit => RefreshInv
<1> SUFFICES ASSUME RefreshInit PROVE RefreshInv
  OBVIOUS
<1> USE QueueAssumption DEF RefreshInit, NoJob, NoCall
<1>1. RefreshShape
  <2>1. requests \in [Eiins -> Request]
    <3>1. PICK old \in SUBSET Eiins :
            requests = [e \in Eiins |->
                          [status |-> IF e \in old THEN "answered"
                                                   ELSE "none",
                           lease |-> "none", fresh |-> FALSE, number |-> 0,
                           answer |-> 0, late |-> FALSE]]
      OBVIOUS
    <3> QED BY <3>1 DEF Request
  <2>2. caller = [c \in Callers |-> NoCall] /\ NoCall \in Call
    BY DEF Call
  <2>3. \A c \in Callers : ~caller[c].holds
    OBVIOUS
  <2>4. /\ job = [w \in Workers |->
                   [eiin |-> job[w].eiin, number |-> job[w].number,
                    late |-> job[w].late, candidates |-> job[w].candidates]]
        /\ \A w \in Workers : /\ job[w].eiin = NoEiin
                              /\ job[w].number = 0
                              /\ job[w].late = FALSE
    OBVIOUS
  <2> HIDE DEF RefreshInit, NoJob, NoCall
  <2>5. caller \in [Callers -> Call]
    BY <2>2
  <2>6. \A w \in Workers : /\ job[w].eiin \in Eiins \cup {NoEiin}
                           /\ job[w].number \in Nat
                           /\ job[w].late \in BOOLEAN
    <3>1. \A w \in Workers : job[w].late \in BOOLEAN
      BY <2>4, Zenon
    <3>2. \A w \in Workers : job[w].eiin = NoEiin /\ job[w].number = 0
      BY <2>4
    <3> QED BY <3>1, <3>2
  <2> QED BY <2>1, <2>3, <2>4, <2>5, <2>6, Zenon DEF RefreshShape
<1>2. CallersApart
  BY DEF CallersApart
<1>3. JobsCurrent
  BY DEF JobsCurrent
<1>4. AnswerFresh
  BY DEF AnswerFresh, Answered, Status
<1> QED BY <1>1, <1>2, <1>3, <1>4 DEF RefreshInv

LEMMA CallEnds == NoCall \in Call /\ ~NoCall.holds
BY DEF NoCall, Call

LEMMA ArriveKeeps ==
  ASSUME RefreshInv, CountersTyped, NEW c \in Callers, NEW e \in Eiins,
         Arrive(c, e)
  PROVE  RefreshInv'
<1> DEFINE new == [eiin |-> e, number |-> asked + 1, holds |-> FALSE]
<1>1. /\ caller' = [caller EXCEPT ![c] = new]
      /\ UNCHANGED <<requests, job>>
  BY DEF Arrive
<1>2. new \in Call /\ ~new.holds
  BY DEF Call, CountersTyped
<1> HIDE DEF new
<1>3. RefreshShape'
  BY <1>1, <1>2 DEF RefreshInv, RefreshShape
<1>4. CallersApart'
  BY <1>1, <1>2 DEF RefreshInv, RefreshShape, CallersApart, UnderWay,
                    Answered, Status
<1> QED
  BY <1>1, <1>3, <1>4
     DEF RefreshInv, JobsCurrent, AnswerFresh, Answered, Status

LEMMA PassKeeps ==
  ASSUME RefreshInv, NEW c \in Callers, Pass(c)
  PROVE  RefreshInv'
<1> USE QueueAssumption
<1> DEFINE e == caller[c].eiin
<1>1. /\ caller' = [caller EXCEPT ![c].holds = TRUE]
      /\ UNCHANGED <<requests, job>>
      /\ e # NoEiin /\ ~Held(e) /\ ~UnderWay(e) /\ ~requests[e].fresh
  BY DEF Pass
<1>2. /\ caller' \in [Callers -> Call]
      /\ caller'[c].eiin = e /\ caller'[c].holds /\ e \in Eiins
      /\ \A d \in Callers \ {c} : caller'[d] = caller[d]
  BY <1>1 DEF RefreshInv, RefreshShape, Call
<1> HIDE DEF e
<1>3. RefreshShape'
  BY <1>1, <1>2 DEF RefreshInv, RefreshShape
<1>4. CallersApart'
  BY <1>1, <1>2 DEF RefreshInv, RefreshShape, CallersApart, Held, UnderWay,
                    Answered, Status
<1>5. JobsCurrent' /\ AnswerFresh'
  BY <1>1 DEF RefreshInv, JobsCurrent, AnswerFresh, Answered, Status
<1> QED BY <1>3, <1>4, <1>5 DEF RefreshInv

LEMMA RequestSaved ==
  ASSUME RefreshShape, NEW c \in Callers, Enqueue(c), NEW e,
         e = caller[c].eiin
  PROVE  /\ e \in Eiins
         /\ requests' \in [Eiins -> Request]
         /\ requests'[e].status = "queued"
         /\ requests'[e].number = caller[c].number
         /\ \A f \in Eiins \ {e} : requests'[f] = requests[f]
         /\ caller' \in [Callers -> Call]
         /\ caller'[c] = NoCall /\ caller[c] # NoCall
         /\ \A d \in Callers \ {c} : caller'[d] = caller[d]
<1>1. /\ e \in Eiins /\ caller[c].holds /\ caller[c].number \in Nat
      /\ caller' = [caller EXCEPT ![c] = NoCall]
  BY DEF Enqueue, RefreshShape, Call
<1>2. /\ caller' \in [Callers -> Call]
      /\ caller'[c] = NoCall /\ caller[c] # NoCall
      /\ \A d \in Callers \ {c} : caller'[d] = caller[d]
  BY <1>1, CallEnds DEF RefreshShape
<1> DEFINE n == caller[c].number
           row == [requests[e] EXCEPT !.status = "queued",
                                      !.lease = "none",
                                      !.number = n,
                                      !.answer = 0,
                                      !.late = FALSE]
<1>3. requests \in [Eiins -> Request] /\ n \in Nat
  BY <1>1 DEF RefreshShape
<1>4. requests' = [requests EXCEPT ![e] = row]
  BY <1>1, <1>3, Zenon DEF Enqueue
<1> HIDE DEF n
<1>5. row \in Request /\ row.status = "queued" /\ row.number = n
  <2>1. requests[e] \in Request
    BY <1>1, <1>3
  <2> QED BY <1>3, <2>1 DEF Request
<1> HIDE DEF row
<1>6. /\ requests' \in [Eiins -> Request]
      /\ requests'[e].status = "queued" /\ requests'[e].number = n
      /\ \A f \in Eiins \ {e} : requests'[f] = requests[f]
  BY <1>1, <1>3, <1>4, <1>5
<1> QED BY <1>1, <1>2, <1>6 DEF n

LEMMA EnqueueKeeps ==
  ASSUME RefreshInv, NEW c \in Callers, Enqueue(c)
  PROVE  RefreshInv'
<1> USE QueueAssumption
<1> DEFINE e == caller[c].eiin
<1>1. /\ e \in Eiins
      /\ ~UnderWay(e) /\ ~(Answered(e) /\ requests[e].fresh)
      /\ \A d \in Callers \ {c} : ~(caller[d].holds /\ caller[d].eiin = e)
  BY DEF Enqueue, RefreshInv, RefreshShape, CallersApart
<1>2. UNCHANGED job
  BY DEF Enqueue
<1> HIDE DEF e
<1>3. /\ requests'[e].status = "queued"
      /\ requests' \in [Eiins -> Request]
      /\ \A f \in Eiins \ {e} : requests'[f] = requests[f]
  BY RequestSaved DEF RefreshInv, e
<1>4. /\ caller' \in [Callers -> Call] /\ ~caller'[c].holds
      /\ \A d \in Callers \ {c} : caller'[d] = caller[d]
  BY RequestSaved, CallEnds DEF RefreshInv, e
<1>5. RefreshShape'
  BY <1>2, <1>3, <1>4 DEF RefreshInv, RefreshShape
<1>6. CallersApart'
  BY <1>1, <1>3, <1>4 DEF RefreshInv, RefreshShape, CallersApart, UnderWay,
                          Answered, Status
<1>7. \A w \in Workers : job[w].eiin = e => job[w].late
  BY <1>1 DEF RefreshInv, RefreshShape, JobsCurrent, UnderWay, Answered,
              Status
<1>8. JobsCurrent'
  BY <1>2, <1>3, <1>7 DEF RefreshInv, RefreshShape, JobsCurrent, Answered,
                          Status
<1>9. AnswerFresh'
  BY <1>3 DEF RefreshInv, AnswerFresh, Answered, Status
<1> QED BY <1>5, <1>6, <1>8, <1>9 DEF RefreshInv

LEMMA GiveUpKeeps ==
  ASSUME RefreshInv, NEW c \in Callers, GiveUp(c)
  PROVE  RefreshInv'
<1>1. /\ caller' = [caller EXCEPT ![c] = NoCall]
      /\ UNCHANGED <<requests, job>>
  BY DEF GiveUp
<1>2. /\ caller' \in [Callers -> Call] /\ ~caller'[c].holds
      /\ \A d \in Callers \ {c} : caller'[d] = caller[d]
  BY <1>1, CallEnds DEF RefreshInv, RefreshShape
<1>3. RefreshShape' /\ CallersApart'
  BY <1>1, <1>2 DEF RefreshInv, RefreshShape, CallersApart, UnderWay,
                    Answered, Status
<1> QED
  BY <1>1, <1>3 DEF RefreshInv, JobsCurrent, AnswerFresh, Answered, Status

LEMMA ListKeeps ==
  ASSUME RefreshInv, NEW w \in Workers, ListCandidates(w)
  PROVE  RefreshInv'
<1>1. /\ job' = [job EXCEPT ![w].candidates = Listed]
      /\ UNCHANGED <<requests, caller>>
  BY DEF ListCandidates
<1>2. \A v \in Workers :
        /\ job'[v].eiin = job[v].eiin /\ job'[v].number = job[v].number
        /\ job'[v].late = job[v].late
        /\ job'[v] = [eiin |-> job[v].eiin, number |-> job[v].number,
                      late |-> job[v].late,
                      candidates |-> IF v = w THEN Listed
                                              ELSE job[v].candidates]
  BY <1>1 DEF RefreshInv, RefreshShape
<1>3. RefreshShape'
  BY <1>1, <1>2 DEF RefreshInv, RefreshShape
<1>4. JobsCurrent'
  BY <1>1, <1>2 DEF RefreshInv, JobsCurrent, Answered, Status
<1> QED
  BY <1>1, <1>3, <1>4
     DEF RefreshInv, CallersApart, AnswerFresh, UnderWay, Answered, Status

LEMMA ClaimKeeps ==
  ASSUME RefreshInv, NEW w \in Workers, NEW row, row.eiin \in Eiins,
         Claim(w, row)
  PROVE  RefreshInv'
<1> USE QueueAssumption
<1> DEFINE e == row.eiin
<1>0. e \in Eiins
  OBVIOUS
<1>1. ~Held(e) /\ caller' = caller
  BY DEF Claim
<1>2. CASE Claimable(e)
  <2>1. /\ requests' = [requests EXCEPT ![e].status = "running",
                                        ![e].lease = "held"]
        /\ job' = [job EXCEPT ![w] =
                     [eiin |-> e, number |-> requests[e].number,
                      late |-> FALSE, candidates |-> {}]]
    BY <1>2 DEF Claim, NoJob
  <2> HIDE DEF e
  <2> USE <1>0
  <2>2. /\ requests'[e].status = "running" /\ requests'[e].lease = "held"
        /\ requests'[e].number = requests[e].number
        /\ requests' \in [Eiins -> Request]
        /\ \A f \in Eiins \ {e} : requests'[f] = requests[f]
    <3> DEFINE claimed == [requests[e] EXCEPT !.status = "running",
                                              !.lease = "held"]
    <3>1. requests[e] \in Request
      BY DEF RefreshInv, RefreshShape
    <3>2. /\ claimed.status = "running" /\ claimed.lease = "held"
          /\ claimed.number = requests[e].number /\ claimed \in Request
      BY <3>1 DEF Request
    <3>3. requests' = [requests EXCEPT ![e] = claimed]
      BY <2>1
    <3> HIDE DEF claimed
    <3> QED BY <3>2, <3>3 DEF RefreshInv, RefreshShape
  <2>3. /\ job'[w].eiin = e /\ job'[w].number = requests[e].number
        /\ job'[w].late = FALSE
        /\ \A v \in Workers \ {w} : job'[v] = job[v]
    BY <2>1 DEF RefreshInv, RefreshShape
  <2>4. RefreshShape'
    <3>1. requests[e].number \in Nat
      BY DEF RefreshInv, RefreshShape, Request
    <3>2. \A v \in Workers :
            /\ job'[v] = IF v = w
                         THEN [eiin |-> e, number |-> requests[e].number,
                               late |-> FALSE, candidates |-> {}]
                         ELSE [eiin |-> job[v].eiin,
                               number |-> job[v].number,
                               late |-> job[v].late,
                               candidates |-> job[v].candidates]
      BY <2>1, <2>3 DEF RefreshInv, RefreshShape
    <3>3. job' = [v \in Workers |-> job'[v]]
      BY <2>1 DEF RefreshInv, RefreshShape
    <3>4. \A v \in Workers :
            /\ job'[v].eiin \in Eiins \cup {NoEiin}
            /\ job'[v].number \in Nat
            /\ job'[v].late \in BOOLEAN
            /\ job'[v] = [eiin |-> job'[v].eiin, number |-> job'[v].number,
                          late |-> job'[v].late,
                          candidates |-> job'[v].candidates]
      <4> SUFFICES ASSUME NEW v \in Workers
                   PROVE  /\ job'[v].eiin \in Eiins \cup {NoEiin}
                          /\ job'[v].number \in Nat
                          /\ job'[v].late \in BOOLEAN
                          /\ job'[v] = [eiin |-> job'[v].eiin,
                                        number |-> job'[v].number,
                                        late |-> job'[v].late,
                                        candidates |-> job'[v].candidates]
        OBVIOUS
      <4>1. CASE v = w
        <5> DEFINE none == {}
        <5>1. job'[v] = [eiin |-> e, number |-> requests[e].number,
                         late |-> FALSE, candidates |-> none]
          BY <3>2, <4>1
        <5> HIDE DEF none
        <5> QED BY <3>1, <5>1
      <4>2. CASE v # w
        BY <3>2, <4>2 DEF RefreshInv, RefreshShape
      <4> QED BY <4>1, <4>2
    <3> QED BY <1>1, <2>2, <3>3, <3>4 DEF RefreshInv, RefreshShape
  <2>5. CallersApart'
    BY <1>1, <2>2 DEF RefreshInv, RefreshShape, CallersApart, Held, UnderWay,
                      Answered, Status
  <2>6. JobsCurrent'
    <3>1. \A v \in Workers \ {w} : job[v].eiin = e => job[v].late
      BY <1>2 DEF RefreshInv, JobsCurrent, Claimable, Answered, Status
    <3>2. ASSUME NEW v \in Workers, v # w, job[v].eiin # NoEiin,
                 ~job[v].late
          PROVE  /\ job[v].eiin \in Eiins \ {e}
                 /\ job[v].number = requests[job[v].eiin].number
                 /\ \/ /\ requests[job[v].eiin].status = "running"
                       /\ requests[job[v].eiin].lease = "held"
                    \/ /\ requests[job[v].eiin].status = "answered"
                       /\ requests[job[v].eiin].fresh
      BY <3>1, <3>2
         DEF RefreshInv, RefreshShape, JobsCurrent, Answered, Status
    <3>3. ASSUME NEW v \in Workers, v # w, job'[v].eiin # NoEiin,
                 ~job'[v].late
          PROVE  /\ job'[v].number = requests'[job'[v].eiin].number
                 /\ \/ /\ requests'[job'[v].eiin].status = "running"
                       /\ requests'[job'[v].eiin].lease = "held"
                    \/ /\ requests'[job'[v].eiin].status = "answered"
                       /\ requests'[job'[v].eiin].fresh
      BY <2>2, <2>3, <3>2, <3>3
    <3> QED
      BY <2>2, <2>3, <3>3 DEF JobsCurrent, Answered, Status
  <2>7. AnswerFresh'
    BY <2>2 DEF RefreshInv, AnswerFresh, Answered, Status
  <2> QED BY <2>4, <2>5, <2>6, <2>7 DEF RefreshInv
<1>3. CASE ~Claimable(e)
  <2>1. /\ job' = [job EXCEPT ![w].candidates = @ \ {row}]
        /\ requests' = requests
    BY <1>3 DEF Claim
  <2> DEFINE rest == job[w].candidates \ {row}
  <2>2. \A v \in Workers :
          /\ job'[v].eiin = job[v].eiin /\ job'[v].number = job[v].number
          /\ job'[v].late = job[v].late
          /\ job'[v] = [eiin |-> job[v].eiin, number |-> job[v].number,
                        late |-> job[v].late,
                        candidates |-> IF v = w THEN rest
                                                ELSE job[v].candidates]
    <3>1. job' = [job EXCEPT ![w].candidates = rest]
      BY <2>1
    <3> HIDE DEF rest
    <3> QED BY <3>1 DEF RefreshInv, RefreshShape
  <2>3. RefreshShape'
    BY <1>1, <2>1, <2>2 DEF RefreshInv, RefreshShape
  <2>4. JobsCurrent'
    BY <2>1, <2>2 DEF RefreshInv, JobsCurrent, Answered, Status
  <2> QED
    BY <1>1, <2>1, <2>3, <2>4
       DEF RefreshInv, CallersApart, AnswerFresh, UnderWay, Answered, Status
<1> QED BY <1>2, <1>3

LEMMA AnswerKeeps ==
  ASSUME RefreshInv, NEW w \in Workers, SaveAnswer(w)
  PROVE  RefreshInv'
<1> USE QueueAssumption
<1> DEFINE e == job[w].eiin
<1>1. /\ e \in Eiins /\ ~Held(e) /\ caller' = caller
      /\ job' = [job EXCEPT ![w] = NoJob]
  BY DEF SaveAnswer, RefreshInv, RefreshShape
<1>2. /\ job'[w].eiin = NoEiin
      /\ \A v \in Workers \ {w} : job'[v] = job[v]
      /\ job' = [v \in Workers |->
                   [eiin |-> job'[v].eiin, number |-> job'[v].number,
                    late |-> job'[v].late, candidates |-> job'[v].candidates]]
      /\ \A v \in Workers : /\ job'[v].eiin \in Eiins \cup {NoEiin}
                            /\ job'[v].number \in Nat
                            /\ job'[v].late \in BOOLEAN
  BY <1>1 DEF NoJob, RefreshInv, RefreshShape
<1>3. CASE TakesAnswer(e)
  <2>1. /\ Status(e) = "running"
        /\ requests' = [requests EXCEPT ![e].status = "answered",
                                        ![e].lease = "none",
                                        ![e].fresh = TRUE,
                                        ![e].answer = job[w].number,
                                        ![e].late = job[w].late]
    BY <1>3 DEF SaveAnswer, TakesAnswer
  <2>2. /\ requests'[e].status = "answered" /\ requests'[e].fresh = TRUE
        /\ requests'[e].answer = job[w].number
        /\ requests'[e].late = job[w].late
        /\ requests'[e].number = requests[e].number
        /\ \A f \in Eiins \ {e} : requests'[f] = requests[f]
        /\ requests' \in [Eiins -> Request]
    <3> DEFINE row == [requests[e] EXCEPT !.status = "answered",
                                          !.lease = "none",
                                          !.fresh = TRUE,
                                          !.answer = job[w].number,
                                          !.late = job[w].late]
    <3>1. requests[e] \in Request
      BY <1>1 DEF RefreshInv, RefreshShape
    <3>2. job[w].late \in BOOLEAN /\ job[w].number \in Nat
      BY DEF RefreshInv, RefreshShape
    <3>3. row \in Request
      BY <3>1, <3>2 DEF Request
    <3>4. /\ row.status = "answered" /\ row.fresh = TRUE
          /\ row.answer = job[w].number /\ row.late = job[w].late
          /\ row.number = requests[e].number /\ row \in Request
      BY <3>1, <3>2, <3>3 DEF Request
    <3>5. requests' = [requests EXCEPT ![e] = row]
      BY <2>1
    <3> HIDE DEF row
    <3> QED BY <1>1, <3>4, <3>5 DEF RefreshInv, RefreshShape
  <2>5. ~job[w].late => job[w].number = requests[e].number
    BY <1>1 DEF RefreshInv, JobsCurrent
  <2> HIDE DEF e
  <2>6. RefreshShape'
    BY <1>1, <1>2, <2>2 DEF RefreshInv, RefreshShape
  <2>7. CallersApart'
    BY <1>1, <2>2 DEF RefreshInv, RefreshShape, CallersApart, Held, UnderWay,
                      Answered, Status
  <2>8. JobsCurrent'
    BY <1>2, <2>2 DEF RefreshInv, RefreshShape, JobsCurrent, Answered, Status
  <2>9. AnswerFresh'
    BY <2>2, <2>5 DEF RefreshInv, AnswerFresh, Answered, Status
  <2> QED BY <2>6, <2>7, <2>8, <2>9 DEF RefreshInv
<1>4. CASE ~TakesAnswer(e)
  <2>1. requests' = requests
    BY <1>4 DEF SaveAnswer
  <2>2. RefreshShape' /\ JobsCurrent'
    BY <1>1, <1>2, <2>1
       DEF RefreshInv, RefreshShape, JobsCurrent, Answered, Status
  <2> QED
    BY <1>1, <2>1, <2>2
       DEF RefreshInv, CallersApart, AnswerFresh, UnderWay, Answered, Status
<1> QED BY <1>3, <1>4

(* A job stays what it is but for being late.                               *)
LEMMA OverrunLate ==
  ASSUME RefreshShape, NEW e \in Eiins, job' = Overrun(e)
  PROVE  /\ job' = [w \in Workers |->
                       [eiin |-> job'[w].eiin, number |-> job'[w].number,
                        late |-> job'[w].late,
                        candidates |-> job'[w].candidates]]
         /\ \A w \in Workers : /\ job'[w].eiin = job[w].eiin
                               /\ job'[w].number = job[w].number
                               /\ job'[w].late \in BOOLEAN
                               /\ job[w].late => job'[w].late
                               /\ job[w].eiin = e => job'[w].late
<1>1. ASSUME NEW w \in Workers
      PROVE  /\ job'[w] = [eiin |-> job'[w].eiin, number |-> job'[w].number,
                           late |-> job'[w].late,
                           candidates |-> job'[w].candidates]
             /\ job'[w].eiin = job[w].eiin
             /\ job'[w].number = job[w].number
             /\ job'[w].late \in BOOLEAN
             /\ job[w].late => job'[w].late
             /\ job[w].eiin = e => job'[w].late
  <2> DEFINE late == job[w].late \/ job[w].eiin = e
  <2>1. job'[w] = [job[w] EXCEPT !.late = late]
    BY DEF Overrun
  <2>2. job[w] = [eiin |-> job[w].eiin, number |-> job[w].number,
                  late |-> job[w].late, candidates |-> job[w].candidates]
    BY DEF RefreshShape
  <2>3. /\ late \in BOOLEAN
        /\ job[w].late => late
        /\ job[w].eiin = e => late
    BY Zenon
  <2> HIDE DEF late
  <2>4. job'[w] = [eiin |-> job[w].eiin, number |-> job[w].number,
                   late |-> late, candidates |-> job[w].candidates]
    BY <2>1, <2>2
  <2>5. /\ job'[w].eiin = job[w].eiin
        /\ job'[w].number = job[w].number
        /\ job'[w].late = late
        /\ job'[w].candidates = job[w].candidates
    BY <2>4
  <2> QED BY <2>3, <2>4, <2>5
<1>2. job' = [w \in Workers |-> job'[w]]
  BY DEF Overrun
<1> QED BY <1>1, <1>2

LEMMA LapseKeeps ==
  ASSUME RefreshInv, NEW e \in Eiins, Lapse(e)
  PROVE  RefreshInv'
<1> USE QueueAssumption
<1>1. /\ requests' = [requests EXCEPT ![e].lease = "lapsed"]
      /\ Status(e) = "running" /\ requests[e].lease = "held"
      /\ job' = Overrun(e) /\ caller' = caller
  BY DEF Lapse
<1>2. /\ requests' \in [Eiins -> Request]
      /\ requests'[e].status = "running"
      /\ \A f \in Eiins \ {e} : requests'[f] = requests[f]
  BY <1>1 DEF RefreshInv, RefreshShape, Request, Status
<1>3. /\ job' = [w \in Workers |->
                   [eiin |-> job'[w].eiin, number |-> job'[w].number,
                    late |-> job'[w].late,
                    candidates |-> job'[w].candidates]]
  BY <1>1, OverrunLate DEF RefreshInv
<1>4. \A w \in Workers : /\ job'[w].eiin = job[w].eiin
                         /\ job'[w].number = job[w].number
                         /\ job'[w].late \in BOOLEAN
                         /\ job[w].late => job'[w].late
                         /\ job[w].eiin = e => job'[w].late
  BY <1>1, OverrunLate DEF RefreshInv
<1>5. CallersApart'
  BY <1>1, <1>2 DEF RefreshInv, RefreshShape, CallersApart, UnderWay,
                    Answered, Status
<1>6. JobsCurrent'
  <2> SUFFICES ASSUME NEW w \in Workers,
                      job'[w].eiin # NoEiin, ~job'[w].late
               PROVE  LET f == job'[w].eiin IN
                      /\ job'[w].number = requests'[f].number
                      /\ \/ /\ requests'[f].status = "running"
                            /\ requests'[f].lease = "held"
                         \/ /\ requests'[f].status = "answered"
                            /\ requests'[f].fresh
    BY DEF JobsCurrent, Answered, Status
  <2>1. /\ job'[w].eiin = job[w].eiin /\ job'[w].number = job[w].number
        /\ job[w].eiin # NoEiin /\ ~job[w].late /\ job[w].eiin # e
    BY <1>4
  <2>2. job[w].eiin \in Eiins
    BY <2>1 DEF RefreshInv, RefreshShape
  <2> QED
    BY <1>2, <2>1, <2>2 DEF RefreshInv, JobsCurrent, Answered, Status
<1>7. AnswerFresh'
  BY <1>2 DEF RefreshInv, AnswerFresh, Answered, Status
<1>8. RefreshShape'
  <2>1. \A w \in Workers : /\ job'[w].eiin \in Eiins \cup {NoEiin}
                           /\ job'[w].number \in Nat
                           /\ job'[w].late \in BOOLEAN
    <3>1. \A w \in Workers : /\ job[w].eiin \in Eiins \cup {NoEiin}
                             /\ job[w].number \in Nat
      BY DEF RefreshInv, RefreshShape
    <3> QED BY <1>4, <3>1
  <2> QED BY <1>1, <1>2, <1>3, <2>1, Zenon DEF RefreshInv, RefreshShape
<1> QED BY <1>5, <1>6, <1>7, <1>8 DEF RefreshInv

LEMMA DieKeeps ==
  ASSUME RefreshInv, NEW w \in Workers, Die(w)
  PROVE  RefreshInv'
<1> USE QueueAssumption
<1>1. /\ job' = [job EXCEPT ![w] = NoJob]
      /\ UNCHANGED <<requests, caller>>
  BY DEF Die
<1>2. /\ job'[w].eiin = NoEiin
      /\ \A v \in Workers \ {w} : job'[v] = job[v]
      /\ job' = [v \in Workers |->
                   [eiin |-> job'[v].eiin, number |-> job'[v].number,
                    late |-> job'[v].late, candidates |-> job'[v].candidates]]
      /\ \A v \in Workers : /\ job'[v].eiin \in Eiins \cup {NoEiin}
                            /\ job'[v].number \in Nat
                            /\ job'[v].late \in BOOLEAN
  BY <1>1 DEF NoJob, RefreshInv, RefreshShape
<1>3. RefreshShape' /\ JobsCurrent'
  BY <1>1, <1>2
     DEF RefreshInv, RefreshShape, JobsCurrent, Answered, Status
<1> QED
  BY <1>1, <1>3
     DEF RefreshInv, CallersApart, AnswerFresh, UnderWay, Answered, Status

LEMMA GrowOldKeeps ==
  ASSUME RefreshInv, NEW e \in Eiins, GrowOld(e)
  PROVE  RefreshInv'
<1> USE QueueAssumption
<1>1. /\ requests' = [requests EXCEPT ![e].fresh = FALSE]
      /\ Answered(e)
      /\ job' = Overrun(e) /\ caller' = caller
  BY DEF GrowOld
<1>2. /\ requests' \in [Eiins -> Request]
      /\ requests'[e].status = requests[e].status
      /\ requests'[e].answer = requests[e].answer
      /\ requests'[e].number = requests[e].number
      /\ requests'[e].late = requests[e].late
      /\ ~requests'[e].fresh
      /\ \A f \in Eiins \ {e} : requests'[f] = requests[f]
  <2> DEFINE row == [requests[e] EXCEPT !.fresh = FALSE]
  <2>1. requests[e] \in Request /\ requests' = [requests EXCEPT ![e] = row]
    BY <1>1 DEF RefreshInv, RefreshShape
  <2>2. /\ row \in Request /\ ~row.fresh
        /\ row.status = requests[e].status /\ row.answer = requests[e].answer
        /\ row.number = requests[e].number /\ row.late = requests[e].late
    BY <2>1 DEF Request
  <2> HIDE DEF row
  <2> QED BY <2>1, <2>2 DEF RefreshInv, RefreshShape
<1>3. /\ job' = [w \in Workers |->
                   [eiin |-> job'[w].eiin, number |-> job'[w].number,
                    late |-> job'[w].late,
                    candidates |-> job'[w].candidates]]
  BY <1>1, OverrunLate DEF RefreshInv
<1>4. \A w \in Workers : /\ job'[w].eiin = job[w].eiin
                         /\ job'[w].number = job[w].number
                         /\ job'[w].late \in BOOLEAN
                         /\ job[w].late => job'[w].late
                         /\ job[w].eiin = e => job'[w].late
  BY <1>1, OverrunLate DEF RefreshInv
<1>5. CallersApart'
  BY <1>1, <1>2 DEF RefreshInv, RefreshShape, CallersApart, UnderWay,
                    Answered, Status
<1>6. JobsCurrent'
  <2> SUFFICES ASSUME NEW w \in Workers,
                      job'[w].eiin # NoEiin, ~job'[w].late
               PROVE  LET f == job'[w].eiin IN
                      /\ job'[w].number = requests'[f].number
                      /\ \/ /\ requests'[f].status = "running"
                            /\ requests'[f].lease = "held"
                         \/ /\ requests'[f].status = "answered"
                            /\ requests'[f].fresh
    BY DEF JobsCurrent, Answered, Status
  <2>1. /\ job'[w].eiin = job[w].eiin /\ job'[w].number = job[w].number
        /\ job[w].eiin # NoEiin /\ ~job[w].late /\ job[w].eiin # e
    BY <1>4
  <2>2. job[w].eiin \in Eiins
    BY <2>1 DEF RefreshInv, RefreshShape
  <2> QED
    BY <1>2, <2>1, <2>2 DEF RefreshInv, JobsCurrent, Answered, Status
<1>7. AnswerFresh'
  BY <1>2 DEF RefreshInv, AnswerFresh, Answered, Status
<1>8. RefreshShape'
  <2>1. \A w \in Workers : /\ job'[w].eiin \in Eiins \cup {NoEiin}
                           /\ job'[w].number \in Nat
                           /\ job'[w].late \in BOOLEAN
    <3>1. \A w \in Workers : /\ job[w].eiin \in Eiins \cup {NoEiin}
                             /\ job[w].number \in Nat
      BY DEF RefreshInv, RefreshShape
    <3> QED BY <1>4, <3>1
  <2> QED BY <1>1, <1>2, <1>3, <2>1, Zenon DEF RefreshInv, RefreshShape
<1> QED BY <1>5, <1>6, <1>7, <1>8 DEF RefreshInv

LEMMA PruneKeeps ==
  ASSUME RefreshInv, NEW e \in Eiins, Prune(e)
  PROVE  RefreshInv'
<1> USE QueueAssumption
<1>1. /\ requests' = [requests EXCEPT ![e].status = "none",
                                      ![e].answer = 0, ![e].late = FALSE]
      /\ Answered(e) /\ ~requests[e].fresh /\ ~Held(e)
      /\ UNCHANGED <<job, caller>>
  BY DEF Prune
<1>2. /\ requests' \in [Eiins -> Request]
      /\ requests'[e].status = "none"
      /\ \A f \in Eiins \ {e} : requests'[f] = requests[f]
  <2> DEFINE row == [requests[e] EXCEPT !.status = "none",
                                        !.answer = 0, !.late = FALSE]
  <2>1. requests[e] \in Request
    BY DEF RefreshInv, RefreshShape
  <2>2. row \in Request /\ row.status = "none"
    BY <2>1 DEF Request
  <2>3. requests' = [requests EXCEPT ![e] = row]
    BY <1>1
  <2> HIDE DEF row
  <2> QED BY <2>2, <2>3 DEF RefreshInv, RefreshShape
<1>3. RefreshShape'
  BY <1>1, <1>2 DEF RefreshInv, RefreshShape
<1>4. CallersApart'
  BY <1>1, <1>2 DEF RefreshInv, RefreshShape, CallersApart, UnderWay, Held,
                    Answered, Status
<1>5. \A w \in Workers : job[w].eiin = e => job[w].late
  BY <1>1 DEF RefreshInv, RefreshShape, JobsCurrent, Answered, Status
<1>6. JobsCurrent'
  BY <1>1, <1>2, <1>5
     DEF RefreshInv, RefreshShape, JobsCurrent, Answered, Status
<1>7. AnswerFresh'
  BY <1>2 DEF RefreshInv, AnswerFresh, Answered, Status
<1> QED BY <1>3, <1>4, <1>6, <1>7 DEF RefreshInv

(* The requests that still wait and are older than a row of a worker's      *)
(* list, without being in the list themselves; and the calls that may       *)
(* become such requests.                                                    *)
PassedOver(w, row) ==
    {e \in Eiins :
        /\ Status(e) = "queued"
        /\ requests[e].number < row.number
        /\ [eiin |-> e, number |-> requests[e].number]
              \notin job[w].candidates}
Behind(row) ==
    {c \in Callers : caller[c] # NoCall /\ caller[c].number < row.number}

FewBefore(w, row) ==
    Cardinality(PassedOver(w, row)) + Cardinality(Behind(row))
        <= Cardinality(Callers)

(* A list was complete when it was read, and the calls made since then are  *)
(* younger than all of it: what it lacks was being asked for at the time.   *)
ListsSound ==
    /\ \A e \in Eiins : requests[e].number <= asked
    /\ \A c \in Callers : caller[c].number <= asked
    /\ \A w \in Workers :
          /\ job[w].candidates \in SUBSET Candidate
          /\ \A row \in job[w].candidates :
                row.number <= asked /\ FewBefore(w, row)

QueueInv == CountersTyped /\ RefreshInv /\ ListsSound

LEMMA RefreshSteps == QueueInv /\ [RefreshNext]_refreshVars => RefreshInv'
<1> SUFFICES ASSUME QueueInv, [RefreshNext]_refreshVars
             PROVE  RefreshInv'
  OBVIOUS
<1> USE DEF QueueInv
<1>1. ASSUME NEW c \in Callers, NEW e \in Eiins, Arrive(c, e)
      PROVE  RefreshInv'
  BY <1>1, ArriveKeeps
<1>2. ASSUME NEW c \in Callers, Pass(c) \/ Enqueue(c) \/ GiveUp(c)
      PROVE  RefreshInv'
  BY <1>2, PassKeeps, EnqueueKeeps, GiveUpKeeps
<1>3. ASSUME NEW w \in Workers, Work(w) \/ Die(w)
      PROVE  RefreshInv'
  <2>1. \A row \in job[w].candidates : row.eiin \in Eiins
    BY DEF ListsSound, Candidate
  <2> QED
    BY <1>3, <2>1, ListKeeps, ClaimKeeps, AnswerKeeps, DieKeeps DEF Work
<1>4. ASSUME NEW e \in Eiins, Lapse(e) \/ GrowOld(e) \/ Prune(e)
      PROVE  RefreshInv'
  BY <1>4, LapseKeeps, GrowOldKeeps, PruneKeeps
<1>5. CASE UNCHANGED refreshVars
  BY <1>5 DEF refreshVars, RefreshInv, RefreshShape, CallersApart,
              JobsCurrent, AnswerFresh, UnderWay, Answered, Status
<1> QED BY <1>1, <1>2, <1>3, <1>4, <1>5 DEF RefreshNext

LEMMA SetsFinite ==
  ASSUME NEW w, NEW row
  PROVE  /\ IsFiniteSet(PassedOver(w, row))
         /\ IsFiniteSet(Behind(row)) /\ Behind(row) \in SUBSET Callers
         /\ Cardinality(Callers) \in Nat
<1>1. /\ PassedOver(w, row) \in SUBSET Eiins
      /\ Behind(row) \in SUBSET Callers
  BY DEF PassedOver, Behind
<1> QED BY <1>1, QueueAssumption, FS_Subset, FS_CardinalityType

LEMMA SmallerSum ==
  ASSUME NEW A, NEW B, IsFiniteSet(A), IsFiniteSet(B), NEW n \in Nat,
         Cardinality(A) + Cardinality(B) <= n,
         NEW C \in SUBSET A, NEW D \in SUBSET B
  PROVE  Cardinality(C) + Cardinality(D) <= n
<1>1. /\ Cardinality(C) <= Cardinality(A) /\ IsFiniteSet(C)
      /\ Cardinality(D) <= Cardinality(B) /\ IsFiniteSet(D)
  BY FS_Subset
<1>2. /\ Cardinality(A) \in Nat /\ Cardinality(B) \in Nat
      /\ Cardinality(C) \in Nat /\ Cardinality(D) \in Nat
  BY <1>1, FS_CardinalityType
<1> QED BY <1>1, <1>2

(* A row stays good while no older request turns up beside its list and no  *)
(* older call.                                                              *)
LEMMA FewRemain ==
  ASSUME NEW w, NEW row, FewBefore(w, row),
         PassedOver(w, row)' \subseteq PassedOver(w, row),
         Behind(row)' \subseteq Behind(row)
  PROVE  FewBefore(w, row)'
<1>1. IsFiniteSet(PassedOver(w, row)) /\ IsFiniteSet(Behind(row))
  BY SetsFinite
<1>2. Cardinality(Callers) \in Nat
  BY SetsFinite
<1>3. Cardinality(PassedOver(w, row)) + Cardinality(Behind(row))
        <= Cardinality(Callers)
  BY DEF FewBefore
<1>4. Cardinality(PassedOver(w, row)') + Cardinality(Behind(row)')
        <= Cardinality(Callers)
  <2> DEFINE A == PassedOver(w, row)
             B == Behind(row)
             C == PassedOver(w, row)'
             D == Behind(row)'
             n == Cardinality(Callers)
  <2>1. /\ C \in SUBSET A /\ D \in SUBSET B
        /\ IsFiniteSet(A) /\ IsFiniteSet(B) /\ n \in Nat
        /\ Cardinality(A) + Cardinality(B) <= n
    BY <1>1, <1>2, <1>3
  <2> HIDE DEF A, B, C, D, n
  <2>2. Cardinality(C) + Cardinality(D) <= n
    BY <2>1, SmallerSum
  <2> QED BY <2>2 DEF C, D, n
<1> QED BY <1>4 DEF FewBefore

(* A caller that is behind a row of a list may become a request that the    *)
(* list lacks, and is a caller no more.                                     *)
LEMMA FewJoin ==
  ASSUME NEW w, NEW row, FewBefore(w, row), NEW c \in Behind(row), NEW e,
         PassedOver(w, row)' \subseteq PassedOver(w, row) \cup {e},
         Behind(row)' = Behind(row) \ {c}
  PROVE  FewBefore(w, row)'
<1> DEFINE A == PassedOver(w, row)
           B == Behind(row)
           C == PassedOver(w, row)'
           n == Cardinality(Callers)
<1>1. /\ C \in SUBSET (A \cup {e}) /\ c \in B
      /\ IsFiniteSet(A) /\ IsFiniteSet(B) /\ n \in Nat
      /\ Cardinality(A) + Cardinality(B) <= n
  BY SetsFinite DEF FewBefore
<1>2. FewBefore(w, row)' <=> Cardinality(C) + Cardinality(B \ {c}) <= n
  BY DEF FewBefore
<1> HIDE DEF A, B, C, n
<1>3. /\ Cardinality(B \ {c}) = Cardinality(B) - 1
      /\ Cardinality(A) \in Nat /\ Cardinality(B) \in Nat
  BY <1>1, FS_RemoveElement, FS_CardinalityType
<1>4. /\ IsFiniteSet(A \cup {e})
      /\ Cardinality(A \cup {e}) = IF e \in A THEN Cardinality(A)
                                   ELSE Cardinality(A) + 1
  BY <1>1, FS_AddElement
<1>5. /\ Cardinality(C) <= Cardinality(A \cup {e})
      /\ IsFiniteSet(C) /\ Cardinality(C) \in Nat
  BY <1>1, <1>4, FS_Subset, FS_CardinalityType
<1> QED BY <1>1, <1>2, <1>3, <1>4, <1>5

(* Where fewer wait and fewer call, each with its number, and a list keeps  *)
(* at least the rows that still wait, its rows stay good.                   *)
LEMMA ListKept ==
  ASSUME NEW w, NEW row \in job[w].candidates, FewBefore(w, row),
         \A e \in Eiins : requests'[e].status = "queued" =>
            /\ requests[e].status = "queued"
            /\ requests'[e].number = requests[e].number
            /\ [eiin |-> e, number |-> requests[e].number]
                  \in job[w].candidates
               => [eiin |-> e, number |-> requests[e].number]
                     \in job'[w].candidates,
         \A c \in Callers : caller'[c] # NoCall =>
            \/ caller[c] # NoCall /\ caller'[c].number = caller[c].number
            \/ ~(caller'[c].number < row.number)
  PROVE  FewBefore(w, row)'
<1>1. PassedOver(w, row)' \subseteq PassedOver(w, row)
  BY DEF PassedOver, Status
<1>2. Behind(row)' \subseteq Behind(row)
  BY DEF Behind
<1> QED BY <1>1, <1>2, FewRemain

LEMMA ArriveLists ==
  ASSUME QueueInv, NEW c \in Callers, NEW e \in Eiins, Arrive(c, e)
  PROVE  ListsSound'
<1> USE DEF QueueInv
<1>1. /\ requests' = requests /\ job' = job /\ asked' = asked + 1
      /\ asked \in Nat
      /\ \A d \in Callers \ {c} : caller'[d] = caller[d]
      /\ caller'[c].number = asked + 1
      /\ \A d \in Callers : caller[d].number \in Nat
      /\ \A f \in Eiins : requests[f].number \in Nat
      /\ \A w \in Workers : \A row \in job[w].candidates : row.number \in Nat
  BY DEF Arrive, RefreshInv, RefreshShape, CountersTyped, Call, Request,
         ListsSound, Candidate
<1>2. /\ \A f \in Eiins : requests'[f].number <= asked'
      /\ \A d \in Callers : caller'[d].number <= asked'
  BY <1>1 DEF ListsSound
<1>3. ASSUME NEW w \in Workers, NEW row \in job[w].candidates
      PROVE  row.number <= asked' /\ FewBefore(w, row)'
  <2>1. row.number <= asked /\ FewBefore(w, row) /\ row.number \in Nat
    BY <1>1 DEF ListsSound
  <2>2. ~(caller'[c].number < row.number)
    BY <1>1, <2>1
  <2> QED BY <1>1, <2>1, <2>2, ListKept
<1> QED BY <1>1, <1>2, <1>3 DEF ListsSound

LEMMA EnqueueLists ==
  ASSUME QueueInv, NEW c \in Callers, Enqueue(c)
  PROVE  ListsSound'
<1> USE DEF QueueInv
<1> DEFINE e == caller[c].eiin
<1>1. /\ e \in Eiins /\ asked' = asked /\ job' = job
      /\ requests'[e].number = caller[c].number
      /\ \A f \in Eiins \ {e} : requests'[f] = requests[f]
      /\ caller'[c] = NoCall /\ caller[c] # NoCall
      /\ \A d \in Callers \ {c} : caller'[d] = caller[d]
  <2>1. asked' = asked /\ job' = job
    BY DEF Enqueue
  <2> QED BY <2>1, RequestSaved DEF RefreshInv
<1>2. /\ NoCall.number = 0 /\ asked \in Nat
  BY DEF NoCall, CountersTyped
<1> HIDE DEF e
<1>3. /\ \A f \in Eiins : requests'[f].number <= asked'
      /\ \A d \in Callers : caller'[d].number <= asked'
  BY <1>1, <1>2 DEF ListsSound
<1>4. ASSUME NEW w \in Workers, NEW row \in job[w].candidates
      PROVE  FewBefore(w, row)'
  <2>1. FewBefore(w, row)
    BY DEF ListsSound
  <2>2. Behind(row)' = Behind(row) \ {c}
    BY <1>1 DEF Behind
  <2>3. CASE caller[c].number < row.number
    <3>1. c \in Behind(row)
      BY <1>1, <2>3 DEF Behind
    <3>2. PassedOver(w, row)' \subseteq PassedOver(w, row) \cup {e}
      BY <1>1 DEF PassedOver, Status
    <3> QED BY <2>1, <2>2, <3>1, <3>2, FewJoin
  <2>4. CASE ~(caller[c].number < row.number)
    <3>1. PassedOver(w, row)' \subseteq PassedOver(w, row)
      BY <1>1, <2>4 DEF PassedOver, Status
    <3> QED BY <2>1, <2>2, <3>1, FewRemain
  <2> QED BY <2>3, <2>4
<1> QED BY <1>1, <1>3, <1>4 DEF ListsSound

LEMMA ListingLists ==
  ASSUME QueueInv, NEW w \in Workers, ListCandidates(w)
  PROVE  ListsSound'
<1> USE DEF QueueInv
<1>1. /\ requests' = requests /\ asked' = asked /\ caller' = caller
      /\ job'[w].candidates = Listed
      /\ \A v \in Workers \ {w} : job'[v] = job[v]
  BY DEF ListCandidates, RefreshInv, RefreshShape
<1>2. /\ Listed \subseteq Candidate
      /\ \A row \in Listed : row.number <= asked
      /\ \A e \in Eiins : Status(e) = "queued" =>
            [eiin |-> e, number |-> requests[e].number] \in Listed
  BY DEF Listed, Candidate, Request, Claimable, ListsSound, RefreshInv,
         RefreshShape
<1> HIDE DEF Listed
<1>3. ASSUME NEW row \in Listed
      PROVE  FewBefore(w, row)'
  <2>1. PassedOver(w, row)' = {}
    BY <1>1, <1>2 DEF PassedOver, Status
  <2>2. Behind(row)' = Behind(row)
    BY <1>1 DEF Behind
  <2>3. /\ Behind(row) \in SUBSET Callers /\ IsFiniteSet(Callers)
        /\ Cardinality(Callers) \in Nat
    BY SetsFinite, QueueAssumption
  <2>4. /\ Cardinality(Behind(row)) <= Cardinality(Callers)
        /\ Cardinality(Behind(row)) \in Nat
    BY <2>3, FS_Subset, FS_CardinalityType
  <2>5. Cardinality({}) = 0
    BY FS_EmptySet
  <2>6. Cardinality(PassedOver(w, row)') + Cardinality(Behind(row)')
          <= Cardinality(Callers)
    BY <2>1, <2>2, <2>3, <2>4, <2>5
  <2> QED BY <2>6 DEF FewBefore
<1>4. ASSUME NEW v \in Workers \ {w}, NEW row \in job[v].candidates
      PROVE  FewBefore(v, row)'
  <2>1. FewBefore(v, row)
    BY DEF ListsSound
  <2> QED BY <1>1, <2>1, ListKept
<1> QED BY <1>1, <1>2, <1>3, <1>4 DEF ListsSound

(* The other steps take no number and list nothing.                         *)
LEMMA OtherLists ==
  ASSUME QueueInv, asked' = asked,
         \A e \in Eiins :
            /\ requests'[e].number = requests[e].number
            /\ requests'[e].status = "queued" => requests[e].status = "queued",
         \A c \in Callers : \/ caller'[c] = NoCall
                            \/ /\ caller[c] # NoCall
                               /\ caller'[c].number = caller[c].number,
         \A w \in Workers :
            /\ job'[w].candidates \subseteq job[w].candidates
            /\ \/ job'[w].candidates = {}
               \/ \A e \in Eiins :
                     LET row == [eiin |-> e, number |-> requests[e].number] IN
                     requests'[e].status = "queued" /\ row \in job[w].candidates
                     => row \in job'[w].candidates
  PROVE  ListsSound'
<1> USE DEF QueueInv
<1>1. NoCall.number = 0 /\ asked \in Nat
  BY DEF NoCall, CountersTyped
<1>2. \A c \in Callers : caller'[c].number <= asked'
  BY <1>1 DEF ListsSound
<1>3. ASSUME NEW w \in Workers, NEW row \in job'[w].candidates
      PROVE  FewBefore(w, row)'
  <2>1. row \in job[w].candidates /\ FewBefore(w, row)
    BY DEF ListsSound
  <2>2. \A e \in Eiins : requests'[e].status = "queued" =>
            /\ requests[e].status = "queued"
            /\ requests'[e].number = requests[e].number
            /\ [eiin |-> e, number |-> requests[e].number]
                  \in job[w].candidates
               => [eiin |-> e, number |-> requests[e].number]
                     \in job'[w].candidates
    BY <1>3
  <2> QED BY <2>1, <2>2, ListKept
<1> QED BY <1>2, <1>3 DEF ListsSound

LEMMA ClaimLists ==
  ASSUME QueueInv, NEW w \in Workers, NEW row \in job[w].candidates,
         Claim(w, row)
  PROVE  ListsSound'
<1> USE DEF QueueInv
<1> DEFINE e == row.eiin
<1>1. /\ e \in Eiins /\ asked' = asked /\ caller' = caller
  BY DEF Claim, ListsSound, Candidate
<1>2. CASE Claimable(e)
  <2>1. /\ requests' = [requests EXCEPT ![e].status = "running",
                                        ![e].lease = "held"]
        /\ job' = [job EXCEPT ![w] =
                     [eiin |-> e, number |-> requests[e].number,
                      late |-> FALSE, candidates |-> {}]]
    BY <1>2 DEF Claim, NoJob
  <2> HIDE DEF e
  <2>2. /\ requests'[e].status = "running"
        /\ requests'[e].number = requests[e].number
        /\ \A f \in Eiins \ {e} : requests'[f] = requests[f]
    BY <1>1, <2>1 DEF Request, RefreshInv, RefreshShape
  <2>3. /\ job'[w].candidates = {}
        /\ \A v \in Workers \ {w} : job'[v] = job[v]
    BY <2>1 DEF RefreshInv, RefreshShape
  <2> QED BY <1>1, <2>2, <2>3, OtherLists
<1>3. CASE ~Claimable(e)
  <2>1. /\ requests' = requests
        /\ job' = [job EXCEPT ![w].candidates = @ \ {row}]
    BY <1>3 DEF Claim
  <2>2. /\ job'[w].candidates = job[w].candidates \ {row}
        /\ \A v \in Workers \ {w} : job'[v] = job[v]
    BY <2>1 DEF RefreshInv, RefreshShape
  <2>3. \A f \in Eiins : requests[f].status = "queued" =>
          [eiin |-> f, number |-> requests[f].number] # row
    BY <1>3 DEF Claimable, Status
  <2> HIDE DEF e
  <2> QED BY <1>1, <2>1, <2>2, <2>3, OtherLists
<1> QED BY <1>2, <1>3

LEMMA ListsSteps == QueueInv /\ [RefreshNext]_refreshVars => ListsSound'
<1> SUFFICES ASSUME QueueInv, [RefreshNext]_refreshVars
             PROVE  ListsSound'
  OBVIOUS
<1> USE DEF QueueInv
<1>1. ASSUME NEW c \in Callers, Pass(c)
      PROVE  ListsSound'
  <2>1. /\ requests' = requests /\ job' = job /\ asked' = asked
        /\ caller[c].eiin # NoEiin
        /\ caller' = [caller EXCEPT ![c].holds = TRUE]
    BY <1>1 DEF Pass
  <2>2. \A d \in Callers : \/ caller'[d] = caller[d]
                           \/ /\ caller[d] # NoCall
                              /\ caller'[d].number = caller[d].number
    BY <2>1 DEF NoCall, RefreshInv, RefreshShape, Call
  <2> QED BY <2>1, <2>2, OtherLists
<1>2. ASSUME NEW c \in Callers, GiveUp(c)
      PROVE  ListsSound'
  <2>1. /\ requests' = requests /\ job' = job /\ asked' = asked
        /\ \A d \in Callers : caller'[d] = NoCall \/ caller'[d] = caller[d]
    BY <1>2 DEF GiveUp, RefreshInv, RefreshShape
  <2> QED BY <2>1, OtherLists
<1>3. ASSUME NEW w \in Workers, SaveAnswer(w) \/ Die(w)
      PROVE  ListsSound'
  <2>1. /\ caller' = caller /\ asked' = asked
        /\ job' = [job EXCEPT ![w] = NoJob]
    BY <1>3 DEF SaveAnswer, Die
  <2>2. \A f \in Eiins : /\ requests'[f].number = requests[f].number
                         /\ requests'[f].status = "queued" =>
                               requests[f].status = "queued"
    <3>1. CASE Die(w)
      BY <3>1 DEF Die
    <3>2. CASE SaveAnswer(w)
      <4>1. job[w].eiin \in Eiins
        BY <3>2 DEF SaveAnswer, RefreshInv, RefreshShape
      <4> QED BY <3>2, <4>1 DEF SaveAnswer, Request, RefreshInv, RefreshShape
    <3> QED BY <1>3, <3>1, <3>2
  <2>3. /\ job'[w].candidates = {}
        /\ \A v \in Workers \ {w} : job'[v] = job[v]
    BY <2>1 DEF NoJob, RefreshInv, RefreshShape
  <2> QED BY <2>1, <2>2, <2>3, OtherLists
<1>4. ASSUME NEW e \in Eiins, job' = Overrun(e)
      PROVE  \A w \in Workers : job'[w].candidates = job[w].candidates
  BY <1>4 DEF Overrun, RefreshInv, RefreshShape
<1>5. ASSUME NEW e \in Eiins, Lapse(e) \/ GrowOld(e) \/ Prune(e)
      PROVE  ListsSound'
  <2>1. /\ asked' = asked /\ caller' = caller
        /\ job' = Overrun(e) \/ job' = job
    BY <1>5 DEF Lapse, GrowOld, Prune
  <2>2. \A f \in Eiins : /\ requests'[f].number = requests[f].number
                         /\ requests'[f].status = "queued" =>
                               requests[f].status = "queued"
    <3> USE DEF RefreshInv, RefreshShape, Request
    <3>1. CASE Lapse(e)
      BY <3>1 DEF Lapse
    <3>2. CASE GrowOld(e)
      BY <3>2 DEF GrowOld
    <3>3. CASE Prune(e)
      BY <3>3 DEF Prune
    <3> QED BY <1>5, <3>1, <3>2, <3>3
  <2>3. \A w \in Workers : job'[w].candidates = job[w].candidates
    BY <1>4, <2>1
  <2> QED BY <2>1, <2>2, <2>3, OtherLists
<1>6. CASE UNCHANGED refreshVars
  BY <1>6, OtherLists DEF refreshVars
<1>7. ASSUME NEW w \in Workers, Work(w)
      PROVE  ListsSound'
  BY <1>3, <1>7, ListingLists, ClaimLists DEF Work
<1>8. ASSUME NEW c \in Callers,
             \/ \E e \in Eiins : Arrive(c, e)
             \/ Enqueue(c)
      PROVE  ListsSound'
  BY <1>8, ArriveLists, EnqueueLists
<1> QED
  BY <1>1, <1>2, <1>3, <1>5, <1>6, <1>7, <1>8 DEF RefreshNext

LEMMA QueueStarts == RefreshInit => QueueInv
<1> SUFFICES ASSUME RefreshInit PROVE ListsSound
  BY CountersStarts, RefreshStarts DEF QueueInv
<1>1. /\ \A e \in Eiins : requests[e].number = 0
      /\ \A c \in Callers : caller[c].number = 0
      /\ \A w \in Workers : job[w].candidates = {}
      /\ asked = 0
  BY DEF RefreshInit, NoJob, NoCall
<1> QED BY <1>1 DEF ListsSound

LEMMA QueueSteps == QueueInv /\ [RefreshNext]_refreshVars => QueueInv'
BY CountersSteps, RefreshSteps, ListsSteps DEF QueueInv

LEMMA RefreshTyped == QueueInv => RefreshTypeOK
<1> SUFFICES ASSUME QueueInv PROVE RefreshTypeOK
  OBVIOUS
<1> USE DEF QueueInv
<1>1. /\ requests \in [Eiins -> Request]
      /\ caller \in [Callers -> Call]
      /\ asked \in 0..MaxRequests /\ deaths \in Nat
  BY DEF CountersTyped, RefreshInv, RefreshShape
<1>2. \A w \in Workers : job[w].candidates \in SUBSET Candidate
  BY DEF ListsSound
<1>3. job \in [Workers -> [eiin : Eiins \cup {NoEiin}, number : Nat,
                          late : BOOLEAN, candidates : SUBSET Candidate]]
  BY <1>2 DEF RefreshInv, RefreshShape
<1> QED BY <1>1, <1>3 DEF RefreshTypeOK

LEMMA ClaimedJob ==
  ASSUME NEW e, NEW n, NEW j, j = [NoJob EXCEPT !.eiin = e, !.number = n]
  PROVE  j = [eiin |-> e, number |-> n, late |-> FALSE, candidates |-> {}]
BY DEF NoJob

(* A worker that claims an institute from its list passes over no more      *)
(* older requests that still wait than there can be callers at once,        *)
(* whoever else asks, lists, claims or drops rows meanwhile.                *)
THEOREM FewAreOvertaken == RefreshSpec => FewOvertaken
<1> DEFINE Older(row) == {e \in Eiins : /\ Status(e) = "queued"
                                        /\ requests[e].number < row.number}
           InOrder ==
      \A w \in Workers :
         job[w].eiin = NoEiin /\ job'[w].eiin # NoEiin =>
            \E row \in job[w].candidates :
               /\ row.eiin = job'[w].eiin
               /\ Cardinality(Older(row)) <= Cardinality(Callers)
<1>1. QueueInv /\ [RefreshNext]_refreshVars => [InOrder]_refreshVars
  <2> SUFFICES ASSUME QueueInv, RefreshNext, NEW v \in Workers,
                      job[v].eiin = NoEiin, job'[v].eiin # NoEiin
               PROVE  \E row \in job[v].candidates :
                         /\ row.eiin = job'[v].eiin
                         /\ Cardinality(Older(row)) <= Cardinality(Callers)
    BY DEF refreshVars
  <2> HIDE DEF Older
  <2> USE QueueAssumption DEF QueueInv, RefreshInv, RefreshShape
  <2>1. ASSUME NEW c \in Callers,
               \/ \E e \in Eiins : Arrive(c, e)
               \/ Pass(c) \/ Enqueue(c) \/ GiveUp(c)
        PROVE  FALSE
    BY <2>1 DEF Arrive, Pass, Enqueue, GiveUp
  <2>3. ASSUME NEW w \in Workers, ListCandidates(w) \/ SaveAnswer(w) \/ Die(w)
        PROVE  FALSE
    <3>1. CASE ListCandidates(w)
      BY <3>1 DEF ListCandidates
    <3>2. CASE SaveAnswer(w) \/ Die(w)
      <4>1. job' = [job EXCEPT ![w] = NoJob]
        BY <3>2 DEF SaveAnswer, Die
      <4> QED BY <4>1 DEF NoJob
    <3> QED BY <2>3, <3>1, <3>2
  <2>4. ASSUME NEW e \in Eiins, Lapse(e) \/ GrowOld(e) \/ Prune(e)
        PROVE  FALSE
    <3>1. job' = Overrun(e) \/ job' = job
      BY <2>4 DEF Lapse, GrowOld, Prune
    <3> QED BY <3>1, OverrunLate
  <2>5. PICK w \in Workers : \E row \in job[w].candidates : Claim(w, row)
    BY <2>1, <2>3, <2>4 DEF RefreshNext, Work
  <2>6. PICK row \in job[w].candidates : Claim(w, row)
    BY <2>5
  <2>7. Claimable(row.eiin) /\ v = w /\ job'[v].eiin = row.eiin
    <3>1. CASE ~Claimable(row.eiin)
      <4>1. job' = [job EXCEPT ![w].candidates = @ \ {row}]
        BY <2>6, <3>1 DEF Claim
      <4>2. job'[v].eiin = job[v].eiin
        BY <4>1
      <4> QED BY <4>2
    <3>2. CASE Claimable(row.eiin)
      <4>1. job' = [job EXCEPT ![w] =
                      [eiin |-> row.eiin,
                       number |-> requests[row.eiin].number,
                       late |-> FALSE, candidates |-> {}]]
        <5>1. job' = [job EXCEPT ![w] = [NoJob EXCEPT
                         !.eiin = row.eiin,
                         !.number = requests[row.eiin].number]]
          BY <2>6, <3>2, Zenon DEF Claim
        <5>2. [NoJob EXCEPT !.eiin = row.eiin,
                            !.number = requests[row.eiin].number]
                = [eiin |-> row.eiin, number |-> requests[row.eiin].number,
                   late |-> FALSE, candidates |-> {}]
          BY ClaimedJob, Zenon
        <5> QED BY <5>1, <5>2, Zenon
      <4>2. v = w
        BY <4>1
      <4> QED BY <3>2, <4>1, <4>2
    <3> QED BY <3>1, <3>2
  <2>8. Cardinality(Older(row)) <= Cardinality(Callers)
    <3>1. row.number \in Nat /\ FewBefore(w, row)
      BY DEF ListsSound, Candidate
    <3>2. Older(row) \subseteq PassedOver(w, row)
      <4>1. ASSUME NEW e \in Older(row)
            PROVE  [eiin |-> e, number |-> requests[e].number]
                      \notin job[w].candidates
        <5>1. /\ requests[e].number < row.number
              /\ requests[e].number \in Nat
          BY DEF Older, Request
        <5>2. \A other \in job[w].candidates : row.number <= other.number
          BY <2>6 DEF Claim
        <5> QED BY <3>1, <5>1, <5>2
      <4> QED BY <4>1 DEF Older, PassedOver
    <3>3. /\ IsFiniteSet(PassedOver(w, row)) /\ IsFiniteSet(Behind(row))
          /\ Cardinality(Callers) \in Nat
      BY SetsFinite
    <3>4. /\ Cardinality(Older(row)) + Cardinality(Behind(row))
               <= Cardinality(Callers)
          /\ Cardinality(Older(row)) \in Nat
          /\ Cardinality(Behind(row)) \in Nat
      BY <3>1, <3>2, <3>3, SmallerSum, FS_Subset, FS_CardinalityType
         DEF FewBefore
    <3> QED BY <3>3, <3>4
  <2> QED BY <2>6, <2>7, <2>8
<1> QED
  BY QueueStarts, QueueSteps, <1>1, PTL DEF RefreshSpec, FewOvertaken

(* A saved answer was fetched for the latest request of its institute,      *)
(* unless the worker that fetched it had already lost its lease.            *)
THEOREM AnswersFresh == RefreshSpec => []AnswerFresh
<1>1. QueueInv => AnswerFresh
  BY DEF QueueInv, RefreshInv
<1> QED BY QueueStarts, QueueSteps, <1>1, PTL DEF RefreshSpec

(* An answer stays as it was saved until its window is over.                *)
THEOREM AnswersKept == RefreshSpec => AnswerKept
<1> DEFINE Kept ==
      \A e \in Eiins :
         Answered(e) /\ requests[e].fresh =>
            /\ requests'[e].status = requests[e].status
            /\ requests'[e].answer = requests[e].answer
<1>1. QueueInv /\ [RefreshNext]_refreshVars => [Kept]_refreshVars
  <2> SUFFICES ASSUME RefreshInv, RefreshNext,
                      NEW e \in Eiins, Answered(e), requests[e].fresh
               PROVE  /\ requests'[e].status = requests[e].status
                      /\ requests'[e].answer = requests[e].answer
    BY DEF refreshVars, QueueInv
  <2>1. requests[e] \in Request /\ Status(e) = "answered"
    BY DEF RefreshInv, RefreshShape, Answered
  <2>2. ASSUME NEW c \in Callers,
               Pass(c) \/ \E f \in Eiins : Arrive(c, f)
        PROVE  requests' = requests
    BY <2>2 DEF Pass, Arrive
  <2>3. ASSUME NEW c \in Callers, Enqueue(c)
        PROVE  requests'[e] = requests[e]
    <3>1. caller[c].eiin # e
      BY <2>3 DEF Enqueue, RefreshInv, CallersApart
    <3> QED BY <2>3, <3>1 DEF Enqueue, RefreshInv, RefreshShape
  <2>4. ASSUME NEW c \in Callers, GiveUp(c)
        PROVE  requests' = requests
    BY <2>4 DEF GiveUp
  <2>5. ASSUME NEW w \in Workers, ListCandidates(w) \/ Die(w)
        PROVE  requests' = requests
    BY <2>5 DEF ListCandidates, Die
  <2>6. ASSUME NEW w \in Workers, NEW row, Claim(w, row)
        PROVE  requests'[e] = requests[e]
    BY <2>1, <2>6 DEF Claim, Claimable, Status, RefreshInv, RefreshShape
  <2>7. ASSUME NEW w \in Workers, SaveAnswer(w)
        PROVE  requests'[e] = requests[e]
    BY <2>1, <2>7 DEF SaveAnswer, TakesAnswer, Status, RefreshInv,
                      RefreshShape
  <2>8. ASSUME NEW f \in Eiins, Lapse(f)
        PROVE  requests'[e] = requests[e]
    BY <2>1, <2>8 DEF Lapse, Status, RefreshInv, RefreshShape
  <2>9. ASSUME NEW f \in Eiins, GrowOld(f)
        PROVE  /\ requests'[e].status = requests[e].status
               /\ requests'[e].answer = requests[e].answer
    BY <2>1, <2>9 DEF GrowOld, RefreshInv, RefreshShape, Request
  <2>10. ASSUME NEW f \in Eiins, Prune(f)
         PROVE  requests'[e] = requests[e]
    BY <2>10 DEF Prune, RefreshInv, RefreshShape
  <2> QED
    BY <2>2, <2>3, <2>4, <2>5, <2>6, <2>7, <2>8, <2>9, <2>10
       DEF RefreshNext, Work
<1> QED
  BY QueueStarts, QueueSteps, <1>1, PTL DEF RefreshSpec, AnswerKept

---------------------------------------------------------------------------
(* The backlog together with the callers that are about to join it.         *)
Joining == {c \in Callers : caller[c].holds}

JoinersBounded ==
    Cardinality(Backlog) + Cardinality(Joining)
        <= QueueLimit + Cardinality(Callers) - 1

LEMMA BacklogFinite ==
  /\ IsFiniteSet(Backlog) /\ Cardinality(Backlog) \in Nat
  /\ IsFiniteSet(Joining) /\ Cardinality(Joining) \in Nat
  /\ Cardinality(Joining) <= Cardinality(Callers)
  /\ Cardinality(Callers) \in Nat
<1>1. Backlog \in SUBSET Eiins /\ Joining \in SUBSET Callers
  BY DEF Backlog, Joining
<1> QED BY <1>1, QueueAssumption, FS_Subset, FS_CardinalityType

LEMMA OneMore ==
  ASSUME NEW e
  PROVE  /\ Cardinality(Backlog \cup {e}) \in Nat
         /\ Cardinality(Backlog) <= Cardinality(Backlog \cup {e})
         /\ Cardinality(Backlog \cup {e}) <= Cardinality(Backlog) + 1
<1>1. IsFiniteSet(Backlog) /\ Cardinality(Backlog) \in Nat
  BY BacklogFinite
<1> HIDE DEF Backlog
<1>2. Cardinality(Backlog \cup {e}) =
        IF e \in Backlog THEN Cardinality(Backlog)
                        ELSE Cardinality(Backlog) + 1
  BY <1>1, FS_AddElement
<1> QED BY <1>1, <1>2

(* Whoever neither joins nor asks to join does not matter.                  *)
LEMMA OthersLeave ==
  ASSUME JoinersBounded, Backlog' \subseteq Backlog, caller' = caller
  PROVE  JoinersBounded'
<1>1. Cardinality(Backlog') <= Cardinality(Backlog)
  BY BacklogFinite, FS_Subset
<1>2. Joining' = Joining
  BY DEF Joining
<1>3. IsFiniteSet(Backlog') /\ Cardinality(Backlog') \in Nat
  BY BacklogFinite, FS_Subset, FS_CardinalityType
<1> QED
  BY <1>1, <1>2, <1>3, BacklogFinite, QueueAssumption DEF JoinersBounded

(* A caller counts the backlog below its limit.                             *)
LEMMA PassCounts ==
  ASSUME NEW c \in Callers, Pass(c)
  PROVE  JoinersBounded'
<1> DEFINE e == caller[c].eiin
<1>1. Backlog' = Backlog
  BY DEF Pass, Backlog, Status
<1>2. Cardinality(Backlog) < QueueLimit
  <2>1. /\ Cardinality(Backlog) <= Cardinality(Backlog \cup {e})
        /\ Cardinality(Backlog \cup {e}) \in Nat
    BY OneMore
  <2>2. Counted(e) = Backlog \/ Counted(e) = Backlog \cup {e}
    BY DEF Counted
  <2>3. Cardinality(Counted(e)) < QueueLimit
    BY DEF Pass
  <2> HIDE DEF e
  <2> QED BY <2>1, <2>2, <2>3, BacklogFinite, QueueAssumption
<1>3. Joining' \in SUBSET Callers
  BY DEF Joining
<1>4. /\ Cardinality(Joining') \in Nat
      /\ Cardinality(Joining') <= Cardinality(Callers)
  BY <1>3, QueueAssumption, FS_Subset, FS_CardinalityType
<1> QED
  BY <1>1, <1>2, <1>4, BacklogFinite, QueueAssumption DEF JoinersBounded

(* It joins the backlog, or gives up.                                       *)
LEMMA CallerLeaves ==
  ASSUME RefreshShape, JoinersBounded, NEW c \in Callers, caller[c].holds,
         Enqueue(c) \/ GiveUp(c)
  PROVE  JoinersBounded'
<1> USE QueueAssumption
<1>1. c \in Joining /\ caller' = [caller EXCEPT ![c] = NoCall]
  BY DEF Enqueue, GiveUp, Joining
<1>2. Joining' = Joining \ {c}
  BY <1>1, CallEnds DEF Joining, RefreshShape
<1>3. Cardinality(Joining') = Cardinality(Joining) - 1
  BY <1>1, <1>2, BacklogFinite, FS_RemoveElement
<1>4. /\ Cardinality(Backlog') <= Cardinality(Backlog) + 1
      /\ Cardinality(Backlog') \in Nat
  <2>1. CASE GiveUp(c)
    <3>1. Backlog' = Backlog
      BY <2>1 DEF GiveUp, Backlog, Status
    <3> QED BY <3>1, BacklogFinite
  <2>2. CASE Enqueue(c)
    <3> DEFINE e == caller[c].eiin
    <3>1. e \in Eiins
      BY <1>1 DEF Joining, RefreshShape
    <3>2. /\ requests'[e].status = "queued"
          /\ \A f \in Eiins \ {e} : requests'[f] = requests[f]
      BY <2>2, RequestSaved
    <3>3. Backlog' = Backlog \cup {e}
      BY <3>1, <3>2 DEF Backlog, Status
    <3> QED BY <3>3, OneMore
  <2> QED BY <2>1, <2>2
<1> QED
  BY <1>3, <1>4, BacklogFinite DEF JoinersBounded

LEMMA JoinersSteps ==
  RefreshInv /\ JoinersBounded /\ [RefreshNext]_refreshVars => JoinersBounded'
<1> SUFFICES ASSUME RefreshInv, JoinersBounded, [RefreshNext]_refreshVars
             PROVE  JoinersBounded'
  OBVIOUS
<1> USE DEF RefreshInv, RefreshShape, Backlog, Status
<1>1. ASSUME NEW c \in Callers,
             \/ \E e \in Eiins : Arrive(c, e)
             \/ ~caller[c].holds /\ GiveUp(c)
      PROVE  JoinersBounded'
  <2>1. requests' = requests /\ Joining' = Joining
    BY <1>1, CallEnds DEF Arrive, GiveUp, Joining, NoCall
  <2> QED BY <2>1 DEF JoinersBounded
<1>2. ASSUME NEW c \in Callers,
             \/ Pass(c) \/ Enqueue(c)
             \/ caller[c].holds /\ GiveUp(c)
      PROVE  JoinersBounded'
  BY <1>2, PassCounts, CallerLeaves DEF Enqueue
<1>3. ASSUME NEW w \in Workers, ListCandidates(w) \/ Die(w)
      PROVE  JoinersBounded'
  BY <1>3, OthersLeave DEF ListCandidates, Die
<1>4. ASSUME NEW w \in Workers, NEW row \in job[w].candidates,
             Claim(w, row)
      PROVE  JoinersBounded'
  <2> DEFINE e == row.eiin
  <2>1. Backlog' \subseteq Backlog /\ caller' = caller
    <3>1. CASE Claimable(e)
      <4>1. \A f \in Eiins \ {e} : requests'[f] = requests[f]
        BY <1>4, <3>1 DEF Claim
      <4> QED BY <1>4, <3>1, <4>1 DEF Claim, Claimable
    <3>2. CASE ~Claimable(e)
      BY <1>4, <3>2 DEF Claim
    <3> QED BY <3>1, <3>2
  <2> QED BY <2>1, OthersLeave
<1>5. ASSUME NEW w \in Workers, SaveAnswer(w)
      PROVE  JoinersBounded'
  <2> DEFINE e == job[w].eiin
  <2>1. /\ \A f \in Eiins \ {e} : requests'[f] = requests[f]
        /\ requests'[e] = requests[e] \/ Status(e) = "running"
        /\ e \in Eiins /\ caller' = caller
    BY <1>5 DEF SaveAnswer, TakesAnswer
  <2>2. Backlog' \subseteq Backlog
    BY <2>1
  <2> QED BY <2>1, <2>2, OthersLeave
<1>6. ASSUME NEW e \in Eiins, Lapse(e) \/ GrowOld(e) \/ Prune(e)
      PROVE  JoinersBounded'
  <2>1. /\ \A f \in Eiins \ {e} : requests'[f] = requests[f]
        /\ Status(e) = "running" \/ requests'[e].status # "running"
        /\ Status(e) = "queued" \/ requests'[e].status # "queued"
        /\ caller' = caller
    <3>1. requests[e] \in Request
      OBVIOUS
    <3>2. CASE Lapse(e)
      BY <3>1, <3>2 DEF Lapse, Request
    <3>3. CASE GrowOld(e)
      BY <3>1, <3>3 DEF GrowOld, Request
    <3>4. CASE Prune(e)
      BY <3>1, <3>4 DEF Prune, Request
    <3> QED BY <1>6, <3>2, <3>3, <3>4
  <2>2. Backlog' \subseteq Backlog
    BY <2>1
  <2> QED BY <2>1, <2>2, OthersLeave
<1>7. CASE UNCHANGED refreshVars
  BY <1>7, OthersLeave DEF refreshVars
<1> QED BY <1>1, <1>2, <1>3, <1>4, <1>5, <1>6, <1>7 DEF RefreshNext, Work

(* The backlog exceeds its limit by no more than the callers that counted   *)
(* it at the same time.                                                     *)
THEOREM BacklogBound == RefreshSpec => []BacklogBounded
<1>1. RefreshInit => JoinersBounded
  <2> SUFFICES ASSUME RefreshInit PROVE JoinersBounded
    OBVIOUS
  <2>1. Backlog = {} /\ Joining = {}
    BY CallEnds DEF RefreshInit, Backlog, Joining, Status
  <2>2. Cardinality(Callers) \in Nat /\ Cardinality({}) = 0
    BY BacklogFinite, FS_EmptySet
  <2> QED BY <2>1, <2>2, QueueAssumption DEF JoinersBounded
<1>2. JoinersBounded => BacklogBounded
  BY BacklogFinite, QueueAssumption DEF JoinersBounded, BacklogBounded
<1> QED
  BY QueueStarts, QueueSteps, JoinersSteps, <1>1, <1>2, PTL
     DEF RefreshSpec, QueueInv

---------------------------------------------------------------------------
(* The update run: InstituteUpdateRun. *)

BatchRows ==
    [stage : Stages, mode : {"all", "failed"}, tracked : BOOLEAN,
     cursor : 0..Last, left : SUBSET Institute, bad : SUBSET Institute,
     more : BOOLEAN]

(* A batch over all institutes has everything behind it tried, and leaves   *)
(* nothing out before the last one it is going to try.                      *)
Covers(s, tries) ==
    s.mode = "all" =>
        /\ \A e \in 1..s.cursor : tries[e] > 0
        /\ \A f \in s.left : f > s.cursor
        /\ \A f \in s.left, e \in Institute :
              e > s.cursor /\ e <= f => e \in s.left

(* A lease that is held stands for one batch, a lapsed one for one more.    *)
LeaseCounted ==
    Cardinality(Active) <= lapses + IF run.lease = "held" THEN 1 ELSE 0

RunInv ==
    /\ RunTypeOK
    /\ LeaseCounted
    /\ CompleteCovers
    /\ \A b \in Batches : Covers(batch[b], attempts)

LEMMA ActiveFinite ==
  IsFiniteSet(Active) /\ Cardinality(Active) \in Nat
<1>1. IsFiniteSet(Batches)
  BY RunAssumption, FS_AddElement DEF Batches
<1>2. Active \in SUBSET Batches
  BY DEF Active
<1> QED BY <1>1, <1>2, FS_Subset, FS_CardinalityType

LEMMA RunStarts == RunInit => RunInv
<1> SUFFICES ASSUME RunInit PROVE RunInv
  OBVIOUS
<1> USE RunAssumption DEF RunInit, NoBatch
<1>1. NoBatch \in BatchRows
  BY DEF BatchRows, Stages
<1>2. RunTypeOK
  <2>1. batch \in [Batches -> BatchRows]
    BY <1>1
  <2>2. run \in [status : {"running", "complete"}, cursor : 0..Last,
                retry : 0..Last, round : 0..Rounds,
                lease : {"none", "held", "lapsed"}]
    OBVIOUS
  <2> QED BY <2>1, <2>2 DEF RunTypeOK, BatchRows
<1>3. LeaseCounted
  <2>1. Active = {}
    BY DEF Active
  <2> QED BY <2>1, FS_EmptySet DEF LeaseCounted
<1>4. CompleteCovers /\ \A b \in Batches : Covers(batch[b], attempts)
  BY DEF CompleteCovers, Covers
<1> QED BY <1>2, <1>3, <1>4 DEF RunInv

(* The first institutes of S leave none of S out.                           *)
LEMMA FirstOnes ==
  ASSUME NEW S \in SUBSET Institute
  PROVE  /\ FirstOf(S) \subseteq S
         /\ \A f \in FirstOf(S), e \in S : e <= f => e \in FirstOf(S)
<1>1. FirstOf(S) \subseteq S
  BY DEF FirstOf
<1>2. ASSUME NEW f \in FirstOf(S), NEW e \in S, e <= f
      PROVE  e \in FirstOf(S)
  <2> DEFINE Below(x) == {g \in S : g < x}
  <2>1. IsFiniteSet(S)
    <3>1. IsFiniteSet(1..Last)
      BY RunAssumption, FS_Interval
    <3> QED BY <3>1, FS_Subset DEF Institute
  <2>2. Below(e) \in SUBSET Below(f) /\ Below(f) \in SUBSET S
    <3>1. S \subseteq Nat /\ f \in S
      BY <1>1, RunAssumption DEF Institute
    <3>2. \A g \in S : g < e => g < f
      BY <1>2, <3>1
    <3> QED BY <3>2
  <2>3. IsFiniteSet(Below(f))
    BY <2>1, <2>2, FS_Subset
  <2>4. /\ Cardinality(Below(e)) <= Cardinality(Below(f))
        /\ Cardinality(Below(e)) \in Nat /\ Cardinality(Below(f)) \in Nat
    BY <2>2, <2>3, FS_Subset, FS_CardinalityType
  <2>5. Cardinality(Below(f)) < BatchSize
    BY <1>2 DEF FirstOf
  <2>6. Cardinality(Below(e)) < BatchSize
    BY <2>4, <2>5, RunAssumption
  <2> QED BY <1>2, <2>6 DEF FirstOf
<1> QED BY <1>1, <1>2

(* A step of one batch.                                                     *)
LEMMA BatchChanges ==
  ASSUME RunInv, NEW b \in Batches, NEW r \in BatchRows,
         batch' = [batch EXCEPT ![b] = r],
         attempts' \in [Institute -> Nat],
         \A e \in Institute : attempts'[e] >= attempts[e],
         Covers(r, attempts')
  PROVE  /\ batch' \in [Batches -> BatchRows]
         /\ \A c \in Batches : Covers(batch[c], attempts)'
<1>1. batch \in [Batches -> BatchRows] /\ attempts \in [Institute -> Nat]
  BY DEF RunInv, RunTypeOK, BatchRows
<1>2. ASSUME NEW c \in Batches, c # b
      PROVE  Covers(batch'[c], attempts')
  <2>1. batch'[c] = batch[c] /\ Covers(batch[c], attempts)
    BY <1>1, <1>2 DEF RunInv
  <2>2. 1..batch[c].cursor \subseteq Institute
    BY <1>1, RunAssumption DEF BatchRows, Institute
  <2> QED BY <1>1, <2>1, <2>2 DEF Covers
<1> QED BY <1>1, <1>2

LEMMA BatchJoins ==
  ASSUME RunInv, NEW b \in Batches, NEW r \in BatchRows,
         batch' = [batch EXCEPT ![b] = r], r.stage # "idle",
         batch[b].stage = "idle", run.lease # "held",
         run'.lease = "held", lapses' = lapses
  PROVE  LeaseCounted'
<1>1. Active' = Active \cup {b} /\ b \notin Active
  BY DEF Active, RunInv, RunTypeOK
<1>2. Cardinality(Active') = Cardinality(Active) + 1
  BY <1>1, ActiveFinite, FS_AddElement
<1> QED BY <1>2, ActiveFinite DEF RunInv, RunTypeOK, LeaseCounted

LEMMA BatchWorks ==
  ASSUME RunInv, NEW b \in Batches, NEW r \in BatchRows,
         batch' = [batch EXCEPT ![b] = r], r.stage # "idle",
         batch[b].stage # "idle",
         run'.lease = run.lease, lapses' = lapses
  PROVE  LeaseCounted'
<1>1. Active' = Active
  BY DEF Active, RunInv, RunTypeOK
<1> QED BY <1>1 DEF RunInv, LeaseCounted

LEMMA BatchLeaves ==
  ASSUME RunInv, NEW b \in Batches, batch' = [batch EXCEPT ![b] = NoBatch],
         batch[b].stage # "idle", lapses' = lapses
  PROVE  LeaseCounted'
<1>1. Active' = Active \ {b} /\ b \in Active
  BY DEF Active, NoBatch, RunInv, RunTypeOK
<1>2. Cardinality(Active') = Cardinality(Active) - 1
  BY <1>1, ActiveFinite, FS_RemoveElement
<1> QED BY <1>2, ActiveFinite DEF RunInv, RunTypeOK, LeaseCounted

(* A batch that has acquired the lease begins.                              *)
LEMMA Begins ==
  ASSUME RunInv, NEW b \in Batches, Acquire(b), NEW r \in BatchRows,
         r.stage # "idle", batch' = [batch EXCEPT ![b] = r],
         Covers(r, attempts), failedLog' \subseteq Institute,
         logged' \in BOOLEAN
  PROVE  RunInv'
<1>1. /\ batch[b].stage = "idle" /\ run.lease # "held"
      /\ run' = [run EXCEPT !.lease = "held"]
      /\ UNCHANGED <<attempts, failed, lapses, calm>>
  BY DEF Acquire
<1>2. /\ run'.lease = "held" /\ run'.status = run.status
      /\ run'.cursor = run.cursor
      /\ run' \in [status : {"running", "complete"}, cursor : 0..Last,
                   retry : 0..Last, round : 0..Rounds,
                   lease : {"none", "held", "lapsed"}]
  BY <1>1 DEF RunInv, RunTypeOK
<1>3. LeaseCounted'
  BY <1>1, <1>2, BatchJoins
<1>4. \A e \in Institute : attempts[e] >= attempts[e]
  BY DEF RunInv, RunTypeOK
<1>5. /\ batch' \in [Batches -> BatchRows]
      /\ \A c \in Batches : Covers(batch[c], attempts)'
  BY <1>1, <1>4, BatchChanges DEF RunInv, RunTypeOK
<1>6. RunTypeOK'
  BY <1>1, <1>2, <1>5 DEF RunInv, RunTypeOK, BatchRows
<1>7. CompleteCovers'
  BY <1>1, <1>2 DEF RunInv, CompleteCovers, Tried
<1> QED BY <1>3, <1>5, <1>6, <1>7 DEF RunInv

LEMMA PickedRow ==
  ASSUME NEW mode \in {"all", "failed"}, NEW tracked \in BOOLEAN,
         NEW after \in 0..Last, NEW S \in SUBSET Institute
  PROVE  LET r == [stage |-> IF S = {} THEN "finishing" ELSE "picked",
                   mode |-> mode, tracked |-> tracked, cursor |-> after,
                   left |-> FirstOf(S), bad |-> {}, more |-> FALSE]
         IN  r \in BatchRows /\ r.stage # "idle"
<1>1. FirstOf(S) \in SUBSET Institute
  BY FirstOnes
<1> QED BY <1>1 DEF BatchRows, Stages

LEMMA StartAllKeeps ==
  ASSUME RunInv, NEW b \in Batches, StartAll(b)
  PROVE  RunInv'
<1> DEFINE S == IF run.status = "complete" THEN {}
                                           ELSE After(Institute, run.cursor)
           r == [stage |-> IF S = {} THEN "finishing" ELSE "picked",
                 mode |-> "all", tracked |-> FALSE, cursor |-> run.cursor,
                 left |-> FirstOf(S), bad |-> {}, more |-> FALSE]
<1>1. S \in SUBSET Institute /\ run.cursor \in 0..Last
  BY DEF After, RunInv, RunTypeOK
<1>2. r \in BatchRows /\ r.stage # "idle"
  BY <1>1, PickedRow
<1>3. Covers(r, attempts)
  <2>1. \A e \in 1..run.cursor : attempts[e] > 0
    BY DEF RunInv, CompleteCovers, Tried
  <2>2. /\ FirstOf(S) \subseteq S
        /\ \A f \in FirstOf(S), e \in S : e <= f => e \in FirstOf(S)
    BY <1>1, FirstOnes
  <2>3. /\ \A f \in FirstOf(S) : f > run.cursor
        /\ \A f \in FirstOf(S), e \in Institute : e > run.cursor => e \in S
    BY <2>2 DEF After
  <2> HIDE DEF S
  <2> QED BY <2>1, <2>2, <2>3 DEF Covers
<1>4. /\ Acquire(b) /\ batch' = [batch EXCEPT ![b] = r]
      /\ failedLog' \subseteq Institute /\ logged' \in BOOLEAN
  BY DEF StartAll, Pick, RunInv, RunTypeOK
<1> HIDE DEF r, S
<1> QED BY <1>2, <1>3, <1>4, Begins

LEMMA StartFailedKeeps ==
  ASSUME RunInv, NEW b \in Batches, NEW tracked \in BOOLEAN,
         NEW after \in 0..Last, StartFailed(b, tracked, after)
  PROVE  RunInv'
<1> DEFINE S == After(FromFile, after)
           r == [stage |-> IF S = {} THEN "finishing" ELSE "picked",
                 mode |-> "failed", tracked |-> tracked, cursor |-> after,
                 left |-> FirstOf(S), bad |-> {}, more |-> FALSE]
<1>1. S \in SUBSET Institute
  BY DEF After, FromFile, RunInv, RunTypeOK
<1>2. r \in BatchRows /\ r.stage # "idle"
  BY <1>1, PickedRow
<1>3. Covers(r, attempts)
  BY DEF Covers
<1>4. /\ Acquire(b) /\ batch' = [batch EXCEPT ![b] = r]
      /\ failedLog' \subseteq Institute /\ logged' \in BOOLEAN
  BY DEF StartFailed, Pick, RunInv, RunTypeOK
<1> HIDE DEF r, S
<1> QED BY <1>2, <1>3, <1>4, Begins

LEMMA StartRebuildKeeps ==
  ASSUME RunInv, NEW b \in Batches, StartRebuild(b)
  PROVE  RunInv'
<1> DEFINE r == [NoBatch EXCEPT !.stage = "rebuild"]
<1>1. r \in BatchRows /\ r.stage # "idle"
  <2>1. NoBatch \in BatchRows
    BY RunAssumption DEF NoBatch, BatchRows, Stages
  <2> QED BY <2>1 DEF BatchRows, Stages
<1>2. Covers(r, attempts)
  BY RunAssumption DEF Covers, NoBatch
<1>3. /\ Acquire(b) /\ batch' = [batch EXCEPT ![b] = r]
      /\ failedLog' \subseteq Institute /\ logged' \in BOOLEAN
  BY DEF StartRebuild, RunInv, RunTypeOK
<1> HIDE DEF r
<1> QED BY <1>1, <1>2, <1>3, Begins

(* A batch ends, whatever becomes of the lease.                             *)
LEMMA Ends ==
  ASSUME RunInv, NEW b \in Batches, batch[b].stage # "idle",
         batch' = [batch EXCEPT ![b] = NoBatch],
         run' = run \/ run' = [run EXCEPT !.lease = "none"],
         UNCHANGED <<attempts, failed, lapses>>,
         failedLog' \subseteq Institute, logged' \in BOOLEAN,
         calm' \in BOOLEAN
  PROVE  RunInv'
<1>1. /\ run'.status = run.status /\ run'.cursor = run.cursor
      /\ run' \in [status : {"running", "complete"}, cursor : 0..Last,
                   retry : 0..Last, round : 0..Rounds,
                   lease : {"none", "held", "lapsed"}]
  BY DEF RunInv, RunTypeOK
<1>2. LeaseCounted'
  BY BatchLeaves
<1>3. NoBatch \in BatchRows /\ Covers(NoBatch, attempts)
  BY RunAssumption DEF NoBatch, BatchRows, Stages, Covers
<1>4. \A e \in Institute : attempts[e] >= attempts[e]
  BY DEF RunInv, RunTypeOK
<1>5. /\ batch' \in [Batches -> BatchRows]
      /\ \A c \in Batches : Covers(batch[c], attempts)'
  BY <1>3, <1>4, BatchChanges DEF RunInv, RunTypeOK
<1>6. RunTypeOK'
  BY <1>1, <1>5 DEF RunInv, RunTypeOK, BatchRows
<1>7. CompleteCovers'
  BY <1>1 DEF RunInv, CompleteCovers, Tried
<1> QED BY <1>2, <1>5, <1>6, <1>7 DEF RunInv

LEMMA EndKeeps ==
  ASSUME RunInv, NEW b \in Batches,
         WriteLog(b) \/ Fail(b) \/ Rebuild(b) \/ DieInBatch(b)
  PROVE  RunInv'
<1>1. /\ batch[b].stage # "idle"
      /\ batch' = [batch EXCEPT ![b] = NoBatch]
      /\ run' = run \/ run' = [run EXCEPT !.lease = "none"]
      /\ UNCHANGED <<attempts, failed, lapses>>
  BY DEF WriteLog, Fail, Rebuild, DieInBatch, GiveUpLease
<1>2. batch[b].bad \subseteq Institute
  BY DEF RunInv, RunTypeOK
<1>3. failedLog' \subseteq Institute /\ logged' \in BOOLEAN
      /\ calm' \in BOOLEAN
  BY <1>2 DEF WriteLog, Fail, Rebuild, DieInBatch, RunInv, RunTypeOK
<1> QED BY <1>1, <1>3, Ends

(* A batch goes on, and the run with it.                                    *)
LEMMA GoesOn ==
  ASSUME RunInv, NEW b \in Batches, NEW r \in BatchRows,
         batch[b].stage # "idle", r.stage # "idle",
         batch' = [batch EXCEPT ![b] = r], Covers(r, attempts'),
         attempts' \in [Institute -> Nat],
         \A e \in Institute : attempts'[e] >= attempts[e],
         failed' \subseteq Institute,
         run' \in [status : {"running", "complete"}, cursor : 0..Last,
                  retry : 0..Last, round : 0..Rounds,
                  lease : {"none", "held", "lapsed"}],
         run'.lease = run.lease,
         UNCHANGED <<failedLog, logged, lapses, calm>>,
         CompleteCovers'
  PROVE  RunInv'
<1>1. LeaseCounted'
  BY BatchWorks
<1>2. /\ batch' \in [Batches -> BatchRows]
      /\ \A c \in Batches : Covers(batch[c], attempts)'
  BY BatchChanges
<1>3. RunTypeOK'
  BY <1>2 DEF RunInv, RunTypeOK, BatchRows
<1> QED BY <1>1, <1>2, <1>3 DEF RunInv

LEMMA AttemptKeeps ==
  ASSUME RunInv, NEW b \in Batches, NEW e \in Institute, NEW ok \in BOOLEAN,
         Attempt(b, e, ok)
  PROVE  RunInv'
<1> USE RunAssumption
<1> DEFINE s == batch[b]
           bad == IF ok THEN s.bad ELSE s.bad \cup {e}
           r == [s EXCEPT !.stage = "recorded", !.cursor = e,
                          !.left = s.left \ {e}, !.bad = bad]
<1>1. /\ s \in BatchRows /\ s.stage = "picked" /\ e \in s.left
      /\ \A f \in s.left : e <= f
      /\ Covers(s, attempts)
  BY DEF Attempt, RunInv, RunTypeOK, BatchRows
<1>2. bad \subseteq Institute
  BY <1>1 DEF BatchRows
<1>3. batch' = [batch EXCEPT ![b] = r]
  BY DEF Attempt
<1> HIDE DEF bad, s
<1>4. /\ r \in BatchRows /\ r.stage # "idle" /\ r.cursor = e
      /\ r.left = s.left \ {e} /\ r.mode = s.mode
  <2>1. e \in 0..Last /\ s.left \ {e} \subseteq Institute
    BY <1>1 DEF BatchRows, Institute
  <2>2. r \in BatchRows
    BY <1>1, <1>2, <2>1 DEF BatchRows, Stages
  <2> QED BY <1>1, <2>2 DEF BatchRows
<1>5. /\ attempts' = [attempts EXCEPT ![e] = @ + 1]
      /\ failed' \subseteq Institute
      /\ UNCHANGED <<run, failedLog, logged, lapses, calm>>
  BY DEF Attempt, RunInv, RunTypeOK
<1>6. /\ attempts' \in [Institute -> Nat] /\ attempts'[e] > 0
      /\ \A f \in Institute : attempts'[f] >= attempts[f]
  BY <1>5 DEF RunInv, RunTypeOK
<1>7. ASSUME s.mode = "all"
      PROVE  /\ \A f \in 1..e : attempts'[f] > 0
             /\ \A f \in s.left \ {e} : f > e
             /\ \A f \in s.left \ {e}, g \in Institute :
                   g > e /\ g <= f => g \in s.left \ {e}
  <2>1. s.cursor \in 0..Last /\ s.left \subseteq Institute
    BY <1>1 DEF BatchRows
  <2>2. ASSUME NEW f \in 1..e PROVE attempts'[f] > 0
    <3>1. f \in Institute
      BY DEF Institute
    <3>2. CASE f <= s.cursor
      <4>1. attempts[f] > 0
        BY <1>1, <1>7, <2>1, <3>1, <3>2 DEF Covers, Institute
      <4>2. /\ attempts[f] \in Nat /\ attempts'[f] \in Nat
            /\ attempts'[f] >= attempts[f]
        BY <1>6, <3>1 DEF RunInv, RunTypeOK
      <4> QED BY <4>1, <4>2
    <3>3. CASE f > s.cursor
      <4>1. f \in s.left
        BY <1>1, <1>7, <3>1, <3>3 DEF Covers
      <4>2. f = e
        BY <1>1, <4>1 DEF Institute
      <4> QED BY <1>6, <4>2
    <3> QED BY <2>1, <3>1, <3>2, <3>3 DEF Institute
  <2>3. ASSUME NEW f \in s.left \ {e}
        PROVE  f > e /\ e > s.cursor
    BY <1>1, <1>7, <2>1 DEF Covers, Institute
  <2>4. ASSUME NEW f \in s.left \ {e}, NEW g \in Institute, g > e, g <= f
        PROVE  g \in s.left \ {e}
    BY <1>1, <1>7, <2>1, <2>3, <2>4 DEF Covers, Institute
  <2> QED BY <2>2, <2>3, <2>4
<1>8. Covers(r, attempts')
  BY <1>4, <1>7 DEF Covers
<1>9. CompleteCovers'
  BY <1>5, <1>6
     DEF CompleteCovers, Tried, Institute, RunInv, RunTypeOK
<1> HIDE DEF r
<1>10. batch[b].stage # "idle"
  BY <1>1 DEF s
<1>11. /\ run' \in [status : {"running", "complete"}, cursor : 0..Last,
                    retry : 0..Last, round : 0..Rounds,
                    lease : {"none", "held", "lapsed"}]
       /\ run'.lease = run.lease
  BY <1>5 DEF RunInv, RunTypeOK
<1> QED
  BY <1>3, <1>4, <1>5, <1>6, <1>8, <1>9, <1>10, <1>11, GoesOn

LEMMA AdvanceKeeps ==
  ASSUME RunInv, NEW b \in Batches, Advance(b)
  PROVE  RunInv'
<1> USE RunAssumption
<1> DEFINE s == batch[b]
           stage == IF s.left = {} THEN "finishing" ELSE "picked"
           r == [s EXCEPT !.stage = stage]
<1>1. /\ s \in BatchRows /\ s.stage = "recorded" /\ Covers(s, attempts)
      /\ batch' = [batch EXCEPT ![b] = r]
      /\ UNCHANGED <<attempts, failed, failedLog, logged, lapses, calm>>
      /\ run' = IF s.mode = "all" THEN [run EXCEPT !.cursor = s.cursor]
                                  ELSE run
  BY DEF Advance, RunInv, RunTypeOK, BatchRows
<1>2. stage \in {"finishing", "picked"}
  OBVIOUS
<1> HIDE DEF s, stage
<1>3. /\ r \in BatchRows /\ r.stage # "idle" /\ r.cursor = s.cursor
      /\ r.left = s.left /\ r.mode = s.mode
  BY <1>1, <1>2 DEF BatchRows, Stages
<1>4. Covers(r, attempts')
  BY <1>1, <1>3 DEF Covers
<1>5. /\ run' \in [status : {"running", "complete"}, cursor : 0..Last,
                   retry : 0..Last, round : 0..Rounds,
                   lease : {"none", "held", "lapsed"}]
      /\ run'.lease = run.lease /\ run'.status = run.status
      /\ run'.cursor = IF s.mode = "all" THEN s.cursor ELSE run.cursor
  BY <1>1 DEF RunInv, RunTypeOK, BatchRows
<1>6. CompleteCovers'
  BY <1>1, <1>5 DEF RunInv, CompleteCovers, Tried, Covers
<1>7. /\ attempts' \in [Institute -> Nat] /\ failed' \subseteq Institute
      /\ \A e \in Institute : attempts'[e] >= attempts[e]
  BY <1>1 DEF RunInv, RunTypeOK
<1>8. batch[b].stage # "idle"
  BY <1>1 DEF s
<1> HIDE DEF r
<1> QED BY <1>1, <1>3, <1>4, <1>5, <1>6, <1>7, <1>8, GoesOn

LEMMA FinishKeeps ==
  ASSUME RunInv, NEW b \in Batches, Finish(b)
  PROVE  RunInv'
<1> USE RunAssumption
<1> DEFINE s == batch[b]
<1>1. /\ s \in BatchRows /\ s.stage = "finishing" /\ Covers(s, attempts)
      /\ UNCHANGED <<attempts, failed, failedLog, logged, lapses, calm>>
      /\ FinishAll(b) \/ FinishFailed(b)
  BY DEF Finish, RunInv, RunTypeOK, BatchRows
<1>2. PICK more \in BOOLEAN :
        batch' = [batch EXCEPT ![b].stage = "logging", ![b].more = more]
  <2> DEFINE rest == After(Institute, s.cursor) # {}
             failing == After(FromFile, s.cursor) # {}
  <2>1. rest \in BOOLEAN /\ failing \in BOOLEAN
    BY Zenon
  <2>2. \/ batch' = [batch EXCEPT ![b].stage = "logging", ![b].more = rest]
        \/ batch' = [batch EXCEPT ![b].stage = "logging",
                                  ![b].more = failing]
    BY <1>1 DEF FinishAll, FinishFailed
  <2> HIDE DEF rest, failing
  <2> QED BY <2>1, <2>2
<1> DEFINE r == [s EXCEPT !.stage = "logging", !.more = more]
<1>3. batch' = [batch EXCEPT ![b] = r]
  BY <1>2
<1>4. /\ run' \in [status : {"running", "complete"}, cursor : 0..Last,
                   retry : 0..Last, round : 0..Rounds,
                   lease : {"none", "held", "lapsed"}]
      /\ run'.lease = run.lease /\ run'.cursor = run.cursor
      /\ \/ run'.status = run.status
         \/ s.mode = "all" /\ After(Institute, s.cursor) = {}
  <2>1. CASE FinishAll(b)
    BY <1>1, <2>1 DEF FinishAll, RunInv, RunTypeOK
  <2>2. CASE FinishFailed(b)
    <3>1. s.cursor \in 0..Last
      BY <1>1 DEF BatchRows
    <3>2. \/ run' = run
          \/ run' = [run EXCEPT !.retry = s.cursor]
          \/ run' = [run EXCEPT !.retry = 0,
                                !.round = IF @ < Rounds THEN @ + 1 ELSE @]
      BY <2>2 DEF FinishFailed
    <3> HIDE DEF s
    <3>3. run \in [status : {"running", "complete"}, cursor : 0..Last,
                   retry : 0..Last, round : 0..Rounds,
                   lease : {"none", "held", "lapsed"}]
      BY DEF RunInv, RunTypeOK
    <3> DEFINE next == IF run.round < Rounds THEN run.round + 1
                                            ELSE run.round
    <3>4. next \in 0..Rounds /\ 0 \in 0..Last
      BY <3>3
    <3>5. CASE run' = [run EXCEPT !.retry = 0, !.round = next]
      <4> HIDE DEF next
      <4> QED BY <3>3, <3>4, <3>5
    <3>6. CASE run' = run \/ run' = [run EXCEPT !.retry = s.cursor]
      BY <3>1, <3>3, <3>6
    <3> QED BY <3>2, <3>5, <3>6
  <2> QED BY <1>1, <2>1, <2>2
<1> HIDE DEF s
<1>5. /\ r \in BatchRows /\ r.stage # "idle" /\ r.cursor = s.cursor
      /\ r.left = s.left /\ r.mode = s.mode
  BY <1>1 DEF BatchRows, Stages
<1>6. Covers(r, attempts')
  BY <1>1, <1>5 DEF Covers
<1>7. CompleteCovers'
  <2>1. CASE run'.status = run.status
    BY <1>1, <1>4, <2>1 DEF RunInv, CompleteCovers, Tried
  <2>2. CASE s.mode = "all" /\ After(Institute, s.cursor) = {}
    <3>1. s.cursor \in 0..Last
      BY <1>1 DEF BatchRows
    <3>2. \A e \in Institute : e \in 1..s.cursor
      BY <2>2, <3>1 DEF After, Institute
    <3> QED
      BY <1>1, <1>4, <2>2, <3>2 DEF RunInv, CompleteCovers, Tried, Covers
  <2> QED BY <1>4, <2>1, <2>2
<1>8. /\ attempts' \in [Institute -> Nat] /\ failed' \subseteq Institute
      /\ \A e \in Institute : attempts'[e] >= attempts[e]
  BY <1>1 DEF RunInv, RunTypeOK
<1>9. batch[b].stage # "idle"
  BY <1>1 DEF s
<1> HIDE DEF r
<1> QED BY <1>1, <1>3, <1>4, <1>5, <1>6, <1>7, <1>8, <1>9, GoesOn

(* The rounds are closed without the lease, or the lease runs out.          *)
LEMMA BesideKeeps ==
  ASSUME RunInv, CloseRounds \/ LapseOfRun
  PROVE  RunInv'
<1>1. CASE CloseRounds
  <2>1. /\ run' = [run EXCEPT !.round = Rounds, !.retry = 0]
        /\ UNCHANGED <<attempts, failed, batch, lapses>>
        /\ failedLog' \subseteq Institute /\ logged' \in BOOLEAN
    BY <1>1 DEF CloseRounds, RunInv, RunTypeOK
  <2>2. calm' \in BOOLEAN
    <3>1. (calm /\ Active = {}) \in BOOLEAN
      BY Zenon
    <3> QED BY <1>1, <3>1 DEF CloseRounds
  <2>3. /\ run' \in [status : {"running", "complete"}, cursor : 0..Last,
                     retry : 0..Last, round : 0..Rounds,
                     lease : {"none", "held", "lapsed"}]
        /\ run'.lease = run.lease /\ run'.status = run.status
        /\ run'.cursor = run.cursor
    <3>1. Rounds \in 0..Rounds /\ 0 \in 0..Last
      BY RunAssumption
    <3> QED BY <2>1, <3>1 DEF RunInv, RunTypeOK
  <2>4. Active' = Active
    BY <2>1 DEF Active
  <2>5. RunTypeOK'
    BY <2>1, <2>2, <2>3 DEF RunInv, RunTypeOK
  <2> QED
    BY <2>1, <2>3, <2>4, <2>5
       DEF RunInv, LeaseCounted, CompleteCovers, Tried, Covers
<1>2. CASE LapseOfRun
  <2>1. /\ run.lease = "held" /\ run' = [run EXCEPT !.lease = "lapsed"]
        /\ lapses' = lapses + 1 /\ calm' = FALSE
        /\ UNCHANGED <<attempts, failed, failedLog, logged, batch>>
    BY <1>2 DEF LapseOfRun
  <2>2. /\ run' \in [status : {"running", "complete"}, cursor : 0..Last,
                     retry : 0..Last, round : 0..Rounds,
                     lease : {"none", "held", "lapsed"}]
        /\ run'.lease = "lapsed" /\ run'.status = run.status
        /\ run'.cursor = run.cursor
    BY <2>1 DEF RunInv, RunTypeOK
  <2>3. Active' = Active
    BY <2>1 DEF Active
  <2>4. LeaseCounted'
    BY <2>1, <2>2, <2>3, ActiveFinite DEF RunInv, RunTypeOK, LeaseCounted
  <2>5. RunTypeOK'
    <3>1. lapses' \in Nat
      BY <2>1 DEF RunInv, RunTypeOK
    <3>2. calm' \in BOOLEAN
      BY <2>1
    <3> QED BY <2>1, <2>2, <3>1, <3>2, Zenon DEF RunInv, RunTypeOK
  <2> QED
    BY <2>1, <2>2, <2>4, <2>5 DEF RunInv, CompleteCovers, Tried, Covers
<1> QED BY <1>1, <1>2

LEMMA RunSteps == RunInv /\ [RunNext]_runVars => RunInv'
<1> SUFFICES ASSUME RunInv, [RunNext]_runVars
             PROVE  RunInv'
  OBVIOUS
<1>1. ASSUME NEW b \in Batches, StartAll(b) \/ StartRebuild(b)
      PROVE  RunInv'
  BY <1>1, StartAllKeeps, StartRebuildKeeps
<1>2. CASE WorkerPass
  BY <1>1, <1>2 DEF WorkerPass, Batches
<1>3. CASE RetryRound
  BY <1>3, StartFailedKeeps DEF RetryRound, Batches, RunInv, RunTypeOK
<1>4. ASSUME NEW b \in Staff, NEW after \in 0..Last, StaffRetry(b, after)
      PROVE  RunInv'
  BY <1>4, StartFailedKeeps DEF StaffRetry, Batches
<1>5. ASSUME NEW b \in Batches, BatchStep(b)
      PROVE  RunInv'
  BY <1>5, AttemptKeeps, AdvanceKeeps, FinishKeeps, EndKeeps DEF BatchStep
<1>6. CASE CloseRounds \/ LapseOfRun
  BY <1>6, BesideKeeps
<1>7. CASE UNCHANGED runVars
  BY <1>7 DEF runVars, RunInv, RunTypeOK, LeaseCounted, Active,
              CompleteCovers, Tried, Covers
<1>8. Staff \subseteq Batches
  BY DEF Batches
<1> QED
  BY <1>1, <1>2, <1>3, <1>4, <1>5, <1>6, <1>7, <1>8 DEF RunNext

(* No more batches work at a time than leases have run out, plus one.       *)
THEOREM BatchesBound == RunSpec => []BatchesBounded
<1>1. RunInv => BatchesBounded
  BY ActiveFinite DEF RunInv, RunTypeOK, LeaseCounted, BatchesBounded
<1> QED BY RunStarts, RunSteps, <1>1, PTL DEF RunSpec

---------------------------------------------------------------------------
(* What holds besides as long as the run is calm.                           *)

OneBatch ==
    /\ \A b, c \in Active : b = c
    /\ Active # {} => run.lease = "held"

(* What fails is in the file, or will be when its batch ends.               *)
FailedLogged ==
    logged => \A e \in failed \ failedLog :
                 \E b \in Active : /\ batch[b].mode = "all"
                                   /\ e \in batch[b].bad

(* What fails was tried in the pass and in every round so far; in the       *)
(* present round, too, up to the saved cursor.                              *)
RoundsCounted ==
    \A e \in failed :
        /\ attempts[e] >= run.round + 1
        /\ e <= run.retry => attempts[e] >= run.round + 2

PassFirst == run.status = "running" => run.round = 0 /\ run.retry = 0

(* A batch that is going to try more.                                       *)
BatchGoesOn(b) ==
    LET s == batch[b] IN
    s.stage \in {"picked", "recorded", "finishing"} =>
        /\ s.mode = "all" => s.left = {} \/ run.status = "running"
        /\ s.mode = "failed" => logged /\ s.left \subseteq failed
        /\ s.tracked =>
              /\ s.mode = "failed" /\ RoundsOpen
              /\ \A f \in s.left : f > s.cursor
              /\ \A e \in failed :
                    /\ e <= s.cursor => attempts[e] >= run.round + 2
                    /\ \A f \in s.left :
                          e > s.cursor /\ e <= f => e \in s.left

CalmParts ==
    /\ OneBatch
    /\ FailedLogged
    /\ RoundsCounted
    /\ PassFirst
    /\ \A b \in Batches : BatchGoesOn(b)

CalmInv == calm => CalmParts

LEMMA CalmStarts == RunInit => CalmInv
<1> SUFFICES ASSUME RunInit PROVE CalmParts
  BY DEF CalmInv
<1>1. Active = {}
  BY DEF RunInit, Active, NoBatch
<1> QED
  BY <1>1 DEF RunInit, NoBatch, CalmParts, OneBatch, FailedLogged,
              RoundsCounted, PassFirst, BatchGoesOn

(* Between batches, and in a batch over the failed ones, the file names     *)
(* everything that fails.                                                   *)
LEMMA FileTrue ==
  ASSUME RunInv, CalmParts, \A b \in Active : batch[b].mode = "failed"
  PROVE  /\ FromFile = failed
         /\ logged => failed \subseteq failedLog
<1>1. "all" # "failed"
  OBVIOUS
<1>2. logged => failed \subseteq failedLog
  BY <1>1 DEF CalmParts, FailedLogged
<1> QED BY <1>2 DEF FromFile

(* Who acquires the lease is alone.                                         *)
LEMMA AcquireAlone ==
  ASSUME RunInv, CalmParts, NEW b \in Batches, Acquire(b),
         NEW r \in BatchRows, r.stage # "idle",
         batch' = [batch EXCEPT ![b] = r]
  PROVE  /\ Active = {} /\ Active' = {b} /\ batch'[b] = r
         /\ \A c \in Batches \ {b} : batch'[c].stage = "idle"
         /\ run'.lease = "held" /\ run'.status = run.status
         /\ run'.round = run.round /\ run'.retry = run.retry
         /\ UNCHANGED <<attempts, failed>>
<1>1. Active = {} /\ run' = [run EXCEPT !.lease = "held"]
      /\ UNCHANGED <<attempts, failed>>
  BY DEF Acquire, CalmParts, OneBatch
<1>2. /\ batch'[b] = r
      /\ \A c \in Batches \ {b} : batch'[c] = batch[c]
  BY DEF RunInv, RunTypeOK
<1>3. \A c \in Batches : batch[c].stage = "idle"
  BY <1>1 DEF Active
<1>4. Active' = {b}
  BY <1>2, <1>3 DEF Active
<1> QED BY <1>1, <1>2, <1>3, <1>4 DEF RunInv, RunTypeOK

LEMMA CalmStartAll ==
  ASSUME RunInv, CalmParts, NEW b \in Batches, StartAll(b)
  PROVE  CalmParts'
<1> DEFINE S == IF run.status = "complete" THEN {}
                                           ELSE After(Institute, run.cursor)
           r == [stage |-> IF S = {} THEN "finishing" ELSE "picked",
                 mode |-> "all", tracked |-> FALSE, cursor |-> run.cursor,
                 left |-> FirstOf(S), bad |-> {}, more |-> FALSE]
<1>1. S \in SUBSET Institute /\ run.cursor \in 0..Last
  BY DEF After, RunInv, RunTypeOK
<1>2. r \in BatchRows /\ r.stage # "idle"
  BY <1>1, PickedRow
<1>3. /\ Acquire(b) /\ batch' = [batch EXCEPT ![b] = r]
      /\ UNCHANGED <<failedLog, logged>>
  BY DEF StartAll, Pick
<1>4. /\ r.mode = "all" /\ ~r.tracked
      /\ r.left = {} \/ run.status = "running"
  BY <1>1, FirstOnes DEF RunInv, RunTypeOK
<1> HIDE DEF r, S
<1>5. /\ Active = {} /\ Active' = {b} /\ batch'[b] = r
      /\ \A c \in Batches \ {b} : batch'[c].stage = "idle"
      /\ run'.lease = "held" /\ run'.status = run.status
      /\ run'.round = run.round /\ run'.retry = run.retry
      /\ UNCHANGED <<attempts, failed>>
  BY <1>2, <1>3, AcquireAlone
<1>6. OneBatch' /\ RoundsCounted' /\ PassFirst'
  BY <1>5 DEF CalmParts, OneBatch, RoundsCounted, PassFirst
<1>7. FailedLogged'
  BY <1>3, <1>5 DEF CalmParts, FailedLogged
<1>8. BatchGoesOn(b)'
  BY <1>4, <1>5 DEF BatchGoesOn
<1>9. \A c \in Batches \ {b} : BatchGoesOn(c)'
  BY <1>5 DEF BatchGoesOn
<1> QED BY <1>6, <1>7, <1>8, <1>9 DEF CalmParts

LEMMA CalmStartFailed ==
  ASSUME RunInv, CalmParts, NEW b \in Batches, NEW tracked \in BOOLEAN,
         NEW after \in 0..Last, StartFailed(b, tracked, after),
         tracked => RoundsOpen /\ after = run.retry
  PROVE  CalmParts'
<1> DEFINE S == After(FromFile, after)
           r == [stage |-> IF S = {} THEN "finishing" ELSE "picked",
                 mode |-> "failed", tracked |-> tracked, cursor |-> after,
                 left |-> FirstOf(S), bad |-> {}, more |-> FALSE]
<1>1. S \in SUBSET Institute
  BY DEF After, FromFile, RunInv, RunTypeOK
<1>2. r \in BatchRows /\ r.stage # "idle"
  BY <1>1, PickedRow
<1>3. /\ Acquire(b) /\ batch' = [batch EXCEPT ![b] = r]
      /\ failedLog' = IF logged THEN failedLog ELSE failed
      /\ logged' = TRUE
  BY DEF StartFailed, Pick
<1>4. /\ r.mode = "failed" /\ r.tracked = tracked /\ r.cursor = after
      /\ r.left = FirstOf(S)
  OBVIOUS
<1> HIDE DEF r
<1>5. /\ Active = {} /\ Active' = {b} /\ batch'[b] = r
      /\ \A c \in Batches \ {b} : batch'[c].stage = "idle"
      /\ run'.lease = "held" /\ run'.status = run.status
      /\ run'.round = run.round /\ run'.retry = run.retry
      /\ UNCHANGED <<attempts, failed>>
  BY <1>2, <1>3, AcquireAlone
<1>6. FromFile = failed /\ failed \subseteq failedLog'
  BY <1>3, <1>5, FileTrue
<1>7. OneBatch' /\ RoundsCounted' /\ PassFirst'
  BY <1>5 DEF CalmParts, OneBatch, RoundsCounted, PassFirst
<1>8. FailedLogged'
  BY <1>5, <1>6 DEF FailedLogged
<1>9. /\ FirstOf(S) \subseteq failed
      /\ \A f \in FirstOf(S) : f > after
      /\ \A f \in FirstOf(S), e \in failed :
            e > after /\ e <= f => e \in FirstOf(S)
  <2>1. S = {e \in failed : e > after}
    BY <1>6 DEF After
  <2>2. /\ FirstOf(S) \subseteq S
        /\ \A f \in FirstOf(S), e \in S : e <= f => e \in FirstOf(S)
    BY <1>1, FirstOnes
  <2> HIDE DEF S
  <2> QED BY <2>1, <2>2
<1> HIDE DEF S
<1>10. BatchGoesOn(b)'
  <2>1. tracked => /\ RoundsOpen'
                   /\ \A e \in failed : e <= after =>
                         attempts[e] >= run.round + 2
    BY <1>5 DEF RoundsOpen, CalmParts, RoundsCounted
  <2> QED BY <1>3, <1>4, <1>5, <1>9, <2>1 DEF BatchGoesOn
<1>11. \A c \in Batches \ {b} : BatchGoesOn(c)'
  BY <1>5 DEF BatchGoesOn
<1> QED BY <1>7, <1>8, <1>10, <1>11 DEF CalmParts

LEMMA CalmStartRebuild ==
  ASSUME RunInv, CalmParts, NEW b \in Batches, StartRebuild(b)
  PROVE  CalmParts'
<1> DEFINE r == [NoBatch EXCEPT !.stage = "rebuild"]
<1>1. r \in BatchRows /\ r.stage = "rebuild"
  <2>1. NoBatch \in BatchRows
    BY RunAssumption DEF NoBatch, BatchRows, Stages
  <2> QED BY <2>1 DEF BatchRows, Stages
<1>2. /\ Acquire(b) /\ batch' = [batch EXCEPT ![b] = r]
      /\ UNCHANGED <<failedLog, logged>>
  BY DEF StartRebuild
<1> HIDE DEF r
<1>3. /\ Active = {} /\ Active' = {b} /\ batch'[b] = r
      /\ \A c \in Batches \ {b} : batch'[c].stage = "idle"
      /\ run'.lease = "held" /\ run'.status = run.status
      /\ run'.round = run.round /\ run'.retry = run.retry
      /\ UNCHANGED <<attempts, failed>>
  BY <1>1, <1>2, AcquireAlone
<1>4. OneBatch' /\ RoundsCounted' /\ PassFirst' /\ FailedLogged'
  BY <1>2, <1>3
     DEF CalmParts, OneBatch, RoundsCounted, PassFirst, FailedLogged
<1>5. \A c \in Batches : BatchGoesOn(c)'
  BY <1>1, <1>3 DEF BatchGoesOn
<1> QED BY <1>4, <1>5 DEF CalmParts

(* The batch at work is alone and stays so.                                 *)
LEMMA CalmAlone ==
  ASSUME RunInv, CalmParts, NEW b \in Batches, batch[b].stage # "idle",
         NEW r, batch' = [batch EXCEPT ![b] = r]
  PROVE  /\ Active = {b} /\ batch'[b] = r
         /\ \A c \in Batches \ {b} : batch'[c].stage = "idle"
         /\ Active' \subseteq {b}
         /\ run.lease = "held"
<1>1. Active = {b} /\ run.lease = "held"
  BY DEF CalmParts, OneBatch, Active
<1>2. /\ batch'[b] = r
      /\ \A c \in Batches \ {b} : batch'[c] = batch[c]
  BY DEF RunInv, RunTypeOK
<1>3. \A c \in Batches \ {b} : batch'[c].stage = "idle"
  BY <1>1, <1>2 DEF Active
<1> QED BY <1>1, <1>2, <1>3 DEF Active

LEMMA CalmAttempt ==
  ASSUME RunInv, CalmParts, NEW b \in Batches, NEW e \in Institute,
         NEW ok \in BOOLEAN, Attempt(b, e, ok)
  PROVE  CalmParts'
<1> DEFINE s == batch[b]
           bad == IF ok THEN s.bad ELSE s.bad \cup {e}
           r == [s EXCEPT !.stage = "recorded", !.cursor = e,
                          !.left = s.left \ {e}, !.bad = bad]
<1>1. /\ s \in BatchRows /\ s.stage = "picked" /\ e \in s.left
      /\ \A f \in s.left : e <= f
      /\ attempts' = [attempts EXCEPT ![e] = attempts[e] + 1]
      /\ failed' = IF ok THEN failed \ {e} ELSE failed \cup {e}
      /\ batch' = [batch EXCEPT ![b] = r]
      /\ UNCHANGED <<run, failedLog, logged>>
  BY DEF Attempt, RunInv, RunTypeOK, BatchRows
<1>2. /\ r.stage = "recorded" /\ r.cursor = e /\ r.left = s.left \ {e}
      /\ r.bad = bad /\ r.mode = s.mode /\ r.tracked = s.tracked
  BY <1>1 DEF BatchRows
<1>3. BatchGoesOn(b)
  BY DEF CalmParts
<1>4. /\ s.mode = "all" => run.status = "running"
      /\ s.mode = "failed" => logged /\ s.left \subseteq failed
      /\ s.tracked =>
            /\ s.mode = "failed" /\ RoundsOpen
            /\ \A f \in s.left : f > s.cursor
            /\ \A x \in failed :
                  /\ x <= s.cursor => attempts[x] >= run.round + 2
                  /\ \A f \in s.left :
                        x > s.cursor /\ x <= f => x \in s.left
  BY <1>1, <1>3 DEF BatchGoesOn
<1> HIDE DEF s, r
<1>5. /\ Active = {b} /\ batch'[b] = r
      /\ \A c \in Batches \ {b} : batch'[c].stage = "idle"
      /\ Active' \subseteq {b} /\ run.lease = "held"
  BY <1>1, CalmAlone DEF s
<1>6. Active' = {b}
  BY <1>2, <1>5 DEF Active
<1>7. s.mode \in {"all", "failed"} /\ s.cursor \in Nat /\ run.round \in Nat
      /\ run.retry \in Nat /\ attempts \in [Institute -> Nat]
      /\ failed \subseteq Institute /\ s.left \subseteq Institute
  BY <1>1, RunAssumption DEF RunInv, RunTypeOK, BatchRows
<1>8. /\ \A x \in Institute : attempts'[x] >= attempts[x]
      /\ attempts'[e] = attempts[e] + 1
      /\ \A x \in Institute : attempts'[x] \in Nat
  BY <1>1, <1>7
<1>9. s.mode = "failed" => failed' \subseteq failed
  BY <1>1, <1>4
<1>10. OneBatch' /\ PassFirst'
  BY <1>1, <1>5, <1>6 DEF CalmParts, OneBatch, PassFirst
<1>11. FailedLogged'
  <2> SUFFICES ASSUME logged, NEW x \in failed', x \notin failedLog
               PROVE  s.mode = "all" /\ x \in r.bad
    BY <1>1, <1>2, <1>5, <1>6 DEF FailedLogged
  <2>1. s.mode = "all"
    <3>1. SUFFICES ASSUME s.mode = "failed" PROVE FALSE
      BY <1>7
    <3>2. failed \subseteq failedLog
      BY <1>5, <3>1, FileTrue DEF s
    <3> QED BY <1>9, <3>1, <3>2
  <2>2. x \in failed => x \in s.bad
    BY <1>5 DEF CalmParts, FailedLogged, s
  <2> QED BY <1>1, <1>2, <2>1, <2>2
<1>12. RoundsCounted'
  <2> SUFFICES ASSUME NEW x \in failed'
               PROVE  /\ attempts'[x] >= run.round + 1
                      /\ x <= run.retry => attempts'[x] >= run.round + 2
    BY <1>1 DEF RoundsCounted
  <2>1. x \in Institute
    BY <1>1, <1>7
  <2>2. CASE s.mode = "failed"
    BY <1>7, <1>8, <1>9, <2>1, <2>2 DEF CalmParts, RoundsCounted
  <2>3. CASE s.mode = "all"
    <3>1. run.round = 0 /\ run.retry = 0
      BY <1>4, <2>3 DEF CalmParts, PassFirst
    <3>2. attempts'[x] >= 1
      <4>1. CASE x = e
        BY <1>7, <1>8, <4>1
      <4>2. CASE x # e
        <5>1. x \in failed
          BY <1>1, <4>2
        <5> QED
          BY <1>7, <1>8, <2>1, <3>1, <5>1 DEF CalmParts, RoundsCounted
      <4> QED BY <4>1, <4>2
    <3>3. ~(x <= 0)
      BY <2>1, RunAssumption DEF Institute
    <3> QED BY <3>1, <3>2, <3>3
  <2> QED BY <1>7, <2>2, <2>3
<1>13. BatchGoesOn(b)'
  <2>1. r.mode = "all" => run.status = "running"
    BY <1>2, <1>4
  <2>2. r.mode = "failed" => logged /\ r.left \subseteq failed'
    BY <1>1, <1>2, <1>4
  <2>3. ASSUME s.tracked
        PROVE  /\ \A f \in r.left : f > e
               /\ \A x \in failed' :
                     /\ x <= e => attempts'[x] >= run.round + 2
                     /\ \A f \in r.left : x > e /\ x <= f => x \in r.left
    <3>1. failed' \subseteq failed
      BY <1>4, <1>9, <2>3
    <3>2. e \in failed /\ e > s.cursor /\ e \in Nat
      BY <1>1, <1>4, <2>3, RunAssumption DEF Institute
    <3>3. \A x \in Institute : x \in Nat
      BY RunAssumption DEF Institute
    <3>4. ASSUME NEW f \in r.left PROVE f > e
      <4>1. f \in s.left /\ f # e
        BY <1>2, <3>4
      <4>2. f \in Nat /\ e <= f
        BY <1>1, <1>7, <3>3, <4>1
      <4> QED BY <3>2, <4>1, <4>2
    <3>5. ASSUME NEW x \in failed', x <= e
          PROVE  attempts'[x] >= run.round + 2
      <4>1. x \in failed /\ x \in Institute /\ x \in Nat
        BY <1>7, <3>1, <3>3, <3>5
      <4>2. attempts[x] >= run.round + 1
        BY <4>1 DEF CalmParts, RoundsCounted
      <4>3. CASE x = e
        BY <1>7, <1>8, <4>1, <4>2, <4>3
      <4>4. CASE x # e
        <5>1. x \notin s.left
          BY <1>1, <3>2, <3>5, <4>1, <4>4
        <5>2. x <= s.cursor
          BY <1>1, <1>4, <1>7, <2>3, <3>5, <4>1, <5>1
        <5>3. attempts[x] >= run.round + 2
          BY <1>4, <2>3, <4>1, <5>2
        <5> QED BY <1>7, <1>8, <4>1, <5>3
      <4> QED BY <4>3, <4>4
    <3>6. ASSUME NEW x \in failed', NEW f \in r.left, x > e, x <= f
          PROVE  x \in r.left
      <4>0. x \in failed /\ x \in Nat /\ e \in Nat /\ s.cursor \in Nat
        BY <1>7, <3>1, <3>2, <3>3
      <4>1. x \in failed /\ x > s.cursor /\ x # e
        BY <3>2, <3>6, <4>0
      <4>2. x \in s.left
        BY <1>2, <1>4, <2>3, <3>6, <4>1
      <4> QED BY <1>2, <4>1, <4>2
    <3> QED BY <3>4, <3>5, <3>6
  <2>4. s.tracked => s.mode = "failed" /\ RoundsOpen'
    BY <1>1, <1>4 DEF RoundsOpen
  <2> QED BY <1>1, <1>2, <1>5, <2>1, <2>2, <2>3, <2>4 DEF BatchGoesOn
<1>14. \A c \in Batches \ {b} : BatchGoesOn(c)'
  BY <1>5 DEF BatchGoesOn
<1> QED BY <1>10, <1>11, <1>12, <1>13, <1>14 DEF CalmParts

LEMMA CalmAdvance ==
  ASSUME RunInv, CalmParts, NEW b \in Batches, Advance(b)
  PROVE  CalmParts'
<1> DEFINE s == batch[b]
           next == IF s.left = {} THEN "finishing" ELSE "picked"
           r == [s EXCEPT !.stage = next]
<1>1. /\ s \in BatchRows /\ s.stage = "recorded"
      /\ batch' = [batch EXCEPT ![b] = r]
      /\ \/ run' = [run EXCEPT !.cursor = s.cursor]
         \/ run' = run
      /\ UNCHANGED <<attempts, failed, failedLog, logged>>
  BY DEF Advance, RunInv, RunTypeOK, BatchRows
<1>2. next \in {"finishing", "picked"}
  OBVIOUS
<1>3. /\ run'.lease = run.lease /\ run'.status = run.status
      /\ run'.round = run.round /\ run'.retry = run.retry
  BY <1>1 DEF RunInv, RunTypeOK
<1> HIDE DEF next
<1>4. /\ r.stage = next /\ r.cursor = s.cursor /\ r.left = s.left
      /\ r.bad = s.bad /\ r.mode = s.mode /\ r.tracked = s.tracked
  BY <1>1 DEF BatchRows
<1> HIDE DEF r
<1>5. /\ Active = {b} /\ batch'[b] = r
      /\ \A c \in Batches \ {b} : batch'[c].stage = "idle"
      /\ Active' \subseteq {b} /\ run.lease = "held"
  BY <1>1, CalmAlone
<1>6. Active' = {b}
  BY <1>2, <1>4, <1>5 DEF Active
<1>7. OneBatch' /\ PassFirst' /\ RoundsCounted' /\ FailedLogged'
  BY <1>1, <1>3, <1>4, <1>5, <1>6
     DEF CalmParts, OneBatch, PassFirst, RoundsCounted, FailedLogged
<1>8. BatchGoesOn(b)'
  BY <1>1, <1>3, <1>4, <1>5 DEF CalmParts, BatchGoesOn, RoundsOpen
<1>9. \A c \in Batches \ {b} : BatchGoesOn(c)'
  BY <1>5 DEF BatchGoesOn
<1> QED BY <1>7, <1>8, <1>9 DEF CalmParts

LEMMA CalmFinish ==
  ASSUME RunInv, CalmParts, NEW b \in Batches, Finish(b)
  PROVE  CalmParts'
<1> DEFINE s == batch[b]
           rest == After(Institute, s.cursor) # {}
           failing == After(FromFile, s.cursor) # {}
           r(more) == [s EXCEPT !.stage = "logging", !.more = more]
<1>1. /\ s \in BatchRows /\ s.stage = "finishing"
      /\ UNCHANGED <<attempts, failed, failedLog, logged>>
      /\ \/ s.mode = "all" /\ batch' = [batch EXCEPT ![b] = r(rest)]
         \/ s.mode = "failed" /\ batch' = [batch EXCEPT ![b] = r(failing)]
  <2>1. s \in BatchRows
    BY DEF RunInv, RunTypeOK, BatchRows
  <2>2. /\ s.stage = "finishing"
        /\ UNCHANGED <<attempts, failed, failedLog, logged>>
    BY DEF Finish
  <2>3. \/ /\ s.mode = "all"
           /\ batch' = [batch EXCEPT ![b].stage = "logging",
                                     ![b].more = rest]
        \/ /\ s.mode = "failed"
           /\ batch' = [batch EXCEPT ![b].stage = "logging",
                                     ![b].more = failing]
    BY DEF Finish, FinishAll, FinishFailed
  <2> HIDE DEF rest, failing
  <2> QED BY <2>1, <2>2, <2>3
<1>2. \E more \in BOOLEAN : batch' = [batch EXCEPT ![b] = r(more)]
  <2>1. rest \in BOOLEAN /\ failing \in BOOLEAN
    BY Zenon
  <2> HIDE DEF rest, failing, r
  <2> QED BY <1>1, <2>1
<1>3. PICK more \in BOOLEAN : batch' = [batch EXCEPT ![b] = r(more)]
  BY <1>2
<1>4. /\ r(more).stage = "logging"
      /\ r(more).bad = s.bad /\ r(more).mode = s.mode
  BY <1>1 DEF BatchRows
<1> HIDE DEF r
<1>5. /\ Active = {b} /\ batch'[b] = r(more)
      /\ \A c \in Batches \ {b} : batch'[c].stage = "idle"
      /\ Active' \subseteq {b} /\ run.lease = "held"
  BY <1>1, <1>3, CalmAlone
<1>6. Active' = {b}
  BY <1>4, <1>5 DEF Active
<1>7. /\ \A x \in failed : x \in Institute /\ x \in Nat /\ attempts[x] \in Nat
      /\ run.round \in Nat /\ run.retry \in Nat /\ s.cursor \in Nat
      /\ s.cursor \in 0..Last
  BY <1>1, RunAssumption DEF RunInv, RunTypeOK, BatchRows, Institute
<1>8. /\ run'.lease = run.lease /\ PassFirst' /\ RoundsCounted'
  <2>1. CASE FinishAll(b)
    <3>1. /\ run'.lease = run.lease /\ run'.round = run.round
          /\ run'.retry = run.retry
          /\ run'.status = run.status \/ run'.status = "complete"
      BY <2>1 DEF FinishAll, RunInv, RunTypeOK
    <3> QED BY <1>1, <3>1 DEF CalmParts, PassFirst, RoundsCounted
  <2>2. CASE FinishFailed(b) /\ ~s.tracked
    <3>1. run' = run
      BY <2>2 DEF FinishFailed
    <3> QED BY <1>1, <3>1 DEF CalmParts, PassFirst, RoundsCounted
  <2>3. CASE FinishFailed(b) /\ s.tracked
    <3>1. /\ run.status = "complete" /\ run.round < Rounds
          /\ \A x \in failed :
                x <= s.cursor => attempts[x] >= run.round + 2
      BY <1>1, <2>3 DEF CalmParts, BatchGoesOn, RoundsOpen
    <3>2. s.mode = "failed"
      BY <2>3 DEF FinishFailed
    <3>3. CASE failing
      <4>1. run' = [run EXCEPT !.retry = s.cursor]
        BY <2>3, <3>3 DEF FinishFailed
      <4>2. /\ run'.lease = run.lease /\ run'.round = run.round
            /\ run'.retry = s.cursor /\ run'.status = "complete"
        BY <3>1, <4>1 DEF RunInv, RunTypeOK
      <4> QED BY <1>1, <3>1, <4>2 DEF CalmParts, PassFirst, RoundsCounted
    <3>4. CASE ~failing
      <4>1. run' = [run EXCEPT !.retry = 0, !.round = run.round + 1]
        BY <2>3, <3>1, <3>4 DEF FinishFailed
      <4>2. /\ run'.lease = run.lease /\ run'.round = run.round + 1
            /\ run'.retry = 0 /\ run'.status = "complete"
        BY <3>1, <4>1 DEF RunInv, RunTypeOK
      <4>3. FromFile = failed
        BY <1>5, <3>2, FileTrue
      <4>4. ASSUME NEW x \in failed
            PROVE  attempts[x] >= run.round + 2 /\ ~(x <= 0)
        <5>1. x <= s.cursor
          BY <1>7, <3>4, <4>3 DEF After
        <5> QED BY <1>7, <3>1, <5>1 DEF Institute
      <4> QED BY <1>1, <1>7, <4>2, <4>4 DEF PassFirst, RoundsCounted
    <3> QED BY <3>3, <3>4
  <2> QED BY <2>1, <2>2, <2>3 DEF Finish
<1>9. OneBatch' /\ FailedLogged'
  BY <1>1, <1>4, <1>5, <1>6, <1>8 DEF CalmParts, OneBatch, FailedLogged
<1>10. \A c \in Batches : BatchGoesOn(c)'
  BY <1>4, <1>5 DEF BatchGoesOn
<1> QED BY <1>8, <1>9, <1>10 DEF CalmParts

LEMMA CalmEnd ==
  ASSUME RunInv, CalmParts, NEW b \in Batches, WriteLog(b) \/ Rebuild(b)
  PROVE  CalmParts'
<1> DEFINE s == batch[b]
<1>1. /\ s.stage # "idle" /\ logged' = TRUE
      /\ run' = [run EXCEPT !.lease = "none"]
      /\ batch' = [batch EXCEPT ![b] = NoBatch]
      /\ UNCHANGED <<attempts, failed>>
  BY DEF WriteLog, Rebuild, GiveUpLease
<1>2. NoBatch.stage = "idle"
  BY DEF NoBatch
<1>3. /\ Active = {b} /\ batch'[b] = NoBatch
      /\ \A c \in Batches \ {b} : batch'[c].stage = "idle"
      /\ Active' \subseteq {b}
  BY <1>1, CalmAlone
<1>4. \A c \in Batches : batch'[c].stage = "idle"
  BY <1>2, <1>3
<1>5. Active' = {}
  BY <1>4 DEF Active
<1>6. /\ run'.status = run.status /\ run'.round = run.round
      /\ run'.retry = run.retry
  BY <1>1 DEF RunInv, RunTypeOK
<1>7. failed \subseteq failedLog'
  <2>1. CASE Rebuild(b)
    BY <2>1 DEF Rebuild
  <2>2. CASE WriteLog(b)
    <3>1. s.mode = "all" \/ s.mode = "failed"
      BY DEF RunInv, RunTypeOK
    <3>2. s.mode = "failed" /\ logged => failed \subseteq failedLog
      BY <1>3, FileTrue
    <3>3. logged => \A x \in failed \ failedLog : x \in s.bad
      BY <1>3 DEF CalmParts, FailedLogged
    <3>4. \/ ~logged /\ failedLog' = failed
          \/ /\ logged /\ s.mode = "all"
             /\ failedLog' = failedLog \cup s.bad
          \/ logged /\ s.mode = "failed" /\ failedLog' \in {failed, failedLog}
      BY <2>2, <3>1 DEF WriteLog
    <3> QED BY <3>2, <3>3, <3>4
  <2> QED BY <2>1, <2>2
<1>8. OneBatch' /\ PassFirst' /\ RoundsCounted' /\ FailedLogged'
  BY <1>1, <1>5, <1>6, <1>7
     DEF CalmParts, OneBatch, PassFirst, RoundsCounted, FailedLogged
<1>9. \A c \in Batches : BatchGoesOn(c)'
  BY <1>4 DEF BatchGoesOn
<1> QED BY <1>8, <1>9 DEF CalmParts

LEMMA CalmClose ==
  ASSUME RunInv, CalmParts, CloseRounds, calm'
  PROVE  CalmParts'
<1>1. /\ Active = {} /\ FromFile = {} /\ run.status = "complete"
      /\ run' = [run EXCEPT !.round = Rounds, !.retry = 0]
      /\ UNCHANGED <<failed, batch>>
  BY DEF CloseRounds, RoundsOpen
<1>2. failed = {}
  BY <1>1, FileTrue
<1>3. run'.status = "complete"
  BY <1>1 DEF RunInv, RunTypeOK
<1>4. Active' = {} /\ \A c \in Batches : batch'[c].stage = "idle"
  BY <1>1 DEF Active
<1>5. OneBatch' /\ PassFirst' /\ RoundsCounted' /\ FailedLogged'
  BY <1>1, <1>2, <1>3, <1>4
     DEF OneBatch, PassFirst, RoundsCounted, FailedLogged
<1>6. \A c \in Batches : BatchGoesOn(c)'
  BY <1>4 DEF BatchGoesOn
<1> QED BY <1>5, <1>6 DEF CalmParts

LEMMA CalmSteps == RunInv /\ CalmInv /\ [RunNext]_runVars => CalmInv'
<1> SUFFICES ASSUME RunInv, CalmInv, [RunNext]_runVars, calm'
             PROVE  CalmParts'
  BY DEF CalmInv
<1> USE DEF CalmInv
<1>1. ASSUME NEW b \in Batches, StartAll(b) \/ StartRebuild(b)
      PROVE  CalmParts'
  <2>1. calm
    BY <1>1 DEF StartAll, StartRebuild, Acquire
  <2> QED BY <1>1, <2>1, CalmStartAll, CalmStartRebuild
<1>2. CASE WorkerPass
  BY <1>1, <1>2 DEF WorkerPass, Batches
<1>3. CASE RetryRound
  <2>1. calm
    BY <1>3 DEF RetryRound, StartFailed, Acquire
  <2>2. run.retry \in 0..Last /\ Worker \in Batches
    BY DEF RunInv, RunTypeOK, Batches
  <2> QED BY <1>3, <2>1, <2>2, CalmStartFailed DEF RetryRound
<1>4. ASSUME NEW b \in Staff, NEW after \in 0..Last, StaffRetry(b, after)
      PROVE  CalmParts'
  <2>1. calm
    BY <1>4 DEF StaffRetry, StartFailed, Acquire
  <2> QED BY <1>4, <2>1, CalmStartFailed DEF StaffRetry, Batches
<1>5. ASSUME NEW b \in Batches, BatchStep(b)
      PROVE  CalmParts'
  <2>1. CASE \E e \in Institute, ok \in BOOLEAN : Attempt(b, e, ok)
    <3>1. PICK e \in Institute, ok \in BOOLEAN : Attempt(b, e, ok)
      BY <2>1
    <3>2. calm
      BY <3>1 DEF Attempt
    <3> QED BY <3>1, <3>2, CalmAttempt
  <2>2. CASE Advance(b)
    BY <2>2, CalmAdvance DEF Advance
  <2>3. CASE Finish(b)
    BY <2>3, CalmFinish DEF Finish
  <2>4. CASE WriteLog(b) \/ Rebuild(b)
    BY <2>4, CalmEnd DEF WriteLog, Rebuild
  <2>5. CASE Fail(b) \/ DieInBatch(b)
    BY <2>5 DEF Fail, DieInBatch
  <2> QED BY <1>5, <2>1, <2>2, <2>3, <2>4, <2>5 DEF BatchStep
<1>6. CASE CloseRounds
  BY <1>6, CalmClose DEF CloseRounds
<1>7. CASE LapseOfRun
  BY <1>7 DEF LapseOfRun
<1>8. CASE UNCHANGED runVars
  BY <1>8 DEF runVars, CalmParts, OneBatch, Active, FailedLogged,
              RoundsCounted, PassFirst, BatchGoesOn, RoundsOpen
<1>9. Staff \subseteq Batches
  BY DEF Batches
<1> QED
  BY <1>1, <1>2, <1>3, <1>4, <1>5, <1>6, <1>7, <1>8, <1>9 DEF RunNext

(* Every institute up to the cursor has been tried, and a complete run has  *)
(* tried them all, whatever dies or overlaps; once the rounds of a calm run *)
(* are closed, an institute that still fails was tried in the pass and in   *)
(* each of the rounds.                                                      *)
THEOREM AllCovered == RunSpec => []RunCovers
<1>1. RunInv => CompleteCovers
  BY DEF RunInv
<1>2. RunInv /\ CalmInv => FailedRetried
  <2> SUFFICES ASSUME RunInv, CalmParts, run.round = Rounds,
                      NEW e \in failed
               PROVE  attempts[e] > Rounds
    BY DEF CalmInv, FailedRetried
  <2>1. attempts[e] \in Nat
    BY DEF RunInv, RunTypeOK
  <2> QED BY <2>1, RunAssumption DEF CalmParts, RoundsCounted
<1>3. RunInv /\ CalmInv => RunCovers
  BY <1>1, <1>2 DEF RunCovers
<1> QED BY RunStarts, RunSteps, CalmStarts, CalmSteps, <1>3, PTL DEF RunSpec

---------------------------------------------------------------------------
(* The exam job's file: ExamJobs. *)

(* Only a writer that has opened the temporary file has a handle, and the   *)
(* file then holds what that writer put there; neither writer, and no       *)
(* thread that is over, leaves "running" behind.                            *)
ExamInv ==
    /\ ExamTypeOK
    /\ writer["admin"].stage # "idle" => writer["admin"].value = "cancelled"
    /\ thread = "ending" => /\ writer["worker"].stage # "idle"
                            /\ writer["worker"].value \in Terminal
    /\ thread = "over" => writer["worker"].stage = "idle"
    /\ \A p \in Writers :
          writer[p].handle # "none" => writer[p].stage \in {"opened", "filled"}
    /\ ~collided /\ ~ioFailed =>
          /\ Readable
          /\ thread = "over" => jobFile \in Terminal
          /\ \A p \in Writers :
                LET s == writer[p] IN
                /\ s.stage \in {"opened", "filled"} =>
                      /\ s.handle = "tmp"
                      /\ writer[Other(p)].handle = "none"
                /\ s.stage = "opened" => tmpFile = "empty"
                /\ s.stage = "filled" => tmpFile = s.value

LEMMA OthersWriter ==
  /\ Other("worker") = "admin" /\ Other("admin") = "worker"
  /\ \A p \in Writers : Other(p) \in Writers /\ Other(p) # p
  BY DEF Other, Writers

LEMMA ExamStarts == ExamInit => ExamInv
<1> SUFFICES ASSUME ExamInit PROVE ExamInv
  OBVIOUS
<1> USE DEF ExamInit, NoWrite, Writers, JobStatuses, Handles
<1>1. \A p \in Writers : writer[p] = NoWrite
  OBVIOUS
<1>2. ExamTypeOK
  BY DEF ExamTypeOK
<1> QED BY <1>1, <1>2 DEF ExamInv, Readable, Terminal

LEMMA ExamSteps == ExamInv /\ [ExamNext]_examVars => ExamInv'
<1> SUFFICES ASSUME ExamInv, [ExamNext]_examVars
             PROVE  ExamInv'
  OBVIOUS
<1> USE DEF ExamTypeOK, NoWrite, JobStatuses, Handles, Terminal, Writers
<1>1. CASE Progress
  BY <1>1, OthersWriter DEF ExamInv, Progress, ReadBy, Readable
<1>2. CASE \E outcome \in {"done", "error"} : EndJob(outcome)
  <2>1. PICK outcome \in {"done", "error"} : EndJob(outcome)
    BY <1>2
  <2>2. CASE Readable
    <3>1. /\ writer' = [writer EXCEPT
                          !["worker"] = [stage |-> "read", value |-> outcome,
                                         handle |-> "none"]]
          /\ thread = "working" /\ thread' = "ending"
          /\ writer["worker"].stage = "idle"
      BY <2>1, <2>2 DEF EndJob, ReadBy, FinalStatus
    <3>2. UNCHANGED <<jobFile, tmpFile, collided, ioFailed>>
      BY <2>1 DEF EndJob
    <3> QED BY <2>1, <3>1, <3>2, OthersWriter DEF ExamInv, Readable
  <2>3. CASE ~Readable
    BY <2>1, <2>3, OthersWriter DEF ExamInv, EndJob, Readable
  <2> QED BY <2>2, <2>3
<1>3. CASE CancelJob
  BY <1>3, OthersWriter DEF ExamInv, CancelJob, ReadBy, Readable
<1>4. ASSUME NEW p \in Writers, OpenTmp(p)
      PROVE  ExamInv'
  BY <1>4, OthersWriter DEF ExamInv, OpenTmp, Readable
<1>5. ASSUME NEW p \in Writers, Fill(p)
      PROVE  ExamInv'
  BY <1>5, OthersWriter DEF ExamInv, Fill, Readable, Overwritten
<1>6. ASSUME NEW p \in Writers, ReplaceFile(p)
      PROVE  ExamInv'
  <2>1. CASE tmpFile = "absent"
    BY <1>6, <2>1, OthersWriter
       DEF ExamInv, ReplaceFile, Closed, Readable
  <2>2. CASE tmpFile # "absent"
    <3>1. /\ writer'[p] = NoWrite
          /\ writer'[Other(p)] =
               [writer[Other(p)] EXCEPT !.handle = Moved(@)]
      BY <1>6, <2>2, OthersWriter DEF ReplaceFile
    <3>2. Moved(writer[Other(p)].handle) \in Handles
      BY OthersWriter DEF ExamInv, Moved
    <3>3. ExamTypeOK'
      BY <1>6, <2>2, <3>1, <3>2, OthersWriter
         DEF ExamInv, ReplaceFile, Closed
    <3>4. CASE collided' \/ ioFailed'
      BY <1>6, <2>2, <3>1, <3>2, <3>3, <3>4, OthersWriter
         DEF ExamInv, ReplaceFile, Closed, Moved
    <3>5. CASE ~collided' /\ ~ioFailed'
      <4>1. /\ tmpFile = writer[p].value
            /\ writer[Other(p)].handle = "none"
            /\ ~collided /\ ~ioFailed
        BY <1>6, <2>2, <3>5 DEF ExamInv, ReplaceFile
      <4>2. /\ jobFile' = writer[p].value
            /\ writer'[Other(p)] = writer[Other(p)]
        <5>1. writer[p].value # "empty"
          BY DEF ExamInv
        <5>2. jobFile' = writer[p].value
          BY <1>6, <2>2, <4>1, <5>1 DEF ReplaceFile
        <5>3. Moved("none") = "none"
          BY DEF Moved
        <5>4. writer[Other(p)] \in [stage : {"idle", "read", "opened",
                                             "filled"},
                                    value : JobStatuses, handle : Handles]
          BY OthersWriter DEF ExamInv
        <5> QED BY <3>1, <4>1, <5>2, <5>3, <5>4
      <4>3. \A q \in Writers : q = p \/ q = Other(p)
        BY OthersWriter
      <4>4. /\ thread' = IF p = "worker" /\ thread = "ending"
                         THEN "over" ELSE thread
            /\ writer'[p] = NoWrite
        BY <1>6, <3>1 DEF ReplaceFile, Closed
      <4>5. Readable' /\ (thread' = "over" => jobFile' \in Terminal)
        BY <1>6, <4>1, <4>2, <4>4 DEF ExamInv, ReplaceFile, Readable
      <4>6. \A q \in Writers :
               /\ writer'[q].handle = "none"
               /\ writer'[q].stage \notin {"opened", "filled"}
        BY <4>1, <4>2, <4>3, <4>4, OthersWriter DEF ExamInv
      <4>7. /\ writer'["admin"].stage # "idle"
                 => writer'["admin"].value = "cancelled"
            /\ thread' = "ending" => /\ writer'["worker"].stage # "idle"
                                     /\ writer'["worker"].value \in Terminal
            /\ thread' = "over" => writer'["worker"].stage = "idle"
        BY <4>2, <4>4, OthersWriter DEF ExamInv
      <4> QED BY <3>3, <4>5, <4>6, <4>7 DEF ExamInv
    <3> QED BY <3>4, <3>5
  <2> QED BY <2>1, <2>2
<1>7. ASSUME NEW p \in Writers, LoseWrite(p)
      PROVE  ExamInv'
  BY <1>7, OthersWriter DEF ExamInv, LoseWrite, Closed, Readable
<1>8. CASE StopServer
  BY <1>8, OthersWriter DEF ExamInv, StopServer, Readable
<1>9. CASE UNCHANGED examVars
  BY <1>9 DEF ExamInv, examVars, Readable, Other
<1> QED
  BY <1>1, <1>2, <1>3, <1>4, <1>5, <1>6, <1>7, <1>8, <1>9 DEF ExamNext

(* The file of a finished job does not say "running", and it can be read,   *)
(* as long as the two writers never had the temporary file open together    *)
(* and no write was lost.                                                   *)
THEOREM JobEnds == ExamSpec => []JobEndsTerminal
<1>1. ExamInv => JobEndsTerminal
  BY DEF ExamInv, JobEndsTerminal
<1> QED BY ExamStarts, ExamSteps, <1>1, PTL DEF ExamSpec

---------------------------------------------------------------------------
(* A run of the job holds its order alone, and only an order that may still *)
(* be mailed; beyond the lost attempts there is one mail at most, the one   *)
(* that was noted or is about to be.                                        *)
ReceiptInv ==
    /\ ReceiptTypeOK
    /\ \A j \in Jobs : mailing[j].order = NoReceipt <=>
                         mailing[j].stage = "idle"
    /\ \A j, k \in Jobs : mailing[j].order = mailing[k].order =>
          j = k \/ mailing[j].order = NoReceipt
    /\ \A j \in Jobs : mailing[j].stage # "idle" =>
          Deliverable(mailing[j].order)
    /\ \A o \in Receipts :
          /\ mails[o] <= losses[o] + 1
          /\ ~receipt[o].sent /\ mails[o] = losses[o] + 1 =>
                \E j \in Jobs : /\ mailing[j].order = o
                                /\ mailing[j].stage = "accepted"

LEMMA ReceiptStarts == ReceiptInit => ReceiptInv
  BY ReceiptAssumption
     DEF ReceiptInit, ReceiptInv, ReceiptTypeOK, NoMailing, Deliverable

(* The end of an attempt: if all mails the losses do not explain are        *)
(* explained by it, it is either noted as sent or one more loss.            *)
LEMMA AttemptKept ==
  ASSUME ReceiptInv, NEW j \in Jobs, NEW sent \in BOOLEAN,
         KeepAttempt(j, sent),
         Deliverable(mailing[j].order), mailing[j].order \in Receipts,
         \/ /\ UNCHANGED losses
            /\ mails[mailing[j].order] = losses[mailing[j].order] + 1 => sent
         \/ losses' = [losses EXCEPT ![mailing[j].order] = @ + 1]
  PROVE  ReceiptInv'
<1> USE ReceiptAssumption DEF ReceiptTypeOK, NoMailing
<1> DEFINE o == mailing[j].order
<1>1. /\ receipt'[o].sent = sent
      /\ receipt' \in [Receipts -> [pending : BOOLEAN, sent : BOOLEAN,
                                    attempts : 0..MaxAttempts,
                                    noticed : BOOLEAN]]
      /\ \A q \in Receipts \ {o} : receipt'[q] = receipt[q]
  <2> DEFINE tries == receipt[o].attempts + 1
             noticed == receipt[o].noticed
                          \/ (~sent /\ tries = MaxAttempts)
             pending == ~sent
             kept == [pending |-> pending, sent |-> sent,
                      attempts |-> tries, noticed |-> noticed]
  <2>1. receipt' = [receipt EXCEPT ![o] = kept]
    BY DEF ReceiptInv, KeepAttempt
  <2>2. tries \in 0..MaxAttempts
    BY DEF ReceiptInv, Deliverable
  <2>3. noticed \in BOOLEAN /\ pending \in BOOLEAN
    BY Zenon
  <2> HIDE DEF tries, noticed, pending
  <2>4. /\ kept.sent = sent
        /\ kept \in [pending : BOOLEAN, sent : BOOLEAN,
                     attempts : 0..MaxAttempts, noticed : BOOLEAN]
    BY <2>2, <2>3
  <2> HIDE DEF kept
  <2> QED BY <2>1, <2>4 DEF ReceiptInv
<1>2. \A k \in Jobs :
        mailing'[k] = IF k = j THEN NoMailing ELSE mailing[k]
  BY DEF ReceiptInv, KeepAttempt
<1>3. /\ losses' \in [Receipts -> Nat] /\ mails' = mails
      /\ mailing' \in [Jobs -> [order : Receipts \cup {NoReceipt},
                                stage : {"idle", "taken", "accepted",
                                         "refused"}]]
      /\ \A q \in Receipts \ {o} : losses'[q] = losses[q]
  <2>1. losses' = losses \/ losses' = [losses EXCEPT ![o] = @ + 1]
    OBVIOUS
  <2>2. mails' = mails /\ mailing' = [mailing EXCEPT ![j] = NoMailing]
    BY DEF KeepAttempt
  <2> HIDE DEF o
  <2> QED BY <2>1, <2>2 DEF ReceiptInv
<1>4. \A k \in Jobs \ {j} : mailing[k].order # o
  BY DEF ReceiptInv
<1>5. /\ mails'[o] <= losses'[o] + 1
      /\ sent \/ mails'[o] < losses'[o] + 1
  <2>1. /\ mails[o] \in Nat /\ losses[o] \in Nat
        /\ mails[o] <= losses[o] + 1
    BY DEF ReceiptInv
  <2>2. mails' = mails
    BY <1>3
  <2>3. CASE losses' = [losses EXCEPT ![o] = @ + 1]
    BY <2>1, <2>2, <2>3 DEF ReceiptInv
  <2>4. CASE losses' = losses /\ (mails[o] = losses[o] + 1 => sent)
    BY <2>1, <2>2, <2>4
  <2> QED BY <2>3, <2>4
<1>6. \A k \in Jobs : mailing'[k].stage # "idle" =>
        k # j /\ mailing'[k] = mailing[k]
  BY <1>2
<1>7. \A k \in Jobs : mailing[k].order = NoReceipt <=>
                       mailing[k].stage = "idle"
  BY DEF ReceiptInv
<1> HIDE DEF o
<1>8. \A k \in Jobs : mailing'[k].order = NoReceipt <=>
                       mailing'[k].stage = "idle"
  BY <1>2, <1>7
<1>9. \A k, l \in Jobs : mailing'[k].order = mailing'[l].order =>
        k = l \/ mailing'[k].order = NoReceipt
  <2> TAKE k, l \in Jobs
  <2>1. mailing[k].order = mailing[l].order =>
          k = l \/ mailing[k].order = NoReceipt
    BY DEF ReceiptInv
  <2> QED BY <1>2, <2>1
<1>10. \A k \in Jobs : mailing'[k].stage # "idle" =>
         Deliverable(mailing[k].order)'
  <2> SUFFICES ASSUME NEW k \in Jobs, mailing'[k].stage # "idle"
               PROVE  Deliverable(mailing[k].order)'
    OBVIOUS
  <2>1. /\ mailing'[k] = mailing[k] /\ mailing[k].order # o
        /\ mailing[k].order \in Receipts /\ Deliverable(mailing[k].order)
    BY <1>4, <1>6, <1>7 DEF ReceiptInv
  <2> QED BY <1>1, <2>1 DEF Deliverable
<1>11. ASSUME NEW q \in Receipts
       PROVE  /\ mails'[q] <= losses'[q] + 1
              /\ ~receipt'[q].sent /\ mails'[q] = losses'[q] + 1 =>
                    \E k \in Jobs : /\ mailing'[k].order = q
                                    /\ mailing'[k].stage = "accepted"
  <2>1. CASE q = o
    <3>1. mails'[o] \in Nat /\ losses'[o] \in Nat
      BY <1>3, <2>1 DEF ReceiptInv
    <3> QED BY <1>1, <1>5, <2>1, <3>1
  <2>2. CASE q # o
    <3>1. /\ receipt'[q] = receipt[q] /\ mails'[q] = mails[q]
          /\ losses'[q] = losses[q]
      BY <1>1, <1>3, <2>2
    <3>2. \A k \in Jobs : mailing[k].order = q => mailing'[k] = mailing[k]
      BY <1>2, <2>2 DEF o
    <3> QED BY <3>1, <3>2 DEF ReceiptInv
  <2> QED BY <2>1, <2>2
<1> QED
  BY <1>1, <1>3, <1>8, <1>9, <1>10, <1>11 DEF ReceiptInv

LEMMA ReceiptSteps == ReceiptInv /\ [ReceiptNext]_receiptVars => ReceiptInv'
<1> SUFFICES ASSUME ReceiptInv, [ReceiptNext]_receiptVars
             PROVE  ReceiptInv'
  OBVIOUS
<1> USE ReceiptAssumption DEF ReceiptTypeOK, NoMailing
<1>1. ASSUME NEW o \in Receipts, AskReceipt(o)
      PROVE  ReceiptInv'
  <2>1. /\ receipt' = [receipt EXCEPT ![o].pending = TRUE]
        /\ UNCHANGED <<mailing, mails, losses>>
    BY <1>1 DEF AskReceipt
  <2>2. /\ \A q \in Receipts \ {o} : receipt'[q] = receipt[q]
        /\ receipt'[o].sent = receipt[o].sent
    BY <2>1 DEF ReceiptInv
  <2>3. ReceiptTypeOK'
    <3>1. receipt[o] \in [pending : BOOLEAN, sent : BOOLEAN,
                         attempts : 0..MaxAttempts, noticed : BOOLEAN]
      BY DEF ReceiptInv
    <3>2. [receipt[o] EXCEPT !.pending = TRUE] \in
            [pending : BOOLEAN, sent : BOOLEAN,
             attempts : 0..MaxAttempts, noticed : BOOLEAN]
      BY <3>1
    <3> QED BY <2>1, <3>2 DEF ReceiptInv
  <2>4. \A j \in Jobs : mailing[j].stage # "idle" =>
          /\ mailing[j].order # o /\ mailing[j].order \in Receipts
          /\ Deliverable(mailing[j].order)
    BY <1>1 DEF AskReceipt, ReceiptInv, Deliverable
  <2>5. \A j \in Jobs : mailing'[j].stage # "idle" =>
          Deliverable(mailing[j].order)'
    BY <2>1, <2>2, <2>4 DEF Deliverable
  <2>6. \A q \in Receipts : receipt'[q].sent = receipt[q].sent
    BY <2>2
  <2> QED BY <2>1, <2>3, <2>5, <2>6 DEF ReceiptInv
<1>2. ASSUME NEW j \in Jobs, NEW o \in Receipts, TakeOrder(j, o)
      PROVE  ReceiptInv'
  <2>1. \A k \in Jobs : mailing'[k] =
          IF k = j THEN [order |-> o, stage |-> "taken"] ELSE mailing[k]
    BY <1>2 DEF ReceiptInv, TakeOrder
  <2>2. ReceiptTypeOK'
    BY <1>2 DEF ReceiptInv, TakeOrder
  <2>3. \A k \in Jobs : mailing[k].order # o
    BY <1>2 DEF TakeOrder, Taken
  <2>4. mailing[j].stage = "idle"
    BY <1>2 DEF TakeOrder
  <2>5. UNCHANGED <<receipt, mails, losses>> /\ Deliverable(o)
    BY <1>2 DEF TakeOrder
  <2>6. \A k \in Jobs : mailing'[k].stage # "idle" =>
          Deliverable(mailing[k].order)'
    BY <2>1, <2>5 DEF ReceiptInv, Deliverable
  <2>7. \A k \in Jobs : mailing[k].stage = "accepted" => k # j
    BY <2>4
  <2> QED
    BY <2>1, <2>2, <2>3, <2>4, <2>5, <2>6, <2>7 DEF ReceiptInv
<1>3. ASSUME NEW j \in Jobs, SendMail(j)
      PROVE  ReceiptInv'
  <2> DEFINE o == mailing[j].order
  <2>1. o \in Receipts /\ mailing[j].stage = "taken"
    BY <1>3 DEF ReceiptInv, SendMail
  <2>2. PICK stage \in {"accepted", "refused"} :
          /\ mailing' = [mailing EXCEPT ![j].stage = stage]
          /\ mails' = IF stage = "accepted"
                      THEN [mails EXCEPT ![o] = @ + 1] ELSE mails
          /\ UNCHANGED <<receipt, losses>>
    BY <1>3, "accepted" # "refused" DEF SendMail
  <2>3. /\ mailing'[j].order = o /\ mailing'[j].stage = stage
        /\ \A k \in Jobs \ {j} : mailing'[k] = mailing[k]
    BY <2>2 DEF ReceiptInv
  <2>4. ReceiptTypeOK'
    BY <2>1, <2>2 DEF ReceiptInv
  <2>5. ~receipt[o].sent /\ mails[o] <= losses[o]
    BY <2>1 DEF ReceiptInv, Deliverable
  <2> QED
    BY <2>1, <2>2, <2>3, <2>4, <2>5 DEF ReceiptInv, Deliverable
<1>4. ASSUME NEW j \in Jobs, CommitAttempt(j)
      PROVE  ReceiptInv'
  <2> DEFINE o == mailing[j].order
  <2>1. o \in Receipts /\ Deliverable(o)
    BY <1>4 DEF ReceiptInv, CommitAttempt
  <2>2. KeepAttempt(j, mailing[j].stage = "accepted")
        /\ UNCHANGED losses
    BY <1>4 DEF CommitAttempt
  <2>3. mails[o] = losses[o] + 1 => mailing[j].stage = "accepted"
    BY <2>1 DEF ReceiptInv, Deliverable
  <2> QED BY <2>1, <2>2, <2>3, AttemptKept
<1>5. ASSUME NEW j \in Jobs, LoseSave(j)
      PROVE  ReceiptInv'
  <2> DEFINE o == mailing[j].order
  <2>1. o \in Receipts /\ Deliverable(o)
    BY <1>5 DEF ReceiptInv, LoseSave
  <2>2. KeepAttempt(j, FALSE) /\ losses' = [losses EXCEPT ![o] = @ + 1]
    BY <1>5 DEF LoseSave, Loses
  <2> QED BY <2>1, <2>2, AttemptKept
<1>6. ASSUME NEW j \in Jobs, LoseAttempt(j)
      PROVE  ReceiptInv'
  <2> DEFINE o == mailing[j].order
  <2>1. o \in Receipts
    BY <1>6 DEF ReceiptInv, LoseAttempt, Loses
  <2>2. /\ mailing' = [mailing EXCEPT ![j] = NoMailing]
        /\ losses' = [losses EXCEPT ![o] = @ + 1]
        /\ UNCHANGED <<receipt, mails>>
    BY <1>6 DEF LoseAttempt, Loses
  <2> QED BY <2>1, <2>2 DEF ReceiptInv, Deliverable
<1>7. CASE UNCHANGED receiptVars
  BY <1>7 DEF ReceiptInv, receiptVars, Deliverable
<1> QED
  BY <1>1, <1>2, <1>3, <1>4, <1>5, <1>6, <1>7 DEF ReceiptNext, DeliverOne

(* A customer gets one receipt, and one more for each transaction that was  *)
(* lost after its mail, however many runs of the job overlap.               *)
THEOREM ReceiptsOnce == ReceiptSpec => []ReceiptOnce
<1>1. ReceiptInv => ReceiptOnce
  BY DEF ReceiptInv, ReceiptOnce
<1> QED BY ReceiptStarts, ReceiptSteps, <1>1, PTL DEF ReceiptSpec

---------------------------------------------------------------------------
(* Exams *)

(* Settings, those in force or those a form holds, never count more exams   *)
(* than were taken nor more passed than attended.                           *)
Sound(s) ==
    /\ s = [attempts |-> s.attempts, total |-> s.total, passed |-> s.passed]
    /\ s.total \in Nat /\ s.passed \in Nat
    /\ s.passed <= s.total
    /\ s.total <= ExamsTaken

CountInv ==
    /\ IsFiniteSet(records)
    /\ Cardinality(Results) = Cardinality(Legacy) + Cardinality(records)
    /\ Sound(settings)
    /\ \A s \in form : Sound(s)
    /\ form = NoForm \/ \E s \in form : form = {s}
    /\ page \in Nat \cup {NoCount} /\ page <= ExamsTaken
    /\ progress \in Nat /\ progress <= ExamsTaken
    /\ ~overwritten => Attended = ExamsTaken

(* The sizes that the counters are compared with.                           *)
LEMMA ResultSizes ==
  ASSUME CountInv
  PROVE  /\ IsFiniteSet(Results)
         /\ Cardinality(Legacy) \in Nat
         /\ Cardinality(records) \in Nat
         /\ Cardinality(Results) \in Nat
         /\ Cardinality(Passed(Results)) \in Nat
         /\ Cardinality(Passed(Results)) <= Cardinality(Results)
         /\ ExamsTaken \in Nat
         /\ Cardinality(Results) <= ExamsTaken
<1>1. IsFiniteSet(Legacy) /\ IsFiniteSet(records)
  BY AttemptAssumption DEF CountInv
<1>2. IsFiniteSet(Results)
  BY <1>1, FS_Union DEF Results
<1>3. Passed(Results) \in SUBSET Results
  BY DEF Passed
<1>4. /\ IsFiniteSet(Passed(Results))
      /\ Cardinality(Passed(Results)) <= Cardinality(Results)
  BY <1>2, <1>3, FS_Subset
<1>5. /\ Cardinality(Legacy) \in Nat
      /\ Cardinality(records) \in Nat
      /\ Cardinality(Results) \in Nat
      /\ Cardinality(Passed(Results)) \in Nat
  BY <1>1, <1>2, <1>4, FS_CardinalityType
<1>6. /\ ExamsTaken \in Nat
      /\ Cardinality(Results) <= ExamsTaken
  BY <1>5, AttemptAssumption DEF CountInv, ExamsTaken, AtLeast
<1> QED BY <1>2, <1>4, <1>5, <1>6

LEMMA CountStarts == AttemptInit => CountInv
<1> SUFFICES ASSUME AttemptInit PROVE CountInv
  OBVIOUS
<1>1. /\ IsFiniteSet(records) /\ Cardinality(records) = 0
      /\ Results = Legacy /\ Cardinality(Legacy) \in Nat
  BY AttemptAssumption, FS_EmptySet, FS_CardinalityType
  DEF AttemptInit, Results
<1> QED
  BY <1>1, AttemptAssumption
  DEF AttemptInit, CountInv, Sound, ExamsTaken, Attended, AtLeast, NoForm,
      NoCount

(* A submission adds one exam to the rows and one to every counter.         *)
LEMMA ExamCounted ==
  ASSUME CountInv, NEW id, NEW passed \in BOOLEAN, SubmitExam(id, passed)
  PROVE  CountInv'
<1> DEFINE result == [attempt |-> id, passed |-> passed]
<1>1. records' = records \cup {result} /\ Results' = Results \cup {result}
  BY DEF SubmitExam, Results
<1>2. result \notin Results
  BY DEF SubmitExam, Recorded
<1>3. result \notin records
  BY <1>2 DEF Results
<1> HIDE DEF result
<1>4. /\ IsFiniteSet(records')
      /\ Cardinality(records') = Cardinality(records) + 1
      /\ Cardinality(Results') = Cardinality(Results) + 1
  BY <1>1, <1>2, <1>3, ResultSizes, FS_AddElement DEF CountInv
<1>5. ExamsTaken' = ExamsTaken + 1
  BY <1>4, ResultSizes, AttemptAssumption DEF ExamsTaken, AtLeast
<1>6. /\ Attended \in Nat /\ Attended <= ExamsTaken
      /\ Cardinality(Results) <= Attended
      /\ AttendedPassed \in Nat /\ AttendedPassed <= Attended
  BY ResultSizes DEF CountInv, Sound, Attended, AttendedPassed, AtLeast
<1>7. /\ settings'.total = Attended + 1
      /\ settings'.passed \in {AttendedPassed, AttendedPassed + 1}
      /\ settings' = [attempts |-> settings'.attempts,
                      total |-> settings'.total,
                      passed |-> settings'.passed]
  BY <1>6 DEF SubmitExam, NextTotal
<1>8. Sound(settings)'
  <2>1. /\ settings'.total \in Nat /\ settings'.passed \in Nat
        /\ settings'.passed <= settings'.total
        /\ settings'.total <= ExamsTaken'
    <3> HIDE DEF CountInv
    <3>1. \A n, m \in Nat : m <= n => m + 1 <= n + 1 /\ m <= n + 1
      OBVIOUS
    <3> QED BY <1>5, <1>6, <1>7, <3>1, ResultSizes
  <2> QED BY <1>7, <2>1 DEF Sound
<1>9. form' = form /\ page' = page /\ overwritten' = overwritten
  BY DEF SubmitExam
<1>10. \A s \in form : Sound(s)'
  BY <1>5, ResultSizes DEF CountInv, Sound
<1>11. progress' = AtLeast(progress,
                           AtLeast(Attended + 1, Cardinality(Results) + 1))
  BY DEF SubmitExam, NextTotal
<1>12. progress' \in Nat /\ progress' <= ExamsTaken'
  BY <1>5, <1>6, <1>11, ResultSizes DEF CountInv, AtLeast
<1>13. Attended' = Attended + 1
  BY <1>4, <1>6, <1>7, ResultSizes DEF Attended, AtLeast
<1>14. Cardinality(Results') = Cardinality(Legacy) + Cardinality(records')
  BY <1>4, ResultSizes DEF CountInv
<1>15. page' \in Nat \cup {NoCount} /\ page' <= ExamsTaken'
  BY <1>5, <1>9, ResultSizes DEF CountInv, NoCount
<1> QED
  BY <1>4, <1>5, <1>8, <1>9, <1>10, <1>12, <1>13, <1>14, <1>15
  DEF CountInv, NoForm

LEMMA CountSteps == CountInv /\ [AttemptNext]_attemptVars => CountInv'
<1> SUFFICES ASSUME CountInv, [AttemptNext]_attemptVars
             PROVE  CountInv'
  OBVIOUS
<1>1. ASSUME UNCHANGED <<records, settings, form, overwritten>>,
             page' \in Nat \cup {NoCount}, page' <= ExamsTaken,
             progress' \in Nat, progress' <= ExamsTaken
      PROVE  CountInv'
  BY <1>1 DEF CountInv, Sound, ExamsTaken, Results, Attended
<1>2. ASSUME NEW s \in Sets, StartExam(s)
      PROVE  CountInv'
  <2>1. UNCHANGED <<records, form, page, progress, overwritten>>
    BY <1>2 DEF StartExam
  <2>2. PICK a : settings' = [settings EXCEPT !.attempts = a]
    BY <1>2 DEF StartExam
  <2>3. settings' = [attempts |-> a, total |-> settings.total,
                     passed |-> settings.passed]
    BY <2>2 DEF CountInv, Sound
  <2> QED
    BY <2>1, <2>3 DEF CountInv, Sound, ExamsTaken, Results, Attended
<1>3. ASSUME NEW id \in 1..MaxIssued, RunOut(id)
      PROVE  CountInv'
  BY <1>1, <1>3 DEF RunOut, CountInv
<1>4. ASSUME NEW id \in 1..MaxIssued, NEW passed \in BOOLEAN,
             SubmitExam(id, passed)
      PROVE  CountInv'
  BY <1>4, ExamCounted
<1>5. CASE OpenPage
  <2>1. page' \in Nat /\ page' <= ExamsTaken
    BY <1>5, ResultSizes DEF OpenPage, CountInv, Sound, Attended, AtLeast
  <2> QED BY <1>1, <1>5, <2>1 DEF OpenPage, CountInv
<1>6. CASE WriteProgress
  BY <1>1, <1>6, ResultSizes DEF WriteProgress, CountInv, NoCount
<1>7. CASE OpenAccountForm
  <2>1. /\ form' = {settings}
        /\ UNCHANGED <<settings, records, page, progress, overwritten>>
    BY <1>7 DEF OpenAccountForm
  <2> QED BY <2>1 DEF CountInv, Sound, ExamsTaken, Results, Attended
<1>8. CASE SaveAccountForm
  <2>1. /\ form' = {} /\ settings' \in form
        /\ overwritten' = (overwritten \/ settings \notin form)
        /\ UNCHANGED <<records, page, progress>>
    BY <1>8 DEF SaveAccountForm, NoForm
  <2>2. PICK s : form = {s}
    BY <1>8 DEF SaveAccountForm, CountInv
  <2>3. ~overwritten' => ~overwritten /\ settings' = settings
    BY <2>1, <2>2, Zenon
  <2>4. /\ ExamsTaken' = ExamsTaken /\ Results' = Results
        /\ Sound(settings)'
    BY <2>1 DEF CountInv, Sound, ExamsTaken, Results
  <2> QED BY <2>1, <2>4, <2>3 DEF CountInv, NoForm, Attended
<1>9. CASE UNCHANGED attemptVars
  BY <1>1, <1>9 DEF attemptVars, CountInv
<1> QED
  BY <1>2, <1>3, <1>4, <1>5, <1>6, <1>7, <1>8, <1>9 DEF AttemptNext

(* Every exam is worth one to the badge, whatever the number of attempts,   *)
(* the forms that put older settings back and the pages that write an older *)
(* count.                                                                   *)
THEOREM ExamsCounted == AttemptSpec => []ExamsCountedOnce
<1>1. CountInv => ExamsCountedOnce
  BY ResultSizes
  DEF CountInv, Sound, ExamsCountedOnce, Attended, AttendedPassed, AtLeast
<1> QED BY CountStarts, CountSteps, <1>1, PTL DEF AttemptSpec

(* The attempts of a settings, those in force or those a form holds, were   *)
(* issued once each, and are no more than the limit.                        *)
IssuedOnce(s) ==
    /\ s.attempts \in SUBSET IssuedAttempt
    /\ IsFiniteSet(s.attempts)
    /\ Cardinality(s.attempts) <= MaxActive
    /\ \A a \in s.attempts : a.id <= issued
    /\ \A a, b \in s.attempts : a.id = b.id => a = b

AttemptsTyped ==
    /\ issued \in 0..MaxIssued
    /\ over \in SUBSET (1..issued)
    /\ records \in SUBSET Result
    /\ overwritten \in BOOLEAN
    /\ IssuedOnce(settings)
    /\ \A s \in form : IssuedOnce(s)

(* Of attempts with different numbers, no more are kept than the limit: all *)
(* but the oldest one kept are newer than it.                               *)
LEMMA LatestFew ==
  ASSUME NEW S \in SUBSET IssuedAttempt, IsFiniteSet(S),
         \A a, b \in S : a.id = b.id => a = b
  PROVE  /\ Latest(S) \in SUBSET S /\ IsFiniteSet(Latest(S))
         /\ Cardinality(Latest(S)) <= MaxActive
<1> DEFINE Newer(a) == {b \in S : b.id > a.id}
           L == Latest(S)
           Ids == {a.id : a \in L}
<1>1. /\ L \in SUBSET S
      /\ \A a \in L : Cardinality(Newer(a)) < MaxActive
  BY DEF Latest
<1> HIDE DEF L
<1>2. \A a \in S : a.id \in Nat
  BY AttemptAssumption DEF IssuedAttempt
<1>3. IsFiniteSet(L)
  BY <1>1, FS_Subset
<1>4. CASE L = {}
  BY <1>1, <1>3, <1>4, FS_EmptySet, AttemptAssumption DEF L
<1>5. CASE L # {}
  <2>1. PICK m \in Ids : \A n \in Ids : m <= n
    <3>1. Ids \in SUBSET Nat /\ Ids # {}
      BY <1>1, <1>2, <1>5
    <3> HIDE DEF Ids
    <3> QED BY <3>1, LeastOne
  <2>2. PICK oldest \in L : m = oldest.id
    BY <2>1
  <2>3. L \ {oldest} \in SUBSET Newer(oldest)
    BY <1>1, <1>2, <2>1, <2>2
  <2>4. IsFiniteSet(Newer(oldest))
    <3>1. Newer(oldest) \in SUBSET S
      OBVIOUS
    <3> HIDE DEF Newer
    <3> QED BY <3>1, FS_Subset
  <2>5. Cardinality(Newer(oldest)) < MaxActive
    BY <1>1, <2>2
  <2> HIDE DEF Newer
  <2>6. Cardinality(L \ {oldest}) <= Cardinality(Newer(oldest))
    BY <2>3, <2>4, FS_Subset
  <2>7. Cardinality(L \ {oldest}) = Cardinality(L) - 1
    BY <1>3, <2>2, FS_RemoveElement
  <2>8. /\ Cardinality(L) \in Nat
        /\ Cardinality(Newer(oldest)) \in Nat
    BY <1>3, <2>4, FS_CardinalityType
  <2> QED
    BY <1>1, <1>3, <2>5, <2>6, <2>7, <2>8, AttemptAssumption DEF L
<1> QED BY <1>4, <1>5

LEMMA LatestIssued ==
  ASSUME AttemptsTyped, issued' \in Nat, issued <= issued',
         NEW S \in SUBSET IssuedAttempt, IsFiniteSet(S),
         \A a \in S : a.id <= issued',
         \A a, b \in S : a.id = b.id => a = b,
         settings'.attempts = Latest(S)
  PROVE  IssuedOnce(settings)'
<1>1. /\ Latest(S) \in SUBSET S /\ IsFiniteSet(Latest(S))
      /\ Cardinality(Latest(S)) <= MaxActive
  BY LatestFew
<1> HIDE DEF Latest
<1> QED BY <1>1 DEF IssuedOnce

LEMMA StartTyped ==
  ASSUME CountInv, AttemptsTyped, NEW s \in Sets, StartExam(s)
  PROVE  AttemptsTyped'
<1> DEFINE live == InTime(settings.attempts)
           issue == [id |-> issued + 1, set |-> s]
<1>1. /\ UNCHANGED <<records, over, form, overwritten>>
      /\ \/ /\ settings' = [settings EXCEPT !.attempts = Latest(live)]
            /\ issued' = issued
         \/ /\ settings' = [settings EXCEPT
                               !.attempts = Latest({issue} \cup live)]
            /\ issued' = issued + 1 /\ issued < MaxIssued
  BY DEF StartExam
<1>2. issued \in Nat /\ MaxIssued \in Nat /\ issued <= MaxIssued
  BY AttemptAssumption DEF AttemptsTyped
<1>3. live \in SUBSET settings.attempts
  BY DEF InTime
<1>4. /\ issue.id = issued + 1
      /\ issued < MaxIssued => issue \in IssuedAttempt
  BY <1>2 DEF IssuedAttempt
<1> HIDE DEF live, issue
<1>5. /\ live \in SUBSET IssuedAttempt /\ IsFiniteSet(live)
      /\ \A a \in live : a.id \in Nat /\ a.id <= issued
      /\ \A a, b \in live : a.id = b.id => a = b
  <2>1. IssuedOnce(settings)
    BY DEF AttemptsTyped
  <2>2. /\ live \in SUBSET IssuedAttempt
        /\ \A a \in live : a.id <= issued
        /\ \A a, b \in live : a.id = b.id => a = b
    BY <1>3, <2>1 DEF IssuedOnce
  <2>3. IsFiniteSet(live)
    BY <1>3, <2>1, FS_Subset DEF IssuedOnce
  <2> QED BY <2>2, <2>3 DEF IssuedAttempt
<1>6. IssuedOnce(settings)' /\ issued' \in 0..MaxIssued /\ issued <= issued'
  <2>1. CASE /\ settings' = [settings EXCEPT !.attempts = Latest(live)]
             /\ issued' = issued
    <3>1. settings'.attempts = Latest(live)
      BY <2>1 DEF CountInv, Sound
    <3> QED BY <1>2, <1>5, <2>1, <3>1, LatestIssued
  <2>2. CASE /\ settings' = [settings EXCEPT
                               !.attempts = Latest({issue} \cup live)]
             /\ issued' = issued + 1 /\ issued < MaxIssued
    <3> DEFINE S == {issue} \cup live
    <3>1. settings'.attempts = Latest(S)
      BY <2>2 DEF CountInv, Sound
    <3>2. IsFiniteSet(S)
      BY <1>5, FS_AddElement
    <3>3. /\ S \in SUBSET IssuedAttempt
          /\ \A a \in S : a.id <= issued'
          /\ \A a, b \in S : a.id = b.id => a = b
      BY <1>2, <1>4, <1>5, <2>2
    <3> HIDE DEF S
    <3>4. issued' \in Nat /\ issued <= issued' /\ issued' \in 0..MaxIssued
      BY <1>2, <2>2
    <3> QED BY <3>1, <3>2, <3>3, <3>4, LatestIssued
  <2> QED BY <1>1, <2>1, <2>2
<1>7. over' \in SUBSET (1..issued') /\ \A t \in form : IssuedOnce(t)'
  <2>1. issued' \in Nat
    BY <1>2, <1>6
  <2>2. \A t \in form : \A a \in t.attempts : a.id \in Nat
    BY DEF AttemptsTyped, IssuedOnce, IssuedAttempt
  <2> QED BY <1>1, <1>2, <1>6, <2>1, <2>2 DEF AttemptsTyped, IssuedOnce
<1> QED BY <1>1, <1>6, <1>7 DEF AttemptsTyped

LEMMA SubmitTyped ==
  ASSUME CountInv, AttemptsTyped, NEW id \in 1..MaxIssued,
         NEW passed \in BOOLEAN, SubmitExam(id, passed)
  PROVE  AttemptsTyped'
<1> DEFINE S == {a \in settings.attempts : a.id # id}
<1>1. /\ settings'.attempts = Latest(S)
      /\ records' = records \cup {[attempt |-> id, passed |-> passed]}
      /\ UNCHANGED <<issued, over, form, overwritten>>
  BY DEF SubmitExam
<1>2. IssuedOnce(settings)
  BY DEF AttemptsTyped
<1>3. /\ S \in SUBSET IssuedAttempt /\ S \in SUBSET settings.attempts
      /\ \A a \in S : a.id <= issued
      /\ \A a, b \in S : a.id = b.id => a = b
  BY <1>2 DEF IssuedOnce
<1> HIDE DEF S
<1>4. IsFiniteSet(S)
  BY <1>2, <1>3, FS_Subset DEF IssuedOnce
<1>5. issued' \in Nat /\ issued' = issued /\ issued <= issued'
  BY <1>1, AttemptAssumption DEF AttemptsTyped
<1>6. IssuedOnce(settings)'
  BY <1>1, <1>3, <1>4, <1>5, LatestIssued
<1>7. [attempt |-> id, passed |-> passed] \in Result
  BY AttemptAssumption DEF Result
<1> QED BY <1>1, <1>6, <1>7 DEF AttemptsTyped, IssuedOnce

LEMMA AttemptsStart == AttemptInit => AttemptsTyped
<1> SUFFICES ASSUME AttemptInit PROVE AttemptsTyped
  OBVIOUS
<1>1. /\ issued = 0 /\ over = {} /\ records = {} /\ form = {}
      /\ overwritten = FALSE /\ settings.attempts = {}
  BY DEF AttemptInit, NoForm
<1>2. IsFiniteSet({}) /\ Cardinality({}) <= MaxActive
  BY FS_EmptySet, AttemptAssumption
<1>3. IssuedOnce(settings)
  BY <1>1, <1>2 DEF IssuedOnce
<1>4. issued \in 0..MaxIssued
  BY <1>1, AttemptAssumption
<1>5. /\ over \in SUBSET (1..issued) /\ records \in SUBSET Result
      /\ overwritten \in BOOLEAN
  BY <1>1
<1>6. \A s \in form : IssuedOnce(s)
  BY <1>1
<1> QED BY <1>3, <1>4, <1>5, <1>6, Zenon DEF AttemptsTyped

LEMMA AttemptsStep ==
  CountInv /\ AttemptsTyped /\ [AttemptNext]_attemptVars => AttemptsTyped'
<1> SUFFICES ASSUME CountInv, AttemptsTyped, [AttemptNext]_attemptVars
             PROVE  AttemptsTyped'
  OBVIOUS
<1>1. ASSUME UNCHANGED <<settings, records, issued, form, overwritten>>,
             over' \in SUBSET (1..issued)
      PROVE  AttemptsTyped'
  BY <1>1 DEF AttemptsTyped, IssuedOnce
<1>2. ASSUME NEW s \in Sets, StartExam(s)
      PROVE  AttemptsTyped'
  BY <1>2, StartTyped
<1>3. ASSUME NEW id \in 1..MaxIssued, RunOut(id)
      PROVE  AttemptsTyped'
  BY <1>1, <1>3 DEF RunOut, AttemptsTyped
<1>4. ASSUME NEW id \in 1..MaxIssued, NEW passed \in BOOLEAN,
             SubmitExam(id, passed)
      PROVE  AttemptsTyped'
  BY <1>4, SubmitTyped
<1>5. CASE OpenPage \/ WriteProgress \/ UNCHANGED attemptVars
  BY <1>1, <1>5 DEF OpenPage, WriteProgress, attemptVars, AttemptsTyped
<1>6. CASE OpenAccountForm
  BY <1>6 DEF OpenAccountForm, AttemptsTyped, IssuedOnce
<1>7. CASE SaveAccountForm
  <2>1. /\ form' = {} /\ settings' \in form
        /\ UNCHANGED <<records, issued, over>>
    BY <1>7 DEF SaveAccountForm, NoForm
  <2>2. overwritten' \in BOOLEAN
    BY <1>7, Zenon DEF SaveAccountForm, AttemptsTyped
  <2> QED BY <2>1, <2>2 DEF AttemptsTyped, IssuedOnce
<1> QED
  BY <1>2, <1>3, <1>4, <1>5, <1>6, <1>7 DEF AttemptNext

LEMMA AttemptTyped == CountInv /\ AttemptsTyped => AttemptTypeOK
<1> SUFFICES ASSUME CountInv, AttemptsTyped PROVE AttemptTypeOK
  OBVIOUS
<1>1. \A s : Sound(s) /\ IssuedOnce(s) => s \in Settings
  <2> SUFFICES ASSUME NEW s, Sound(s), IssuedOnce(s) PROVE s \in Settings
    OBVIOUS
  <2>1. s = [attempts |-> s.attempts, total |-> s.total, passed |-> s.passed]
    BY DEF Sound
  <2>2. s.attempts \in SUBSET IssuedAttempt /\ s.total \in Nat
        /\ s.passed \in Nat
    BY DEF Sound, IssuedOnce
  <2> QED BY <2>1, <2>2 DEF Settings
<1>2. Cardinality(form) <= 1
  <2>1. form = {} \/ \E s \in form : form = {s}
    BY DEF CountInv, NoForm
  <2>2. Cardinality({}) = 0 /\ \A s : Cardinality({s}) = 1
    BY FS_EmptySet, FS_Singleton
  <2> QED BY <2>1, <2>2
<1>3. settings \in Settings /\ form \in SUBSET Settings
  BY <1>1 DEF CountInv, AttemptsTyped
<1> QED
  BY <1>2, <1>3 DEF CountInv, AttemptsTyped, IssuedOnce, AttemptTypeOK

---------------------------------------------------------------------------
(* The services together: MCServices. *)

(* A step of the services is one of a component, or none, for each.         *)
LEMMA ServicesStep ==
  [ServicesNext]_serviceVars =>
     /\ [PackageNext]_packageVars
     /\ [RefreshNext]_refreshVars
     /\ [RunNext]_runVars
     /\ [ExamNext]_examVars
     /\ [ReceiptNext]_receiptVars
     /\ [AttemptNext]_attemptVars
BY DEF ServicesNext, serviceVars

(* The six components keep their types in every run of the services, for    *)
(* any number of institutes, callers, workers, visits and attempts: among   *)
(* these, a student's active attempts are never more than the limit.        *)
THEOREM ServicesTyping == ServicesSpec => []ServicesTypeOK
<1> DEFINE Inv == /\ PackInv /\ QueueInv /\ RunInv /\ ExamInv /\ ReceiptInv
                  /\ CountInv /\ AttemptsTyped
<1>1. ServicesInit => Inv
  BY PackStarts, QueueStarts, RunStarts, ExamStarts, ReceiptStarts,
     CountStarts, AttemptsStart
  DEF ServicesInit
<1>2. Inv /\ [ServicesNext]_serviceVars => Inv'
  BY ServicesStep, PackSteps, QueueSteps, RunSteps, ExamSteps, ReceiptSteps,
     CountSteps, AttemptsStep
<1>3. Inv => ServicesTypeOK
  BY RefreshTyped, AttemptTyped
  DEF PackInv, RunInv, ExamInv, ReceiptInv, ServicesTypeOK
<1> HIDE DEF Inv
<1> QED BY <1>1, <1>2, <1>3, PTL DEF ServicesSpec
=============================================================================
