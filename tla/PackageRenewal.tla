--------------------------- MODULE PackageRenewal ---------------------------
(***************************************************************************)
(* The packages of one account in one package family, and the coins they   *)
(* cost.  A due package is renewed by whatever request of the account      *)
(* comes next: a visit reads the open rows and settles them one by one,    *)
(* each in a transaction of its own under the account lock; an activation  *)
(* and a saved question set settle them inside the transaction in which    *)
(* they charge coins themselves.                                           *)
(*                                                                         *)
(* A request reads the clock once (at) and may wait for the lock, so the   *)
(* order of the clocks and the order of the commits can differ.  While a   *)
(* transaction holds the account nothing it could notice happens: the days *)
(* and the requests of others are let in before or after it.               *)
(***************************************************************************)
EXTENDS Naturals, Sequences, FiniteSets

CONSTANTS
    Visits,         \* requests of the account that may be under way at once
    Plans,          \* the plans of the family
    TrackOf,        \* TrackOf[p]: "academic", "admission" or "combined"
    RankOf,         \* RankOf[p]: sort_order
    PriceOf,        \* PriceOf[p]: price in coins, 0 for a Free plan
    Renewals,       \* Renewals[p]: what a badge may leave of the price
    Debits,         \* coins a question set may cost beyond its package
    Period,         \* duration of a plan
    GracePeriod,    \* GRACE_PERIOD
    RetryInterval,  \* RETRY_INTERVAL
    Opening,        \* coins at the start
    Recharges,      \* amounts of a recharge
    MaxPaidIn,      \* bound: coins ever paid in
    MaxClock,       \* bound: the last day
    MaxWait,        \* bound: days a request may be under way
    MaxRows         \* bound: rows of the account

Nobody == "nobody"
CreateQuestions == "create questions"

Tracks == {"academic", "admission", "combined"}

ASSUME PlanAssumption ==
    /\ IsFiniteSet(Plans)
    /\ TrackOf \in [Plans -> Tracks]
    /\ RankOf \in [Plans -> Nat]
    /\ PriceOf \in [Plans -> Nat]
    /\ Renewals \in [Plans -> SUBSET Nat]
    /\ Debits \subseteq Nat \ {0}
    /\ Plans \cap {Nobody, CreateQuestions} = {}
    /\ Nobody \notin Visits

(* The Free plan of a track is found by its code, which is unique.          *)
ASSUME FreePlanAssumption ==
    \A p, q \in Plans :
        PriceOf[p] = 0 /\ PriceOf[q] = 0 /\ TrackOf[p] = TrackOf[q] => p = q

ASSUME TimeAssumption ==
    /\ Period \in Nat \ {0}
    /\ GracePeriod \in Nat
    /\ RetryInterval \in Nat \ {0}
    /\ MaxClock \in Nat
    /\ Opening \in Nat
    /\ Recharges \subseteq Nat

VARIABLES
    clock,      \* the day
    wallet,     \* Customer.settings['balance']
    subs,       \* the PackageSubscription rows, by id
    charged,    \* history: coins the rows and the question sets cost
    paidIn,     \* history: coins the account started with and recharged
    lock,       \* the visit whose transaction holds the account, or Nobody
    saved,      \* what a rollback of it restores, <<>> outside of one
    visit,      \* the requests under way
    overtaken   \* history: an activation ran with an older clock than an
                \* open row it could therefore not see

database == <<wallet, subs, charged>>
packageVars == <<clock, database, paidIn, lock, saved, visit, overtaken>>

---------------------------------------------------------------------------
(* Rows.  0 stands for a date that is not set and for no predecessor.       *)

Statuses == {"active", "grace", "expired", "cancelled", "superseded"}

Row == [plan : Plans, status : Statuses, starts : Nat, ends : Nat,
        auto : BOOLEAN, payable : Nat, prev : Nat,
        tried : Nat, fails : Nat, grace : Nat, graceEnds : Nat,
        usedUp : BOOLEAN]

NewRow(p, status, at, payable, prev) ==
    [plan |-> p, status |-> status, starts |-> at, ends |-> at + Period,
     auto |-> PriceOf[p] > 0, payable |-> payable, prev |-> prev,
     tried |-> 0, fails |-> 0, grace |-> 0, graceEnds |-> 0,
     usedUp |-> FALSE]

Rows == DOMAIN subs
Free(p) == PriceOf[p] = 0
Individual(p) == TrackOf[p] # "combined"
Open(r) == r.status \in {"active", "grace"}

Access(r, at) ==
    \/ /\ r.status = "active"
       /\ r.ends > at \/ (Free(r.plan) /\ r.ends + GracePeriod >= at)
    \/ r.status = "grace" /\ r.graceEnds >= at

(* The open rows a request with the clock at can see.                       *)
Visible(at) == {i \in Rows : Open(subs[i]) /\ subs[i].starts <= at}

InUse(track, at) ==
    {i \in Visible(at) : TrackOf[subs[i].plan] = track
                           /\ Access(subs[i], at)}

(* Newest row of the best plan first.                                       *)
Better(i, j) ==
    LET a == subs[i]  b == subs[j] IN
    \/ RankOf[a.plan] > RankOf[b.plan]
    \/ /\ RankOf[a.plan] = RankOf[b.plan]
       /\ a.starts > b.starts \/ (a.starts = b.starts /\ i > j)

Best(S) == CHOOSE i \in S : \A j \in S \ {i} : Better(i, j)

(* The rows whose settling is the order of starts_at and id, newest first.  *)
Newest(S) ==
    CHOOSE i \in S : \A j \in S \ {i} :
        \/ subs[i].starts > subs[j].starts
        \/ subs[i].starts = subs[j].starts /\ i > j

(* The one-time Free rows of the individual tracks that do not exist yet.   *)
FreeMissing ==
    {p \in Plans : /\ Free(p) /\ Individual(p)
                   /\ \A i \in Rows : Free(subs[i].plan)
                        => TrackOf[subs[i].plan] # TrackOf[p]}

FreeStatus ==
    IF \E i \in Rows : Open(subs[i]) /\ ~Free(subs[i].plan)
    THEN "superseded" ELSE "active"

---------------------------------------------------------------------------
(* The requests.                                                            *)

Idle == [pc |-> "idle", at |-> 0, todo |-> {}, want |-> Nobody,
         balance |-> 0]

PackageTypeOK ==
    /\ clock \in Nat
    /\ wallet \in Nat
    /\ subs \in Seq(Row)
    /\ charged \in Nat
    /\ paidIn \in Nat
    /\ lock \in Visits \cup {Nobody}
    /\ visit \in [Visits -> [pc : {"idle", "asked", "holding", "settling",
                                   "again"},
                             at : Nat, todo : SUBSET Nat, balance : Nat,
                             want : Plans \cup {Nobody, CreateQuestions}]]
    /\ overtaken \in BOOLEAN

PackageInit ==
    /\ clock = 1
    /\ wallet = Opening
    /\ subs = <<>>
    /\ charged = 0
    /\ paidIn = Opening
    /\ lock = Nobody
    /\ saved = <<>>
    /\ visit = [v \in Visits |-> Idle]
    /\ overtaken = FALSE

Tick ==
    /\ lock = Nobody
    /\ clock < MaxClock
    /\ \A v \in Visits :
          visit[v].pc # "idle" => clock < visit[v].at + MaxWait
    /\ clock' = clock + 1
    /\ UNCHANGED <<database, paidIn, lock, saved, visit, overtaken>>

PayInUnlocked(amount) ==
    /\ paidIn + amount <= MaxPaidIn
    /\ wallet' = wallet + amount
    /\ paidIn' = paidIn + amount
    /\ UNCHANGED <<clock, subs, charged, lock, saved, visit, overtaken>>

(* A recharge of the account, under its lock (RewardsWallet has the rest).  *)
PayIn(amount) ==
    /\ lock = Nobody
    /\ paidIn + amount <= MaxPaidIn
    /\ wallet' = wallet + amount
    /\ paidIn' = paidIn + amount
    /\ UNCHANGED <<clock, subs, charged, lock, saved, visit,
                   overtaken>>

(* A request begins and reads the clock.  want is Nobody for a visit that   *)
(* only looks at the packages.                                              *)
Ask(v, want) ==
    /\ lock = Nobody
    /\ visit[v].pc = "idle"
    /\ visit' = [visit EXCEPT ![v] =
                   [Idle EXCEPT !.pc = "asked", !.at = clock, !.want = want]]
    /\ UNCHANGED <<clock, database, paidIn, lock, saved, overtaken>>

(* An activation takes the account and keeps the object it read; so does    *)
(* a question set, which reads the clock only then.                         *)
TakeAccount(v) ==
    /\ visit[v].pc = "asked"
    /\ visit[v].want # Nobody
    /\ lock = Nobody
    /\ lock' = v
    /\ saved' = database
    /\ visit' = [visit EXCEPT
                   ![v].pc = "holding",
                   ![v].at = IF visit[v].want = CreateQuestions
                               THEN clock ELSE @,
                   ![v].balance = wallet]
    /\ UNCHANGED <<clock, database, paidIn, overtaken>>

(* v has no more to wait for: a visit works between the transactions of     *)
(* others, an activation inside its own.                                    *)
Turn(v) == lock = IF visit[v].want = Nobody THEN Nobody ELSE v

Arrived(v) ==
    /\ Turn(v)
    /\ visit[v].pc = IF visit[v].want = Nobody THEN "asked" ELSE "holding"

(* The Free rows the account has never had, before it reads its rows.       *)
ProvisionFree(v) ==
    LET n == Cardinality(FreeMissing) IN
    /\ Arrived(v)
    /\ FreeMissing # {}
    /\ Len(subs) + n <= MaxRows
    /\ \E order \in [1..n -> FreeMissing] :
          /\ \A p \in FreeMissing : \E k \in 1..n : order[k] = p
          /\ subs' = subs \o
                [k \in 1..n |->
                   NewRow(order[k], FreeStatus, visit[v].at, 0, 0)]
    /\ UNCHANGED <<clock, wallet, charged, paidIn, lock, saved, visit,
                   overtaken>>

(* The rows v is going to settle.  An activation goes through them twice:   *)
(* for the track of its plan and for the combined one.                      *)
ListRows(v) ==
    /\ Arrived(v) /\ FreeMissing = {}
    /\ visit' = [visit EXCEPT ![v].pc = "settling",
                              ![v].todo = Visible(visit[v].at)]
    /\ UNCHANGED <<clock, database, paidIn, lock, saved, overtaken>>

ListAgain(v) ==
    /\ visit[v].pc = "settling" /\ visit[v].todo = {}
    /\ visit[v].want \in Plans
    /\ visit' = [visit EXCEPT ![v].pc = "again",
                              ![v].todo = Visible(visit[v].at)]
    /\ UNCHANGED <<clock, database, paidIn, lock, saved, overtaken>>

---------------------------------------------------------------------------
(* process_subscription_renewal: v settles the newest row it has to settle. *)

Settling(v, i) ==
    /\ visit[v].pc \in {"settling", "again"}
    /\ Turn(v)
    /\ visit[v].todo # {}
    /\ i = Newest(visit[v].todo)
    /\ visit' = [visit EXCEPT ![v].todo = @ \ {i}]
    /\ UNCHANGED <<clock, paidIn, lock, saved, overtaken>>

Renewed(i) == \E j \in Rows : subs[j].prev = i
Live(i) == ~Renewed(i) /\ Open(subs[i])
GraceOver(i, at) == subs[i].status = "grace" /\ at > subs[i].graceEnds

(* The newest open combined row, if any, gives access.                      *)
Covered(i, at) ==
    LET combined == {j \in Visible(at) : ~Individual(subs[j].plan)} IN
    /\ Individual(subs[i].plan)
    /\ combined # {}
    /\ Access(subs[Newest(combined)], at)

Resting(i, at) ==
    subs[i].tried # 0 /\ at < subs[i].tried + RetryInterval

DueEarly(i, at) ==
    /\ Live(i)
    /\ ~GraceOver(i, at)
    /\ ~Free(subs[i].plan)
    /\ subs[i].ends <= at + 1

(* The period of row i is over and something has to happen to it.           *)
Due(i, at) ==
    /\ Live(i)
    /\ ~GraceOver(i, at)
    /\ ~Free(subs[i].plan)
    /\ subs[i].ends <= at

Chargeable(i, at) ==
    /\ Due(i, at)
    /\ ~Covered(i, at)
    /\ subs[i].auto
    /\ ~Resting(i, at)

FreeOver(i, at) ==
    /\ Live(i)
    /\ Free(subs[i].plan)
    /\ subs[i].ends + GracePeriod < at

Close(i, status, auto) ==
    /\ subs' = [subs EXCEPT ![i].status = status, ![i].auto = auto]
    /\ UNCHANGED <<wallet, charged>>

CancelAfterGrace(v, i) ==
    /\ Settling(v, i)
    /\ Live(i)
    /\ GraceOver(i, visit[v].at)
    /\ Close(i, "cancelled", subs[i].auto)

ExpireFree(v, i) ==
    /\ Settling(v, i)
    /\ FreeOver(i, visit[v].at)
    /\ Close(i, "expired", subs[i].auto)

ExpireCovered(v, i) ==
    /\ Settling(v, i)
    /\ Due(i, visit[v].at)
    /\ Covered(i, visit[v].at)
    /\ Close(i, "expired", FALSE)

ExpireUnrenewed(v, i) ==
    /\ Settling(v, i)
    /\ Due(i, visit[v].at)
    /\ ~Covered(i, visit[v].at)
    /\ ~subs[i].auto
    /\ Close(i, "expired", FALSE)

(* Slips of a renewal, for the checks of the properties below.              *)
RenewUnpaid(v, i, charge) ==
    LET at == visit[v].at IN
    /\ Settling(v, i)
    /\ Chargeable(i, at)
    /\ Len(subs) < MaxRows
    /\ wallet' = wallet - charge
    /\ charged' = charged + charge
    /\ subs' = Append([subs EXCEPT ![i].status = "expired"],
                      NewRow(subs[i].plan, "active", at, charge, i))

RenewStaying(v, i, charge) ==
    LET at == visit[v].at IN
    /\ Settling(v, i)
    /\ Chargeable(i, at)
    /\ wallet >= charge
    /\ Len(subs) < MaxRows
    /\ wallet' = wallet - charge
    /\ charged' = charged + charge
    /\ subs' = Append([subs EXCEPT ![i].tried = at],
                      NewRow(subs[i].plan, "active", at, charge, i))

Renew(v, i, charge) ==
    LET at == visit[v].at IN
    /\ Settling(v, i)
    /\ Chargeable(i, at)
    /\ charge \in Renewals[subs[i].plan]
    /\ wallet >= charge
    /\ Len(subs) < MaxRows
    /\ wallet' = wallet - charge
    /\ charged' = charged + charge
    /\ subs' = Append([subs EXCEPT ![i].status = "expired",
                                   ![i].auto = FALSE,
                                   ![i].tried = at],
                      NewRow(subs[i].plan, "active", at, charge, i))

FailRenewal(v, i, charge) ==
    LET at == visit[v].at
        since == IF subs[i].grace = 0 THEN at ELSE subs[i].grace IN
    /\ Settling(v, i)
    /\ Chargeable(i, at)
    /\ charge \in Renewals[subs[i].plan]
    /\ wallet < charge
    /\ subs' = [subs EXCEPT
                  ![i].status = "grace",
                  ![i].tried = at,
                  ![i].fails = @ + 1,
                  ![i].grace = since,
                  ![i].graceEnds = IF @ = 0 THEN since + GracePeriod ELSE @]
    /\ UNCHANGED <<wallet, charged>>

LeaveRow(v, i) ==
    LET at == visit[v].at IN
    /\ Settling(v, i)
    /\ ~(Live(i) /\ GraceOver(i, at))
    /\ ~FreeOver(i, at)
    /\ Due(i, at) => ~Covered(i, at) /\ subs[i].auto /\ Resting(i, at)
    /\ UNCHANGED database

Settle(v) ==
    \E i \in Rows :
        \/ CancelAfterGrace(v, i)
        \/ ExpireFree(v, i)
        \/ ExpireCovered(v, i)
        \/ ExpireUnrenewed(v, i)
        \/ LeaveRow(v, i)
        \/ \E charge \in Renewals[subs[i].plan] :
              Renew(v, i, charge) \/ FailRenewal(v, i, charge)

(* The request has seen its packages, or dies between two of them.          *)
EndVisit(v) ==
    /\ lock = Nobody
    /\ visit[v].pc # "idle"
    /\ visit[v].want = Nobody
    /\ visit' = [visit EXCEPT ![v] = Idle]
    /\ UNCHANGED <<clock, database, paidIn, lock, saved, overtaken>>

---------------------------------------------------------------------------
(* The transactions that charge coins themselves.                           *)

Release(v) ==
    /\ lock' = Nobody
    /\ saved' = <<>>
    /\ visit' = [visit EXCEPT ![v] = Idle]
    /\ UNCHANGED <<clock, paidIn>>

RollBack(v) ==
    /\ wallet' = saved[1]
    /\ subs' = saved[2]
    /\ charged' = saved[3]
    /\ UNCHANGED overtaken
    /\ Release(v)

(* An exception or the end of the process inside the transaction.           *)
Interrupted(v) == lock = v /\ RollBack(v)

(* The plan v activates, the row in use on its track, and what it costs.    *)
Activating(v) ==
    lock = v /\ visit[v].pc = "again" /\ visit[v].todo = {}

CurrentRows(v) == InUse(TrackOf[visit[v].want], visit[v].at)
UsedUp(v) == CurrentRows(v) # {} /\ subs[Best(CurrentRows(v))].usedUp

Included(v) ==
    /\ Individual(visit[v].want)
    /\ InUse("combined", visit[v].at) # {}

Same(v) ==
    /\ CurrentRows(v) # {}
    /\ subs[Best(CurrentRows(v))].plan = visit[v].want
    /\ ~UsedUp(v)

FreeTaken(v) ==
    /\ Free(visit[v].want)
    /\ UsedUp(v) \/ \E i \in Rows : Free(subs[i].plan)

Payable(v) ==
    LET p == visit[v].want  current == CurrentRows(v) IN
    IF \/ current = {}
       \/ RankOf[p] > RankOf[subs[Best(current)].plan]
       \/ UsedUp(v)
    THEN PriceOf[p] ELSE 0

Activates(v) ==
    /\ Activating(v)
    /\ ~Included(v) /\ ~Same(v)

KeepPackage(v) ==
    /\ Activating(v)
    /\ Included(v) \/ Same(v)
    /\ UNCHANGED <<database, overtaken>>
    /\ Release(v)

RefuseActivation(v) ==
    /\ Activates(v)
    /\ FreeTaken(v) \/ Payable(v) > visit[v].balance
    /\ RollBack(v)

SupersedesFree(i, p, current) ==
    ~Free(p) /\ Free(subs[i].plan) /\ Open(subs[i])

(* What an activation of p does to the row r = subs[i] it replaces or       *)
(* covers; current is the set of the row in use on the track of p.          *)
Superseded(i, p, current) ==
    \/ i \in current
    \/ ~Free(p) /\ Free(subs[i].plan) /\ Open(subs[i])

TakenOver(r, p) ==
    /\ ~Individual(p)
    /\ Individual(r.plan)
    /\ Open(r)

Replaced(i, p, current) ==
    LET r == subs[i] IN
    IF Superseded(i, p, current)
    THEN [r EXCEPT !.status = "superseded", !.auto = FALSE]
    ELSE IF TakenOver(r, p) THEN [r EXCEPT !.auto = FALSE] ELSE r

(* An open row of the track, or one that includes it, is from the future.   *)
Overtaken(p, at) ==
    \E i \in Rows : /\ Open(subs[i])
                     /\ TrackOf[subs[i].plan] \in {TrackOf[p], "combined"}
                     /\ subs[i].starts > at

(* The wallet is written back from the object the activation locked first,  *)
(* whatever the renewals inside it have charged since.  A change that costs *)
(* nothing takes the used units along, which may be all the new plan has.   *)
Activate(v) ==
    LET p == visit[v].want
        at == visit[v].at
        current == IF CurrentRows(v) = {} THEN {} ELSE {Best(CurrentRows(v))}
        payable == Payable(v) IN
    /\ Activates(v)
    /\ ~FreeTaken(v)
    /\ payable <= visit[v].balance
    /\ Len(subs) < MaxRows
    /\ wallet' = IF payable > 0 THEN visit[v].balance - payable ELSE wallet
    /\ charged' = charged + payable
    /\ \E used \in BOOLEAN :
          /\ used => current # {} /\ payable = 0
          /\ subs' = Append([i \in Rows |-> Replaced(i, p, current)],
                            [NewRow(p, "active", at, payable, 0)
                               EXCEPT !.usedUp = used])
    /\ overtaken' = (overtaken \/ Overtaken(p, at))
    /\ Release(v)

(* A question set: packages cover it, coins do, or the coins pay for what   *)
(* a package leaves; else it is refused.                                    *)
Saving(v) ==
    /\ lock = v /\ visit[v].pc = "settling" /\ visit[v].todo = {}
    /\ visit[v].want = CreateQuestions

Usable(at) ==
    {i \in Rows : /\ subs[i].starts <= at
                  /\ Access(subs[i], at)
                  /\ ~subs[i].usedUp}

(* Units of some of these rows are used; for the rows in full it was the    *)
(* last one.                                                                *)
TakeUnits(full) ==
    subs' = [i \in Rows |->
               [subs[i] EXCEPT !.usedUp = @ \/ i \in full]]

SaveWithPackage(v) ==
    /\ Saving(v)
    /\ Usable(visit[v].at) # {}
    /\ \E full \in SUBSET Usable(visit[v].at) : TakeUnits(full)
    /\ UNCHANGED <<wallet, charged, overtaken>>
    /\ Release(v)

SaveWithCoins(v, debit) ==
    /\ Saving(v)
    /\ debit <= visit[v].balance
    /\ wallet' = visit[v].balance - debit
    /\ charged' = charged + debit
    /\ \E full \in SUBSET Usable(visit[v].at) : TakeUnits(full)
    /\ UNCHANGED overtaken
    /\ Release(v)

RefuseQuestions(v, debit) ==
    /\ Saving(v)
    /\ debit > visit[v].balance
    /\ RollBack(v)

PackageStep(v) ==
    \/ \E want \in Plans \cup {Nobody, CreateQuestions} : Ask(v, want)
    \/ TakeAccount(v)
    \/ ProvisionFree(v)
    \/ ListRows(v)
    \/ ListAgain(v)
    \/ Settle(v)
    \/ EndVisit(v)
    \/ Interrupted(v)
    \/ KeepPackage(v)
    \/ RefuseActivation(v)
    \/ Activate(v)
    \/ SaveWithPackage(v)
    \/ \E debit \in Debits :
          SaveWithCoins(v, debit) \/ RefuseQuestions(v, debit)

PackageNext ==
    \/ Tick
    \/ \E amount \in Recharges : PayIn(amount)
    \/ \E v \in Visits : PackageStep(v)

PackageSpec == PackageInit /\ [][PackageNext]_packageVars

---------------------------------------------------------------------------
(* A row has at most one successor, and it is over when it has one.         *)
OneSuccessor ==
    \A i, j \in Rows :
        subs[j].prev = i => /\ ~Open(subs[i])
                            /\ i < j
                            /\ \A k \in Rows : subs[k].prev = i => k = j

(* A charge that failed is retried within the grace period that began with  *)
(* the first failure, and at most once per RETRY_INTERVAL.                  *)
GraceBounded ==
    \A i \in Rows :
        LET r == subs[i] IN
        r.fails > 0 =>
            /\ r.grace >= r.ends
            /\ r.graceEnds = r.grace + GracePeriod
            /\ r.tried >= r.grace + (r.fails - 1) * RetryInterval
            /\ r.tried <= r.graceEnds

(* A period is charged in turn, although every request of the account may   *)
(* renew it: it is renewed once, and a renewal that fails is tried again at *)
(* most once per RETRY_INTERVAL, and only within its grace period.          *)
ChargedInTurn == OneSuccessor /\ GraceBounded

(* A package that is open is taken from its owner only when its period is   *)
(* over, or by an activation that leaves another open row in its place.     *)
PaidPeriodKept ==
    [][\A i \in Rows \cap DOMAIN subs' :
         (Open(subs[i]) /\ ~Open(subs'[i])) =>
            \/ clock >= subs[i].ends
            \/ \E j \in DOMAIN subs' \ Rows :
                  /\ subs'[j].status = "active"
                  /\ \/ Free(subs[i].plan)
                     \/ TrackOf[subs'[j].plan] = TrackOf[subs[i].plan]
      ]_packageVars

(* Under an open combined package no individual package will be renewed.    *)
CoveredNotRenewed ==
    \A i, j \in Rows :
        /\ Open(subs[i]) /\ ~Individual(subs[i].plan)
        /\ Open(subs[j]) /\ Individual(subs[j].plan)
        => ~subs[j].auto

(* A track has one open package.                                            *)
OneOpenPerTrack ==
    \A i, j \in Rows :
        /\ Open(subs[i]) /\ Open(subs[j])
        /\ TrackOf[subs[i].plan] = TrackOf[subs[j].plan]
        => i = j

(* The tracks stay separate, one open package each, and none of them is     *)
(* charged beside the combined one, unless an activation waited for the     *)
(* account while another one, with a later clock, was served.               *)
TracksSeparate == ~overtaken => CoveredNotRenewed /\ OneOpenPerTrack

(* The account never pays more coins than its packages and question sets    *)
(* have cost.                                                               *)
NotOvercharged == wallet + charged >= paidIn
=============================================================================
