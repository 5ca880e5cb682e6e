------------------------ MODULE PackageRenewalProofs ------------------------
(***************************************************************************)
(* What the package rows and the coins promise for any plans, prices and   *)
(* clocks, and any interleaving of the account's requests.                 *)
(***************************************************************************)
EXTENDS PackageRenewal, FiniteSetTheorems, SequenceTheorems,
        WellFoundedInduction, TLAPS

(* A row that has failed to renew is in the grace period that began with    *)
(* the first failure, and no failure came before the interval was over.     *)
RowOK(r) ==
    /\ r.ends >= 1
    /\ r.fails = 0 => r.grace = 0 /\ r.graceEnds = 0 /\ r.status # "grace"
    /\ r.fails > 0 => /\ r.grace >= r.ends
                      /\ r.graceEnds = r.grace + GracePeriod
                      /\ r.tried >= r.grace + (r.fails - 1) * RetryInterval
                      /\ r.tried <= r.graceEnds
                      /\ r.status # "active"

(* A predecessor is an earlier row, is over and has one successor.          *)
Succession(s) ==
    \A i, j \in DOMAIN s :
        s[j].prev = i => /\ ~Open(s[i])
                         /\ i < j
                         /\ \A k \in DOMAIN s : s[k].prev = i => k = j

RowsOK(s) ==
    /\ s \in Seq(Row)
    /\ \A i \in DOMAIN s : RowOK(s[i]) /\ s[i].prev < i
    /\ Succession(s)

(* From s to t rows are added and closed, none is opened again.             *)
Grows(s, t) ==
    /\ Len(s) <= Len(t)
    /\ \A i \in DOMAIN s : Open(t[i]) => Open(s[i])

(* What the transaction of v holds and may restore.                         *)
HeldOK(v) ==
    /\ visit[v].pc \notin {"idle", "asked"}
    /\ visit[v].want # Nobody
    /\ wallet <= visit[v].balance
    /\ saved[1] \in Nat /\ saved[3] \in Nat
    /\ saved[1] + saved[3] >= paidIn
    /\ RowsOK(saved[2])
    /\ Grows(saved[2], subs)

VisitRow ==
    [pc : {"idle", "asked", "holding", "settling", "again"},
     at : Nat, todo : SUBSET Nat, balance : Nat,
     want : Plans \cup {Nobody, CreateQuestions}]

(* A request read the clock when it began and activates a plan only if it   *)
(* lists its rows again.                                                    *)
VisitOK(x) ==
    /\ x \in VisitRow
    /\ x.at <= clock
    /\ x.pc # "idle" => x.at >= 1
    /\ x.pc = "again" => x.want \in Plans

ClocksOK ==
    /\ clock >= 1
    /\ \A v \in Visits : VisitOK(visit[v])

PackInv ==
    /\ PackageTypeOK
    /\ ClocksOK
    /\ RowsOK(subs)
    /\ NotOvercharged
    /\ lock # Nobody => HeldOK(lock)
---------------------------------------------------------------------------
(* The best of some rows is one of them.                                    *)

LEMMA LeastOne ==
  ASSUME NEW S \in SUBSET Nat, S # {}
  PROVE  \E m \in S : \A n \in S : m <= n
<1> DEFINE R == {ss \in Nat \X Nat : ss[1] < ss[2]}
<1>1. IsWellFoundedOn(R, Nat)
  BY NatLessThanWellFounded DEF OpToRel
<1>2. \E x \in S : \A y \in S : ~ (<<y, x>> \in R)
  BY <1>1, WFMin
<1>3. PICK x \in S : \A y \in S : ~ (<<y, x>> \in R)
  BY <1>2
<1>4. ASSUME NEW y \in S PROVE x <= y
  <2>1. <<y, x>> \in Nat \X Nat /\ <<y, x>>[1] = y /\ <<y, x>>[2] = x
    OBVIOUS
  <2>2. ~ (y < x)
    BY <1>3, <2>1
  <2> QED BY <2>2
<1> QED BY <1>4

LEMMA RowsFinite ==
  ASSUME subs \in Seq(Row), NEW S \in SUBSET Rows
  PROVE  IsFiniteSet(S) /\ Cardinality(S) \in Nat
<1>1. Rows = 1..Len(subs) /\ Len(subs) \in Nat
  BY DEF Rows
<1>2. IsFiniteSet(Rows)
  BY <1>1, FS_Interval
<1> QED BY <1>2, FS_Subset, FS_CardinalityType

LEMMA BetterOrder ==
  ASSUME PackageTypeOK
  PROVE  /\ \A i \in Rows : ~Better(i, i)
         /\ \A i, j \in Rows : i # j => Better(i, j) \/ Better(j, i)
         /\ \A i, j, k \in Rows : Better(i, j) /\ Better(j, k) => Better(i, k)
<1>1. \A i \in Rows : /\ i \in Nat /\ subs[i].starts \in Nat
                      /\ RankOf[subs[i].plan] \in Nat
  <2>1. Rows \subseteq Nat /\ \A i \in Rows : subs[i] \in Row
    BY DEF PackageTypeOK, Rows
  <2>2. \A r \in Row : r.starts \in Nat /\ RankOf[r.plan] \in Nat
    BY PlanAssumption DEF Row
  <2> QED BY <2>1, <2>2
<1> QED BY <1>1 DEF Better

LEMMA BestIn ==
  ASSUME PackageTypeOK, NEW S \in SUBSET Rows, S # {}
  PROVE  Best(S) \in S
<1> DEFINE Above(i) == {j \in S : Better(j, i)}
           Counts == {Cardinality(Above(i)) : i \in S}
<1>1. \A i \in S : /\ Above(i) \in SUBSET Rows /\ IsFiniteSet(Above(i))
                   /\ Cardinality(Above(i)) \in Nat
  BY RowsFinite DEF PackageTypeOK
<1>2. PICK m \in Counts : \A n \in Counts : m <= n
  <2>1. Counts \in SUBSET Nat /\ Counts # {}
    BY <1>1
  <2> HIDE DEF Counts
  <2> QED BY <2>1, LeastOne
<1>3. PICK x \in S : m = Cardinality(Above(x))
  BY <1>2
<1>4. ASSUME NEW y \in S \ {x} PROVE Better(x, y)
  <2> SUFFICES ASSUME Better(y, x) PROVE FALSE
    BY BetterOrder
  <2>1. Above(y) \in SUBSET Above(x)
    BY BetterOrder
  <2>2. y \in Above(x) /\ y \notin Above(y)
    BY BetterOrder
  <2>3. Cardinality(Above(x)) <= Cardinality(Above(y))
    BY <1>2, <1>3
  <2>4. /\ Cardinality(Above(y)) <= Cardinality(Above(x))
        /\ Cardinality(Above(x)) = Cardinality(Above(y))
              => Above(x) = Above(y)
    <3> HIDE DEF Above
    <3> QED BY <1>1, <2>1, FS_Subset
  <2> HIDE DEF Above
  <2> QED BY <1>1, <2>2, <2>3, <2>4
<1> QED BY <1>4 DEF Best

---------------------------------------------------------------------------
(* How a step may change the rows.                                          *)

LEMMA RowAt ==
  ASSUME NEW s \in Seq(Row), NEW i \in DOMAIN s
  PROVE  s[i] \in Row
OBVIOUS

(* The same about indices alone: p[j] is the predecessor of j among the     *)
(* first m rows, q[j] among the first n; old and new are the open ones.     *)
LEMMA SuccessorsKept ==
  ASSUME NEW m \in Nat, NEW n \in Nat, m <= n,
         NEW p, NEW q, NEW old, NEW new,
         \A j \in 1..n : q[j] \in Nat,
         \A i \in 1..m : p[i] < i /\ q[i] = p[i] /\ (i \in new => i \in old),
         \A j \in 1..n :
            j \notin 1..m =>
               \/ q[j] = 0
               \/ /\ n = m + 1
                  /\ q[j] \in 1..m /\ q[j] \notin new
                  /\ \A i \in 1..m : p[i] # q[j],
         \A i, j \in 1..m :
            p[j] = i => i \notin old /\ \A k \in 1..m : p[k] = i => k = j
  PROVE  /\ \A j \in 1..n : q[j] < j
         /\ \A i, j \in 1..n :
               q[j] = i => /\ i \notin new
                           /\ i < j
                           /\ \A k \in 1..n : q[k] = i => k = j
<1>1. ASSUME NEW j \in 1..n PROVE q[j] < j
  <2>1. CASE j \in 1..m
    BY <2>1
  <2>2. CASE j \notin 1..m
    BY <2>2
  <2> QED BY <2>1, <2>2
<1>2. ASSUME NEW i \in 1..n, NEW j \in 1..n, q[j] = i
      PROVE  /\ i \notin new
             /\ \A k \in 1..n : q[k] = i => k = j
  <2>1. CASE j \in 1..m
    <3>1. i \in 1..m /\ p[j] = i
      BY <1>1, <1>2, <2>1
    <3>2. ASSUME NEW k \in 1..n, q[k] = i PROVE k = j
      <4>1. k \in 1..m
        BY <1>2, <2>1, <3>1, <3>2
      <4> QED BY <2>1, <3>1, <3>2, <4>1
    <3> QED BY <2>1, <3>1, <3>2
  <2>2. CASE j \notin 1..m
    <3>1. /\ n = m + 1 /\ i \notin new /\ \A k \in 1..m : p[k] # i
      BY <1>2, <2>2
    <3>2. ASSUME NEW k \in 1..n, q[k] = i PROVE k = j
      <4>1. k \notin 1..m
        BY <3>1, <3>2
      <4> QED BY <2>2, <3>1, <4>1
    <3> QED BY <3>1, <3>2
  <2> QED BY <2>1, <2>2
<1> QED BY <1>1, <1>2

(* The rows t follow the rows s: what was there keeps its predecessor and   *)
(* is not opened again; what is new has none, or is the one new row and     *)
(* follows a closed row that had no successor.                              *)
Follows(s, t) ==
    /\ t \in Seq(Row)
    /\ Len(s) <= Len(t)
    /\ \A j \in DOMAIN t : RowOK(t[j])
    /\ \A i \in DOMAIN s :
          /\ t[i].prev = s[i].prev
          /\ Open(t[i]) => Open(s[i])
    /\ \A j \in DOMAIN t \ DOMAIN s :
          \/ t[j].prev = 0
          \/ /\ Len(t) = Len(s) + 1
             /\ t[j].prev \in DOMAIN s /\ ~Open(t[t[j].prev])
             /\ \A i \in DOMAIN s : s[i].prev # t[j].prev

LEMMA RowsKept ==
  ASSUME NEW s, RowsOK(s), NEW t, Follows(s, t)
  PROVE  RowsOK(t) /\ Grows(s, t)
<1> DEFINE m == Len(s)
           n == Len(t)
           p == [i \in 1..m |-> s[i].prev]
           q == [i \in 1..n |-> t[i].prev]
           old == {i \in 1..m : Open(s[i])}
           new == {i \in 1..n : Open(t[i])}
<1>1. s \in Seq(Row) /\ t \in Seq(Row)
  BY DEF RowsOK, Follows
<1>2. /\ DOMAIN s = 1..m /\ DOMAIN t = 1..n /\ m \in Nat /\ n \in Nat
      /\ m <= n
  BY <1>1 DEF Follows
<1>3. \A j \in 1..n : q[j] \in Nat
  BY <1>1, <1>2, RowAt DEF Row
<1>4. \A i \in 1..m : p[i] < i /\ q[i] = p[i] /\ (i \in new => i \in old)
  <2>1. 1..m \subseteq 1..n
    BY <1>2
  <2>2. \A i \in DOMAIN s : s[i].prev < i
    BY DEF RowsOK
  <2>3. \A i \in DOMAIN s :
           t[i].prev = s[i].prev /\ (Open(t[i]) => Open(s[i]))
    BY DEF Follows
  <2> HIDE DEF m, n
  <2> QED BY <1>2, <2>1, <2>2, <2>3
<1>5. \A j \in 1..n :
         j \notin 1..m =>
            \/ q[j] = 0
            \/ /\ n = m + 1
               /\ q[j] \in 1..m /\ q[j] \notin new
               /\ \A i \in 1..m : p[i] # q[j]
  <2>1. n = m + 1 <=> Len(t) = Len(s) + 1
    OBVIOUS
  <2> HIDE DEF m, n
  <2> QED BY <1>2, <2>1 DEF Follows
<1>6. \A i, j \in 1..m :
         p[j] = i => i \notin old /\ \A k \in 1..m : p[k] = i => k = j
  <2> HIDE DEF m
  <2> QED BY <1>2 DEF RowsOK, Succession
<1>7. /\ \A j \in 1..n : q[j] < j
      /\ \A i, j \in 1..n :
            q[j] = i => /\ i \notin new
                        /\ i < j
                        /\ \A k \in 1..n : q[k] = i => k = j
  <2> HIDE DEF m, n, p, q, old, new
  <2> QED BY <1>2, <1>3, <1>4, <1>5, <1>6, SuccessorsKept
<1>8. Grows(s, t)
  <2> HIDE DEF m, n, p, q, old, new
  <2> QED BY <1>1 DEF Grows, Follows
<1>9. RowsOK(t)
  <2> HIDE DEF m, n
  <2> QED BY <1>1, <1>2, <1>7 DEF RowsOK, Follows, Succession
<1> QED BY <1>8, <1>9

LEMMA GrowsOn ==
  ASSUME NEW r \in Seq(Row), NEW s \in Seq(Row), NEW t \in Seq(Row),
         Grows(r, s), Grows(s, t)
  PROVE  Grows(r, t)
BY DEF Grows

(* A row that is edited in place.                                           *)
LEMMA RowEdited ==
  ASSUME NEW s, RowsOK(s), NEW i \in DOMAIN s, NEW r \in Row, RowOK(r),
         r.prev = s[i].prev, Open(r) => Open(s[i])
  PROVE  RowsOK([s EXCEPT ![i] = r]) /\ Grows(s, [s EXCEPT ![i] = r])
<1> DEFINE t == [s EXCEPT ![i] = r]
<1>1. s \in Seq(Row) /\ \A j \in DOMAIN s : RowOK(s[j])
  BY DEF RowsOK
<1>2. /\ t \in Seq(Row) /\ Len(t) = Len(s) /\ DOMAIN t = DOMAIN s
      /\ t[i] = r /\ \A j \in DOMAIN s \ {i} : t[j] = s[j]
  BY <1>1
<1> HIDE DEF t
<1>3. Follows(s, t)
  <2>1. Len(s) <= Len(t) /\ DOMAIN t \ DOMAIN s = {}
    BY <1>1, <1>2
  <2>2. \A j \in DOMAIN s :
           /\ RowOK(t[j]) /\ t[j].prev = s[j].prev
           /\ Open(t[j]) => Open(s[j])
    BY <1>1, <1>2
  <2> QED BY <1>2, <2>1, <2>2 DEF Follows
<1>4. RowsOK(t) /\ Grows(s, t)
  BY <1>3, RowsKept
<1> QED BY <1>4 DEF t

LEMMA NewRowOK ==
  ASSUME NEW p \in Plans, NEW status \in {"active", "superseded"},
         NEW at \in Nat, NEW payable \in Nat, NEW prev \in Nat
  PROVE  /\ NewRow(p, status, at, payable, prev) \in Row
         /\ RowOK(NewRow(p, status, at, payable, prev))
         /\ NewRow(p, status, at, payable, prev).prev = prev
         /\ NewRow(p, status, at, payable, prev).status = status
         /\ NewRow(p, status, at, payable, prev).plan = p
<1>1. (PriceOf[p] > 0) \in BOOLEAN
  BY PlanAssumption
<1>2. at + Period \in Nat /\ at + Period >= 1
  BY TimeAssumption
<1> DEFINE auto == PriceOf[p] > 0
           ends == at + Period
<1>3. NewRow(p, status, at, payable, prev) =
        [plan |-> p, status |-> status, starts |-> at, ends |-> ends,
         auto |-> auto, payable |-> payable, prev |-> prev,
         tried |-> 0, fails |-> 0, grace |-> 0, graceEnds |-> 0,
         usedUp |-> FALSE]
  BY DEF NewRow
<1>4. ends \in Nat /\ ends >= 1 /\ auto \in BOOLEAN
  BY <1>1, <1>2
<1> HIDE DEF auto, ends
<1> QED BY <1>3, <1>4 DEF Row, RowOK, Statuses

---------------------------------------------------------------------------
(* process_subscription_renewal.                                            *)

(* Rows close, as far as the clock is concerned, only when they are over.   *)
ClosedInTime(s, t) ==
    \A i \in DOMAIN s : Open(s[i]) /\ ~Open(t[i]) => s[i].ends <= clock

LEMMA RowFacts ==
  ASSUME PackInv, NEW i \in Rows
  PROVE  /\ i \in Nat /\ i # 0 /\ i \in DOMAIN subs
         /\ subs[i] \in Row /\ RowOK(subs[i])
         /\ subs \in Seq(Row) /\ RowsOK(subs)
<1>1. RowsOK(subs) /\ subs \in Seq(Row)
  BY DEF PackInv, RowsOK
<1>2. i \in 1..Len(subs)
  BY <1>1 DEF Rows
<1> QED BY <1>1, <1>2, RowAt DEF RowsOK, Rows

LEMMA EditData ==
  ASSUME PackInv, NEW i \in Rows, NEW r \in Row, RowOK(r),
         r.prev = subs[i].prev,
         Open(r) => Open(subs[i]),
         Open(subs[i]) /\ ~Open(r) => subs[i].ends <= clock,
         subs' = [subs EXCEPT ![i] = r]
  PROVE  RowsOK(subs') /\ Grows(subs, subs') /\ ClosedInTime(subs, subs')
<1>1. RowsOK(subs') /\ Grows(subs, subs')
  BY RowEdited, RowFacts
<1>2. \A k \in DOMAIN subs : k # i => subs'[k] = subs[k]
  BY RowFacts
<1>3. subs'[i] = r
  BY RowFacts
<1> QED BY <1>1, <1>2, <1>3 DEF ClosedInTime

LEMMA CloseData ==
  ASSUME PackInv, NEW i \in Rows, NEW auto \in BOOLEAN,
         NEW status \in {"cancelled", "expired"},
         Close(i, status, auto), subs[i].ends <= clock
  PROVE  RowsOK(subs') /\ Grows(subs, subs') /\ ClosedInTime(subs, subs')
<1> DEFINE r == [subs[i] EXCEPT !.status = status, !.auto = auto]
<1>1. subs[i] \in Row /\ RowOK(subs[i])
  BY RowFacts
<1>2. r \in Row /\ RowOK(r) /\ r.prev = subs[i].prev /\ ~Open(r)
  BY <1>1 DEF Row, RowOK, Statuses, Open
<1>3. subs' = [subs EXCEPT ![i] = r]
  BY DEF Close
<1> HIDE DEF r
<1> QED BY <1>2, <1>3, EditData

(* The one place where the retry interval is multiplied.                    *)
LEMMA OneMoreInterval ==
  ASSUME NEW f \in Nat \ {0}
  PROVE  /\ (f - 1) * RetryInterval \in Nat
         /\ ((f + 1) - 1) * RetryInterval
              = (f - 1) * RetryInterval + RetryInterval
BY TimeAssumption

(* What is known when a renewal is tried.                                   *)
LEMMA TriedInGrace ==
  ASSUME PackInv, NEW v \in Visits, visit[v].pc # "idle",
         NEW i \in Rows, Chargeable(i, visit[v].at)
  PROVE  LET r == subs[i]  at == visit[v].at IN
         /\ Open(r) /\ r.ends <= at /\ at <= clock /\ at \in Nat /\ at >= 1
         /\ r.fails > 0 =>
               /\ r.status = "grace" /\ r.grace >= 1
               /\ at <= r.graceEnds
               /\ at >= r.tried + RetryInterval
<1> DEFINE r == subs[i]
           at == visit[v].at
<1>1. /\ r \in Row /\ RowOK(r)
  BY RowFacts
<1>2. /\ at \in Nat /\ at <= clock /\ at >= 1
  BY DEF PackInv, ClocksOK, VisitOK, VisitRow
<1>3. /\ Open(r) /\ ~GraceOver(i, at) /\ r.ends <= at /\ ~Resting(i, at)
  BY DEF Chargeable, Due, Live
<1>4. ASSUME r.fails > 0
      PROVE  /\ r.status = "grace" /\ r.grace >= 1
             /\ at <= r.graceEnds
             /\ at >= r.tried + RetryInterval
  <2>1. r.status = "grace"
    BY <1>1, <1>3, <1>4 DEF RowOK, Open
  <2>2. /\ r.grace \in Nat /\ r.ends \in Nat /\ r.graceEnds \in Nat
        /\ r.tried \in Nat /\ r.fails \in Nat \ {0}
    BY <1>1, <1>4 DEF Row
  <2>3. r.grace >= 1
    BY <1>1, <1>4, <2>2 DEF RowOK
  <2>4. at <= r.graceEnds
    BY <1>2, <1>3, <2>1, <2>2 DEF GraceOver
  <2>5. r.tried >= r.grace
    <3>1. (r.fails - 1) * RetryInterval \in Nat
      BY <2>2, OneMoreInterval
    <3>2. r.tried >= r.grace + (r.fails - 1) * RetryInterval
      BY <1>1, <1>4 DEF RowOK
    <3> DEFINE d == (r.fails - 1) * RetryInterval
    <3> HIDE DEF d
    <3>3. d \in Nat /\ r.tried >= r.grace + d
      BY <3>1, <3>2 DEF d
    <3> HIDE DEF r
    <3> QED BY <2>2, <3>3
  <2>6. at >= r.tried + RetryInterval
    BY <1>2, <1>3, <2>2, <2>3, <2>5, TimeAssumption DEF Resting
  <2> QED BY <2>1, <2>3, <2>4, <2>6
<1> QED BY <1>2, <1>3, <1>4

LEMMA FailData ==
  ASSUME PackInv, NEW v \in Visits, visit[v].pc # "idle",
         NEW i \in Rows, NEW charge, FailRenewal(v, i, charge)
  PROVE  RowsOK(subs') /\ Grows(subs, subs') /\ ClosedInTime(subs, subs')
<1> DEFINE old == subs[i]
           at == visit[v].at
           since == IF old.grace = 0 THEN at ELSE old.grace
           until == IF old.graceEnds = 0 THEN since + GracePeriod
                                         ELSE old.graceEnds
           n == old.fails + 1
           r == [old EXCEPT !.status = "grace", !.tried = at, !.fails = n,
                            !.grace = since, !.graceEnds = until]
<1>1. subs' = [subs EXCEPT ![i] = r]
  BY DEF FailRenewal
<1>2. /\ Open(old) /\ old.ends <= at /\ at <= clock /\ at \in Nat /\ at >= 1
      /\ old.fails > 0 =>
            /\ old.status = "grace" /\ old.grace >= 1
            /\ at <= old.graceEnds
            /\ at >= old.tried + RetryInterval
  BY TriedInGrace DEF FailRenewal
<1>3. old \in Row /\ RowOK(old)
  BY RowFacts
<1>4. /\ old.fails \in Nat /\ old.grace \in Nat /\ old.graceEnds \in Nat
      /\ old.ends \in Nat /\ old.tried \in Nat
  BY <1>3 DEF Row
<1>5. /\ since \in Nat /\ until \in Nat /\ n \in Nat /\ n > 0
      /\ since >= old.ends /\ until = since + GracePeriod
      /\ at >= since + (n - 1) * RetryInterval /\ at <= until
  <2>1. CASE old.fails = 0
    <3>1. old.grace = 0 /\ old.graceEnds = 0
      BY <1>3, <2>1 DEF RowOK
    <3>2. since = at /\ until = at + GracePeriod /\ n = 1
      BY <2>1, <3>1
    <3>3. (n - 1) * RetryInterval = 0
      BY <3>2, TimeAssumption
    <3> HIDE DEF since, until, n, old, at
    <3> QED BY <1>2, <3>2, <3>3, TimeAssumption
  <2>2. CASE old.fails # 0
    <3>1. /\ old.grace >= old.ends
          /\ old.graceEnds = old.grace + GracePeriod
          /\ old.tried >= old.grace + (old.fails - 1) * RetryInterval
      BY <1>3, <1>4, <2>2 DEF RowOK
    <3>2. /\ old.grace >= 1 /\ at <= old.graceEnds
          /\ at >= old.tried + RetryInterval
      BY <1>2, <1>4, <2>2
    <3>3. /\ (old.fails - 1) * RetryInterval \in Nat
          /\ (n - 1) * RetryInterval
               = (old.fails - 1) * RetryInterval + RetryInterval
      BY <1>4, <2>2, OneMoreInterval
    <3>4. since = old.grace /\ until = old.graceEnds
      BY <1>4, <3>1, <3>2, TimeAssumption
    <3> DEFINE d == (old.fails - 1) * RetryInterval
               m == (n - 1) * RetryInterval
    <3>5. d \in Nat /\ m = d + RetryInterval /\ old.tried >= old.grace + d
      BY <3>1, <3>3
    <3>6. n \in Nat /\ n > 0
      BY <1>4
    <3> HIDE DEF d, since, until, n, old, at
    <3>7. at >= since + m
      <4> HIDE DEF m
      <4> QED BY <1>2, <1>4, <3>2, <3>4, <3>5, TimeAssumption
    <3> QED BY <1>4, <3>1, <3>2, <3>4, <3>6, <3>7
  <2> QED BY <2>1, <2>2
<1> HIDE DEF since, until, n
<1>6. /\ r.status = "grace" /\ r.tried = at /\ r.fails = n
      /\ r.grace = since /\ r.graceEnds = until
      /\ r.ends = old.ends /\ r.prev = old.prev
  BY <1>3 DEF Row
<1>7. r \in Row
  BY <1>2, <1>3, <1>5 DEF Row, Statuses
<1> HIDE DEF r
<1>8. RowOK(r) /\ Open(r)
  <2>1. old.ends >= 1
    BY <1>3 DEF RowOK
  <2>2. n # 0
    BY <1>5
  <2> HIDE DEF old, at
  <2> QED BY <1>5, <1>6, <2>1, <2>2 DEF RowOK, Open
<1> QED BY <1>1, <1>2, <1>6, <1>7, <1>8, EditData

LEMMA RenewData ==
  ASSUME PackInv, NEW v \in Visits, visit[v].pc # "idle",
         NEW i \in Rows, NEW charge, Renew(v, i, charge)
  PROVE  /\ RowsOK(subs') /\ Grows(subs, subs') /\ ClosedInTime(subs, subs')
         /\ wallet' \in Nat /\ charged' \in Nat /\ wallet' <= wallet
         /\ wallet' + charged' = wallet + charged
<1> DEFINE old == subs[i]
           at == visit[v].at
           r == [old EXCEPT !.status = "expired", !.auto = FALSE,
                            !.tried = at]
           t == [subs EXCEPT ![i] = r]
           new == NewRow(old.plan, "active", at, charge, i)
<1>1. subs' = Append(t, new)
  BY DEF Renew
<1>2. /\ Open(old) /\ old.ends <= at /\ at <= clock /\ at \in Nat /\ at >= 1
      /\ old.fails > 0 =>
            /\ old.status = "grace" /\ old.grace >= 1
            /\ at <= old.graceEnds
            /\ at >= old.tried + RetryInterval
  BY TriedInGrace DEF Renew
<1>3. /\ old \in Row /\ RowOK(old) /\ i \in Nat /\ i # 0
      /\ subs \in Seq(Row) /\ RowsOK(subs) /\ i \in DOMAIN subs
  BY RowFacts
<1>4. /\ r \in Row /\ r.status = "expired" /\ r.prev = old.prev
      /\ r.tried = at /\ r.fails = old.fails /\ r.grace = old.grace
      /\ r.graceEnds = old.graceEnds /\ r.ends = old.ends
  BY <1>2, <1>3 DEF Row, Statuses
<1>5. /\ old.fails \in Nat /\ old.grace \in Nat /\ old.graceEnds \in Nat
      /\ old.ends \in Nat /\ old.tried \in Nat /\ old.plan \in Plans
  BY <1>3 DEF Row
<1> HIDE DEF r
<1>6. RowOK(r) /\ ~Open(r)
  <2>1. ~Open(r)
    BY <1>4 DEF Open
  <2>2. CASE old.fails = 0
    <3>1. old.ends >= 1 /\ old.grace = 0 /\ old.graceEnds = 0
      BY <1>3, <2>2 DEF RowOK
    <3>2. /\ r.ends >= 1 /\ r.grace = 0 /\ r.graceEnds = 0
          /\ r.status # "grace" /\ ~(r.fails > 0)
      BY <1>4, <2>2, <3>1
    <3> HIDE DEF old, at
    <3> QED BY <2>1, <3>2 DEF RowOK
  <2>3. CASE old.fails # 0
    <3> DEFINE d == (old.fails - 1) * RetryInterval
    <3>1. old.tried >= old.grace + d /\ d \in Nat
      BY <1>3, <1>5, <2>3, OneMoreInterval DEF RowOK
    <3>2. at >= old.tried /\ at <= old.graceEnds
      BY <1>2, <1>5, <2>3, TimeAssumption
    <3>3. at >= old.grace + d
      <4> HIDE DEF d, at, old
      <4> QED BY <1>2, <1>5, <3>1, <3>2
    <3>4. /\ old.ends >= 1 /\ old.grace >= old.ends
          /\ old.graceEnds = old.grace + GracePeriod
      BY <1>3, <1>5, <2>3 DEF RowOK
    <3>5. (r.fails - 1) * RetryInterval = d
      BY <1>4
    <3>6. /\ r.ends >= 1 /\ r.grace >= r.ends
          /\ r.graceEnds = r.grace + GracePeriod
          /\ r.tried >= r.grace + d
          /\ r.tried <= r.graceEnds
          /\ r.status # "active"
      BY <1>4, <3>2, <3>3, <3>4
    <3>7. r.fails # 0
      BY <1>4, <2>3
    <3> HIDE DEF at, old, d
    <3>8. r.tried >= r.grace + (r.fails - 1) * RetryInterval
      BY <3>5, <3>6
    <3> QED BY <2>1, <3>6, <3>7, <3>8, Zenon DEF RowOK
  <2> QED BY <2>1, <2>2, <2>3
<1>7. charge \in Nat /\ wallet >= charge
  BY <1>5, PlanAssumption DEF Renew
<1>8. new \in Row /\ RowOK(new) /\ new.prev = i
  <2>1. /\ old.plan \in Plans /\ at \in Nat /\ charge \in Nat /\ i \in Nat
        /\ "active" \in {"active", "superseded"}
    BY <1>2, <1>3, <1>5, <1>7
  <2> HIDE DEF old, at
  <2> QED BY <2>1, NewRowOK
<1> HIDE DEF new
<1>9. /\ t \in Seq(Row) /\ Len(t) = Len(subs) /\ DOMAIN t = DOMAIN subs
      /\ t[i] = r /\ \A j \in DOMAIN subs \ {i} : t[j] = subs[j]
  BY <1>3, <1>4
<1> HIDE DEF t
<1>10. /\ subs' \in Seq(Row) /\ Len(subs') = Len(subs) + 1
       /\ \A j \in DOMAIN subs : subs'[j] = t[j]
       /\ subs'[Len(subs) + 1] = new
       /\ DOMAIN subs' = 1..(Len(subs) + 1) /\ DOMAIN subs = 1..Len(subs)
       /\ Len(subs) \in Nat
  BY <1>1, <1>3, <1>8, <1>9, AppendProperties
<1>11. \A j \in DOMAIN subs : subs[j].prev # i
  BY DEF Renew, Chargeable, Due, Live, Renewed, Rows
<1>12. Follows(subs, subs')
  <2>1. \A j \in DOMAIN subs :
           /\ subs'[j].prev = subs[j].prev
           /\ Open(subs'[j]) => Open(subs[j])
           /\ RowOK(subs'[j])
    BY <1>3, <1>4, <1>6, <1>9, <1>10 DEF RowsOK
  <2>2. \A j \in DOMAIN subs' : j \in DOMAIN subs \/ j = Len(subs) + 1
    BY <1>10
  <2>3. ~Open(subs'[i])
    BY <1>3, <1>6, <1>9, <1>10
  <2>4. \A j \in DOMAIN subs' : RowOK(subs'[j])
    BY <1>8, <1>10, <2>1, <2>2
  <2>5. Len(subs) <= Len(subs')
    BY <1>10
  <2>6. \A j \in DOMAIN subs' \ DOMAIN subs : subs'[j].prev = i
    BY <1>8, <1>10, <2>2
  <2> QED BY <1>3, <1>10, <1>11, <2>1, <2>3, <2>4, <2>5, <2>6 DEF Follows
<1>13. RowsOK(subs') /\ Grows(subs, subs')
  BY <1>3, <1>12, RowsKept
<1>14. ClosedInTime(subs, subs')
  <2>1. \A j \in DOMAIN subs : j # i => subs'[j] = subs[j]
    BY <1>9, <1>10
  <2>2. subs[i].ends <= clock
    BY <1>2, <1>5 DEF PackInv, PackageTypeOK
  <2> QED BY <2>1, <2>2 DEF ClosedInTime
<1>15. wallet' = wallet - charge /\ charged' = charged + charge
  BY DEF Renew
<1> QED BY <1>7, <1>13, <1>14, <1>15 DEF PackInv, PackageTypeOK

LEMMA SettleData ==
  ASSUME PackInv, NEW v \in Visits, Settle(v)
  PROVE  /\ RowsOK(subs') /\ Grows(subs, subs') /\ ClosedInTime(subs, subs')
         /\ wallet' \in Nat /\ charged' \in Nat /\ wallet' <= wallet
         /\ wallet' + charged' = wallet + charged
         /\ UNCHANGED <<clock, paidIn, lock, saved, overtaken>>
         /\ Turn(v) /\ visit[v].pc \in {"settling", "again"}
         /\ \E i \in Rows : visit' = [visit EXCEPT ![v].todo = @ \ {i}]
<1>1. PICK i \in Rows :
        \/ CancelAfterGrace(v, i)
        \/ ExpireFree(v, i)
        \/ ExpireCovered(v, i)
        \/ ExpireUnrenewed(v, i)
        \/ LeaveRow(v, i)
        \/ \E charge \in Renewals[subs[i].plan] :
              Renew(v, i, charge) \/ FailRenewal(v, i, charge)
  BY DEF Settle
<1>2. Settling(v, i)
  BY <1>1 DEF CancelAfterGrace, ExpireFree, ExpireCovered, ExpireUnrenewed,
              LeaveRow, Renew, FailRenewal
<1>3. visit[v].pc # "idle"
  BY <1>2 DEF Settling
<1>4. wallet \in Nat /\ charged \in Nat /\ clock \in Nat
  BY DEF PackInv, PackageTypeOK
<1>5. /\ subs[i] \in Row /\ RowOK(subs[i]) /\ RowsOK(subs)
      /\ visit[v].at \in Nat /\ visit[v].at <= clock
  BY RowFacts DEF PackInv, ClocksOK, VisitOK, VisitRow
<1>6. subs[i].ends \in Nat /\ subs[i].auto \in BOOLEAN
  BY <1>5 DEF Row
<1>7. /\ RowsOK(subs') /\ Grows(subs, subs') /\ ClosedInTime(subs, subs')
      /\ wallet' \in Nat /\ charged' \in Nat /\ wallet' <= wallet
      /\ wallet' + charged' = wallet + charged
  <2>1. CASE CancelAfterGrace(v, i)
    <3>1. subs[i].status = "grace" /\ visit[v].at > subs[i].graceEnds
      BY <2>1 DEF CancelAfterGrace, GraceOver
    <3>2. /\ subs[i].grace \in Nat /\ subs[i].graceEnds \in Nat
          /\ subs[i].fails \in Nat
      BY <1>5 DEF Row
    <3>3. subs[i].ends <= clock
      <4>1. subs[i].fails > 0
        BY <1>5, <3>1, <3>2 DEF RowOK
      <4>2. /\ subs[i].grace >= subs[i].ends
            /\ subs[i].graceEnds = subs[i].grace + GracePeriod
        BY <1>5, <4>1 DEF RowOK
      <4> QED BY <1>4, <1>5, <1>6, <3>1, <3>2, <4>2, TimeAssumption
    <3>4. RowsOK(subs') /\ Grows(subs, subs') /\ ClosedInTime(subs, subs')
      BY <1>6, <2>1, <3>3, CloseData DEF CancelAfterGrace
    <3> QED BY <1>4, <2>1, <3>4 DEF CancelAfterGrace, Close
  <2>2. CASE ExpireFree(v, i)
    <3>1. subs[i].ends <= clock
      BY <1>4, <1>5, <1>6, <2>2, TimeAssumption DEF ExpireFree, FreeOver
    <3>2. RowsOK(subs') /\ Grows(subs, subs') /\ ClosedInTime(subs, subs')
      BY <1>6, <2>2, <3>1, CloseData DEF ExpireFree
    <3> QED BY <1>4, <2>2, <3>2 DEF ExpireFree, Close
  <2>3. CASE ExpireCovered(v, i) \/ ExpireUnrenewed(v, i)
    <3>1. Due(i, visit[v].at) /\ Close(i, "expired", FALSE)
      BY <2>3 DEF ExpireCovered, ExpireUnrenewed
    <3>2. subs[i].ends <= clock
      BY <1>4, <1>5, <1>6, <3>1 DEF Due
    <3>3. RowsOK(subs') /\ Grows(subs, subs') /\ ClosedInTime(subs, subs')
      BY <3>1, <3>2, CloseData
    <3> QED BY <1>4, <3>1, <3>3 DEF Close
  <2>4. CASE LeaveRow(v, i)
    <3>1. UNCHANGED <<wallet, subs, charged>>
      BY <2>4 DEF LeaveRow, database
    <3>2. subs \in Seq(Row)
      BY DEF PackInv, PackageTypeOK
    <3> QED BY <1>4, <1>5, <3>1, <3>2 DEF Grows, ClosedInTime
  <2>5. ASSUME NEW charge, Renew(v, i, charge)
        PROVE  /\ RowsOK(subs') /\ Grows(subs, subs')
               /\ ClosedInTime(subs, subs')
               /\ wallet' \in Nat /\ charged' \in Nat /\ wallet' <= wallet
               /\ wallet' + charged' = wallet + charged
    BY <1>3, <2>5, RenewData
  <2>6. ASSUME NEW charge, FailRenewal(v, i, charge)
        PROVE  /\ RowsOK(subs') /\ Grows(subs, subs')
               /\ ClosedInTime(subs, subs')
               /\ wallet' \in Nat /\ charged' \in Nat /\ wallet' <= wallet
               /\ wallet' + charged' = wallet + charged
    <3>1. RowsOK(subs') /\ Grows(subs, subs') /\ ClosedInTime(subs, subs')
      BY <1>3, <2>6, FailData
    <3> QED BY <1>4, <2>6, <3>1 DEF FailRenewal
  <2> QED BY <1>1, <2>1, <2>2, <2>3, <2>4, <2>5, <2>6
<1> QED BY <1>2, <1>7 DEF Settling

---------------------------------------------------------------------------
(* The other steps that write rows.                                         *)

LEMMA ProvisionShape ==
  ASSUME PackInv, NEW v \in Visits, ProvisionFree(v)
  PROVE  LET m == Len(subs)
             n == Cardinality(FreeMissing) IN
         /\ m \in Nat /\ n \in Nat /\ Rows = 1..m
         /\ subs' \in Seq(Row) /\ Len(subs') = m + n
         /\ \A j \in Rows : subs'[j] = subs[j]
         /\ \E order \in [1..n -> FreeMissing] :
               /\ \A p \in FreeMissing : \E k \in 1..n : order[k] = p
               /\ \A j \in DOMAIN subs' \ Rows :
                     /\ j - m \in 1..n
                     /\ subs'[j] = NewRow(order[j - m], FreeStatus,
                                          visit[v].at, 0, 0)
<1> DEFINE m == Len(subs)
           n == Cardinality(FreeMissing)
           at == visit[v].at
<1>1. n \in Nat
  <2>1. FreeMissing \in SUBSET Plans
    BY DEF FreeMissing
  <2> QED BY <2>1, PlanAssumption, FS_Subset, FS_CardinalityType
<1>2. PICK order \in [1..n -> FreeMissing] :
        /\ \A p \in FreeMissing : \E k \in 1..n : order[k] = p
        /\ subs' = subs \o
                   [k \in 1..n |-> NewRow(order[k], FreeStatus, at, 0, 0)]
  BY DEF ProvisionFree
<1> DEFINE new == [k \in 1..n |-> NewRow(order[k], FreeStatus, at, 0, 0)]
<1> HIDE DEF n
<1>3. /\ at \in Nat /\ FreeStatus \in {"active", "superseded"}
      /\ \A k \in 1..n : order[k] \in Plans
  BY DEF PackInv, ClocksOK, VisitOK, VisitRow, FreeStatus, FreeMissing
<1> HIDE DEF at
<1>4. ASSUME NEW k \in 1..n PROVE new[k] \in Row
  <2> DEFINE p == order[k]
  <2>1. p \in Plans /\ 0 \in Nat
    BY <1>3
  <2>2. new[k] = NewRow(p, FreeStatus, at, 0, 0)
    OBVIOUS
  <2> HIDE DEF new, p
  <2> QED BY <1>3, <2>1, <2>2, NewRowOK
<1>5. new \in Seq(Row) /\ Len(new) = n
  <2>1. new \in [1..n -> Row]
    BY <1>4
  <2> HIDE DEF new
  <2> QED BY <1>1, <2>1
<1>6. \A k \in 1..n : new[k] = NewRow(order[k], FreeStatus, at, 0, 0)
  OBVIOUS
<1> HIDE DEF new
<1>7. /\ subs \in Seq(Row) /\ m \in Nat /\ Rows = 1..m
  BY DEF PackInv, RowsOK, Rows
<1>8. /\ subs' \in Seq(Row) /\ Len(subs') = m + n
      /\ \A j \in 1..(m + n) :
            subs'[j] = IF j <= m THEN subs[j] ELSE new[j - m]
  <2>1. subs' = subs \o new
    BY <1>2 DEF new, at
  <2> QED BY <1>5, <1>7, <2>1, ConcatProperties
<1> HIDE DEF m
<1>9. DOMAIN subs' = 1..(m + n)
  BY <1>8
<1>10. \A j \in Rows : subs'[j] = subs[j]
  BY <1>1, <1>7, <1>8
<1>11. ASSUME NEW j \in DOMAIN subs' \ Rows
       PROVE  /\ j - m \in 1..n
              /\ subs'[j] = NewRow(order[j - m], FreeStatus, at, 0, 0)
  <2>1. j - m \in 1..n /\ subs'[j] = new[j - m]
    BY <1>1, <1>7, <1>8, <1>9
  <2> QED BY <1>6, <2>1
<1> QED BY <1>1, <1>2, <1>7, <1>8, <1>10, <1>11 DEF m, n, at

LEMMA ProvisionData ==
  ASSUME PackInv, NEW v \in Visits, ProvisionFree(v)
  PROVE  RowsOK(subs') /\ Grows(subs, subs') /\ ClosedInTime(subs, subs')
<1> DEFINE m == Len(subs)
           n == Cardinality(FreeMissing)
           at == visit[v].at
<1>1. /\ m \in Nat /\ n \in Nat /\ Rows = 1..m
      /\ subs' \in Seq(Row) /\ Len(subs') = m + n
      /\ \A j \in Rows : subs'[j] = subs[j]
      /\ \E order \in [1..n -> FreeMissing] :
            \A j \in DOMAIN subs' \ Rows :
               /\ j - m \in 1..n
               /\ subs'[j] = NewRow(order[j - m], FreeStatus, at, 0, 0)
  BY ProvisionShape
<1>2. /\ at \in Nat /\ FreeStatus \in {"active", "superseded"}
      /\ FreeMissing \subseteq Plans
  BY DEF PackInv, ClocksOK, VisitOK, VisitRow, FreeStatus, FreeMissing
<1> HIDE DEF m, n, at
<1>3. ASSUME NEW j \in DOMAIN subs' \ Rows
      PROVE  RowOK(subs'[j]) /\ subs'[j].prev = 0
  <2>1. PICK p \in Plans : subs'[j] = NewRow(p, FreeStatus, at, 0, 0)
    BY <1>1, <1>2
  <2> DEFINE row == NewRow(p, FreeStatus, at, 0, 0)
  <2>2. RowOK(row) /\ row.prev = 0
    BY <1>2, NewRowOK
  <2> HIDE DEF row
  <2> QED BY <2>1, <2>2 DEF row
<1>4. RowsOK(subs) /\ DOMAIN subs = Rows
  BY DEF PackInv, Rows
<1>5. Follows(subs, subs')
  <2>1. Len(subs) <= Len(subs')
    BY <1>1 DEF m
  <2>2. \A j \in DOMAIN subs' : RowOK(subs'[j])
    BY <1>1, <1>3, <1>4 DEF RowsOK
  <2> QED BY <1>1, <1>3, <1>4, <2>1, <2>2 DEF Follows
<1> QED BY <1>1, <1>4, <1>5, RowsKept DEF ClosedInTime

(* What an activation closes it replaces.                                   *)
Succeeded(s, t) ==
    \A i \in DOMAIN s :
        Open(s[i]) /\ ~Open(t[i]) =>
           \E j \in DOMAIN t \ DOMAIN s :
              /\ t[j].status = "active"
              /\ Free(s[i].plan) \/ TrackOf[t[j].plan] = TrackOf[s[i].plan]

LEMMA ReplacedOK ==
  ASSUME PackInv, NEW v \in Visits, visit[v].want \in Plans, NEW i \in Rows,
         NEW r,
         r = Replaced(i, visit[v].want,
                      IF CurrentRows(v) = {} THEN {}
                                             ELSE {Best(CurrentRows(v))})
  PROVE  /\ r \in Row /\ RowOK(r) /\ r.prev = subs[i].prev
         /\ Open(r) => Open(subs[i])
         /\ Open(subs[i]) /\ ~Open(r) =>
               \/ Free(subs[i].plan)
               \/ TrackOf[subs[i].plan] = TrackOf[visit[v].want]
<1> DEFINE p == visit[v].want
           current == IF CurrentRows(v) = {} THEN {}
                                             ELSE {Best(CurrentRows(v))}
<1>1. subs[i] \in Row /\ RowOK(subs[i]) /\ DOMAIN subs = Rows
  BY RowFacts DEF Rows
<1>2. ASSUME i \in current
      PROVE  TrackOf[subs[i].plan] = TrackOf[p]
  <2>1. CurrentRows(v) \in SUBSET Rows
    BY DEF CurrentRows, InUse, Visible
  <2>2. PackageTypeOK
    BY DEF PackInv
  <2>3. i \in CurrentRows(v)
    BY <1>2, <2>1, <2>2, BestIn
  <2> QED BY <2>3 DEF CurrentRows, InUse
<1> HIDE DEF current
<1>3. CASE Superseded(i, p, current)
  <2>1. r = [subs[i] EXCEPT !.status = "superseded", !.auto = FALSE]
    BY <1>3 DEF Replaced, current
  <2>2. /\ r \in Row /\ RowOK(r) /\ r.prev = subs[i].prev /\ ~Open(r)
    BY <1>1, <2>1 DEF Row, RowOK, Statuses, Open
  <2>3. Free(subs[i].plan) \/ TrackOf[subs[i].plan] = TrackOf[p]
    BY <1>2, <1>3 DEF Superseded
  <2> QED BY <2>2, <2>3
<1>4. CASE ~Superseded(i, p, current)
  <2>1. r = [subs[i] EXCEPT !.auto = FALSE] \/ r = subs[i]
    BY <1>4 DEF Replaced, current
  <2>2. CASE r = [subs[i] EXCEPT !.auto = FALSE]
    BY <1>1, <2>2 DEF Row, RowOK, Open
  <2> QED BY <1>1, <2>1, <2>2
<1> QED BY <1>3, <1>4

LEMMA ActivateShape ==
  ASSUME PackInv, NEW v \in Visits, Activate(v)
  PROVE  LET p == visit[v].want
             current == IF CurrentRows(v) = {} THEN {}
                                               ELSE {Best(CurrentRows(v))}
             j == Len(subs) + 1 IN
         /\ p \in Plans /\ Payable(v) \in Nat
         /\ Rows = DOMAIN subs /\ Len(subs) \in Nat
         /\ subs' \in Seq(Row) /\ Len(subs') = j
         /\ DOMAIN subs' = Rows \cup {j} /\ j \notin Rows
         /\ \A i \in Rows : subs'[i] = Replaced(i, p, current)
         /\ \E used \in BOOLEAN :
               subs'[j] = [NewRow(p, "active", visit[v].at, Payable(v), 0)
                             EXCEPT !.usedUp = used]
<1> DEFINE p == visit[v].want
           at == visit[v].at
           current == IF CurrentRows(v) = {} THEN {}
                                             ELSE {Best(CurrentRows(v))}
           payable == Payable(v)
           m == Len(subs)
           t == [i \in Rows |-> Replaced(i, p, current)]
           base == NewRow(p, "active", at, payable, 0)
<1>0. PICK used \in BOOLEAN :
         subs' = Append(t, [base EXCEPT !.usedUp = used])
  BY DEF Activate
<1> DEFINE new == [base EXCEPT !.usedUp = used]
<1>1. visit[v].pc = "again" /\ subs' = Append(t, new)
  BY <1>0 DEF Activate, Activates, Activating
<1>2. /\ p \in Plans /\ at \in Nat
      /\ subs \in Seq(Row) /\ m \in Nat /\ Rows = 1..m
      /\ DOMAIN subs = Rows
  BY <1>1 DEF PackInv, PackageTypeOK, ClocksOK, VisitOK, VisitRow, Rows
<1>3. payable \in Nat
  <2>1. payable = PriceOf[p] \/ payable = 0
    BY DEF Payable
  <2> QED BY <1>2, <2>1, PlanAssumption
<1>4. new \in Row
  <2>1. 0 \in Nat /\ "active" \in {"active", "superseded"}
    OBVIOUS
  <2>2. base \in Row
    <3> HIDE DEF p, at, payable
    <3> QED BY <1>2, <1>3, <2>1, NewRowOK
  <2> HIDE DEF base, p
  <2> QED BY <2>2 DEF Row
<1> HIDE DEF new
<1>5. ASSUME NEW i \in Rows PROVE t[i] \in Row
  <2>1. t[i] = Replaced(i, p, current)
    BY <1>5
  <2> HIDE DEF t
  <2> QED BY <1>2, <2>1, ReplacedOK
<1>6. t \in Seq(Row) /\ Len(t) = m /\ DOMAIN t = Rows
  <2>1. t \in [Rows -> Row] /\ DOMAIN t = Rows
    BY <1>5
  <2> HIDE DEF t, m
  <2> QED BY <1>2, <2>1
<1>10. \A i \in Rows : t[i] = Replaced(i, p, current)
  OBVIOUS
<1> HIDE DEF t, current
<1>7. /\ subs' \in Seq(Row) /\ Len(subs') = m + 1
      /\ \A i \in Rows : subs'[i] = t[i]
      /\ subs'[m + 1] = new
  BY <1>1, <1>2, <1>4, <1>6, AppendProperties
<1>8. DOMAIN subs' = 1..(m + 1)
  BY <1>7
<1>9. DOMAIN subs' = Rows \cup {m + 1} /\ m + 1 \notin Rows
  <2> HIDE DEF m
  <2> QED BY <1>2, <1>8
<1> QED BY <1>2, <1>3, <1>7, <1>9, <1>10 DEF current, new

LEMMA ActivateData ==
  ASSUME PackInv, NEW v \in Visits, Activate(v)
  PROVE  /\ RowsOK(subs') /\ Grows(subs, subs') /\ Succeeded(subs, subs')
         /\ wallet' \in Nat /\ charged' \in Nat
         /\ wallet' + charged' >= paidIn
<1> DEFINE p == visit[v].want
           at == visit[v].at
           current == IF CurrentRows(v) = {} THEN {}
                                             ELSE {Best(CurrentRows(v))}
           payable == Payable(v)
           j == Len(subs) + 1
<1>1. /\ lock = v /\ payable <= visit[v].balance
      /\ wallet' = IF payable > 0 THEN visit[v].balance - payable ELSE wallet
      /\ charged' = charged + payable
  BY DEF Activate, Activates, Activating
<1>2. /\ at \in Nat /\ visit[v].balance \in Nat
      /\ wallet \in Nat /\ charged \in Nat /\ paidIn \in Nat
      /\ RowsOK(subs)
  BY DEF PackInv, PackageTypeOK, ClocksOK, VisitOK, VisitRow
<1>3. /\ p \in Plans /\ payable \in Nat
      /\ Rows = DOMAIN subs /\ Len(subs) \in Nat
      /\ subs' \in Seq(Row) /\ Len(subs') = j
      /\ DOMAIN subs' = Rows \cup {j} /\ j \notin Rows
      /\ \A i \in Rows : subs'[i] = Replaced(i, p, current)
      /\ \E used \in BOOLEAN :
            subs'[j] = [NewRow(p, "active", at, payable, 0)
                          EXCEPT !.usedUp = used]
  BY ActivateShape
<1> HIDE DEF current, j
<1>4. /\ RowOK(subs'[j]) /\ subs'[j].prev = 0
      /\ subs'[j].status = "active" /\ subs'[j].plan = p
  <2> DEFINE base == NewRow(p, "active", at, payable, 0)
  <2>1. 0 \in Nat /\ "active" \in {"active", "superseded"}
    OBVIOUS
  <2>2. /\ base \in Row /\ RowOK(base) /\ base.prev = 0
        /\ base.status = "active" /\ base.plan = p
    <3>1. p \in Plans /\ at \in Nat /\ payable \in Nat
      BY <1>2, <1>3
    <3> HIDE DEF p, at, payable
    <3> QED BY <2>1, <3>1, NewRowOK
  <2>3. PICK used \in BOOLEAN : subs'[j] = [base EXCEPT !.usedUp = used]
    BY <1>3
  <2> HIDE DEF base, p
  <2> QED BY <2>2, <2>3 DEF Row, RowOK, Open
<1>5. ASSUME NEW i \in Rows
      PROVE  /\ RowOK(subs'[i]) /\ subs'[i].prev = subs[i].prev
             /\ Open(subs'[i]) => Open(subs[i])
             /\ Open(subs[i]) /\ ~Open(subs'[i]) =>
                   \/ Free(subs[i].plan)
                   \/ TrackOf[subs[i].plan] = TrackOf[p]
  <2>1. subs'[i] = Replaced(i, p, current) /\ p \in Plans
    BY <1>3
  <2> QED BY <2>1, ReplacedOK DEF current
<1>6. Follows(subs, subs')
  <2>1. Len(subs) <= Len(subs')
    BY <1>3 DEF j
  <2>2. \A k \in DOMAIN subs' : RowOK(subs'[k])
    BY <1>3, <1>4, <1>5
  <2>3. \A k \in DOMAIN subs :
           /\ subs'[k].prev = subs[k].prev
           /\ Open(subs'[k]) => Open(subs[k])
    BY <1>3, <1>5
  <2>4. \A k \in DOMAIN subs' \ DOMAIN subs : subs'[k].prev = 0
    BY <1>3, <1>4
  <2> QED BY <1>3, <2>1, <2>2, <2>3, <2>4 DEF Follows
<1>7. RowsOK(subs') /\ Grows(subs, subs')
  BY <1>2, <1>6, RowsKept
<1>8. Succeeded(subs, subs')
  <2> HIDE DEF p
  <2> QED BY <1>3, <1>4, <1>5 DEF Succeeded
<1>9. wallet' \in Nat /\ charged' \in Nat /\ wallet' + charged' >= paidIn
  <2>1. wallet <= visit[v].balance /\ wallet + charged >= paidIn
    BY <1>1, PlanAssumption DEF PackInv, HeldOK, NotOvercharged
  <2> DEFINE b == visit[v].balance
  <2> HIDE DEF payable, b
  <2>2. /\ b \in Nat /\ wallet <= b /\ payable <= b
        /\ wallet' = IF payable > 0 THEN b - payable ELSE wallet
        /\ charged' = charged + payable
    BY <1>1, <1>2, <2>1 DEF b
  <2>3. payable \in Nat
    BY <1>3
  <2> QED BY <1>2, <2>1, <2>2, <2>3
<1> QED BY <1>7, <1>8, <1>9

---------------------------------------------------------------------------
(* The invariant.                                                           *)

LEMMA PackStarts == PackageInit => PackInv
<1> SUFFICES ASSUME PackageInit PROVE PackInv
  OBVIOUS
<1> USE DEF PackageInit
<1>1. Idle \in VisitRow /\ Idle.pc = "idle" /\ Idle.at = 0
  BY DEF Idle, VisitRow
<1>2. PackageTypeOK
  <2>1. visit \in [Visits -> VisitRow]
    BY <1>1
  <2>2. subs \in Seq(Row)
    OBVIOUS
  <2>3. /\ clock \in Nat /\ wallet \in Nat /\ charged \in Nat
        /\ paidIn \in Nat /\ overtaken \in BOOLEAN
        /\ lock \in Visits \cup {Nobody}
    BY TimeAssumption
  <2> QED BY <2>1, <2>2, <2>3 DEF PackageTypeOK, VisitRow
<1>3. ClocksOK
  BY <1>1 DEF ClocksOK, VisitOK
<1>4. RowsOK(subs)
  <2>1. subs \in Seq(Row) /\ DOMAIN subs = {}
    OBVIOUS
  <2> QED BY <2>1 DEF RowsOK, Succession
<1>5. NotOvercharged
  BY TimeAssumption DEF NotOvercharged
<1>6. lock = Nobody
  OBVIOUS
<1> QED BY <1>2, <1>3, <1>4, <1>5, <1>6 DEF PackInv

(* A step of v in the middle of its request.                                *)
LEMMA DataKeeps ==
  ASSUME PackInv, NEW v \in Visits, NEW x, VisitOK(x),
         visit' = [visit EXCEPT ![v] = x],
         UNCHANGED <<clock, paidIn, lock, saved, overtaken>>,
         RowsOK(subs'), Grows(subs, subs'),
         wallet' \in Nat, charged' \in Nat, wallet' + charged' >= paidIn,
         lock # Nobody => wallet' <= wallet,
         lock = v => /\ x.pc \notin {"idle", "asked"}
                     /\ x.want = visit[v].want
                     /\ x.balance = visit[v].balance
  PROVE  PackInv'
<1>1. visit \in [Visits -> VisitRow] /\ x \in VisitRow
  BY DEF PackInv, PackageTypeOK, VisitOK, VisitRow
<1>2. /\ visit' \in [Visits -> VisitRow] /\ visit'[v] = x
      /\ \A w \in Visits : w # v => visit'[w] = visit[w]
  BY <1>1
<1>3. PackageTypeOK'
  <2>1. subs' \in Seq(Row)
    BY DEF RowsOK
  <2> QED BY <1>2, <2>1 DEF PackInv, PackageTypeOK, VisitRow
<1>4. ClocksOK'
  BY <1>2 DEF PackInv, ClocksOK, VisitOK
<1>5. NotOvercharged'
  BY DEF NotOvercharged
<1>6. ASSUME lock # Nobody PROVE HeldOK(lock)'
  <2>1. HeldOK(lock) /\ lock \in Visits
    BY <1>6 DEF PackInv, PackageTypeOK
  <2>2. /\ visit'[lock].pc \notin {"idle", "asked"}
        /\ visit'[lock].want = visit[lock].want
        /\ visit'[lock].balance = visit[lock].balance
    BY <1>2, <2>1 DEF HeldOK
  <2>3. wallet' <= visit'[lock].balance
    <3>1. /\ wallet \in Nat /\ visit[lock].balance \in Nat
          /\ wallet <= visit[lock].balance /\ wallet' <= wallet
      BY <1>1, <1>6, <2>1 DEF HeldOK, PackInv, PackageTypeOK, VisitRow
    <3> DEFINE b == visit[lock].balance
    <3> HIDE DEF b
    <3>2. wallet' <= b
      BY <3>1 DEF b
    <3> QED BY <2>2, <3>2 DEF b
  <2>4. Grows(saved[2], subs')
    BY <2>1, GrowsOn DEF HeldOK, RowsOK, PackInv
  <2>5. lock' = lock /\ saved' = saved /\ paidIn' = paidIn
    OBVIOUS
  <2> QED BY <2>1, <2>2, <2>3, <2>4, <2>5 DEF HeldOK
<1> QED BY <1>3, <1>4, <1>5, <1>6 DEF PackInv

(* A transaction ends.                                                      *)
LEMMA ReleaseKeeps ==
  ASSUME PackInv, NEW v \in Visits, Release(v), RowsOK(subs'),
         wallet' \in Nat, charged' \in Nat, wallet' + charged' >= paidIn,
         overtaken' \in BOOLEAN
  PROVE  PackInv'
<1>1. Idle \in VisitRow /\ Idle.pc = "idle" /\ Idle.at = 0
  BY DEF Idle, VisitRow
<1>2. /\ lock' = Nobody /\ clock' = clock /\ paidIn' = paidIn
      /\ visit' = [visit EXCEPT ![v] = Idle]
  BY DEF Release
<1>3. visit \in [Visits -> VisitRow]
  BY DEF PackInv, PackageTypeOK, VisitRow
<1>4. /\ visit' \in [Visits -> VisitRow] /\ visit'[v] = Idle
      /\ \A w \in Visits : w # v => visit'[w] = visit[w]
  BY <1>1, <1>2, <1>3
<1>5. PackageTypeOK'
  <2>1. subs' \in Seq(Row)
    BY DEF RowsOK
  <2> QED BY <1>2, <1>4, <2>1 DEF PackInv, PackageTypeOK, VisitRow
<1>6. ClocksOK'
  <2>1. clock \in Nat
    BY DEF PackInv, PackageTypeOK
  <2> QED BY <1>1, <1>2, <1>4, <2>1 DEF PackInv, ClocksOK, VisitOK
<1>7. NotOvercharged'
  BY <1>2 DEF NotOvercharged
<1> QED BY <1>2, <1>5, <1>6, <1>7 DEF PackInv

LEMMA RollBackKeeps ==
  ASSUME PackInv, NEW v \in Visits, lock = v, RollBack(v)
  PROVE  PackInv' /\ Grows(subs', subs)
<1>1. HeldOK(v)
  BY PlanAssumption DEF PackInv
<1>2. /\ wallet' = saved[1] /\ subs' = saved[2] /\ charged' = saved[3]
      /\ overtaken' = overtaken /\ Release(v)
  BY DEF RollBack
<1>3. overtaken \in BOOLEAN
  BY DEF PackInv, PackageTypeOK
<1> QED BY <1>1, <1>2, <1>3, ReleaseKeeps DEF HeldOK

LEMMA SameRows ==
  ASSUME PackInv
  PROVE  /\ RowsOK(subs) /\ Grows(subs, subs)
         /\ wallet \in Nat /\ charged \in Nat /\ wallet + charged >= paidIn
         /\ wallet <= wallet
BY DEF PackInv, PackageTypeOK, RowsOK, Grows, NotOvercharged

LEMMA VisitRead ==
  ASSUME PackInv, NEW v \in Visits
  PROVE  visit[v] \in VisitRow /\ VisitOK(visit[v])
BY DEF PackInv, ClocksOK, VisitOK

LEMMA TimeKeeps ==
  ASSUME PackInv, Tick \/ \E amount \in Recharges : PayIn(amount)
  PROVE  PackInv'
<1>1. CASE Tick
  <2>1. /\ lock = Nobody /\ clock' = clock + 1
        /\ UNCHANGED <<wallet, subs, charged, paidIn, lock, saved, visit,
                       overtaken>>
    BY <1>1 DEF Tick, database
  <2>2. clock \in Nat
    BY DEF PackInv, PackageTypeOK
  <2>3. PackageTypeOK'
    BY <2>1, <2>2 DEF PackInv, PackageTypeOK
  <2>4. ClocksOK'
    <3>1. \A v \in Visits : visit[v].at \in Nat
      BY DEF PackInv, ClocksOK, VisitOK, VisitRow
    <3> QED BY <2>1, <2>2, <3>1 DEF PackInv, ClocksOK, VisitOK
  <2> QED BY <2>1, <2>3, <2>4 DEF PackInv, NotOvercharged
<1>2. ASSUME NEW amount \in Recharges, PayIn(amount)
      PROVE  PackInv'
  <2>1. /\ lock = Nobody /\ amount \in Nat
        /\ wallet' = wallet + amount /\ paidIn' = paidIn + amount
        /\ UNCHANGED <<clock, subs, charged, lock, saved, visit, overtaken>>
    BY <1>2, TimeAssumption DEF PayIn
  <2>2. wallet \in Nat /\ charged \in Nat /\ paidIn \in Nat
    BY DEF PackInv, PackageTypeOK
  <2>3. PackageTypeOK'
    BY <2>1, <2>2 DEF PackInv, PackageTypeOK
  <2>4. NotOvercharged'
    BY <2>1, <2>2 DEF PackInv, NotOvercharged
  <2> QED BY <2>1, <2>3, <2>4 DEF PackInv, ClocksOK, VisitOK
<1> QED BY <1>1, <1>2

(* A request begins, takes the account, lists its rows or ends.             *)
LEMMA RequestKeeps ==
  ASSUME PackInv, NEW v \in Visits,
         \/ \E want \in Plans \cup {Nobody, CreateQuestions} : Ask(v, want)
         \/ ListRows(v)
         \/ ListAgain(v)
         \/ EndVisit(v)
  PROVE  PackInv'
<1> DEFINE old == visit[v]
<1>1. /\ old \in VisitRow /\ VisitOK(old) /\ clock \in Nat /\ clock >= 1
      /\ Nobody \notin Visits
  BY VisitRead, PlanAssumption DEF PackInv, PackageTypeOK, ClocksOK
<1>2. ASSUME NEW x, VisitOK(x), visit' = [visit EXCEPT ![v] = x],
             UNCHANGED <<clock, database, paidIn, lock, saved, overtaken>>,
             lock = v => /\ x.pc \notin {"idle", "asked"}
                         /\ x.want = old.want
                         /\ x.balance = old.balance
      PROVE  PackInv'
  <2>1. UNCHANGED <<wallet, subs, charged>>
    BY <1>2 DEF database
  <2> QED BY <1>2, <2>1, SameRows, DataKeeps
<1>3. ASSUME NEW want \in Plans \cup {Nobody, CreateQuestions},
             Ask(v, want)
      PROVE  PackInv'
  <2> DEFINE x == [Idle EXCEPT !.pc = "asked", !.at = clock, !.want = want]
  <2>1. x \in VisitRow /\ x.pc = "asked" /\ x.at = clock
    BY <1>1 DEF Idle, VisitRow
  <2>2. VisitOK(x)
    <3> HIDE DEF x
    <3> QED BY <1>1, <2>1 DEF VisitOK
  <2>3. /\ lock = Nobody /\ visit' = [visit EXCEPT ![v] = x]
        /\ UNCHANGED <<clock, database, paidIn, lock, saved, overtaken>>
    BY <1>3 DEF Ask
  <2> HIDE DEF x
  <2> QED BY <1>1, <1>2, <2>2, <2>3
<1>4. CASE ListRows(v) \/ ListAgain(v)
  <2>1. PICK pc \in {"settling", "again"} :
          /\ pc = "again" => old.want \in Plans
          /\ old.pc # "idle"
          /\ visit' = [visit EXCEPT ![v].pc = pc,
                                    ![v].todo = Visible(old.at)]
          /\ UNCHANGED <<clock, database, paidIn, lock, saved, overtaken>>
    BY <1>4 DEF ListRows, ListAgain, Arrived
  <2> DEFINE x == [old EXCEPT !.pc = pc, !.todo = Visible(old.at)]
  <2>2. Visible(old.at) \in SUBSET Nat
    <3>1. Rows \subseteq Nat
      BY DEF PackInv, PackageTypeOK, Rows
    <3> QED BY <3>1 DEF Visible
  <2>3. /\ x \in VisitRow /\ x.pc = pc /\ x.at = old.at
        /\ x.want = old.want /\ x.balance = old.balance
    BY <1>1, <2>2 DEF VisitRow
  <2>4. visit' = [visit EXCEPT ![v] = x]
    BY <2>1
  <2> HIDE DEF x
  <2>5. VisitOK(x)
    BY <1>1, <2>1, <2>3 DEF VisitOK
  <2> QED BY <1>2, <2>1, <2>3, <2>4, <2>5
<1>5. CASE EndVisit(v)
  <2>1. Idle \in VisitRow /\ Idle.pc = "idle" /\ Idle.at = 0
    BY DEF Idle, VisitRow
  <2>2. VisitOK(Idle)
    BY <1>1, <2>1 DEF VisitOK
  <2>3. /\ lock = Nobody /\ visit' = [visit EXCEPT ![v] = Idle]
        /\ UNCHANGED <<clock, database, paidIn, lock, saved, overtaken>>
    BY <1>5 DEF EndVisit
  <2> QED BY <1>1, <1>2, <2>2, <2>3
<1> QED BY <1>3, <1>4, <1>5

LEMMA TakeKeeps ==
  ASSUME PackInv, NEW v \in Visits, TakeAccount(v)
  PROVE  PackInv'
<1> DEFINE old == visit[v]
           at == IF old.want = CreateQuestions THEN clock ELSE old.at
           x == [old EXCEPT !.pc = "holding", !.at = at, !.balance = wallet]
<1>1. /\ old \in VisitRow /\ VisitOK(old) /\ clock \in Nat /\ clock >= 1
      /\ wallet \in Nat /\ charged \in Nat /\ paidIn \in Nat
  BY VisitRead DEF PackInv, PackageTypeOK, ClocksOK
<1>2. /\ old.pc = "asked" /\ old.want # Nobody /\ lock' = v
      /\ saved' = <<wallet, subs, charged>>
      /\ visit' = [visit EXCEPT ![v] = x]
      /\ UNCHANGED <<clock, wallet, subs, charged, paidIn, overtaken>>
  BY DEF TakeAccount, database
<1>3. at \in Nat /\ at <= clock /\ at >= 1
  <2>1. old.at \in Nat /\ old.at <= clock /\ old.at >= 1
    BY <1>1, <1>2 DEF VisitOK, VisitRow
  <2> QED BY <1>1, <2>1
<1> HIDE DEF at
<1>4. /\ x \in VisitRow /\ x.pc = "holding" /\ x.at = at
      /\ x.want = old.want /\ x.balance = wallet
  BY <1>1, <1>3 DEF VisitRow
<1> HIDE DEF x
<1>5. VisitOK(x)
  BY <1>3, <1>4 DEF VisitOK
<1>6. visit \in [Visits -> VisitRow]
  BY DEF PackInv, PackageTypeOK, VisitRow
<1>7. /\ visit' \in [Visits -> VisitRow] /\ visit'[v] = x
      /\ \A w \in Visits : w # v => visit'[w] = visit[w]
  BY <1>2, <1>4, <1>6
<1>8. PackageTypeOK'
  BY <1>2, <1>7 DEF PackInv, PackageTypeOK, VisitRow
<1>9. ClocksOK'
  BY <1>2, <1>5, <1>7 DEF PackInv, ClocksOK, VisitOK
<1>10. HeldOK(v)'
  <2>1. saved'[1] = wallet /\ saved'[2] = subs /\ saved'[3] = charged
    BY <1>2
  <2> QED BY <1>1, <1>2, <1>4, <1>7, <2>1, SameRows DEF HeldOK
<1> QED
  BY <1>2, <1>8, <1>9, <1>10, SameRows DEF PackInv, NotOvercharged

LEMMA WriteKeeps ==
  ASSUME PackInv, NEW v \in Visits, ProvisionFree(v) \/ Settle(v)
  PROVE  PackInv'
<1> DEFINE old == visit[v]
<1>1. old \in VisitRow /\ VisitOK(old) /\ visit \in [Visits -> VisitRow]
  BY VisitRead DEF PackInv, PackageTypeOK, VisitRow
<1>2. lock = v => HeldOK(v)
  BY PlanAssumption DEF PackInv
<1>3. CASE ProvisionFree(v)
  <2>1. /\ UNCHANGED <<clock, paidIn, lock, saved, overtaken>>
        /\ UNCHANGED <<wallet, charged>>
        /\ visit' = visit
    BY <1>3 DEF ProvisionFree
  <2>2. visit' = [visit EXCEPT ![v] = old]
    BY <1>1, <2>1
  <2>3. RowsOK(subs') /\ Grows(subs, subs')
    BY <1>3, ProvisionData
  <2> HIDE DEF old
  <2>4. lock = v => old.pc \notin {"idle", "asked"}
    BY <1>2 DEF HeldOK, old
  <2>5. old.want = visit[v].want /\ old.balance = visit[v].balance
    BY DEF old
  <2> QED BY <1>1, <2>1, <2>2, <2>3, <2>4, <2>5, SameRows, DataKeeps
<1>4. CASE Settle(v)
  <2>1. /\ RowsOK(subs') /\ Grows(subs, subs')
        /\ wallet' \in Nat /\ charged' \in Nat /\ wallet' <= wallet
        /\ wallet' + charged' = wallet + charged
        /\ UNCHANGED <<clock, paidIn, lock, saved, overtaken>>
        /\ old.pc \in {"settling", "again"}
        /\ \E i \in Rows : visit' = [visit EXCEPT ![v].todo = @ \ {i}]
    BY <1>4, SettleData
  <2>2. PICK i \in Rows : visit' = [visit EXCEPT ![v].todo = @ \ {i}]
    BY <2>1
  <2> DEFINE x == [old EXCEPT !.todo = old.todo \ {i}]
  <2>3. visit' = [visit EXCEPT ![v] = x]
    BY <2>2
  <2>4. /\ x \in VisitRow /\ x.pc = old.pc /\ x.at = old.at
        /\ x.want = old.want /\ x.balance = old.balance
    BY <1>1 DEF VisitRow
  <2> HIDE DEF x
  <2>5. VisitOK(x)
    BY <1>1, <2>4 DEF VisitOK
  <2>6. wallet' + charged' >= paidIn
    BY <2>1, SameRows
  <2> QED BY <2>1, <2>3, <2>4, <2>5, <2>6, DataKeeps
<1> QED BY <1>3, <1>4

(* Units of packages are used: no row opens, closes or changes its dates.   *)
LEMMA UnitsData ==
  ASSUME PackInv, NEW full, TakeUnits(full)
  PROVE  /\ RowsOK(subs')
         /\ \A k \in Rows : Open(subs'[k]) <=> Open(subs[k])
<1>1. /\ subs \in Seq(Row) /\ RowsOK(subs)
      /\ Rows = 1..Len(subs) /\ Rows = DOMAIN subs /\ Len(subs) \in Nat
  BY DEF PackInv, RowsOK, Rows
<1>2. ASSUME NEW k \in Rows
      PROVE  /\ subs'[k] \in Row /\ RowOK(subs'[k])
             /\ subs'[k].prev = subs[k].prev
             /\ Open(subs'[k]) <=> Open(subs[k])
  <2> DEFINE used == subs[k].usedUp \/ k \in full
             r == [subs[k] EXCEPT !.usedUp = used]
  <2>1. subs[k] \in Row /\ RowOK(subs[k]) /\ used \in BOOLEAN
    BY RowFacts, Zenon
  <2>2. subs'[k] = r
    BY DEF TakeUnits
  <2> HIDE DEF used
  <2>3. /\ r \in Row /\ RowOK(r) /\ r.prev = subs[k].prev
        /\ Open(r) <=> Open(subs[k])
    BY <2>1 DEF Row, RowOK, Open
  <2> HIDE DEF r
  <2> QED BY <2>2, <2>3
<1>3. subs' \in Seq(Row) /\ Len(subs') = Len(subs) /\ DOMAIN subs' = Rows
  <2>1. subs' \in [Rows -> Row] /\ DOMAIN subs' = Rows
    BY <1>2 DEF TakeUnits
  <2> QED BY <1>1, <2>1
<1>4. Follows(subs, subs')
  <2>1. Len(subs) <= Len(subs') /\ DOMAIN subs' \ DOMAIN subs = {}
    BY <1>1, <1>3
  <2>2. \A j \in DOMAIN subs :
           /\ RowOK(subs'[j]) /\ subs'[j].prev = subs[j].prev
           /\ Open(subs'[j]) => Open(subs[j])
    BY <1>1, <1>2
  <2> QED BY <1>1, <1>3, <2>1, <2>2 DEF Follows
<1> QED BY <1>1, <1>2, <1>4, RowsKept

LEMMA SaveKeeps ==
  ASSUME PackInv, NEW v \in Visits,
         SaveWithPackage(v) \/ \E debit \in Debits : SaveWithCoins(v, debit)
  PROVE  /\ PackInv'
         /\ \A i \in Rows : Open(subs'[i]) <=> Open(subs[i])
<1>1. overtaken \in BOOLEAN
  BY DEF PackInv, PackageTypeOK
<1>2. ASSUME SaveWithPackage(v)
      PROVE  /\ PackInv'
             /\ \A k \in Rows : Open(subs'[k]) <=> Open(subs[k])
  <2>1. /\ UNCHANGED <<wallet, charged, overtaken>> /\ Release(v)
        /\ \E full \in SUBSET Usable(visit[v].at) : TakeUnits(full)
    BY <1>2 DEF SaveWithPackage
  <2>2. PackInv'
    BY <1>1, <2>1, SameRows, UnitsData, ReleaseKeeps
  <2> QED BY <2>1, <2>2, UnitsData
<1>3. ASSUME NEW debit \in Debits, SaveWithCoins(v, debit)
      PROVE  /\ PackInv'
             /\ \A k \in Rows : Open(subs'[k]) <=> Open(subs[k])
  <2> DEFINE b == visit[v].balance
  <2>1. /\ lock = v /\ debit <= b /\ wallet' = b - debit
        /\ charged' = charged + debit
        /\ UNCHANGED overtaken /\ Release(v)
        /\ \E full \in SUBSET Usable(visit[v].at) : TakeUnits(full)
    BY <1>3 DEF SaveWithCoins, Saving
  <2>2. /\ b \in Nat /\ wallet <= b /\ debit \in Nat
        /\ wallet \in Nat /\ charged \in Nat /\ paidIn \in Nat
        /\ wallet + charged >= paidIn
    <3>1. wallet <= b
      BY <2>1, PlanAssumption DEF PackInv, HeldOK
    <3> QED
      BY <3>1, VisitRead, SameRows, PlanAssumption
         DEF VisitRow, PackInv, PackageTypeOK
  <2> HIDE DEF b
  <2>3. wallet' \in Nat /\ charged' \in Nat /\ wallet' + charged' >= paidIn
    BY <2>1, <2>2
  <2>4. /\ RowsOK(subs')
        /\ \A k \in Rows : Open(subs'[k]) <=> Open(subs[k])
    BY <2>1, SameRows, UnitsData
  <2>5. PackInv'
    BY <1>1, <2>1, <2>3, <2>4, ReleaseKeeps
  <2> QED BY <2>4, <2>5
<1> QED BY <1>2, <1>3

LEMMA BackKeeps ==
  ASSUME PackInv, NEW v \in Visits,
         \/ Interrupted(v) \/ RefuseActivation(v)
         \/ \E debit \in Debits : RefuseQuestions(v, debit)
  PROVE  PackInv' /\ Grows(subs', subs)
<1>1. lock = v /\ RollBack(v)
  BY DEF Interrupted, RefuseActivation, RefuseQuestions, Activates,
         Activating, Saving
<1> QED BY <1>1, RollBackKeeps

LEMMA ActivateKeeps ==
  ASSUME PackInv, NEW v \in Visits, Activate(v)
  PROVE  PackInv'
<1>1. /\ RowsOK(subs') /\ wallet' \in Nat /\ charged' \in Nat
      /\ wallet' + charged' >= paidIn
  BY ActivateData
<1>2. Release(v)
  BY DEF Activate
<1>3. overtaken' \in BOOLEAN
  <2>1. (overtaken \/ Overtaken(visit[v].want, visit[v].at)) \in BOOLEAN
    BY Zenon
  <2> QED BY <2>1 DEF Activate
<1> QED BY <1>1, <1>2, <1>3, ReleaseKeeps

LEMMA KeepKeeps ==
  ASSUME PackInv, NEW v \in Visits, KeepPackage(v)
  PROVE  PackInv'
<1>1. UNCHANGED <<wallet, subs, charged, overtaken>> /\ Release(v)
  BY DEF KeepPackage, database
<1>2. overtaken \in BOOLEAN
  BY DEF PackInv, PackageTypeOK
<1> QED BY <1>1, <1>2, SameRows, ReleaseKeeps

LEMMA PackSteps == PackInv /\ [PackageNext]_packageVars => PackInv'
<1> SUFFICES ASSUME PackInv, [PackageNext]_packageVars
             PROVE  PackInv'
  OBVIOUS
<1>1. ASSUME NEW v \in Visits, PackageStep(v)
      PROVE  PackInv'
  <2>1. \/ \/ \E want \in Plans \cup {Nobody, CreateQuestions} : Ask(v, want)
           \/ ListRows(v)
           \/ ListAgain(v)
           \/ EndVisit(v)
        \/ TakeAccount(v)
        \/ ProvisionFree(v) \/ Settle(v)
        \/ KeepPackage(v)
        \/ Activate(v)
        \/ \/ Interrupted(v) \/ RefuseActivation(v)
           \/ \E debit \in Debits : RefuseQuestions(v, debit)
        \/ \/ SaveWithPackage(v)
           \/ \E debit \in Debits : SaveWithCoins(v, debit)
    BY <1>1 DEF PackageStep
  <2> QED
    BY <2>1, RequestKeeps, TakeKeeps, WriteKeeps, KeepKeeps, ActivateKeeps,
       BackKeeps, SaveKeeps
<1>2. CASE Tick \/ \E amount \in Recharges : PayIn(amount)
  BY <1>2, TimeKeeps
<1>3. CASE UNCHANGED packageVars
  <2>1. UNCHANGED <<clock, wallet, subs, charged, paidIn, lock, saved, visit,
                    overtaken>>
    BY <1>3 DEF packageVars, database
  <2> QED
    BY <2>1 DEF PackInv, PackageTypeOK, ClocksOK, VisitOK, NotOvercharged,
                HeldOK
<1> QED BY <1>1, <1>2, <1>3 DEF PackageNext

---------------------------------------------------------------------------
(* A period is renewed once, whatever requests of the account settle it,    *)
(* and a failed renewal rests between tries and ends with its grace period. *)
THEOREM RenewedInTurn == PackageSpec => []ChargedInTurn
<1>1. PackInv => OneSuccessor
  BY DEF PackInv, RowsOK, Succession, OneSuccessor, Rows
<1>2. PackInv => GraceBounded
  BY DEF PackInv, RowsOK, RowOK, GraceBounded, Rows
<1>3. PackInv => ChargedInTurn
  BY <1>1, <1>2 DEF ChargedInTurn
<1> QED BY PackStarts, PackSteps, <1>3, PTL DEF PackageSpec

(* Nobody pays more than the packages and the question sets have cost.      *)
THEOREM NeverOvercharged == PackageSpec => []NotOvercharged
<1>1. PackInv => NotOvercharged
  BY DEF PackInv
<1> QED BY PackStarts, PackSteps, <1>1, PTL DEF PackageSpec

(* A package that is open stays with its owner until its period is over or  *)
(* another package takes its place.                                         *)
THEOREM PaidPeriodsKept == PackageSpec => PaidPeriodKept
<1> DEFINE Kept ==
      \A i \in Rows \cap DOMAIN subs' :
         (Open(subs[i]) /\ ~Open(subs'[i])) =>
            \/ clock >= subs[i].ends
            \/ \E j \in DOMAIN subs' \ Rows :
                  /\ subs'[j].status = "active"
                  /\ \/ Free(subs[i].plan)
                     \/ TrackOf[subs'[j].plan] = TrackOf[subs[i].plan]
<1>1. PackInv /\ [PackageNext]_packageVars => [Kept]_packageVars
  <2> SUFFICES ASSUME PackInv, PackageNext PROVE Kept
    BY DEF packageVars, database
  <2>1. ASSUME subs' = subs PROVE Kept
    BY <2>1
  <2>2. ASSUME ClosedInTime(subs, subs') PROVE Kept
    <3>1. \A i \in Rows : subs[i].ends \in Nat
      BY RowFacts DEF Row
    <3>2. clock \in Nat
      BY DEF PackInv, PackageTypeOK
    <3> QED BY <2>2, <3>1, <3>2 DEF ClosedInTime, Rows
  <2>3. CASE Tick \/ \E amount \in Recharges : PayIn(amount)
    BY <2>1, <2>3 DEF Tick, PayIn, database
  <2>4. ASSUME NEW v \in Visits, PackageStep(v)
        PROVE  Kept
    <3>1. CASE \/ \E want \in Plans \cup {Nobody, CreateQuestions} :
                     Ask(v, want)
               \/ ListRows(v) \/ ListAgain(v) \/ EndVisit(v)
               \/ TakeAccount(v) \/ KeepPackage(v)
      <4>1. subs' = subs
        BY <3>1 DEF Ask, ListRows, ListAgain, EndVisit, TakeAccount,
                    KeepPackage, database
      <4> QED BY <2>1, <4>1
    <3>2. CASE ProvisionFree(v)
      BY <2>2, <3>2, ProvisionData
    <3>3. CASE Settle(v)
      BY <2>2, <3>3, SettleData
    <3>4. CASE \/ Interrupted(v) \/ RefuseActivation(v)
               \/ \E debit \in Debits : RefuseQuestions(v, debit)
      <4>1. Grows(subs', subs)
        BY <3>4, BackKeeps
      <4> QED BY <4>1 DEF Grows
    <3>5. CASE Activate(v)
      <4>1. Succeeded(subs, subs')
        BY <3>5, ActivateData
      <4> QED BY <4>1 DEF Succeeded, Rows
    <3>6. CASE \/ SaveWithPackage(v)
               \/ \E debit \in Debits : SaveWithCoins(v, debit)
      BY <3>6, SaveKeeps
    <3> QED BY <2>4, <3>1, <3>2, <3>3, <3>4, <3>5, <3>6 DEF PackageStep
  <2> QED BY <2>3, <2>4 DEF PackageNext
<1> QED BY PackStarts, PackSteps, <1>1, PTL DEF PackageSpec, PaidPeriodKept

---------------------------------------------------------------------------
(* The tracks.  One open row to a track, and no renewal beside the combined *)
(* package.                                                                 *)
Separate(s) ==
    \A i, j \in DOMAIN s :
        Open(s[i]) /\ Open(s[j]) =>
           /\ TrackOf[s[i].plan] = TrackOf[s[j].plan] => i = j
           /\ ~Individual(s[i].plan) /\ Individual(s[j].plan) => ~s[j].auto

(* An active row has not been tried, and a Free row is not renewed.         *)
Untried(s) ==
    \A i \in DOMAIN s :
        /\ s[i].status = "active" => s[i].tried = 0
        /\ Free(s[i].plan) => ~s[i].auto

(* r is q, edited: it may close or be renewed no more.                      *)
Quieter(q, r) ==
    /\ r.plan = q.plan
    /\ r.auto => q.auto
    /\ Open(r) => Open(q)
    /\ r.status = "active" => q.status = "active" /\ r.tried = q.tried

(* What a new row j of t has to be. *)
NewcomerOK(t, j) ==
    /\ t[j].tried = 0
    /\ Free(t[j].plan) => ~t[j].auto

FitsIn(t, j) ==
    Open(t[j]) =>
       \A i \in DOMAIN t : i # j /\ Open(t[i]) =>
          /\ TrackOf[t[i].plan] # TrackOf[t[j].plan]
          /\ ~Individual(t[i].plan) /\ Individual(t[j].plan) => ~t[j].auto
          /\ ~Individual(t[j].plan) /\ Individual(t[i].plan) => ~t[i].auto

LEMMA StaysUntried ==
  ASSUME NEW s, NEW t, Untried(s),
         \A i \in DOMAIN s : Quieter(s[i], t[i]),
         \A j \in DOMAIN t \ DOMAIN s : NewcomerOK(t, j)
  PROVE  Untried(t)
<1> SUFFICES ASSUME NEW j \in DOMAIN t
             PROVE  /\ t[j].status = "active" => t[j].tried = 0
                    /\ Free(t[j].plan) => ~t[j].auto
  BY DEF Untried
<1>1. CASE j \in DOMAIN s
  BY <1>1 DEF Untried, Quieter
<1>2. CASE j \notin DOMAIN s
  BY <1>2 DEF NewcomerOK
<1> QED BY <1>1, <1>2

LEMMA StaysSeparate ==
  ASSUME NEW s, NEW t, Separate(s),
         \A i \in DOMAIN s : Quieter(s[i], t[i]),
         \A j \in DOMAIN t \ DOMAIN s : FitsIn(t, j)
  PROVE  Separate(t)
<1> SUFFICES ASSUME NEW i \in DOMAIN t, NEW j \in DOMAIN t,
                    Open(t[i]), Open(t[j])
             PROVE  /\ TrackOf[t[i].plan] = TrackOf[t[j].plan] => i = j
                    /\ ~Individual(t[i].plan) /\ Individual(t[j].plan)
                          => ~t[j].auto
  BY DEF Separate
<1>1. CASE i \in DOMAIN s /\ j \in DOMAIN s
  <2>1. /\ Open(s[i]) /\ Open(s[j])
        /\ t[i].plan = s[i].plan /\ t[j].plan = s[j].plan
        /\ t[j].auto => s[j].auto
    BY <1>1 DEF Quieter
  <2> QED BY <1>1, <2>1 DEF Separate
<1>2. CASE i = j
  BY <1>2
<1>3. CASE i # j /\ i \notin DOMAIN s
  BY <1>3 DEF FitsIn
<1>4. CASE i # j /\ j \notin DOMAIN s
  BY <1>4 DEF FitsIn
<1> QED BY <1>1, <1>2, <1>3, <1>4

(* The rows a transaction has listed and settled give access, those it has  *)
(* closed apart.                                                            *)
SettledUpTo(v) ==
    visit[v].pc \in {"settling", "again"} =>
       \A i \in Visible(visit[v].at) \ visit[v].todo :
          Access(subs[i], visit[v].at)

TracksInv ==
    /\ PackInv
    /\ Untried(subs)
    /\ ~overtaken => Separate(subs)
    /\ lock # Nobody =>
          /\ Untried(saved[2])
          /\ ~overtaken => Separate(saved[2])
          /\ SettledUpTo(lock)

LEMMA QuieterSelf == ASSUME NEW r PROVE Quieter(r, r)
  BY DEF Quieter

---------------------------------------------------------------------------
(* A row that is closed, or left open, when it is settled.                  *)
LEMMA SettledInPlace ==
  ASSUME TracksInv, NEW v \in Visits, NEW i \in Rows,
         \/ CancelAfterGrace(v, i) \/ ExpireFree(v, i)
         \/ ExpireCovered(v, i) \/ ExpireUnrenewed(v, i)
         \/ LeaveRow(v, i)
         \/ \E charge : FailRenewal(v, i, charge)
  PROVE  /\ DOMAIN subs' = Rows
         /\ \A k \in Rows : Quieter(subs[k], subs'[k])
         /\ \A k \in Rows \ {i} : subs'[k] = subs[k]
         /\ Open(subs'[i]) => Access(subs'[i], visit[v].at)
<1> DEFINE old == subs[i]
           at == visit[v].at
<1>1. /\ old \in Row /\ RowOK(old) /\ subs \in Seq(Row) /\ DOMAIN subs = Rows
      /\ i \in DOMAIN subs /\ RowsOK(subs)
  BY RowFacts DEF TracksInv, Rows
<1>2. /\ at \in Nat /\ GracePeriod \in Nat /\ RetryInterval \in Nat
  BY TimeAssumption, VisitRead DEF TracksInv, VisitRow
<1>3. /\ old.ends \in Nat /\ old.grace \in Nat /\ old.graceEnds \in Nat
      /\ old.tried \in Nat /\ old.fails \in Nat /\ old.auto \in BOOLEAN
  BY <1>1 DEF Row
<1>4. CASE \E status \in {"cancelled", "expired"}, auto \in BOOLEAN :
              Close(i, status, auto) /\ (auto => old.auto)
  <2>1. PICK status \in {"cancelled", "expired"}, auto \in BOOLEAN :
           /\ subs' = [subs EXCEPT ![i].status = status, ![i].auto = auto]
           /\ auto => old.auto
    BY <1>4 DEF Close
  <2>2. /\ DOMAIN subs' = Rows /\ \A k \in Rows \ {i} : subs'[k] = subs[k]
        /\ subs'[i] = [old EXCEPT !.status = status, !.auto = auto]
    BY <1>1, <2>1
  <2>3. Quieter(old, subs'[i]) /\ ~Open(subs'[i])
    BY <1>1, <2>1, <2>2 DEF Quieter, Open, Row
  <2> QED BY <2>2, <2>3, QuieterSelf
<1>5. CASE LeaveRow(v, i)
  <2>1. subs' = subs
    BY <1>5 DEF LeaveRow, database
  <2>2. ASSUME Open(old) PROVE Access(old, at)
    <3>1. Live(i)
      BY <1>1, <2>2 DEF Live, Renewed, RowsOK, Succession, Rows
    <3>2. /\ ~GraceOver(i, at) /\ ~FreeOver(i, at)
          /\ Due(i, at) => Resting(i, at)
      BY <1>5, <3>1 DEF LeaveRow
    <3>3. CASE old.status = "grace"
      BY <1>2, <1>3, <3>2, <3>3 DEF GraceOver, Access
    <3>4. CASE old.status = "active" /\ Free(old.plan)
      <4>1. ~(old.ends + GracePeriod < at)
        BY <3>1, <3>2, <3>4 DEF FreeOver
      <4>2. old.ends + GracePeriod >= at
        BY <1>2, <1>3, <4>1
      <4> QED BY <3>4, <4>2 DEF Access
    <3>5. CASE old.status = "active" /\ ~Free(old.plan)
      <4>1. old.tried = 0
        BY <1>1, <3>5 DEF TracksInv, Untried
      <4>2. ~Due(i, at)
        BY <3>2, <4>1 DEF Resting
      <4>3. ~(old.ends <= at)
        BY <3>1, <3>2, <3>5, <4>2 DEF Due
      <4>4. old.ends > at
        BY <1>2, <1>3, <4>3
      <4> QED BY <3>5, <4>4 DEF Access
    <3> QED BY <2>2, <3>3, <3>4, <3>5 DEF Open
  <2> QED BY <1>1, <2>1, <2>2, QuieterSelf
<1>6. ASSUME NEW charge, FailRenewal(v, i, charge)
      PROVE  /\ DOMAIN subs' = Rows
             /\ \A k \in Rows : Quieter(subs[k], subs'[k])
             /\ \A k \in Rows \ {i} : subs'[k] = subs[k]
             /\ Open(subs'[i]) => Access(subs'[i], at)
  <2> DEFINE since == IF old.grace = 0 THEN at ELSE old.grace
             until == IF old.graceEnds = 0 THEN since + GracePeriod
                                           ELSE old.graceEnds
  <2>1. /\ subs' = [subs EXCEPT
                      ![i].status = "grace", ![i].tried = at,
                      ![i].fails = @ + 1, ![i].grace = since,
                      ![i].graceEnds = until]
        /\ Live(i) /\ ~GraceOver(i, at)
    BY <1>6 DEF FailRenewal, Chargeable, Due
  <2>2. until >= at
    <3>1. CASE old.graceEnds = 0
      <4>1. old.grace = 0
        BY <1>2, <1>3, <3>1, <1>1 DEF RowOK
      <4> QED BY <1>2, <3>1, <4>1
    <3>2. CASE old.graceEnds # 0
      <4>1. old.fails > 0 /\ old.status # "active"
        BY <1>1, <1>3, <3>2 DEF RowOK
      <4>2. old.status = "grace"
        BY <2>1, <4>1 DEF Live, Open
      <4> QED BY <1>2, <1>3, <2>1, <3>2, <4>2 DEF GraceOver
    <3> QED BY <3>1, <3>2
  <2> HIDE DEF since, until
  <2>3. /\ DOMAIN subs' = Rows /\ \A k \in Rows \ {i} : subs'[k] = subs[k]
        /\ subs'[i] = [old EXCEPT !.status = "grace", !.tried = at,
                                  !.fails = @ + 1, !.grace = since,
                                  !.graceEnds = until]
    BY <1>1, <2>1
  <2>4. /\ subs'[i].status = "grace" /\ subs'[i].plan = old.plan
        /\ subs'[i].auto = old.auto /\ subs'[i].graceEnds = until
    BY <1>1, <2>3 DEF Row
  <2>5. Quieter(old, subs'[i])
    BY <2>1, <2>4 DEF Quieter, Open, Live
  <2>6. Access(subs'[i], at)
    BY <2>2, <2>4 DEF Access
  <2> QED BY <2>3, <2>5, <2>6, QuieterSelf
<1>7. CASE CancelAfterGrace(v, i)
  BY <1>3, <1>4, <1>7 DEF CancelAfterGrace
<1>8. CASE ExpireFree(v, i)
  BY <1>3, <1>4, <1>8 DEF ExpireFree
<1>9. CASE ExpireCovered(v, i) \/ ExpireUnrenewed(v, i)
  BY <1>4, <1>9 DEF ExpireCovered, ExpireUnrenewed
<1> QED BY <1>5, <1>6, <1>7, <1>8, <1>9

(* A row that is renewed closes, and its successor takes its place.         *)
LEMMA SettledByRenewal ==
  ASSUME TracksInv, NEW v \in Visits, NEW i \in Rows, NEW charge,
         Renew(v, i, charge)
  PROVE  LET j == Len(subs) + 1 IN
         /\ DOMAIN subs' = Rows \cup {j} /\ j \notin Rows
         /\ \A k \in Rows : Quieter(subs[k], subs'[k])
         /\ \A k \in Rows \ {i} : subs'[k] = subs[k]
         /\ Open(subs[i]) /\ subs[i].auto /\ ~Open(subs'[i])
         /\ subs'[j].plan = subs[i].plan /\ subs'[j].tried = 0
         /\ ~Free(subs'[j].plan)
         /\ Access(subs'[j], visit[v].at)
<1> DEFINE old == subs[i]
           at == visit[v].at
           r == [old EXCEPT !.status = "expired", !.auto = FALSE,
                            !.tried = at]
           t == [subs EXCEPT ![i] = r]
           new == NewRow(old.plan, "active", at, charge, i)
           j == Len(subs) + 1
<1>1. subs' = Append(t, new) /\ Chargeable(i, at)
      /\ charge \in Renewals[old.plan]
  BY DEF Renew
<1>2. /\ old \in Row /\ subs \in Seq(Row) /\ i \in DOMAIN subs /\ i \in Nat
      /\ at \in Nat /\ DOMAIN subs = Rows
  BY RowFacts, VisitRead DEF TracksInv, VisitRow, Rows
<1>3. Open(old) /\ old.auto /\ ~Free(old.plan)
  BY <1>1 DEF Chargeable, Due, Live
<1>4. r \in Row /\ Quieter(old, r) /\ ~Open(r)
  BY <1>2, <1>3 DEF Row, Statuses, Quieter, Open
<1>5. new \in Row
  <2>1. old.plan \in Plans /\ charge \in Nat
    BY <1>1, <1>2, PlanAssumption DEF Row
  <2> HIDE DEF old, at
  <2> QED BY <1>2, <2>1, NewRowOK
<1>6. /\ new.plan = old.plan /\ new.tried = 0 /\ new.status = "active"
      /\ new.ends > at
  BY <1>2, TimeAssumption DEF NewRow
<1> HIDE DEF r, new
<1>7. /\ t \in Seq(Row) /\ Len(t) = Len(subs) /\ DOMAIN t = DOMAIN subs
      /\ t[i] = r /\ \A k \in Rows \ {i} : t[k] = subs[k]
  BY <1>2, <1>4
<1> HIDE DEF t
<1>8. /\ DOMAIN subs' = 1..j /\ DOMAIN subs = 1..Len(subs)
      /\ Len(subs) \in Nat
      /\ \A k \in Rows : subs'[k] = t[k]
      /\ subs'[j] = new
  BY <1>1, <1>2, <1>5, <1>7, AppendProperties
<1>9. DOMAIN subs' = Rows \cup {j} /\ j \notin Rows
  BY <1>2, <1>8
<1>10. Access(subs'[j], at)
  BY <1>6, <1>8 DEF Access
<1>11. \A k \in Rows : Quieter(subs[k], subs'[k])
  BY <1>4, <1>7, <1>8, QuieterSelf
<1> QED BY <1>3, <1>4, <1>6, <1>7, <1>8, <1>9, <1>10, <1>11

LEMMA SettleTracks ==
  ASSUME TracksInv, NEW v \in Visits, Settle(v)
  PROVE  TracksInv'
<1>1. PICK i \in Rows :
        \/ CancelAfterGrace(v, i)
        \/ ExpireFree(v, i)
        \/ ExpireCovered(v, i)
        \/ ExpireUnrenewed(v, i)
        \/ LeaveRow(v, i)
        \/ \E charge \in Renewals[subs[i].plan] :
              Renew(v, i, charge) \/ FailRenewal(v, i, charge)
  BY DEF Settle
<1>2. Settling(v, i)
  BY <1>1 DEF CancelAfterGrace, ExpireFree, ExpireCovered, ExpireUnrenewed,
              LeaveRow, Renew, FailRenewal
<1>3. /\ Turn(v) /\ visit[v].pc \in {"settling", "again"}
      /\ visit' = [visit EXCEPT ![v].todo = @ \ {i}]
      /\ UNCHANGED <<lock, saved, overtaken>>
  BY <1>2 DEF Settling
<1>4. PackInv' /\ DOMAIN subs = Rows /\ visit \in [Visits -> VisitRow]
  BY WriteKeeps DEF TracksInv, Rows, PackInv, PackageTypeOK, VisitRow
<1>5. /\ visit'[v].pc = visit[v].pc /\ visit'[v].at = visit[v].at
      /\ visit'[v].todo = visit[v].todo \ {i}
  BY <1>3, <1>4 DEF VisitRow
<1>6. lock # Nobody => lock = v
  BY <1>3 DEF Turn
<1> DEFINE at == visit[v].at
           Result == /\ Untried(subs')
                     /\ Separate(subs) => Separate(subs')
                     /\ \A k \in DOMAIN subs' :
                           k \notin Rows \/ k = i
                              => (Open(subs'[k]) => Access(subs'[k], at))
                     /\ Rows \subseteq DOMAIN subs'
                     /\ \A k \in Rows \ {i} : subs'[k] = subs[k]
<1>7. ASSUME \/ CancelAfterGrace(v, i) \/ ExpireFree(v, i)
             \/ ExpireCovered(v, i) \/ ExpireUnrenewed(v, i)
             \/ LeaveRow(v, i)
             \/ \E charge : FailRenewal(v, i, charge)
      PROVE  Result
  <2>1. /\ DOMAIN subs' = Rows
        /\ \A k \in Rows : Quieter(subs[k], subs'[k])
        /\ \A k \in Rows \ {i} : subs'[k] = subs[k]
        /\ Open(subs'[i]) => Access(subs'[i], at)
    BY <1>7, SettledInPlace
  <2>2. DOMAIN subs' \ DOMAIN subs = {}
    BY <1>4, <2>1
  <2>3. Untried(subs')
    BY <1>4, <2>1, <2>2, StaysUntried DEF TracksInv
  <2>4. Separate(subs) => Separate(subs')
    BY <1>4, <2>1, <2>2, StaysSeparate
  <2> QED BY <2>1, <2>3, <2>4
<1>8. ASSUME NEW charge, Renew(v, i, charge) PROVE Result
  <2> DEFINE j == Len(subs) + 1
  <2>1. /\ DOMAIN subs' = Rows \cup {j} /\ j \notin Rows
        /\ \A k \in Rows : Quieter(subs[k], subs'[k])
        /\ \A k \in Rows \ {i} : subs'[k] = subs[k]
        /\ Open(subs[i]) /\ subs[i].auto /\ ~Open(subs'[i])
        /\ subs'[j].plan = subs[i].plan /\ subs'[j].tried = 0
        /\ ~Free(subs'[j].plan)
        /\ Access(subs'[j], at)
    BY <1>8, SettledByRenewal
  <2> HIDE DEF j
  <2>2. DOMAIN subs' \ DOMAIN subs = {j}
    BY <1>4, <2>1
  <2>3. Untried(subs')
    BY <1>4, <2>1, <2>2, StaysUntried DEF TracksInv, NewcomerOK
  <2>4. ASSUME Separate(subs) PROVE Separate(subs')
    <3>1. FitsIn(subs', j)
      <4> SUFFICES ASSUME NEW k \in DOMAIN subs', k # j, Open(subs'[k])
                   PROVE  /\ TrackOf[subs'[k].plan] # TrackOf[subs'[j].plan]
                          /\ Individual(subs'[k].plan)
                                \/ ~Individual(subs'[j].plan)
                          /\ ~Individual(subs'[j].plan)
                               /\ Individual(subs'[k].plan)
                                => ~subs'[k].auto
        BY DEF FitsIn
      <4>1. k \in Rows /\ k # i /\ subs'[k] = subs[k]
        BY <2>1
      <4> QED BY <1>4, <2>1, <2>4, <4>1 DEF Separate
    <3> QED BY <1>4, <2>1, <2>2, <2>4, <3>1, StaysSeparate
  <2>5. \A k \in DOMAIN subs' :
           k \notin Rows \/ k = i => (Open(subs'[k]) => Access(subs'[k], at))
    BY <2>1
  <2> QED BY <2>1, <2>3, <2>4, <2>5
<1>9. Result
  BY <1>1, <1>7, <1>8
<1>10. ASSUME lock = v, SettledUpTo(v) PROVE SettledUpTo(v)'
  <2> SUFFICES ASSUME NEW k \in DOMAIN subs', Open(subs'[k]),
                      subs'[k].starts <= at, k \notin visit[v].todo \ {i}
               PROVE  Access(subs'[k], at)
    BY <1>5 DEF SettledUpTo, Visible, Rows
  <2>1. CASE k \notin Rows \/ k = i
    BY <1>9, <2>1
  <2>2. CASE k \in Rows /\ k # i
    <3>1. k \in Visible(at) \ visit[v].todo /\ subs'[k] = subs[k]
      BY <1>9, <2>2 DEF Visible
    <3> QED BY <1>3, <1>10, <3>1 DEF SettledUpTo
  <2> QED BY <2>1, <2>2
<1> QED BY <1>3, <1>4, <1>6, <1>9, <1>10 DEF TracksInv

(* Steps that write no row.                                                 *)
LEMMA QuietTracks ==
  ASSUME TracksInv, PackInv', lock = Nobody, lock' = Nobody,
         UNCHANGED <<subs, overtaken>>
  PROVE  TracksInv'
BY DEF TracksInv

LEMMA ListTracks ==
  ASSUME TracksInv, NEW v \in Visits, ListRows(v) \/ ListAgain(v)
  PROVE  TracksInv'
<1>1. PackInv' /\ visit \in [Visits -> VisitRow]
  BY RequestKeeps DEF TracksInv, PackInv, PackageTypeOK, VisitRow
<1>2. /\ UNCHANGED <<subs, lock, saved, overtaken>>
      /\ \E pc \in {"settling", "again"} :
            visit' = [visit EXCEPT ![v].pc = pc,
                                   ![v].todo = Visible(visit[v].at)]
  BY DEF ListRows, ListAgain, database
<1>3. /\ visit'[v].todo = Visible(visit[v].at)
      /\ visit'[v].at = visit[v].at
      /\ \A w \in Visits : w # v => visit'[w] = visit[w]
  BY <1>1, <1>2 DEF VisitRow
<1>4. ASSUME lock # Nobody PROVE SettledUpTo(lock)'
  <2>1. lock \in Visits /\ SettledUpTo(lock)
    BY <1>4 DEF TracksInv, PackInv, PackageTypeOK
  <2>2. CASE lock = v
    BY <1>2, <1>3, <2>2 DEF SettledUpTo, Visible, Rows
  <2>3. CASE lock # v
    BY <1>2, <1>3, <2>1, <2>3 DEF SettledUpTo, Visible, Rows
  <2> QED BY <2>2, <2>3
<1> QED BY <1>1, <1>2, <1>4 DEF TracksInv

LEMMA TakeTracks ==
  ASSUME TracksInv, NEW v \in Visits, TakeAccount(v)
  PROVE  TracksInv'
<1>1. PackInv' /\ visit \in [Visits -> VisitRow]
  BY TakeKeeps DEF TracksInv, PackInv, PackageTypeOK, VisitRow
<1>2. /\ lock' = v /\ saved'[2] = subs /\ UNCHANGED <<subs, overtaken>>
      /\ visit'[v].pc = "holding"
  BY <1>1 DEF TakeAccount, database, VisitRow
<1>3. SettledUpTo(v)'
  BY <1>2 DEF SettledUpTo
<1> QED BY <1>1, <1>2, <1>3 DEF TracksInv

(* A transaction that keeps or restores the rows.                           *)
LEMMA EndTracks ==
  ASSUME TracksInv, NEW v \in Visits,
         \/ KeepPackage(v) \/ Interrupted(v) \/ RefuseActivation(v)
         \/ \E debit \in Debits : RefuseQuestions(v, debit)
  PROVE  TracksInv'
<1>1. PackInv'
  BY KeepKeeps, BackKeeps DEF TracksInv
<1>2. CASE KeepPackage(v)
  <2>1. UNCHANGED <<subs, overtaken>> /\ lock' = Nobody
    BY <1>2 DEF KeepPackage, Release, database
  <2> QED BY <1>1, <2>1 DEF TracksInv
<1>3. CASE \/ Interrupted(v) \/ RefuseActivation(v)
           \/ \E debit \in Debits : RefuseQuestions(v, debit)
  <2>1. lock = v /\ RollBack(v)
    BY <1>3 DEF Interrupted, RefuseActivation, RefuseQuestions, Activates,
                Activating, Saving
  <2>2. subs' = saved[2] /\ overtaken' = overtaken /\ lock' = Nobody
    BY <2>1 DEF RollBack, Release
  <2>3. Untried(saved[2]) /\ (~overtaken => Separate(saved[2]))
    BY <2>1, PlanAssumption DEF TracksInv
  <2> QED BY <1>1, <2>2, <2>3 DEF TracksInv
<1> QED BY <1>2, <1>3

LEMMA SaveTracks ==
  ASSUME TracksInv, NEW v \in Visits,
         SaveWithPackage(v) \/ \E debit \in Debits : SaveWithCoins(v, debit)
  PROVE  TracksInv'
<1>1. PackInv' /\ DOMAIN subs = Rows
  BY SaveKeeps DEF TracksInv, Rows
<1>2. /\ overtaken' = overtaken /\ lock' = Nobody
      /\ \E full : TakeUnits(full)
  BY DEF SaveWithPackage, SaveWithCoins, Release
<1>3. PICK full : TakeUnits(full)
  BY <1>2
<1>4. DOMAIN subs' = Rows
  BY <1>3 DEF TakeUnits
<1>5. ASSUME NEW k \in Rows PROVE Quieter(subs[k], subs'[k])
  <2>1. subs[k] \in Row /\ subs'[k] = [subs[k] EXCEPT !.usedUp =
                                         subs[k].usedUp \/ k \in full]
    BY <1>3, RowFacts DEF TakeUnits, TracksInv
  <2> DEFINE used == subs[k].usedUp \/ k \in full
  <2> HIDE DEF used
  <2>2. subs'[k] = [subs[k] EXCEPT !.usedUp = used]
    BY <2>1 DEF used
  <2> QED BY <2>1, <2>2 DEF Quieter, Open, Row
<1>6. Untried(subs') /\ (~overtaken => Separate(subs'))
  BY <1>1, <1>4, <1>5, StaysUntried, StaysSeparate DEF TracksInv
<1> QED BY <1>1, <1>2, <1>6 DEF TracksInv

LEMMA NewRowFields ==
  ASSUME NEW p, NEW status, NEW at, NEW payable, NEW prev, NEW used
  PROVE  LET r == NewRow(p, status, at, payable, prev)
             t == [r EXCEPT !.usedUp = used] IN
         /\ r.plan = p /\ r.status = status /\ r.tried = 0
         /\ t.plan = p /\ t.status = status /\ t.tried = 0
         /\ PriceOf[p] = 0 => ~r.auto /\ ~t.auto
<1> DEFINE auto == PriceOf[p] > 0
<1>1. PriceOf[p] = 0 => auto = FALSE
  OBVIOUS
<1> HIDE DEF auto
<1>2. NewRow(p, status, at, payable, prev) =
        [plan |-> p, status |-> status, starts |-> at, ends |-> at + Period,
         auto |-> auto, payable |-> payable, prev |-> prev,
         tried |-> 0, fails |-> 0, grace |-> 0, graceEnds |-> 0,
         usedUp |-> FALSE]
  BY DEF NewRow, auto
<1> QED BY <1>1, <1>2

(* A Free row comes where there is none, and is open only if no package of  *)
(* another price is.                                                        *)
LEMMA ProvisionTracks ==
  ASSUME TracksInv, NEW v \in Visits, ProvisionFree(v)
  PROVE  TracksInv'
<1> DEFINE n == Cardinality(FreeMissing)
           m == Len(subs)
           at == visit[v].at
<1>1. /\ m \in Nat /\ n \in Nat /\ Rows = 1..m
      /\ subs' \in Seq(Row) /\ Len(subs') = m + n
      /\ \A j \in Rows : subs'[j] = subs[j]
      /\ \E order \in [1..n -> FreeMissing] :
            /\ \A p \in FreeMissing : \E k \in 1..n : order[k] = p
            /\ \A j \in DOMAIN subs' \ Rows :
                  /\ j - m \in 1..n
                  /\ subs'[j] = NewRow(order[j - m], FreeStatus, at, 0, 0)
  BY ProvisionShape DEF TracksInv
<1> HIDE DEF n, m, at
<1>2. PICK order \in [1..n -> FreeMissing] :
        /\ \A p \in FreeMissing : \E k \in 1..n : order[k] = p
        /\ \A j \in DOMAIN subs' \ Rows :
              /\ j - m \in 1..n
              /\ subs'[j] = NewRow(order[j - m], FreeStatus, at, 0, 0)
  BY <1>1
<1>3. \A k, l \in 1..n : order[k] = order[l] => k = l
  <2>1. order \in Surjection(1..n, FreeMissing)
    BY <1>2 DEF Surjection
  <2>2. IsFiniteSet(1..n) /\ Cardinality(1..n) = n
    BY <1>1, FS_Interval
  <2>3. order \in Injection(1..n, FreeMissing)
    BY <2>1, <2>2, FS_SurjSameCardinalityImpliesInj DEF n
  <2> QED BY <2>3 DEF Injection, IsInjective
<1>4. /\ PackInv' /\ DOMAIN subs = Rows
      /\ UNCHANGED <<lock, saved, visit, overtaken>>
      /\ visit[v].pc \notin {"settling", "again"} /\ Turn(v)
  BY WriteKeeps DEF ProvisionFree, Arrived, Rows, TracksInv
<1>5. DOMAIN subs' = 1..(m + n) /\ Rows \subseteq DOMAIN subs'
  BY <1>1
<1> DEFINE Fresh == DOMAIN subs' \ Rows
<1>6. ASSUME NEW j \in Fresh
      PROVE  /\ subs'[j].plan = order[j - m] /\ subs'[j].plan \in FreeMissing
             /\ subs'[j].tried = 0
             /\ subs'[j].status = FreeStatus /\ ~subs'[j].auto
  <2>1. /\ subs'[j] = NewRow(order[j - m], FreeStatus, at, 0, 0)
        /\ order[j - m] \in FreeMissing
    BY <1>2
  <2>2. PriceOf[order[j - m]] = 0
    BY <2>1 DEF FreeMissing, Free
  <2> QED BY <2>1, <2>2, NewRowFields
<1>7. \A k \in Rows : Quieter(subs[k], subs'[k])
  BY <1>1, QuieterSelf
<1>8. Untried(subs')
  BY <1>4, <1>6, <1>7, StaysUntried DEF TracksInv, NewcomerOK
<1>9. ASSUME Separate(subs) PROVE Separate(subs')
  <2>1. ASSUME NEW j \in Fresh, Open(subs'[j]),
               NEW i \in DOMAIN subs', i # j, Open(subs'[i])
        PROVE  /\ TrackOf[subs'[i].plan] # TrackOf[subs'[j].plan]
               /\ ~subs'[i].auto
    <3>1. /\ Free(subs'[j].plan) /\ subs'[j].plan \in Plans
      BY <1>6 DEF FreeMissing
    <3>2. \A k \in Rows : Open(subs[k]) => Free(subs[k].plan)
      BY <1>6, <2>1 DEF FreeStatus, Open
    <3>3. CASE i \in Rows
      <4>1. Free(subs[i].plan) /\ subs'[i] = subs[i]
        BY <1>1, <2>1, <3>2, <3>3
      <4>2. ~subs[i].auto
        BY <1>4, <3>3, <4>1 DEF TracksInv, Untried
      <4>3. TrackOf[subs[i].plan] # TrackOf[subs'[j].plan]
        BY <1>6, <3>3, <4>1 DEF FreeMissing
      <4> QED BY <4>1, <4>2, <4>3
    <3>4. CASE i \notin Rows
      <4>1. Free(subs'[i].plan) /\ subs'[i].plan \in Plans /\ ~subs'[i].auto
        BY <1>6, <3>4 DEF FreeMissing
      <4>2. i - m \in 1..n /\ j - m \in 1..n /\ i - m # j - m
        BY <1>1, <1>2, <1>5, <2>1, <3>4
      <4>3. subs'[i].plan # subs'[j].plan
        BY <1>3, <1>6, <3>4, <4>2
      <4> QED BY <3>1, <4>1, <4>3, FreePlanAssumption DEF Free
    <3> QED BY <3>3, <3>4
  <2>2. \A j \in Fresh : FitsIn(subs', j)
    BY <1>6, <2>1 DEF FitsIn
  <2> QED BY <1>4, <1>7, <1>9, <2>2, StaysSeparate
<1>10. lock # Nobody => lock = v
  BY <1>4 DEF Turn
<1>11. SettledUpTo(v)'
  BY <1>4 DEF SettledUpTo
<1> QED BY <1>4, <1>8, <1>9, <1>10, <1>11 DEF TracksInv

(* An activation that sees every open row in its way replaces the one on    *)
(* its track and turns off the renewal of what its plan includes.           *)
LEMMA ActivateTracks ==
  ASSUME TracksInv, NEW v \in Visits, Activate(v)
  PROVE  TracksInv'
<1> DEFINE p == visit[v].want
           at == visit[v].at
           current == IF CurrentRows(v) = {} THEN {}
                                             ELSE {Best(CurrentRows(v))}
           j == Len(subs) + 1
<1>1. /\ p \in Plans /\ Rows = DOMAIN subs
      /\ DOMAIN subs' = Rows \cup {j} /\ j \notin Rows
      /\ \A i \in Rows : subs'[i] = Replaced(i, p, current)
      /\ \E used \in BOOLEAN :
            subs'[j] = [NewRow(p, "active", at, Payable(v), 0)
                          EXCEPT !.usedUp = used]
  BY ActivateShape DEF TracksInv
<1>2. /\ PackInv' /\ lock = v /\ lock' = Nobody
      /\ visit[v].pc = "again" /\ visit[v].todo = {} /\ ~Included(v)
      /\ overtaken' = (overtaken \/ Overtaken(p, at))
  BY ActivateKeeps DEF TracksInv, Activate, Activates, Activating, Release
<1> HIDE DEF current, j
<1>3. /\ subs'[j].plan = p /\ subs'[j].tried = 0
      /\ Free(p) => ~subs'[j].auto
  <2>1. PICK used \in BOOLEAN :
          subs'[j] = [NewRow(p, "active", at, Payable(v), 0)
                        EXCEPT !.usedUp = used]
    BY <1>1
  <2> HIDE DEF p, at
  <2> QED BY <2>1, NewRowFields DEF Free
<1>4. ASSUME NEW i \in Rows
      PROVE  /\ Quieter(subs[i], subs'[i])
             /\ Superseded(i, p, current) => ~Open(subs'[i])
             /\ ~Individual(p) /\ Individual(subs'[i].plan)
                  /\ Open(subs'[i]) => ~subs'[i].auto
  <2> DEFINE r == subs[i]
  <2>1. r \in Row /\ subs'[i] = Replaced(i, p, current)
    BY <1>1, RowFacts DEF TracksInv, Rows
  <2>2. CASE Superseded(i, p, current)
    <3>1. subs'[i] = [r EXCEPT !.status = "superseded", !.auto = FALSE]
      BY <2>1, <2>2 DEF Replaced
    <3> QED BY <2>1, <3>1 DEF Row, Quieter, Open
  <2>3. CASE ~Superseded(i, p, current) /\ TakenOver(r, p)
    <3>1. subs'[i] = [r EXCEPT !.auto = FALSE]
      BY <2>1, <2>3 DEF Replaced
    <3> QED BY <2>1, <2>3, <3>1 DEF Row, Quieter, Open
  <2>4. CASE ~Superseded(i, p, current) /\ ~TakenOver(r, p)
    <3>1. subs'[i] = r
      BY <2>1, <2>4 DEF Replaced
    <3> QED BY <2>4, <3>1, QuieterSelf DEF TakenOver
  <2> QED BY <2>2, <2>3, <2>4
<1>5. DOMAIN subs' \ DOMAIN subs = {j}
  BY <1>1
<1>6. Untried(subs')
  BY <1>1, <1>3, <1>4, <1>5, StaysUntried DEF TracksInv, NewcomerOK
<1>7. ASSUME ~overtaken' PROVE Separate(subs')
  <2>1. /\ Separate(subs)
        /\ \A i \in Rows :
              /\ Open(subs[i])
              /\ TrackOf[subs[i].plan] \in {TrackOf[p], "combined"}
              => ~(subs[i].starts > at)
    BY <1>2, <1>7 DEF TracksInv, Overtaken
  <2>2. ASSUME NEW i \in Rows, Open(subs[i]),
               TrackOf[subs[i].plan] \in {TrackOf[p], "combined"}
        PROVE  i \in InUse(TrackOf[subs[i].plan], at)
    <3>1. subs[i].starts \in Nat /\ at \in Nat
      BY <1>1, RowFacts, VisitRead DEF TracksInv, Row, VisitRow
    <3>2. subs[i].starts <= at
      BY <2>1, <2>2, <3>1
    <3>3. i \in Visible(at)
      BY <2>2, <3>2 DEF Visible
    <3>4. SettledUpTo(v)
      BY <1>2, PlanAssumption DEF TracksInv
    <3>5. Access(subs[i], at)
      BY <1>2, <3>3, <3>4 DEF SettledUpTo
    <3> QED BY <3>3, <3>5 DEF InUse
  <2>3. ASSUME NEW i \in Rows, Open(subs[i]),
               TrackOf[subs[i].plan] = TrackOf[p]
        PROVE  i \in current
    <3>1. i \in CurrentRows(v)
      BY <2>2, <2>3 DEF CurrentRows
    <3>2. /\ CurrentRows(v) \in SUBSET Rows /\ PackageTypeOK
          /\ CurrentRows(v) # {}
      BY <3>1 DEF CurrentRows, InUse, Visible, TracksInv, PackInv
    <3>3. Best(CurrentRows(v)) \in CurrentRows(v)
      BY <3>2, BestIn
    <3>4. \A k \in CurrentRows(v) :
             /\ k \in Rows /\ Open(subs[k])
             /\ TrackOf[subs[k].plan] = TrackOf[p]
      BY DEF CurrentRows, InUse, Visible
    <3>5. i = Best(CurrentRows(v))
      BY <1>1, <2>1, <2>3, <3>3, <3>4 DEF Separate
    <3> QED BY <3>2, <3>5 DEF current
  <2>4. FitsIn(subs', j)
    <3> SUFFICES ASSUME NEW i \in DOMAIN subs', i # j, Open(subs'[i])
                 PROVE  /\ TrackOf[subs'[i].plan] # TrackOf[p]
                        /\ Individual(subs'[i].plan) \/ ~Individual(p)
                        /\ ~Individual(p) /\ Individual(subs'[i].plan)
                             => ~subs'[i].auto
      BY <1>3 DEF FitsIn
    <3>1. i \in Rows
      BY <1>1
    <3>2. Open(subs[i]) /\ subs'[i].plan = subs[i].plan
      BY <1>4, <3>1 DEF Quieter
    <3>3. i \notin current
      BY <1>4, <3>1 DEF Superseded
    <3>4. TrackOf[subs[i].plan] # TrackOf[p]
      BY <2>3, <3>1, <3>2, <3>3
    <3>5. Individual(subs[i].plan) \/ ~Individual(p)
      <4> SUFFICES ASSUME ~Individual(subs[i].plan), Individual(p)
                   PROVE  FALSE
        OBVIOUS
      <4>1. i \in InUse("combined", at)
        BY <2>2, <3>1, <3>2 DEF Individual
      <4> QED BY <1>2, <4>1 DEF Included
    <3> QED BY <1>4, <3>1, <3>2, <3>4, <3>5
  <2> QED BY <1>1, <1>4, <1>5, <2>1, <2>4, StaysSeparate
<1> QED BY <1>2, <1>6, <1>7 DEF TracksInv

LEMMA TracksStart == PackageInit => TracksInv
<1> SUFFICES ASSUME PackageInit PROVE TracksInv
  OBVIOUS
<1>1. DOMAIN subs = {} /\ lock = Nobody
  BY DEF PackageInit
<1> QED BY <1>1, PackStarts DEF TracksInv, Untried, Separate

LEMMA TracksStep == TracksInv /\ [PackageNext]_packageVars => TracksInv'
<1> SUFFICES ASSUME TracksInv, [PackageNext]_packageVars
             PROVE  TracksInv'
  OBVIOUS
<1>1. PackInv'
  BY PackSteps DEF TracksInv
<1>2. ASSUME NEW v \in Visits, PackageStep(v)
      PROVE  TracksInv'
  <2>1. CASE \/ \E want \in Plans \cup {Nobody, CreateQuestions} :
                   Ask(v, want)
             \/ EndVisit(v)
    <3>1. /\ lock = Nobody /\ lock' = Nobody
          /\ UNCHANGED <<subs, overtaken>>
      BY <2>1 DEF Ask, EndVisit, database
    <3> QED BY <1>1, <3>1, QuietTracks
  <2>2. CASE TakeAccount(v)
    BY <2>2, TakeTracks
  <2>3. CASE ListRows(v) \/ ListAgain(v)
    BY <2>3, ListTracks
  <2>4. CASE ProvisionFree(v)
    BY <2>4, ProvisionTracks
  <2>5. CASE Settle(v)
    BY <2>5, SettleTracks
  <2>6. CASE \/ KeepPackage(v) \/ Interrupted(v) \/ RefuseActivation(v)
             \/ \E debit \in Debits : RefuseQuestions(v, debit)
    BY <2>6, EndTracks
  <2>7. CASE Activate(v)
    BY <2>7, ActivateTracks
  <2>8. CASE \/ SaveWithPackage(v)
             \/ \E debit \in Debits : SaveWithCoins(v, debit)
    BY <2>8, SaveTracks
  <2> QED BY <1>2, <2>1, <2>2, <2>3, <2>4, <2>5, <2>6, <2>7, <2>8
          DEF PackageStep
<1>3. CASE Tick \/ \E amount \in Recharges : PayIn(amount)
  <2>1. /\ lock = Nobody /\ lock' = Nobody
        /\ UNCHANGED <<subs, overtaken>>
    BY <1>3 DEF Tick, PayIn, database
  <2> QED BY <1>1, <2>1, QuietTracks
<1>4. CASE UNCHANGED packageVars
  <2>1. UNCHANGED <<subs, lock, saved, visit, overtaken>>
    BY <1>4 DEF packageVars, database
  <2> QED BY <1>1, <2>1 DEF TracksInv, SettledUpTo, Visible, Rows
<1> QED BY <1>2, <1>3, <1>4 DEF PackageNext

(* The tracks stay separate, and none of them is charged beside the         *)
(* combined one, whatever requests of the account are under way, unless an  *)
(* activation waited while one with a later clock was served.               *)
THEOREM TracksStaySeparate == PackageSpec => []TracksSeparate
<1>1. TracksInv => TracksSeparate
  BY DEF TracksInv, Separate, TracksSeparate, CoveredNotRenewed,
         OneOpenPerTrack, Rows
<1> QED BY TracksStart, TracksStep, <1>1, PTL DEF PackageSpec
=============================================================================
