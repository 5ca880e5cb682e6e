---------------------------- MODULE ExamAttempts ----------------------------
(***************************************************************************)
(* The exams of one student: the attempts the server issues, the results   *)
(* it records and the number of exams that the membership badge is worth.  *)
(* Attempts and counters are kept in Customer.settings, results in rows of *)
(* StudentExamRecord, older results in the settings as well.               *)
(*                                                                         *)
(* Starting and submitting lock the account and are one action each.  The  *)
(* account form and a page that refreshes the membership do not: what they *)
(* read and what they write are two actions.                               *)
(***************************************************************************)
EXTENDS Integers, FiniteSets

CONSTANTS
    Sets,        \* question sets
    MaxActive,   \* MAX_ACTIVE_ATTEMPTS, 20 in the code
    Legacy,      \* results in the settings from before the rows
    OldCount,    \* membership_exam_lifetime_count at the start
    OldPassed,   \* membership_exam_passed_count at the start
    MaxIssued    \* bound: attempts that are issued

Result == [attempt : Nat \ {0}, passed : BOOLEAN]

ASSUME AttemptAssumption ==
    /\ MaxActive \in Nat \ {0}
    /\ MaxIssued \in Nat
    /\ Legacy \subseteq Result
    /\ IsFiniteSet(Legacy)
    /\ \A r \in Legacy : r.attempt > MaxIssued
    /\ OldCount \in Nat
    /\ OldPassed \in 0..OldCount

VARIABLES
    settings,    \* the active attempts and the two counters
    records,     \* the StudentExamRecord rows
    issued,      \* attempts issued so far
    over,        \* those whose time and grace are over
    form,        \* the settings an open account form read, or none
    page,        \* the count a page is about to write, or none
    progress,    \* MembershipProgress.raw_metric_count
    overwritten  \* history: a form put older settings back

attemptVars == <<settings, records, issued, over, form, page, progress,
                 overwritten>>

NoForm == {}
NoCount == -1

(* Numbered as they are issued: new ones go in front of the list in the     *)
(* settings, so that the newer of two attempts is the one before the other. *)
IssuedAttempt == [id : 1..MaxIssued, set : Sets]
Settings == [attempts : SUBSET IssuedAttempt, total : Nat, passed : Nat]

AttemptTypeOK ==
    /\ settings \in Settings
    /\ Cardinality(settings.attempts) <= MaxActive
    /\ records \subseteq Result
    /\ issued \in 0..MaxIssued
    /\ over \subseteq 1..issued
    /\ form \in SUBSET Settings /\ Cardinality(form) <= 1
    /\ page \in Nat \cup {NoCount}
    /\ progress \in Nat
    /\ overwritten \in BOOLEAN

AttemptInit ==
    /\ settings = [attempts |-> {}, total |-> OldCount,
                   passed |-> OldPassed]
    /\ records = {}
    /\ issued = 0
    /\ over = {}
    /\ form = NoForm
    /\ page = NoCount
    /\ progress = 0
    /\ overwritten = FALSE

---------------------------------------------------------------------------
(* Attempts *)

InTime(attempts) == {a \in attempts : a.id \notin over}

Latest(attempts) ==
    {a \in attempts :
        Cardinality({b \in attempts : b.id > a.id}) < MaxActive}

(* The set is opened: its attempt is resumed, or a new one goes in front,   *)
(* and those over time and beyond the limit are dropped.                    *)
StartExam(s) ==
    LET live == InTime(settings.attempts)
        resumed == \E a \in live : a.set = s
        issue == [id |-> issued + 1, set |-> s]
    IN  /\ \/ /\ resumed
              /\ settings' = [settings EXCEPT !.attempts = Latest(live)]
              /\ UNCHANGED issued
           \/ /\ ~resumed
              /\ issued < MaxIssued
              /\ settings' = [settings EXCEPT
                                 !.attempts = Latest({issue} \cup live)]
              /\ issued' = issued + 1
        /\ UNCHANGED <<records, over, form, page, progress, overwritten>>

RunOut(id) ==
    /\ id \in 1..issued \ over
    /\ over' = over \cup {id}
    /\ UNCHANGED <<settings, records, issued, form, page, progress,
                   overwritten>>

---------------------------------------------------------------------------
(* Results *)

Results == records \cup Legacy
Passed(results) == {r \in results : r.passed}

AtLeast(m, n) == IF m < n THEN n ELSE m

(* What _exam_metrics makes of the counters and the rows.                   *)
Attended == AtLeast(settings.total, Cardinality(Results))
AttendedPassed == AtLeast(settings.passed, Cardinality(Passed(Results)))

Recorded(id) == \E r \in Results : r.attempt = id

NextTotalByRows == Cardinality(Results) + 1
NextTotal == Attended + 1

(* A submission of an attempt that is recorded gets the recorded result     *)
(* again; one that is not active, of another set or too late is refused.    *)
SubmitExam(id, passed) ==
    LET attempts == settings.attempts
        result == [attempt |-> id, passed |-> passed]
    IN  /\ ~Recorded(id)
        /\ id \notin over
        /\ \E a \in attempts : a.id = id
        /\ settings' =
              [attempts |-> Latest({a \in attempts : a.id # id}),
               total |-> NextTotal,
               passed |-> AttendedPassed + (IF passed THEN 1 ELSE 0)]
        /\ records' = records \cup {result}
        /\ progress' = AtLeast(progress,
                               AtLeast(NextTotal, Cardinality(Results) + 1))
        /\ UNCHANGED <<issued, over, form, page, overwritten>>

(* A page refreshes the membership without the lock.                        *)
OpenPage ==
    /\ page = NoCount
    /\ page' = AtLeast(progress, Attended)
    /\ UNCHANGED <<settings, records, issued, over, form, progress,
                   overwritten>>

WriteProgress ==
    /\ page # NoCount
    /\ progress' = page
    /\ page' = NoCount
    /\ UNCHANGED <<settings, records, issued, over, form, overwritten>>

---------------------------------------------------------------------------
(* The account form reads the whole row and writes the whole row.           *)

OpenAccountForm ==
    /\ form = NoForm
    /\ form' = {settings}
    /\ UNCHANGED <<settings, records, issued, over, page, progress,
                   overwritten>>

SaveAccountForm ==
    /\ form # NoForm
    /\ settings' \in form
    /\ overwritten' = (overwritten \/ settings \notin form)
    /\ form' = NoForm
    /\ UNCHANGED <<records, issued, over, page, progress>>

AttemptNext ==
    \/ \E s \in Sets : StartExam(s)
    \/ \E id \in 1..MaxIssued : RunOut(id)
    \/ \E id \in 1..MaxIssued, passed \in BOOLEAN : SubmitExam(id, passed)
    \/ OpenPage
    \/ WriteProgress
    \/ OpenAccountForm
    \/ SaveAccountForm

AttemptSpec == AttemptInit /\ [][AttemptNext]_attemptVars

---------------------------------------------------------------------------
ExamsTaken == AtLeast(OldCount, Cardinality(Legacy)) + Cardinality(records)

(* Every exam is worth one to the badge, however often it is submitted and  *)
(* whatever a form puts back: the counters never show more exams than were  *)
(* taken, nor more passed than attended; and no fewer unless a form wrote   *)
(* older counters over newer ones (student_views.py 374-408, membership.py  *)
(* 83-104 and 145).                                                         *)
ExamsCountedOnce ==
    /\ Attended <= ExamsTaken
    /\ progress <= ExamsTaken
    /\ AttendedPassed <= Attended
    /\ ~overwritten => Attended = ExamsTaken
=============================================================================
