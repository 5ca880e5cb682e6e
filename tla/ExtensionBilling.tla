--------------------------- MODULE ExtensionBilling ---------------------------
(***************************************************************************)
(* What a team owes for the extension in one billing period: recorded      *)
(* requests, quota, bonus, pay-as-you-go, prepaid credit and the events of *)
(* the payment provider.  A call of the API works on the rows it read and  *)
(* writes the values it computed from them, so overlapping calls overwrite *)
(* each other; the session does not flush before it queries.  A request    *)
(* beyond the quota costs one unit; line edits, billed alike, are not      *)
(* modelled.  The chat itself and the provider are outside the service.    *)
(***************************************************************************)
EXTENDS Naturals, Sequences, FiniteSets, Functions

CONSTANTS
    Users,      \* members of the team
    Calls,      \* calls of the API under way together
    Quota,      \* of the plan "free" and of a "paid" one, in requests
    Cap,        \* uncovered overage at which requests are blocked
    TopUps,     \* amounts of prepaid credit
    MaxUses,    \* bound: requests of each member, and of a guest
    MaxBuys     \* bound: purchases

(* The row of the prepaid credit, beside those of the members.              *)
Purse == "purse"

ASSUME BillingAssumption ==
    /\ Quota \in [{"free", "paid"} -> Nat]
    /\ Quota["free"] <= Quota["paid"]
    /\ Cap \in Nat \ {0}
    /\ TopUps \subseteq Nat
    /\ IsFiniteSet(Users) /\ Users # {} /\ Purse \notin Users
    /\ IsFiniteSet(Calls) /\ Calls # {}
    /\ MaxBuys \in Nat

VARIABLES
    db,       \* the rows of the team, its members and a device
    call,     \* what each call is doing
    charges,  \* amounts of open pay-as-you-go charges, by number
    notices,  \* events that the provider has to deliver
    buys,     \* history: purchases, numbered
    made,     \* history: requests that were recorded
    merged,   \* history: guest requests that logins attached
    topped,   \* history: prepaid credit that was paid for
    lost      \* history: rows in which a call wrote over what it never saw

billingVars ==
    <<db, call, charges, notices, buys, made, merged, topped, lost>>

Plans == {"free", "paid"}
Notice == [number : Nat, kind : {"subscription", "payg", "credit_topup"},
           amount : Nat, as : {"transaction.paid", "transaction.completed"}]

BillingTypeOK ==
    /\ db \in [plan : Plans, payg : BOOLEAN, due : Nat,
               credit : Nat, added : Nat, spent : Nat,
               usage : [Users -> Seq(Nat)], claimed : SUBSET Users,
               bonus : [Users -> Nat], guest : 0..Quota["free"]]
    /\ DOMAIN call = Calls
    /\ notices \subseteq Notice
    /\ buys \in 0..MaxBuys
    /\ made \in [Users -> Nat]
    /\ merged \in [Users -> Nat]
    /\ topped \in Nat
    /\ lost \subseteq Users \cup {Purse}

AtRest == [pc |-> "rest"]

BillingInit ==
    /\ db = [plan |-> "free", payg |-> FALSE, due |-> 0,
             credit |-> 0, added |-> 0, spent |-> 0,
             usage |-> [u \in Users |-> <<>>], claimed |-> {},
             bonus |-> [u \in Users |-> 0], guest |-> 0]
    /\ call = [c \in Calls |-> AtRest]
    /\ charges = {}
    /\ notices = {}
    /\ buys = 0
    /\ made = [u \in Users |-> 0]
    /\ merged = [u \in Users |-> 0]
    /\ topped = 0
    /\ lost = {}

---------------------------------------------------------------------------
(* plans, quota_engine and _overage_billing.                                *)

Beyond(n, quota) == IF n > quota THEN n - quota ELSE 0

(* A member may come to have more than one usage row of the period.         *)
Sum(f) == SumFunction(f)
UsedBy(d, u) == Sum(d.usage[u])
Used(d) == Sum([u \in Users |-> UsedBy(d, u)])

Bill(d) == Beyond(Used(d), Quota[d.plan])
PayAsYouGo(d) == d.plan = "paid" /\ d.payg

StartsAtQuota(d, u) == Used(d) <= Quota[d.plan]
CanStart(d, u) ==
    \/ Used(d) < Quota[d.plan]
    \/ PayAsYouGo(d) /\ Bill(d) < d.credit + Cap
    \/ ~PayAsYouGo(d) /\ u \in d.claimed /\ d.bonus[u] < Quota[d.plan]

(* A value equal to the one that was read is not written.                   *)
Written(value, read, now) == IF value = read THEN now ELSE value

---------------------------------------------------------------------------
(* /can-start, the chat, and /usage.                                        *)

Begin(c, doing) == call' = [call EXCEPT ![c] = doing]
Finish(c) == call' = [call EXCEPT ![c] = AtRest]

Start(c, u) ==
    /\ call[c] = AtRest
    /\ made[u] < MaxUses
    /\ CanStart(db, u)
    /\ Begin(c, [pc |-> "chat", user |-> u])
    /\ UNCHANGED <<db, charges, notices, buys, made, merged, topped, lost>>

ReadUsage(c) ==
    /\ call[c].pc = "chat"
    /\ Begin(c, [pc |-> "usage", user |-> call[c].user, read |-> db])
    /\ UNCHANGED <<db, charges, notices, buys, made, merged, topped, lost>>

(* The first row that was found is counted up, or one is added.             *)
CountedAnew(read, u, n) == <<n>>
Counted(read, u, n) ==
    IF read.usage[u] = <<>>
      THEN Append(db.usage[u], n)
      ELSE [db.usage[u] EXCEPT ![1] = read.usage[u][1] + n]

TakesBonus(read, u) ==
    Used(read) >= Quota[read.plan] /\ u \in read.claimed /\ ~PayAsYouGo(read)

(* The bill does not include the request that is recorded: the session      *)
(* reads the sum again without having written it.                           *)
Spend(read) ==
    IF ~PayAsYouGo(read) THEN 0
    ELSE IF Bill(read) < read.credit THEN Bill(read) ELSE read.credit

Recording(read, u) ==
    [db EXCEPT !.usage[u] = Counted(read, u, 1),
               !.bonus[u] = IF TakesBonus(read, u) THEN read.bonus[u] + 1
                                                   ELSE @]

Spent(d, read) ==
    [d EXCEPT !.credit = read.credit - Spend(read),
              !.spent = read.spent + Spend(read)]

Record(u) ==
    /\ made' = [made EXCEPT ![u] = @ + 1]
    /\ UNCHANGED <<charges, notices, buys, merged, topped>>

(* The rows whose last value the call has not read when it writes them.     *)
UnseenUsage(read, u) ==
    IF read.usage[u] # <<>> /\ db.usage[u][1] # read.usage[u][1]
      THEN {u} ELSE {}
UnseenBonus(read, u) ==
    IF TakesBonus(read, u) /\ db.bonus[u] # read.bonus[u]
      THEN {u} ELSE {}
UnseenCredit(read) ==
    IF <<db.credit, db.added, db.spent>>
         # <<read.credit, read.added, read.spent>>
      THEN {Purse} ELSE {}

(* No credit to spend: one transaction.                                     *)
RecordUsage(c) ==
    /\ call[c].pc = "usage"
    /\ LET u == call[c].user
           read == call[c].read IN
       /\ Spend(read) = 0
       /\ db' = [Recording(read, u) EXCEPT
                   !.due = IF PayAsYouGo(read) /\ Bill(read) > 0
                             THEN Written(Bill(read), read.due, @) ELSE @]
       /\ Record(u)
       /\ lost' = lost \cup UnseenUsage(read, u) \cup UnseenBonus(read, u)
    /\ Finish(c)

(* spend_credit commits what was recorded; the due is written after it.     *)
RecordAndSpend(c) ==
    /\ call[c].pc = "usage"
    /\ LET u == call[c].user
           read == call[c].read IN
       /\ Spend(read) > 0
       /\ db' = Spent(Recording(read, u), read)
       /\ Record(u)
       /\ lost' = lost \cup UnseenUsage(read, u) \cup UnseenBonus(read, u)
                       \cup UnseenCredit(read)
       /\ Begin(c, [pc |-> "due", due |-> Bill(read) - Spend(read)])

WriteDue(c) ==
    /\ call[c].pc = "due"
    /\ db' = [db EXCEPT !.due = call[c].due]
    /\ Finish(c)
    /\ UNCHANGED <<charges, notices, buys, made, merged, topped, lost>>

---------------------------------------------------------------------------
(* The device of a guest, and logins with it.                               *)

UseAsGuest ==
    /\ db.guest < Quota["free"]
    /\ db' = [db EXCEPT !.guest = @ + 1]
    /\ UNCHANGED <<call, charges, notices, buys, made, merged, topped, lost>>

ReadDevice(c, u) ==
    /\ call[c] = AtRest
    /\ db.guest > 0
    /\ UsedBy(db, u) < MaxUses
    /\ Begin(c, [pc |-> "login", user |-> u, read |-> db])
    /\ UNCHANGED <<db, charges, notices, buys, made, merged, topped, lost>>

MergeDevice(c) ==
    /\ call[c].pc = "login"
    /\ LET u == call[c].user
           read == call[c].read IN
       /\ db' = [db EXCEPT !.usage[u] = Counted(read, u, read.guest)]
       /\ merged' = [merged EXCEPT ![u] = @ + read.guest]
       /\ lost' = lost \cup UnseenUsage(read, u)
    /\ Finish(c)
    /\ UNCHANGED <<charges, notices, buys, made, topped>>

---------------------------------------------------------------------------
(* The member's choices.                                                    *)

ClaimFreeExtension(u) ==
    /\ db.plan = "free"
    /\ u \notin db.claimed
    /\ db' = [db EXCEPT !.claimed = @ \cup {u}, !.bonus[u] = 0]
    /\ UNCHANGED <<call, charges, notices, buys, made, merged, topped, lost>>

EnablePayg(enabled) ==
    /\ enabled => db.plan # "free"
    /\ enabled # db.payg
    /\ db' = [db EXCEPT !.payg = enabled]
    /\ UNCHANGED <<call, charges, notices, buys, made, merged, topped, lost>>

(* A charge is for the whole bill of the period.                            *)
OpenCharge ==
    /\ Bill(db) > 0
    /\ buys < MaxBuys
    /\ buys' = buys + 1
    /\ charges' = charges \cup {[number |-> buys + 1, amount |-> Bill(db)]}
    /\ UNCHANGED <<db, call, notices, made, merged, topped, lost>>

(* The provider reports a payment as paid and then as completed.            *)
Reports(number, kind, amount) ==
    [number : {number}, kind : {kind}, amount : {amount},
     as : {"transaction.paid", "transaction.completed"}]

PayCharge(charge) ==
    /\ charges' = charges \ {charge}
    /\ notices' = notices \cup Reports(charge.number, "payg", charge.amount)
    /\ UNCHANGED <<db, call, buys, made, merged, topped, lost>>

BuyCredit(amount) ==
    /\ buys < MaxBuys
    /\ buys' = buys + 1
    /\ notices' = notices \cup Reports(buys + 1, "credit_topup", amount)
    /\ topped' = topped + amount
    /\ UNCHANGED <<db, call, charges, made, merged, lost>>

Subscribe ==
    /\ buys < MaxBuys
    /\ buys' = buys + 1
    /\ notices' = notices \cup Reports(buys + 1, "subscription", 0)
    /\ UNCHANGED <<db, call, charges, made, merged, topped, lost>>

---------------------------------------------------------------------------
(* The webhook; every event of the provider is one delivery.                *)

ReadNotice(c, n) ==
    /\ call[c] = AtRest
    /\ notices' = notices \ {n}
    /\ Begin(c, [pc |-> "webhook", notice |-> n, read |-> db])
    /\ UNCHANGED <<db, charges, buys, made, merged, topped, lost>>

Applied(n, read) ==
    CASE n.kind = "subscription" ->
            [db EXCEPT !.plan = Written("paid", read.plan, @),
                       !.due = Written(0, read.due, @)]
      [] n.kind = "payg" ->
            [db EXCEPT !.due = Written(0, read.due, @)]
      [] n.kind = "credit_topup" ->
            [db EXCEPT !.credit = read.credit + n.amount,
                       !.added = read.added + n.amount]

ApplyCheckout(c) ==
    /\ call[c].pc = "webhook"
    /\ LET n == call[c].notice
           read == call[c].read IN
       /\ db' = Applied(n, read)
       /\ lost' = IF n.kind = "credit_topup" THEN lost \cup UnseenCredit(read)
                                             ELSE lost
    /\ Finish(c)
    /\ UNCHANGED <<charges, notices, buys, made, merged, topped>>

CancelSubscription ==
    /\ db.plan = "paid"
    /\ db' = [db EXCEPT !.plan = "free"]
    /\ UNCHANGED <<call, charges, notices, buys, made, merged, topped, lost>>

BillingNext ==
    \/ \E c \in Calls :
          \/ \E u \in Users : Start(c, u) \/ ReadDevice(c, u)
          \/ ReadUsage(c)
          \/ RecordUsage(c)
          \/ RecordAndSpend(c)
          \/ WriteDue(c)
          \/ MergeDevice(c)
          \/ \E n \in notices : ReadNotice(c, n)
          \/ ApplyCheckout(c)
    \/ \E u \in Users : ClaimFreeExtension(u)
    \/ \E enabled \in BOOLEAN : EnablePayg(enabled)
    \/ OpenCharge
    \/ \E charge \in charges : PayCharge(charge)
    \/ \E amount \in TopUps : BuyCredit(amount)
    \/ Subscribe
    \/ UseAsGuest
    \/ CancelSubscription

BillingSpec == BillingInit /\ [][BillingNext]_billingVars

---------------------------------------------------------------------------
(* The accounts agree, whatever calls overlap.  No member is billed for     *)
(* more requests than were made or brought by a login, and all of these are *)
(* in the usage (record_usage: 'Always records') except where a call wrote  *)
(* over a value it had not seen; so it is with the prepaid credit, which is *)
(* what was added less what was spent, although the three are written as    *)
(* values.                                                                  *)
AccountsAgree ==
    /\ \A u \in Users :
          /\ UsedBy(db, u) <= made[u] + merged[u]
          /\ u \notin lost => UsedBy(db, u) = made[u] + merged[u]
    /\ Purse \notin lost => db.credit + db.spent = db.added

(* Requests that were let in together at the last unit are all made.        *)
Together == Cardinality(Calls) - 1

(* As long as no usage was lost, a team makes no more requests than are     *)
(* covered, apart from those let in together: while it buys nothing, those  *)
(* of its quota and once more as many with the bonus of each member;        *)
(* without a bonus, those of its quota and what prepaid credit and the      *)
(* uncovered overage up to the cap allow.  (A team that has both can make   *)
(* more: a bonus request is not counted if pay-as-you-go is on when it is   *)
(* recorded, and it may be off again when the next one starts.)             *)
UsageCovered ==
    lost = {} =>
        /\ buys = 0 =>
              Sum(made) <= (Quota["free"] + Together)
                             * (1 + Cardinality(db.claimed))
        /\ db.claimed = {} =>
              Sum(made) <= Quota["paid"] + Cap + db.added + Together

(* What the code does not keep.                                             *)

(* record_usage: "Increment usage. Always records": what the members made   *)
(* is in the usage.                                                         *)
AlwaysRecords == \A u \in Users : UsedBy(db, u) >= made[u]

(* "Checkout for $X prepaid credit" and a rate "per extra request": the     *)
(* credit that was added was paid for, and one unit of it at most is spent  *)
(* on a request, made or brought by a login, beyond the quota.              *)
PrepaidKept ==
    /\ db.added <= topped
    /\ db.spent <= Beyond(Sum(made) + Sum(merged), Quota["free"])
=============================================================================
