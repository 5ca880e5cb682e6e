--------------------------- MODULE OrderReceipts ---------------------------
(***************************************************************************)
(* The receipts of commerce_maintenance.  A run of the job takes one order *)
(* under its row lock, counts the attempt, mails the receipt and notes     *)
(* that it was sent, all in one transaction; what the mail server has      *)
(* accepted stays sent when the transaction does not commit.               *)
(***************************************************************************)
EXTENDS Naturals

CONSTANTS
    Receipts,      \* orders that ask for a receipt
    Jobs,          \* runs of the job that may overlap
    MaxAttempts,   \* 5 in the code
    MaxLosses      \* bound: transactions that do not commit as a whole

NoReceipt == "no receipt"

ASSUME ReceiptAssumption ==
    /\ MaxAttempts \in Nat \ {0}
    /\ MaxLosses \in Nat
    /\ NoReceipt \notin Receipts

VARIABLES
    receipt,   \* the receipt fields of the orders
    mailing,   \* what a run of the job is doing
    mails,     \* history: mails accepted for an order
    losses     \* history: attempts whose outcome was not kept

receiptVars == <<receipt, mailing, mails, losses>>

NoMailing == [order |-> NoReceipt, stage |-> "idle"]

ReceiptTypeOK ==
    /\ receipt \in [Receipts -> [pending : BOOLEAN, sent : BOOLEAN,
                                 attempts : 0..MaxAttempts,
                                 noticed : BOOLEAN]]
    /\ mailing \in [Jobs -> [order : Receipts \cup {NoReceipt},
                             stage : {"idle", "taken", "accepted",
                                      "refused"}]]
    /\ mails \in [Receipts -> Nat]
    /\ losses \in [Receipts -> Nat]

ReceiptInit ==
    /\ receipt = [o \in Receipts |-> [pending |-> FALSE, sent |-> FALSE,
                                      attempts |-> 0, noticed |-> FALSE]]
    /\ mailing = [j \in Jobs |-> NoMailing]
    /\ mails = [o \in Receipts |-> 0]
    /\ losses = [o \in Receipts |-> 0]

(* An order is placed with receipt_pending.                                 *)
AskReceipt(o) ==
    /\ ~receipt[o].pending /\ receipt[o].attempts = 0
    /\ receipt' = [receipt EXCEPT ![o].pending = TRUE]
    /\ UNCHANGED <<mailing, mails, losses>>

Deliverable(o) ==
    /\ receipt[o].pending
    /\ ~receipt[o].sent
    /\ receipt[o].attempts < MaxAttempts

TakenNever(o) == FALSE
Taken(o) == \E j \in Jobs : mailing[j].order = o

TakeOrder(j, o) ==
    /\ mailing[j] = NoMailing
    /\ ~Taken(o)
    /\ Deliverable(o)
    /\ mailing' = [mailing EXCEPT ![j] = [order |-> o, stage |-> "taken"]]
    /\ UNCHANGED <<receipt, mails, losses>>

SendMail(j) ==
    LET o == mailing[j].order IN
    /\ mailing[j].stage = "taken"
    /\ \/ /\ mailing' = [mailing EXCEPT ![j].stage = "accepted"]
          /\ mails' = [mails EXCEPT ![o] = @ + 1]
       \/ /\ mailing' = [mailing EXCEPT ![j].stage = "refused"]
          /\ UNCHANGED mails
    /\ UNCHANGED <<receipt, losses>>

(* The attempt is kept with its outcome; the last refusal tells the staff.  *)
KeepAttempt(j, sent) ==
    LET o == mailing[j].order
        attempts == receipt[o].attempts + 1 IN
    /\ receipt' = [receipt EXCEPT
                     ![o] = [pending |-> ~sent, sent |-> sent,
                             attempts |-> attempts,
                             noticed |-> \/ receipt[o].noticed
                                         \/ /\ ~sent
                                            /\ attempts = MaxAttempts]]
    /\ mailing' = [mailing EXCEPT ![j] = NoMailing]
    /\ UNCHANGED mails

CommitAttempt(j) ==
    /\ mailing[j].stage \in {"accepted", "refused"}
    /\ KeepAttempt(j, mailing[j].stage = "accepted")
    /\ UNCHANGED losses

Loses(j) ==
    LET o == mailing[j].order IN
    /\ mailing[j].stage # "idle"
    /\ losses[o] < MaxLosses
    /\ losses' = [losses EXCEPT ![o] = @ + 1]

(* The save after the mail fails: it is taken for a refusal.                *)
LoseSave(j) ==
    /\ mailing[j].stage = "accepted"
    /\ Loses(j)
    /\ KeepAttempt(j, FALSE)

(* The job dies, maybe after the mail: the attempt itself is rolled back.   *)
LoseAttempt(j) ==
    /\ Loses(j)
    /\ mailing' = [mailing EXCEPT ![j] = NoMailing]
    /\ UNCHANGED <<receipt, mails>>

DeliverOne(j) ==
    \/ \E o \in Receipts : TakeOrder(j, o)
    \/ SendMail(j)
    \/ CommitAttempt(j)

ReceiptNext ==
    \/ \E o \in Receipts : AskReceipt(o)
    \/ \E j \in Jobs : DeliverOne(j) \/ LoseSave(j) \/ LoseAttempt(j)

(* The job is started again and again, and a run of it ends.                *)
ReceiptFairness == WF_receiptVars(\E j \in Jobs : DeliverOne(j))

ReceiptSpec == ReceiptInit /\ [][ReceiptNext]_receiptVars /\ ReceiptFairness

---------------------------------------------------------------------------
(* A customer gets one receipt, and one more at most for each transaction   *)
(* that was lost after its mail, however many runs of the job overlap.      *)
ReceiptOnce == \A o \in Receipts : mails[o] <= losses[o] + 1

(* Every receipt is sent or, after the last attempt, reported to the staff. *)
EveryReceiptSettled ==
    \A o \in Receipts :
        receipt[o].pending ~> (receipt[o].sent \/ receipt[o].noticed)
=============================================================================
