--------------------------- MODULE RewardsWallet ---------------------------
(***************************************************************************)
(* Money that enters and leaves the main wallet: recharges by a mobile     *)
(* payment and withdrawals of referral earnings, beside the shop and the   *)
(* paid services (WalletStep).                                             *)
(*                                                                         *)
(* Each handler takes the rows it changes with select_for_update and       *)
(* commits once, so it is one action.  Three do not: the account forms,    *)
(* the staff note on a withdrawal and the staff form of a receipt read a   *)
(* row first and later write back every column of it.  Their read and      *)
(* their write are two actions.                                            *)
(***************************************************************************)
EXTENDS MainWallet

CONSTANTS
    Withdrawals,  \* the WithdrawalRequest rows that may be created
    Requester,    \* Requester[w]: whose withdrawal w is
    Requested,    \* Requested[w]: amount_taka of w, in coins
    Receipts,     \* the ids of TrxManagement rows
    TrxIds,       \* the payment provider's transaction ids
    TrxId,        \* TrxId[t]: the transaction id that row t carries
    Received,     \* Received[t]: received_amount of row t, in coins
    Editing,      \* bound: the accounts whose form may be open
    Noting        \* bound: the withdrawals whose note may be edited

ASSUME WithdrawalAssumption ==
    /\ Requester \in [Withdrawals -> Customers]
    /\ Requested \in [Withdrawals -> Nat \ {0}]
    /\ Editing \subseteq Customers
    /\ Noting \subseteq Withdrawals

ASSUME ReceiptAssumption ==
    /\ Receipts \subseteq Nat \ {0}
    /\ TrxId \in [Receipts -> TrxIds]
    /\ Received \in [Receipts -> Nat \ {0}]

VARIABLES
    request,      \* WithdrawalRequest.status, "none" before the row exists
    withdrawn,    \* RewardsWallet.lifetime_withdrawn_taka
    note,         \* the status read by an open note form, or "closed"
    profile,      \* the balance read by an open account form, or Closed
    rows,         \* the TrxManagement rows that exist
    activated,    \* rows with status 1
    verified,     \* rows with the verified flag
    sheet,        \* rows an open staff form shows as not activated
    intake,       \* rows an intake call is about to insert
    identity,     \* TrxIdentity: the canonical row of an id, or NoRow
    recharges,    \* the recharge operations
    overwritten,  \* history: accounts whose balance a form put back
    reopened      \* history: withdrawals whose status a form put back

withdrawalVars == <<request, withdrawn, note, reopened>>
receiptVars == <<rows, activated, verified, sheet, intake, identity,
                 recharges>>
profileVars == <<profile, overwritten>>
rewardsVars == <<walletVars, withdrawalVars, receiptVars, profileVars>>

(* The columns of MainWallet that are not a balance or a share. *)
shopVars == <<pending, earned, debited, refUsed, refunds, held, credited,
              reversed, clawed, spent>>

RequestStatuses ==
    {"none", "pending", "processing", "approved", "rejected", "cancelled"}

Closed == -1
NoRow == 0

Operation == [trx : TrxIds, to : Customers, coins : Nat]

RewardsTypeOK ==
    /\ WalletTypeOK
    /\ request \in [Withdrawals -> RequestStatuses]
    /\ withdrawn \in [Customers -> Nat]
    /\ note \in [Withdrawals -> RequestStatuses \cup {"closed"}]
    /\ profile \in [Customers -> Nat \cup {Closed}]
    /\ rows \subseteq Receipts
    /\ activated \subseteq rows
    /\ verified \subseteq rows
    /\ sheet \subseteq rows
    /\ intake \subseteq Receipts
    /\ identity \in [TrxIds -> rows \cup {NoRow}]
    /\ recharges \subseteq Operation
    /\ overwritten \subseteq Customers
    /\ reopened \subseteq Withdrawals

RewardsInit ==
    /\ WalletInit
    /\ request = [w \in Withdrawals |-> "none"]
    /\ withdrawn = [c \in Customers |-> 0]
    /\ note = [w \in Withdrawals |-> "closed"]
    /\ profile = [c \in Customers |-> Closed]
    /\ rows = {} /\ activated = {} /\ verified = {}
    /\ sheet = {} /\ intake = {}
    /\ identity = [x \in TrxIds |-> NoRow]
    /\ recharges = {}
    /\ overwritten = {} /\ reopened = {}

---------------------------------------------------------------------------
(* Withdrawals of referral earnings *)

(* A fault: only the coins are checked. *)
AffordsCoinsOnly(w) == Requested[w] <= balance[Requester[w]]

(* Both the share and the coins must cover the amount. *)
Affords(w) ==
    /\ Requested[w] <= available[Requester[w]]
    /\ Requested[w] <= balance[Requester[w]]

(* The request reserves the amount in both. *)
RequestWithdrawal(w) ==
    LET c == Requester[w] IN
    /\ request[w] = "none"
    /\ Affords(w)
    /\ balance' = [balance EXCEPT ![c] = @ - Requested[w]]
    /\ available' = [available EXCEPT ![c] = @ - Requested[w]]
    /\ request' = [request EXCEPT ![w] = "pending"]
    /\ UNCHANGED <<shopVars, withdrawn, note, reopened, receiptVars,
                   profileVars>>

(* A fault: the coins behind the share are forgotten. *)
GiveBackShareOnly(w) ==
    LET c == Requester[w] IN
    /\ available' = [available EXCEPT ![c] = @ + Requested[w]]
    /\ UNCHANGED balance

(* What cancelling and rejecting give back. *)
GiveBack(w) ==
    LET c == Requester[w] IN
    /\ balance' = [balance EXCEPT ![c] = @ + Requested[w]]
    /\ available' = [available EXCEPT ![c] = @ + Requested[w]]

(* The customer, before staff have started the payment. *)
CancelWithdrawal(w) ==
    /\ request[w] = "pending"
    /\ GiveBack(w)
    /\ request' = [request EXCEPT ![w] = "cancelled"]
    /\ UNCHANGED <<shopVars, withdrawn, note, reopened, receiptVars,
                   profileVars>>

(* Staff actions take a selection of rows and pass over those in another    *)
(* status.  The rows are independent, so one row at a time covers them.     *)
ProcessWithdrawal(w) ==
    /\ request[w] = "pending"
    /\ request' = [request EXCEPT ![w] = "processing"]
    /\ UNCHANGED <<walletVars, withdrawn, note, reopened, receiptVars,
                   profileVars>>

ApproveWithdrawal(w) ==
    /\ request[w] = "processing"
    /\ withdrawn' = [withdrawn EXCEPT ![Requester[w]] = @ + Requested[w]]
    /\ request' = [request EXCEPT ![w] = "approved"]
    /\ UNCHANGED <<walletVars, note, reopened, receiptVars, profileVars>>

(* A fault: a cancelled withdrawal can still be rejected. *)
RejectEver(w) ==
    /\ request[w] \in {"pending", "processing", "cancelled"}
    /\ GiveBack(w)
    /\ request' = [request EXCEPT ![w] = "rejected"]
    /\ UNCHANGED <<shopVars, withdrawn, note, reopened, receiptVars,
                   profileVars>>

RejectWithdrawal(w) ==
    /\ request[w] \in {"pending", "processing"}
    /\ GiveBack(w)
    /\ request' = [request EXCEPT ![w] = "rejected"]
    /\ UNCHANGED <<shopVars, withdrawn, note, reopened, receiptVars,
                   profileVars>>

(* The staff note: the form reads the row without a lock.  NoteLimit is a   *)
(* bound: a form puts a withdrawal back once.                               *)
NoteLimit(w) == w \in Noting \ reopened

OpenNote(w) ==
    /\ NoteLimit(w)
    /\ request[w] # "none"
    /\ note[w] = "closed"
    /\ note' = [note EXCEPT ![w] = request[w]]
    /\ UNCHANGED <<walletVars, request, withdrawn, reopened, receiptVars,
                   profileVars>>

(* Later it saves all columns, the status it has read among them. *)
SaveNote(w) ==
    /\ note[w] # "closed"
    /\ request' = [request EXCEPT ![w] = note[w]]
    /\ note' = [note EXCEPT ![w] = "closed"]
    /\ reopened' = IF note[w] = request[w] THEN reopened
                                          ELSE reopened \cup {w}
    /\ UNCHANGED <<walletVars, withdrawn, receiptVars, profileVars>>

---------------------------------------------------------------------------
(* Account forms: the profile, the password reset and the password recovery *)
(* load the account, settings included, and save all of it later.           *)
OpenProfile(c) ==
    /\ c \in Editing
    /\ profile[c] = Closed
    /\ profile' = [profile EXCEPT ![c] = balance[c]]
    /\ UNCHANGED <<walletVars, withdrawalVars, receiptVars, overwritten>>

SaveProfile(c) ==
    /\ profile[c] # Closed
    /\ balance' = [balance EXCEPT ![c] = profile[c]]
    /\ profile' = [profile EXCEPT ![c] = Closed]
    /\ overwritten' = IF profile[c] = balance[c] THEN overwritten
                                                ELSE overwritten \cup {c}
    /\ UNCHANGED <<available, shopVars, withdrawalVars, receiptVars>>

---------------------------------------------------------------------------
(* Recharges *)

NewId(t) == \A u \in rows : u < t

(* The trusted intake first looks for a row with the id, without a lock ... *)
CheckIntake(t) ==
    /\ t \notin intake
    /\ \A u \in rows : TrxId[u] # TrxId[t]
    /\ intake' = intake \cup {t}
    /\ UNCHANGED <<walletVars, withdrawalVars, profileVars, rows, activated,
                   verified, sheet, identity, recharges>>

(* ... and then inserts the row and its identity, or, when another call has *)
(* inserted that identity, neither.                                         *)
InsertIntake(t) ==
    /\ t \in intake
    /\ NewId(t)
    /\ intake' = intake \ {t}
    /\ IF identity[TrxId[t]] = NoRow
       THEN /\ rows' = rows \cup {t}
            /\ verified' = verified \cup {t}
            /\ identity' = [identity EXCEPT ![TrxId[t]] = t]
       ELSE UNCHANGED <<rows, verified, identity>>
    /\ UNCHANGED <<walletVars, withdrawalVars, profileVars, activated, sheet,
                   recharges>>

(* A row that staff enter: no identity, any flags. *)
EnterReceipt(t) ==
    /\ t \notin rows /\ NewId(t)
    /\ rows' = rows \cup {t}
    /\ verified' \in {verified, verified \cup {t}}
    /\ activated' \in {activated, activated \cup {t}}
    /\ UNCHANGED <<walletVars, withdrawalVars, profileVars, sheet, intake,
                   identity, recharges>>

(* The staff form of a row posts the status it showed, unless staff change  *)
(* it, and the verified flag they choose.                                   *)
OpenReceipt(t) ==
    /\ t \in rows \ (activated \cup sheet)
    /\ sheet' = sheet \cup {t}
    /\ UNCHANGED <<walletVars, withdrawalVars, profileVars, rows, activated,
                   verified, intake, identity, recharges>>

SaveReceipt(t) ==
    /\ t \in sheet
    /\ sheet' = sheet \ {t}
    /\ activated' \in {activated \ {t}, activated \cup {t}}
    /\ verified' \in {verified \ {t}, verified \cup {t}}
    /\ UNCHANGED <<walletVars, withdrawalVars, profileVars, rows, intake,
                   identity, recharges>>

(* The identity protects its row from deletion. *)
DeleteReceipt(t) ==
    /\ t \in rows
    /\ identity[TrxId[t]] # t
    /\ rows' = rows \ {t}
    /\ activated' = activated \ {t}
    /\ verified' = verified \ {t}
    /\ sheet' = sheet \ {t}
    /\ UNCHANGED <<walletVars, withdrawalVars, profileVars, intake, identity,
                   recharges>>

(* Of the rows with the id of t, t is the first by status, then by age. *)
First(t) ==
    \A u \in rows \ {t} :
        TrxId[u] = TrxId[t] => u \notin activated /\ t < u

(* A fault: any row with the id will do. *)
CanonicalAny(t) == TRUE

Canonical(t) ==
    IF identity[TrxId[t]] = NoRow THEN First(t) ELSE identity[TrxId[t]] = t

(* A fault: the status of the row is the only protection. *)
FreshAlways(x) == TRUE

(* No recharge operation with this id exists. *)
Fresh(x) == \A r \in recharges : r.trx # x

(* Whoever knows the id activates its row, once.  The amount and currency   *)
(* checks hold of every row of the model.                                   *)
Recharge(t, c) ==
    /\ t \in rows \ activated
    /\ t \in verified
    /\ Canonical(t)
    /\ Fresh(TrxId[t])
    /\ identity' = [identity EXCEPT ![TrxId[t]] = IF @ = NoRow THEN t ELSE @]
    /\ activated' = activated \cup {t}
    /\ balance' = [balance EXCEPT ![c] = @ + Received[t]]
    /\ recharges' = recharges
          \cup {[trx |-> TrxId[t], to |-> c, coins |-> Received[t]]}
    /\ UNCHANGED <<available, shopVars, withdrawalVars, profileVars, rows,
                   verified, sheet, intake>>

---------------------------------------------------------------------------
(* The shop and the paid services.  ShopTakesWalletSteps of CommerceProofs  *)
(* shows that CommerceOrders takes no other step on these columns.          *)
ShopStep ==
    WalletStep /\ UNCHANGED <<withdrawalVars, receiptVars, profileVars>>

Withdrawing(w) ==
    \/ RequestWithdrawal(w) \/ CancelWithdrawal(w)
    \/ ProcessWithdrawal(w) \/ ApproveWithdrawal(w) \/ RejectWithdrawal(w)
    \/ OpenNote(w) \/ SaveNote(w)

Receiving(t) ==
    \/ CheckIntake(t) \/ InsertIntake(t)
    \/ EnterReceipt(t) \/ OpenReceipt(t) \/ SaveReceipt(t)
    \/ DeleteReceipt(t)
    \/ \E c \in Customers : Recharge(t, c)

RewardsNext ==
    \/ ShopStep
    \/ \E w \in Withdrawals : Withdrawing(w)
    \/ \E c \in Customers : OpenProfile(c) \/ SaveProfile(c)
    \/ \E t \in Receipts : Receiving(t)

RewardsSpec == RewardsInit /\ [][RewardsNext]_rewardsVars

---------------------------------------------------------------------------
(* Accounts whose balance no form has put back. *)
Kept == Customers \ overwritten

(* Through requests, cancellations, rejections, recharges and everything    *)
(* the shop does, the withdrawable share stays within the coins             *)
(* (WithdrawalRequestView, WithdrawalCancelView, reject_withdrawals).       *)
BackedWhereKept == BackedIn(Kept)

(* One payment is credited once, with the amount of the canonical row of    *)
(* its id, however many rows carry the id and whatever staff forms put back *)
(* (update_status).                                                         *)
CreditedOnce ==
    \A r \in recharges :
        /\ \A s \in recharges : r.trx = s.trx => r = s
        /\ identity[r.trx] \in rows
        /\ TrxId[identity[r.trx]] = r.trx
        /\ r.coins = Received[identity[r.trx]]

(* Inductive: as above, and an identity is a row that carries its id.       *)
RewardsInv ==
    /\ RewardsTypeOK
    /\ WalletSound(Kept)
    /\ CreditedOnce
    /\ \A x \in TrxIds : identity[x] # NoRow => TrxId[identity[x]] = x
============================================================================
