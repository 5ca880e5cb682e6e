-------------------------- MODULE CommerceOrders --------------------------
(***************************************************************************)
(* Checkout, order and payment handling of the shop, across the two        *)
(* databases that have to agree: `ecommerce' holds orders, payments and    *)
(* stock, `default' holds the customers' coins (module MainWallet).        *)
(*                                                                         *)
(* There is no distributed transaction.  A wallet checkout commits its     *)
(* order first and its debit second; a refund commits the coins first and  *)
(* the order second; acknowledgements and coupon work run in on_commit     *)
(* callbacks.  A process may die between any two of these commits.  Each   *)
(* action below is one commit; `leg' names the staff request that holds    *)
(* the order's row lock between its commits, `checkout' the progress of    *)
(* the request that placed the order.                                      *)
(***************************************************************************)
EXTENDS MainWallet

CONSTANTS
    Variants,       \* product variants
    Reserving,      \* variants whose quantity is counted and reserved
    Backorder,      \* variants that may be sold beyond their stock
    Ordered,        \* Ordered[o][v]: units of v over all lines of o
    FirstLine,      \* FirstLine[o][v]: units of v on one of those lines
    InitStock,      \* InitStock[v]: units before the first step
    Methods,        \* Methods[o]: how the buyer of o may choose to pay
    AutoConfirmed,  \* orders of quantity-free supplier items only
    ManualSlots,    \* bound: the manual payments an order may collect
    Fulfilment      \* bound: the fulfilment statuses the staff make use of

ASSUME StockAssumption ==
    /\ Reserving \subseteq Variants
    /\ Variants \ Reserving \subseteq Backorder
    /\ Backorder \subseteq Variants
    /\ Ordered \in [Orders -> [Variants -> Nat]]
    /\ FirstLine \in [Orders -> [Variants -> Nat]]
    /\ \A o \in Orders, v \in Variants : FirstLine[o][v] <= Ordered[o][v]
    /\ InitStock \in [Variants -> Nat]

ASSUME MethodAssumption ==
    /\ Methods \in [Orders -> SUBSET {"wallet", "cod", "manual"}]
    /\ AutoConfirmed \subseteq Orders
    /\ "wallet" \notin ManualSlots
    /\ Fulfilment \subseteq {"confirmed", "processing", "shipped", "delivered"}

VARIABLES
    status,     \* Order.status, or "none" before checkout
    payStatus,  \* Order.payment_status
    pay,        \* pay[o][s]: Payment.status of the payment in slot s
    stock,      \* ProductVariant.stock
    released,   \* orders with a cancel/return InventoryMovement
    overdue,    \* orders whose reservation_expires_at has passed
    checkout,   \* progress of the request that placed the order
    leg,        \* progress of the staff request that holds the order lock
    target,     \* the status that request will set
    creditDue,  \* orders with a coupon credit callback still to run
    crediting,  \* orders whose credit callback has passed its first read
    listed      \* orders the reconciliation run has read and not settled

orderVars == <<status, payStatus, pay, stock, released, overdue, checkout,
               leg, target, creditDue, crediting, listed>>

vars == <<walletVars, orderVars>>

Statuses == {"pending", "confirmed", "processing", "shipped", "delivered",
             "completed", "cancelled", "returned", "refunded"}
PayStatuses == {"unpaid", "pending", "paid", "failed", "refunded"}
SlotStatuses == {"none", "pending", "confirmed", "failed", "refunded"}
Slots == ManualSlots \cup {"wallet"}

CheckoutSteps == {"none", "placing", "debited", "holding", "holdable", "done"}
Legs == {"idle", "sawHold", "sawCredit", "reversed", "repaid",
         "paymentRepaid"}

OrderTypeOK ==
    /\ status \in [Orders -> Statuses \cup {"none"}]
    /\ payStatus \in [Orders -> PayStatuses]
    /\ pay \in [Orders -> [Slots -> SlotStatuses]]
    /\ stock \in [Variants -> Int]
    /\ released \subseteq Orders
    /\ overdue \subseteq Orders
    /\ checkout \in [Orders -> CheckoutSteps]
    /\ leg \in [Orders -> Legs]
    /\ target \in [Orders -> {"none", "cancelled", "refunded"}]
    /\ creditDue \subseteq Orders
    /\ crediting \subseteq Orders
    /\ listed \subseteq Orders

TypeOK == WalletTypeOK /\ OrderTypeOK

Init ==
    /\ WalletInit
    /\ status = [o \in Orders |-> "none"]
    /\ payStatus = [o \in Orders |-> "unpaid"]
    /\ pay = [o \in Orders |-> [s \in Slots |-> "none"]]
    /\ stock = InitStock
    /\ released = {}
    /\ overdue = {}
    /\ checkout = [o \in Orders |-> "none"]
    /\ leg = [o \in Orders |-> "idle"]
    /\ target = [o \in Orders |-> "none"]
    /\ creditDue = {}
    /\ crediting = {}
    /\ listed = {}

---------------------------------------------------------------------------
(* The state machines of the two records. *)
(* A fault: a completed order can still be cancelled. *)
TransitionsCancelAny(s) ==
    CASE s = "pending"   -> {"confirmed", "completed", "cancelled"}
      [] s = "confirmed" -> {"shipped", "completed", "cancelled"}
      [] s = "shipped"   -> {"delivered", "completed", "returned"}
      [] s = "completed" -> {"returned", "cancelled"}
      [] OTHER           -> {}

Transitions(s) ==
    CASE s = "pending"    -> {"confirmed", "processing", "completed",
                              "cancelled"}
      [] s = "confirmed"  -> {"processing", "shipped", "delivered",
                              "completed", "cancelled"}
      [] s = "processing" -> {"shipped", "delivered", "completed",
                              "cancelled"}
      [] s = "shipped"    -> {"delivered", "completed", "returned"}
      [] s = "delivered"  -> {"completed", "returned"}
      [] s = "completed"  -> {"returned"}
      [] s = "returned"   -> {"refunded"}
      [] OTHER            -> {}

PaymentTransitions(s) ==
    CASE s = "pending"   -> {"confirmed", "failed"}
      [] s = "confirmed" -> {"refunded"}
      [] OTHER           -> {}

(* A handler is also called with the status the record already has. *)
MayBecome(o, new) == status[o] = new \/ new \in Transitions(status[o])

Placed(o) == status[o] # "none"
Free(o) == Placed(o) /\ leg[o] = "idle"      \* the order lock can be taken
Wallet(o) == pay[o]["wallet"] # "none"
HasPayment(o) == \E s \in Slots : pay[o][s] # "none"

(* A fault: checkout checks the balance without locking the row. *)
LockedNever == {}

(* Customers whose rows an open wallet checkout holds. *)
Locked == {Buyer[o] : o \in {p \in Orders : checkout[p] = "placing"}}

(* change_payment recomputes the order's payment status from its payments. *)
Recomputed(slots) ==
    IF \E s \in Slots : slots[s] = "confirmed" THEN "paid"
    ELSE IF \E s \in Slots : slots[s] = "pending" THEN "pending"
    ELSE "failed"

WithSlot(o, s, new) == [pay EXCEPT ![o] = [@ EXCEPT ![s] = new]]

(* Every payment of o that is `old' becomes `new' (a queryset update). *)
WithEvery(o, old, new) ==
    [pay EXCEPT ![o] = [s \in Slots |-> IF @[s] = old THEN new ELSE @[s]]]

---------------------------------------------------------------------------
(* Checkout *)
(* A fault: the first unit is checked, not the quantity. *)
InStockAny(o) == \A v \in Variants \ Backorder : stock[v] > 0

InStock(o) == \A v \in Variants \ Backorder : Ordered[o][v] <= stock[v]

TakeStock(o) ==
    stock' = [v \in Variants |->
                 IF v \in Reserving THEN stock[v] - Ordered[o][v]
                                    ELSE stock[v]]

PlaceOrder(o, method) ==
    /\ ~ Placed(o)
    /\ method \in Methods[o]
    /\ InStock(o)
    /\ TakeStock(o)
    /\ status' = [status EXCEPT ![o] = IF o \in AutoConfirmed
                                       THEN "confirmed" ELSE "pending"]
    /\ UNCHANGED <<walletVars, released, overdue, leg, target, creditDue,
                   crediting, listed>>

(* The buyer's row is locked and the balance checked; the order commits     *)
(* while the transaction of the debit stays open.                           *)
CheckoutWallet(o) ==
    /\ PlaceOrder(o, "wallet")
    /\ Buyer[o] \notin Locked
    /\ Price[o] <= balance[Buyer[o]]
    /\ payStatus' = [payStatus EXCEPT ![o] = "pending"]
    /\ pay' = WithSlot(o, "wallet", "pending")
    /\ checkout' = [checkout EXCEPT ![o] = "placing"]

AfterPlacing(o) == IF HasReward(o) THEN "holding" ELSE "done"

CheckoutCod(o) ==
    /\ PlaceOrder(o, "cod")
    /\ checkout' = [checkout EXCEPT ![o] = AfterPlacing(o)]
    /\ UNCHANGED <<payStatus, pay>>

CheckoutManual(o) ==
    /\ PlaceOrder(o, "manual")
    /\ payStatus' = [payStatus EXCEPT ![o] = "pending"]
    /\ \E s \in ManualSlots : pay' = WithSlot(o, s, "pending")
    /\ checkout' = [checkout EXCEPT ![o] = AfterPlacing(o)]

orderVarsButCheckout == <<status, payStatus, pay, stock, released, overdue,
                          leg, target, creditDue, crediting, listed>>

(* The outer transaction commits.  The coupon hold inside it needs the      *)
(* referrer's wallet row, which another open checkout may have locked.      *)
CommitDebit(o) ==
    /\ checkout[o] = "placing"
    /\ HoldAllowed(o) => Referrer[o] \notin Locked
    /\ DebitOrder(o)
    /\ checkout' = [checkout EXCEPT ![o] = "debited"]
    /\ UNCHANGED orderVarsButCheckout

(* The outer transaction does not commit: the process died, the database   *)
(* chose it as a deadlock victim, or the hold raised.  The order stays.     *)
AbortDebit(o) ==
    /\ checkout[o] = "placing"
    /\ checkout' = [checkout EXCEPT ![o] = "done"]
    /\ UNCHANGED <<walletVars, orderVarsButCheckout>>

(* A fault: settled without looking for the debit. *)
SettledWithoutDebit(o) == TRUE

(* settle_wallet_order, under the order lock: what it makes of the          *)
(* payments and of the payment status, and whether it returns True.         *)
Settled(o) == o \in debited

SettledPay(o) ==
    IF o \in refunds THEN IF Wallet(o) THEN WithSlot(o, "wallet", "refunded")
                                       ELSE pay
    ELSE IF payStatus[o] # "refunded" /\ pay[o]["wallet"] = "pending"
         THEN WithSlot(o, "wallet", "confirmed")
    ELSE pay

SettledPayStatus(o) ==
    IF o \in refunds \/ payStatus[o] = "refunded" THEN "refunded" ELSE "paid"

Settle(o) ==
    /\ Free(o)
    /\ IF Settled(o)
       THEN /\ pay' = SettledPay(o)
            /\ payStatus' = [payStatus EXCEPT ![o] = SettledPayStatus(o)]
       ELSE UNCHANGED <<pay, payStatus>>
    /\ UNCHANGED <<walletVars, status, stock, released, overdue, leg, target,
                   creditDue, crediting>>

(* The robust on_commit callback of a wallet checkout. *)
SettleCallback(o) ==
    /\ checkout[o] = "debited"
    /\ Settle(o)
    /\ checkout' = [checkout EXCEPT ![o] = "done"]
    /\ UNCHANGED listed

(* The coupon hold of an order that is not paid from the wallet: what it    *)
(* reads first, and what it then writes.                                    *)
CheckHold(o) ==
    /\ checkout[o] = "holding"
    /\ checkout' = [checkout EXCEPT ![o] = IF HoldAllowed(o) THEN "holdable"
                                                             ELSE "done"]
    /\ UNCHANGED <<walletVars, orderVarsButCheckout>>

HoldCallback(o) ==
    /\ checkout[o] = "holdable"
    /\ HoldCoupon(o, Locked)
    /\ checkout' = [checkout EXCEPT ![o] = "done"]
    /\ UNCHANGED orderVarsButCheckout

(* The process dies before its callback ran, or the callback failed. *)
LoseCallback(o) ==
    /\ checkout[o] \in {"debited", "holding", "holdable"}
    /\ checkout' = [checkout EXCEPT ![o] = "done"]
    /\ UNCHANGED <<walletVars, orderVarsButCheckout>>

(* PaymentCreateView: the buyer reports a manual payment. *)
SubmitPayment(o, s, cod) ==
    /\ Free(o)
    /\ payStatus[o] \notin {"paid", "refunded"}
    /\ status[o] \notin {"cancelled", "completed", "refunded"}
    /\ pay[o][s] = "none"
    /\ pay' = WithSlot(o, s, "pending")
    /\ payStatus' = [payStatus EXCEPT ![o] = IF cod THEN "unpaid"
                                                    ELSE "pending"]
    /\ UNCHANGED <<walletVars, status, stock, released, overdue, checkout,
                   leg, target, creditDue, crediting, listed>>

---------------------------------------------------------------------------
(* change_order *)
ReturnedUnits(o, v) == FirstLine[o][v]

Restock(o) ==
    IF o \in released
    THEN UNCHANGED <<stock, released>>
    ELSE /\ stock' = [v \in Variants |-> IF v \in Reserving
                                         THEN stock[v] + ReturnedUnits(o, v)
                                         ELSE stock[v]]
         /\ released' = released \cup {o}

(* Confirmation and fulfilment: no money moves. *)
Advance(o, new) ==
    /\ Free(o)
    /\ new \in Transitions(status[o])
    /\ new \in Fulfilment
    /\ status' = [status EXCEPT ![o] = new]
    /\ UNCHANGED <<walletVars, payStatus, pay, stock, released, overdue,
                   checkout, leg, target, creditDue, crediting, listed>>

Return(o) ==
    /\ Free(o)
    /\ "returned" \in Transitions(status[o])
    /\ status' = [status EXCEPT ![o] = "returned"]
    /\ Restock(o)
    /\ UNCHANGED <<walletVars, payStatus, pay, overdue, checkout, leg, target,
                   creditDue, crediting, listed>>

(* A fault: completion does not ask for the debit. *)
MayCompleteUnsettled(o) == payStatus[o] # "refunded"

(* A fault: a refund that only the ledger knows of does not count. *)
MayCompleteRefunded(o) ==
    /\ payStatus[o] # "refunded"
    /\ Wallet(o) => Settled(o)

(* Completion needs the wallet payment settled and not refunded. *)
MayComplete(o) ==
    /\ payStatus[o] # "refunded"
    /\ Wallet(o) => Settled(o) /\ SettledPayStatus(o) # "refunded"

Complete(o) ==
    /\ Free(o)
    /\ MayBecome(o, "completed")
    /\ MayComplete(o)
    /\ status' = [status EXCEPT ![o] = "completed"]
    /\ payStatus' = [payStatus EXCEPT ![o] = "paid"]
    /\ pay' = WithEvery(o, "pending", "confirmed")
    /\ creditDue' = IF HasReward(o) THEN creditDue \cup {o} ELSE creditDue
    /\ UNCHANGED <<walletVars, stock, released, overdue, checkout, leg,
                   target, crediting, listed>>

(* The on_commit callback of a completion: its first read, its write, and   *)
(* its loss.                                                                *)
orderVarsButCredit == <<status, payStatus, pay, stock, released, overdue,
                        checkout, leg, target, listed>>

CheckCredit(o) ==
    /\ o \in creditDue
    /\ creditDue' = creditDue \ {o}
    /\ crediting' = IF CreditAllowed(o) THEN crediting \cup {o} ELSE crediting
    /\ UNCHANGED <<walletVars, orderVarsButCredit>>

CreditCallback(o) ==
    /\ o \in crediting
    /\ CreditCoupon(o, Locked)
    /\ crediting' = crediting \ {o}
    /\ UNCHANGED <<creditDue, orderVarsButCredit>>

LoseCredit(o) ==
    /\ \/ o \in creditDue /\ creditDue' = creditDue \ {o}
                          /\ UNCHANGED crediting
       \/ o \in crediting /\ crediting' = crediting \ {o}
                          /\ UNCHANGED creditDue
    /\ UNCHANGED <<walletVars, orderVarsButCredit>>

orderVarsButLeg == <<status, payStatus, pay, stock, released, overdue,
                     checkout, creditDue, crediting, listed>>

RequestOver(o) ==
    /\ leg' = [leg EXCEPT ![o] = "idle"]
    /\ target' = [target EXCEPT ![o] = "none"]

(* Cancellation and refund.  The request takes the order lock and reads     *)
(* which coupon operation it has to reverse.                                *)
LegAfterReading(o) ==
    CASE SeenBefore(o) = "credit" -> "sawCredit"
      [] SeenBefore(o) = "hold"   -> "sawHold"
      [] OTHER                    -> "reversed"

StartReversal(o, new) ==
    /\ Free(o)
    /\ MayBecome(o, new)
    /\ leg' = [leg EXCEPT ![o] = LegAfterReading(o)]
    /\ target' = [target EXCEPT ![o] = new]
    /\ UNCHANGED <<walletVars, orderVarsButLeg>>

(* First commit: the coupon is reversed by what was read. *)
ReversalLeg(o) ==
    /\ leg[o] \in {"sawHold", "sawCredit"}
    /\ ReverseCoupon(o, IF leg[o] = "sawCredit" THEN "credit" ELSE "hold",
                     Locked)
    /\ leg' = [leg EXCEPT ![o] = "reversed"]
    /\ UNCHANGED <<orderVarsButLeg, target>>

(* Second commit, wallet orders only: the coins go back. *)
RefundLeg(o) ==
    /\ leg[o] = "reversed"
    /\ Wallet(o)
    /\ RefundOrder(o, Locked)
    /\ leg' = [leg EXCEPT ![o] = "repaid"]
    /\ UNCHANGED <<orderVarsButLeg, target>>

(* No committed debit: ValueError, and the order's transaction rolls back. *)
RefundRefused(o) ==
    /\ leg[o] = "reversed"
    /\ Wallet(o)
    /\ Buyer[o] \notin Locked
    /\ o \notin debited
    /\ RequestOver(o)
    /\ UNCHANGED <<walletVars, orderVarsButLeg>>

(* A fault: the order is closed before its coins are back. *)
CommitReversalEarly(o) ==
    /\ leg[o] \in {"reversed", "repaid"}
    /\ status' = [status EXCEPT ![o] = target[o]]
    /\ IF Wallet(o)
       THEN /\ pay' = WithSlot(o, "wallet", "refunded")
            /\ payStatus' = [payStatus EXCEPT ![o] = "refunded"]
       ELSE UNCHANGED <<pay, payStatus>>
    /\ IF target[o] = "cancelled" /\ status[o] # "cancelled"
       THEN Restock(o)
       ELSE UNCHANGED <<stock, released>>
    /\ RequestOver(o)
    /\ UNCHANGED <<walletVars, overdue, checkout, creditDue, crediting,
                   listed>>

(* Last commit: the order, its payments and its stock. *)
CommitReversal(o) ==
    /\ leg[o] \in {"reversed", "repaid"}
    /\ Wallet(o) => leg[o] = "repaid"
    /\ status' = [status EXCEPT ![o] = target[o]]
    /\ \/ /\ Wallet(o)
          /\ pay' = WithSlot(o, "wallet", "refunded")
          /\ payStatus' = [payStatus EXCEPT ![o] = "refunded"]
       \/ /\ ~ Wallet(o)
          /\ target[o] = "refunded"
          /\ pay' = WithEvery(o, "confirmed", "refunded")
          /\ payStatus' = [payStatus EXCEPT ![o] = "refunded"]
       \/ /\ ~ Wallet(o)
          /\ target[o] = "cancelled"
          /\ UNCHANGED <<pay, payStatus>>
    /\ IF target[o] = "cancelled" /\ status[o] # "cancelled"
       THEN Restock(o)
       ELSE UNCHANGED <<stock, released>>
    /\ RequestOver(o)
    /\ UNCHANGED <<walletVars, overdue, checkout, creditDue, crediting,
                   listed>>

(* The request holding the order lock dies: `ecommerce' rolls back, what    *)
(* `default' has committed stays.                                           *)
Rollback(o) ==
    /\ leg[o] # "idle"
    /\ RequestOver(o)
    /\ UNCHANGED <<walletVars, orderVarsButLeg>>

---------------------------------------------------------------------------
(* change_payment *)
MayConfirm(o, s) ==
    /\ status[o] \notin {"cancelled", "refunded"}
    /\ s = "wallet" => Settled(o) /\ SettledPayStatus(o) # "refunded"

ChangePayment(o, s, new) ==
    /\ Free(o)
    /\ pay[o][s] # "none"
    /\ new = pay[o][s] \/ new \in PaymentTransitions(pay[o][s])
    /\ new = "confirmed" => MayConfirm(o, s)
    /\ ~ (s = "wallet" /\ new = "refunded")
    /\ pay' = WithSlot(o, s, new)
    /\ payStatus' = [payStatus EXCEPT ![o] = IF new = "refunded"
                                             THEN "refunded"
                                             ELSE Recomputed(pay'[o])]
    /\ UNCHANGED <<walletVars, status, stock, released, overdue, checkout,
                   leg, target, creditDue, crediting, listed>>

(* Refunding the wallet payment itself: coins first, then the payment. *)
StartPaymentRefund(o) ==
    /\ Free(o)
    /\ pay[o]["wallet"] \in {"confirmed", "refunded"}
    /\ RefundOrder(o, Locked)
    /\ leg' = [leg EXCEPT ![o] = "paymentRepaid"]
    /\ UNCHANGED <<orderVarsButLeg, target>>

CommitPaymentRefund(o) ==
    /\ leg[o] = "paymentRepaid"
    /\ pay' = WithSlot(o, "wallet", "refunded")
    /\ payStatus' = [payStatus EXCEPT ![o] = "refunded"]
    /\ RequestOver(o)
    /\ UNCHANGED <<walletVars, status, stock, released, overdue, checkout,
                   creditDue, crediting, listed>>

---------------------------------------------------------------------------
(* The scheduled maintenance command *)
ReservationPasses(o) ==
    /\ Placed(o)
    /\ ~ Wallet(o)
    /\ o \notin overdue
    /\ overdue' = overdue \cup {o}
    /\ UNCHANGED <<walletVars, status, payStatus, pay, stock, released,
                   checkout, leg, target, creditDue, crediting, listed>>

Unpaid(o) == status[o] = "pending" /\ payStatus[o] = "unpaid"

(* A fault: an expiry asks for a status that a pending order cannot take. *)
ExpireAsRefund(o) ==
    /\ o \in overdue
    /\ Unpaid(o)
    /\ ~ HasPayment(o)
    /\ StartReversal(o, "refunded")

ExpireReservation(o) ==
    /\ o \in overdue
    /\ Unpaid(o)
    /\ ~ HasPayment(o)
    /\ StartReversal(o, "cancelled")

(* A fault: reconciliation looks for unpaid orders only. *)
ReconcilableNever(o) == Wallet(o) /\ payStatus[o] = "unpaid" /\ o \in debited

(* reconcile_commerce_wallets reads its list without a lock and settles     *)
(* each order later; an order without a debit is only reported.             *)
Reconcilable(o) ==
    /\ Wallet(o)
    /\ payStatus[o] \notin {"paid", "refunded"}
    /\ o \in debited

ReconcileList(o) ==
    /\ Reconcilable(o)
    /\ o \notin listed
    /\ listed' = listed \cup {o}
    /\ UNCHANGED <<walletVars, status, payStatus, pay, stock, released,
                   overdue, checkout, leg, target, creditDue, crediting>>

ReconcileSettle(o) ==
    /\ o \in listed
    /\ Settle(o)
    /\ listed' = listed \ {o}
    /\ UNCHANGED checkout

(* Package renewals, question unlocks and the other users of the wallet. *)
OtherSpend(c) == SpendElsewhere(c, Locked) /\ UNCHANGED orderVars

---------------------------------------------------------------------------
Buying(o) ==
    \/ CheckoutWallet(o) \/ CheckoutCod(o) \/ CheckoutManual(o)
    \/ CommitDebit(o) \/ AbortDebit(o)
    \/ SettleCallback(o)
    \/ CheckHold(o) \/ HoldCallback(o) \/ LoseCallback(o)
    \/ \E s \in ManualSlots, cod \in BOOLEAN : SubmitPayment(o, s, cod)

Staff(o) ==
    \/ \E new \in Statuses : Advance(o, new)
    \/ Return(o)
    \/ Complete(o)
    \/ CheckCredit(o) \/ CreditCallback(o) \/ LoseCredit(o)
    \/ \E new \in {"cancelled", "refunded"} : StartReversal(o, new)
    \/ ReversalLeg(o) \/ RefundLeg(o) \/ RefundRefused(o)
    \/ CommitReversal(o) \/ Rollback(o)
    \/ \E s \in Slots, new \in SlotStatuses : ChangePayment(o, s, new)
    \/ StartPaymentRefund(o) \/ CommitPaymentRefund(o)

Maintenance(o) ==
    \/ ReservationPasses(o) \/ ExpireReservation(o)
    \/ ReconcileList(o) \/ ReconcileSettle(o)

Next ==
    \/ \E o \in Orders : Buying(o) \/ Staff(o) \/ Maintenance(o)
    \/ \E c \in Customers : OtherSpend(c)

Spec == Init /\ [][Next]_vars

(* Fairness.  An open transaction ends; the maintenance command is run      *)
(* again and again, and row locks are granted in the order they are asked   *)
(* for, so a step it keeps retrying is not starved; not every attempt dies. *)
RequestEnds(o) ==
    \/ ReversalLeg(o) \/ RefundLeg(o) \/ RefundRefused(o)
    \/ CommitReversal(o) \/ CommitPaymentRefund(o) \/ Rollback(o)

Fairness ==
    \A o \in Orders :
        /\ WF_vars(CommitDebit(o) \/ AbortDebit(o))
        /\ WF_vars(RequestEnds(o))
        /\ SF_vars(ReversalLeg(o)) /\ SF_vars(CommitReversal(o))
        /\ WF_vars(ReservationPasses(o))
        /\ SF_vars(ExpireReservation(o))
        /\ WF_vars(ReconcileList(o))
        /\ SF_vars(ReconcileSettle(o))

FairSpec == Spec /\ Fairness

---------------------------------------------------------------------------
(* Safety *)

(* A wallet order is never paid for or completed without a committed debit  *)
(* (settle_wallet_order), whatever crashed and whoever acted in between.    *)
PaidHasDebit ==
    \A o \in Orders :
        /\ Wallet(o)
        /\ \/ pay[o]["wallet"] = "confirmed"
           \/ status[o] = "completed"
           \/ /\ payStatus[o] = "paid"
              /\ \A s \in ManualSlots : pay[o][s] # "confirmed"
        => o \in debited

(* A refund is given only for a debit, and an order or payment says         *)
(* refunded only after the coins are back (refund_wallet).                  *)
RefundBacked ==
    /\ refunds \subseteq debited
    /\ \A o \in Orders :
          /\ Wallet(o)
          /\ \/ pay[o]["wallet"] = "refunded"
             \/ status[o] \in {"cancelled", "refunded"}
          => o \in refunds

(* The balance that checkout has verified is still there when its debit     *)
(* commits, although the order is already visible and others move coins.    *)
VerifiedBalanceHolds ==
    \A o \in Orders :
        checkout[o] = "placing" => Price[o] <= balance[Buyer[o]]

(* A referral reward is released only by a completion that committed.       *)
RewardEarned ==
    \A o \in credited : status[o] \in {"completed", "returned", "refunded"}

(* An order whose coins went back is not completed afterwards               *)
(* (change_order), also when the order itself never learned of the refund.  *)
NoCompletionAfterRefund ==
    [][\A o \in Orders :
          (status'[o] = "completed" /\ status[o] # "completed")
             => o \notin refunds /\ (Wallet(o) => o \in debited)]_vars

(* Whatever crashes and whatever was read earlier, each commit of the shop  *)
(* in the main wallet is one of the steps other components reckon with; a   *)
(* reversal in particular acts on an operation that exists.                 *)
WalletInterface == [][WalletStep]_walletVars

---------------------------------------------------------------------------
(* Liveness, of FairSpec *)

(* Whoever was charged is acknowledged: after a debit the order eventually  *)
(* says paid or refunded, although its callback may be lost                 *)
(* (reconcile_commerce_wallets).                                            *)
DebitAcknowledged ==
    \A o \in Orders : o \in debited ~> payStatus[o] \in {"paid", "refunded"}

(* An unpaid reservation does not keep its stock for ever: once overdue, it *)
(* is cancelled or stops being unpaid (expire_unpaid_reservations).         *)
AwaitsExpiry(o) == o \in overdue /\ Unpaid(o) /\ ~ HasPayment(o)

ReservationEnds == \A o \in Orders : AwaitsExpiry(o) ~> ~ AwaitsExpiry(o)

(* What an interrupted refund leaves behind; the code does not keep this.   *)

(* Reconciliation "acknowledges already committed wallet debits/refunds":   *)
(* an order whose coins went back eventually says so.                       *)
RefundAcknowledged ==
    \A o \in Orders : o \in refunds ~> payStatus[o] = "refunded"
===========================================================================
