---------------------- MODULE CommerceAccountsProofs ----------------------
(***************************************************************************)
(* The books of the shop balance for any customers, orders, prices and     *)
(* rewards: coins, the withdrawable share and stock.                       *)
(***************************************************************************)
EXTENDS CommerceAccounts, CommerceProofs

(* CoinsBooked and ReferenceRestored of one customer.                       *)
BooksRight(c) ==
    /\ balance[c] = Booked(c)
    /\ spent[c] = 0 /\ RewardsOf(c) \cap credited = {}
          => available[c] = InitAvailable[c] - SharedOut(c)

(* Books that balance and move together go on balancing. *)
LEMMA BooksFollow ==
  ASSUME WalletTypeOK, WalletTypeOK', NEW c \in Customers,
         BooksMove(c), BooksRight(c)
  PROVE  BooksRight(c)'
<1>1. /\ balance[c] \in Nat /\ available[c] \in Nat
      /\ SharedOut(c) \in Nat /\ Booked(c) \in Int
  BY BooksAreNumbers
<1>2. /\ balance'[c] \in Nat /\ available'[c] \in Nat
      /\ SharedOut(c)' \in Nat /\ Booked(c)' \in Int
  BY BooksStayNumbers
<1>3. InitAvailable[c] \in Nat
  BY AmountAssumption
<1>4. balance'[c] = Booked(c)'
  <2>1. /\ balance'[c] - Booked(c)' = balance[c] - Booked(c)
        /\ balance[c] = Booked(c)
    BY DEF BooksMove, BooksRight
  <2> QED BY <1>1, <1>2, <2>1
<1>5. ASSUME spent'[c] = 0, RewardsOf(c) \cap credited' = {}
      PROVE  available'[c] = InitAvailable[c] - SharedOut(c)'
  <2>1. /\ available'[c] + SharedOut(c)' = available[c] + SharedOut(c)
        /\ available[c] = InitAvailable[c] - SharedOut(c)
    BY <1>5 DEF BooksMove, BooksRight
  <2> QED BY <1>1, <1>2, <1>3, <2>1
<1>6. RewardsOf(c)' = RewardsOf(c)
  BY DEF RewardsOf
<1> QED BY <1>4, <1>5, <1>6 DEF BooksRight

(* Before the first order there is nothing to add up. *)
LEMMA BooksStart ==
  ASSUME WalletInit, NEW c \in Customers
  PROVE  BooksRight(c)
<1>1. /\ ChargedTo(c) = {} /\ RewardsOf(c) \cap credited = {}
      /\ spent[c] = 0 /\ balance[c] = InitBalance[c]
      /\ available[c] = InitAvailable[c]
  BY DEF WalletInit, ChargedTo
<1>2. InitBalance[c] \in Nat /\ InitAvailable[c] \in Nat
  BY AmountAssumption
<1>3. /\ Total(Price, {}) = 0 /\ Total(Reward, {}) = 0
      /\ Total(refUsed, {}) = 0
  BY SumNothing DEF Total
<1>4. /\ Booked(c) = InitBalance[c] - 0 - Total(Price, {}) + Total(Reward, {})
                     - Total(clawed, RewardsOf(c))
      /\ SharedOut(c) = Total(refUsed, {})
  BY <1>1 DEF Booked, SharedOut
<1>5. Total(clawed, RewardsOf(c)) = 0
  BY NothingClawed DEF WalletInit
<1>6. Booked(c) = balance[c] /\ SharedOut(c) = 0
  BY <1>1, <1>2, <1>3, <1>4, <1>5
<1> QED BY <1>1, <1>2, <1>6 DEF BooksRight

(* Inductive. *)
BooksInv ==
    /\ ProtocolInv
    /\ ClawedOnce
    /\ \A c \in Customers : BooksRight(c)

LEMMA BooksStep == BooksInv /\ [Next]_vars => BooksInv'
<1> SUFFICES ASSUME BooksInv, [Next]_vars PROVE BooksInv'
  OBVIOUS
<1>1. ProtocolInv /\ ProtocolInv'
  BY NextKeeps DEF BooksInv
<1>2. WalletTypeOK /\ WalletTypeOK' /\ RefundsPaid
  BY <1>1
     DEF ProtocolInv, WalletInv, WalletSound, WalletTypeOK, RefundsPaid,
         OrderInv, LedgerInv
<1>3. ClawedOnce'
  <2>1. UNCHANGED walletVars => ClawedOnce'
    BY DEF BooksInv, ClawedOnce, walletVars
  <2> QED BY <1>1, <1>2, <2>1, NextWalletStep, ClawsStay DEF BooksInv
<1>4. ASSUME NEW c \in Customers PROVE BooksRight(c)'
  <2>1. BooksMove(c)
    BY <1>1, <1>2, NextWalletStep, WalletStepBooks, BooksStutter DEF BooksInv
  <2> QED BY <1>2, <2>1, BooksFollow DEF BooksInv
<1> QED BY <1>1, <1>3, <1>4 DEF BooksInv

LEMMA BooksBalance == Spec => []BooksInv
<1>1. Init => BooksInv
  BY InitKeeps, BooksStart, ClawsStart DEF Init, BooksInv
<1> QED BY <1>1, BooksStep, PTL DEF Spec

(* No interleaving, crash or late callback makes or loses a coin.           *)
THEOREM CoinsAlwaysBooked == Spec => []CoinsBooked
<1>1. BooksInv => CoinsBooked
  BY DEF BooksInv, BooksRight, CoinsBooked, ClawedOnce
<1> QED BY <1>1, BooksBalance, PTL

(* refund_wallet gives back the withdrawable share that a debit used, once. *)
THEOREM ReferenceAlwaysRestored == Spec => []ReferenceRestored
<1>1. BooksInv => ReferenceRestored
  BY DEF BooksInv, BooksRight, ReferenceRestored, SharedOut
<1> QED BY <1>1, BooksBalance, PTL

---------------------------------------------------------------------------
(* The stages of an order.  Most steps take none further.                   *)
Stages == \A o \in Orders : StageInv(o)
Rewarded == creditDue \cup crediting \cup credited

LEMMA StagesStay ==
  ASSUME Stages, status' = status, released' = released,
         Rewarded' \subseteq Rewarded,
         \A p \in Orders :
            Reversing(p)' => Reversing(p) /\ target'[p] = target[p]
  PROVE  Stages'
  BY DEF Stages, StageInv, Rewarded

(* A step that concerns one order: the others stay. *)
LEMMA OneStage ==
  ASSUME Stages, NEW o \in Orders, StageInv(o)',
         \A p \in Orders \ {o} :
            /\ status'[p] = status[p] /\ leg'[p] = leg[p]
            /\ target'[p] = target[p]
            /\ p \in released' => p \in released
            /\ p \in Rewarded' => p \in Rewarded
  PROVE  Stages'
  BY DEF Stages, StageInv, Reversing, Rewarded

LEMMA PlaceStages ==
  ASSUME ProtocolInv, Stages, NEW o \in Orders,
         CheckoutWallet(o) \/ CheckoutCod(o) \/ CheckoutManual(o)
  PROVE  Stages'
<1>1. PICK method : PlaceOrder(o, method)
  BY DEF CheckoutWallet, CheckoutCod, CheckoutManual
<1>2. /\ status[o] = "none" /\ leg[o] = "idle"
      /\ status \in [Orders -> Statuses \cup {"none"}]
      /\ \E new : status' = [status EXCEPT ![o] = new]
      /\ UNCHANGED <<leg, target, released, creditDue, crediting, credited>>
  BY <1>1 DEF PlaceOrder, Placed, ProtocolInv, OrderInv, StatusInv,
              OrderTypeOK, walletVars
<1>3. o \notin released /\ o \notin Rewarded
  BY <1>2 DEF Stages, StageInv, Rewarded
<1>4. StageInv(o)'
  BY <1>2, <1>3 DEF StageInv, Reversing, Rewarded
<1> QED BY <1>2, <1>4, OneStage DEF Rewarded

LEMMA AdvanceStages ==
  ASSUME ProtocolInv, Stages, NEW o \in Orders, NEW new \in Statuses,
         Advance(o, new)
  PROVE  Stages'
<1>1. /\ leg[o] = "idle" /\ new \in Transitions(status[o])
      /\ new \in {"confirmed", "processing", "shipped", "delivered"}
      /\ status' = [status EXCEPT ![o] = new]
      /\ status \in [Orders -> Statuses \cup {"none"}]
      /\ UNCHANGED <<leg, target, released, creditDue, crediting, credited>>
  BY MethodAssumption
     DEF Advance, Free, ProtocolInv, OrderTypeOK, walletVars
<1>2. status[o] \in Open \cup {"shipped"}
  BY <1>1 DEF Transitions, Open
<1>3. StageInv(o)'
  BY <1>1, <1>2 DEF Stages, StageInv, Reversing, Open
<1> QED BY <1>1, <1>3, OneStage DEF Rewarded

LEMMA ReturnStages ==
  ASSUME ProtocolInv, Stages, NEW o \in Orders, Return(o)
  PROVE  Stages'
<1>1. /\ leg[o] = "idle"
      /\ status' = [status EXCEPT ![o] = "returned"]
      /\ status \in [Orders -> Statuses \cup {"none"}]
      /\ released' \in {released, released \cup {o}}
      /\ UNCHANGED <<leg, target, creditDue, crediting, credited>>
  BY DEF Return, Restock, Free, ProtocolInv, OrderTypeOK, walletVars
<1>2. StageInv(o)'
  BY <1>1 DEF Stages, StageInv, Reversing
<1> QED BY <1>1, <1>2, OneStage DEF Rewarded

LEMMA CompleteStages ==
  ASSUME ProtocolInv, Stages, NEW o \in Orders, Complete(o)
  PROVE  Stages'
<1>1. /\ leg[o] = "idle"
      /\ status[o] = "completed" \/ "completed" \in Transitions(status[o])
      /\ status' = [status EXCEPT ![o] = "completed"]
      /\ status \in [Orders -> Statuses \cup {"none"}]
      /\ creditDue' \in {creditDue, creditDue \cup {o}}
      /\ UNCHANGED <<leg, target, released, crediting, credited>>
  BY DEF Complete, MayBecome, Free, ProtocolInv, OrderTypeOK, walletVars
<1>2. status[o] \notin {"cancelled", "returned", "refunded"}
  BY <1>1 DEF Transitions
<1>3. StageInv(o)'
  BY <1>1, <1>2 DEF Stages, StageInv, Reversing
<1> QED BY <1>1, <1>3, OneStage DEF Rewarded

LEMMA StartStages ==
  ASSUME ProtocolInv, Stages, NEW o \in Orders,
         NEW new \in {"cancelled", "refunded"}, StartReversal(o, new)
  PROVE  Stages'
<1>1. /\ status[o] = new \/ new \in Transitions(status[o])
      /\ target' = [target EXCEPT ![o] = new]
      /\ target \in [Orders -> {"none", "cancelled", "refunded"}]
      /\ leg \in [Orders -> Legs]
      /\ \E l : leg' = [leg EXCEPT ![o] = l]
      /\ UNCHANGED <<status, released, creditDue, crediting, credited>>
  BY DEF StartReversal, MayBecome, ProtocolInv, OrderTypeOK, walletVars,
         orderVarsButLeg
<1>2. \/ new = "cancelled" /\ status[o] \in Open \cup {"cancelled"}
      \/ new = "refunded" /\ status[o] \in {"returned", "refunded"}
  BY <1>1 DEF Transitions, Open
<1>3. StageInv(o)'
  BY <1>1, <1>2 DEF Stages, StageInv, Reversing
<1> QED BY <1>1, <1>3, OneStage DEF Rewarded

LEMMA CommitStages ==
  ASSUME ProtocolInv, Stages, NEW o \in Orders, CommitReversal(o)
  PROVE  Stages'
<1>1. /\ Reversing(o)
      /\ status' = [status EXCEPT ![o] = target[o]]
      /\ status \in [Orders -> Statuses \cup {"none"}]
      /\ leg' = [leg EXCEPT ![o] = "idle"] /\ leg \in [Orders -> Legs]
      /\ target' = [target EXCEPT ![o] = "none"]
      /\ target \in [Orders -> {"none", "cancelled", "refunded"}]
      /\ released' \in {released, released \cup {o}}
      /\ UNCHANGED <<creditDue, crediting, credited>>
  BY DEF CommitReversal, RequestOver, Restock, Reversing, ProtocolInv,
         OrderTypeOK, walletVars
<1>2. StageInv(o)'
  BY <1>1 DEF Stages, StageInv, Reversing, Open
<1> QED BY <1>1, <1>2, OneStage DEF Rewarded

(* What the coupon callbacks and the legs of a request do in between. *)
LEMMA BetweenStages ==
  ASSUME ProtocolInv, Stages, NEW o \in Orders,
         \/ CheckCredit(o) \/ CreditCallback(o) \/ LoseCredit(o)
         \/ ReversalLeg(o) \/ RefundLeg(o) \/ RefundRefused(o) \/ Rollback(o)
         \/ StartPaymentRefund(o) \/ CommitPaymentRefund(o)
  PROVE  Stages'
<1>1. /\ leg \in [Orders -> Legs]
      /\ target \in [Orders -> {"none", "cancelled", "refunded"}]
  BY DEF ProtocolInv, OrderTypeOK
<1>2. status' = status /\ released' = released
  BY DEF CheckCredit, CreditCallback, LoseCredit, ReversalLeg, RefundLeg,
         RefundRefused, Rollback, StartPaymentRefund, CommitPaymentRefund,
         orderVarsButCredit, orderVarsButLeg
<1>3. Rewarded' \subseteq Rewarded
  <2>1. CASE CheckCredit(o) \/ CreditCallback(o) \/ LoseCredit(o)
    BY <2>1 DEF Rewarded, CheckCredit, CreditCallback, LoseCredit,
                CreditCoupon, CreditEffect, walletVars
  <2>2. CASE \/ ReversalLeg(o) \/ RefundLeg(o) \/ RefundRefused(o)
             \/ Rollback(o) \/ StartPaymentRefund(o) \/ CommitPaymentRefund(o)
    BY <2>2 DEF Rewarded, ReversalLeg, ReverseCoupon, RefundLeg, RefundOrder,
                RefundRefused, Rollback, StartPaymentRefund,
                CommitPaymentRefund, walletVars, orderVarsButLeg
  <2> QED BY <2>1, <2>2
<1>4. ASSUME NEW p \in Orders, Reversing(p)'
      PROVE  Reversing(p) /\ target'[p] = target[p]
  <2>1. CASE CheckCredit(o) \/ CreditCallback(o) \/ LoseCredit(o)
    BY <1>4, <2>1 DEF Reversing, CheckCredit, CreditCallback, LoseCredit,
                      orderVarsButCredit
  <2>2. CASE \/ ReversalLeg(o) \/ RefundLeg(o) \/ RefundRefused(o)
             \/ Rollback(o) \/ StartPaymentRefund(o) \/ CommitPaymentRefund(o)
    BY <1>1, <1>4, <2>2
       DEF Reversing, ReversalLeg, RefundLeg, RefundRefused, Rollback,
           StartPaymentRefund, CommitPaymentRefund, RequestOver
  <2> QED BY <2>1, <2>2
<1> QED BY <1>2, <1>3, <1>4, StagesStay

(* The rest is about payments, callbacks of checkouts and other services. *)
LEMMA QuietStages ==
  ASSUME Stages,
         \/ \E o \in Orders :
               \/ CommitDebit(o) \/ AbortDebit(o) \/ SettleCallback(o)
               \/ CheckHold(o) \/ HoldCallback(o) \/ LoseCallback(o)
               \/ \E s \in ManualSlots, cod \in BOOLEAN :
                     SubmitPayment(o, s, cod)
               \/ \E s \in Slots, new \in SlotStatuses :
                     ChangePayment(o, s, new)
               \/ ReservationPasses(o) \/ ReconcileList(o)
               \/ ReconcileSettle(o)
         \/ \E c \in Customers : OtherSpend(c)
         \/ UNCHANGED vars
  PROVE  Stages'
<1>1. UNCHANGED <<status, released, leg, target, creditDue, crediting,
                  credited>>
  BY DEF CommitDebit, DebitOrder, AbortDebit, SettleCallback, Settle,
         CheckHold, HoldCallback, HoldCoupon, LoseCallback, SubmitPayment,
         ChangePayment, ReservationPasses, ReconcileList, ReconcileSettle,
         OtherSpend, SpendElsewhere, vars, walletVars, orderVars,
         orderVarsButCheckout
<1> QED BY <1>1, StagesStay DEF Rewarded, Reversing

LEMMA StagesStep == ProtocolInv /\ Stages /\ [Next]_vars => Stages'
<1> SUFFICES ASSUME ProtocolInv, Stages, [Next]_vars PROVE Stages'
  OBVIOUS
<1>1. ASSUME NEW o \in Orders, Buying(o) PROVE Stages'
  BY <1>1, PlaceStages, QuietStages DEF Buying
<1>2. ASSUME NEW o \in Orders, Staff(o) PROVE Stages'
  BY <1>2, AdvanceStages, ReturnStages, CompleteStages, StartStages,
     CommitStages, BetweenStages, QuietStages DEF Staff
<1>3. ASSUME NEW o \in Orders, Maintenance(o) PROVE Stages'
  BY <1>3, StartStages, QuietStages DEF Maintenance, ExpireReservation
<1> QED BY <1>1, <1>2, <1>3, QuietStages DEF Next

---------------------------------------------------------------------------
(* An open checkout keeps its balance: whoever else moves coins asks for    *)
(* the row it has locked.                                                   *)
Placings == \A o \in Orders : PlacingInv(o)

(* No open checkout begins, and none loses coins. *)
PlacingsLeft ==
    \A p \in Orders :
        checkout'[p] = "placing"
           => /\ checkout[p] = "placing"
              /\ balance'[Buyer[p]] >= balance[Buyer[p]]

LEMMA PlacingsStay ==
  ASSUME WalletTypeOK, WalletTypeOK', Placings, PlacingsLeft
  PROVE  Placings'
<1> SUFFICES ASSUME NEW o \in Orders, checkout'[o] = "placing"
             PROVE  PlacingInv(o)'
  BY DEF Placings, PlacingInv
<1>1. /\ checkout[o] = "placing"
      /\ balance'[Buyer[o]] >= balance[Buyer[o]]
  BY DEF PlacingsLeft
<1>2. /\ Price[o] \in Nat /\ balance[Buyer[o]] \in Nat
      /\ balance'[Buyer[o]] \in Nat
  BY AmountAssumption, ReferrerAssumption DEF WalletTypeOK
<1>3. Price[o] <= balance'[Buyer[o]]
  BY <1>1, <1>2 DEF Placings, PlacingInv
<1> QED BY <1>1, <1>3 DEF Placings, PlacingInv, PlacingsLeft

(* Coins a customer has and keeps are not fewer. *)
LEMMA SameCoins ==
  ASSUME WalletTypeOK, NEW p \in Orders,
         balance'[Buyer[p]] = balance[Buyer[p]]
  PROVE  balance'[Buyer[p]] >= balance[Buyer[p]]
  BY ReferrerAssumption DEF WalletTypeOK

LEMMA CheckoutPlacings ==
  ASSUME ProtocolInv, Placings, NEW o \in Orders, CheckoutWallet(o)
  PROVE  Placings'
<1>1. /\ Buyer[o] \notin Locked /\ Price[o] <= balance[Buyer[o]]
      /\ checkout' = [checkout EXCEPT ![o] = "placing"]
      /\ checkout \in [Orders -> CheckoutSteps]
      /\ balance' = balance
  BY DEF CheckoutWallet, PlaceOrder, ProtocolInv, OrderTypeOK, walletVars
<1> QED BY <1>1 DEF Placings, PlacingInv, Locked

LEMMA DebitPlacings ==
  ASSUME ProtocolInv, Placings, NEW o \in Orders, CommitDebit(o)
  PROVE  PlacingsLeft
<1>1. /\ checkout[o] = "placing"
      /\ checkout' = [checkout EXCEPT ![o] = "debited"]
      /\ checkout \in [Orders -> CheckoutSteps]
      /\ balance' = [balance EXCEPT ![Buyer[o]] = @ - Price[o]]
      /\ WalletTypeOK
  BY DEF CommitDebit, DebitOrder, DeductCoins, ProtocolInv, OrderTypeOK,
         WalletInv, WalletSound
<1> SUFFICES ASSUME NEW p \in Orders, checkout'[p] = "placing"
             PROVE  /\ checkout[p] = "placing"
                    /\ balance'[Buyer[p]] >= balance[Buyer[p]]
  BY DEF PlacingsLeft
<1>2. checkout[p] = "placing" /\ p # o
  BY <1>1
<1>3. Buyer[p] # Buyer[o]
  BY <1>1, <1>2 DEF Placings, PlacingInv
<1>4. balance'[Buyer[p]] = balance[Buyer[p]]
  BY <1>1, <1>3, ReferrerAssumption DEF WalletTypeOK
<1> QED BY <1>1, <1>2, <1>4, SameCoins

(* The other operations that move coins leave checkouts alone and take only *)
(* from a row that is not locked.                                           *)
LEMMA CoinsPlacings ==
  ASSUME ProtocolInv,
         \/ \E o \in Orders : \/ CreditCallback(o) \/ ReversalLeg(o)
                              \/ RefundLeg(o) \/ StartPaymentRefund(o)
         \/ \E c \in Customers : OtherSpend(c)
  PROVE  PlacingsLeft
<1>1. WalletTypeOK
  BY DEF ProtocolInv, WalletInv, WalletSound
<1>2. checkout' = checkout
  BY DEF CreditCallback, ReversalLeg, RefundLeg, StartPaymentRefund,
         OtherSpend, orderVars, orderVarsButCredit, orderVarsButLeg
<1> SUFFICES ASSUME NEW p \in Orders, checkout[p] = "placing"
             PROVE  balance'[Buyer[p]] >= balance[Buyer[p]]
  BY <1>2 DEF PlacingsLeft
<1>3. Buyer[p] \in Locked
  BY DEF Locked
<1>4. ASSUME NEW r, r \notin Locked, NEW n,
             balance' = balance \/ balance' = [balance EXCEPT ![r] = n]
      PROVE  balance'[Buyer[p]] = balance[Buyer[p]]
  <2>1. r # Buyer[p] /\ Buyer[p] \in Customers
    BY <1>3, <1>4, ReferrerAssumption
  <2> QED BY <1>1, <1>4, <2>1 DEF WalletTypeOK
<1>5. ASSUME NEW o \in Orders, CreditCallback(o)
      PROVE  balance'[Buyer[p]] = balance[Buyer[p]]
  <2>1. \/ balance' = balance
        \/ /\ Referrer[o] \notin Locked
           /\ balance' = [balance EXCEPT ![Referrer[o]] = @ + Reward[o]]
    BY <1>5 DEF CreditCallback, CreditCoupon, CreditEffect
  <2> QED BY <1>4, <2>1
<1>6. ASSUME NEW o \in Orders, ReversalLeg(o)
      PROVE  balance'[Buyer[p]] = balance[Buyer[p]]
  <2>1. \/ balance' = balance
        \/ /\ Referrer[o] \notin Locked
           /\ balance' = [balance EXCEPT ![Referrer[o]] = Monus(@, Reward[o])]
    BY <1>6 DEF ReversalLeg, ReverseCoupon, ReverseEffect
  <2> QED BY <1>4, <2>1
<1>7. ASSUME NEW o \in Orders, RefundOrder(o, Locked)
      PROVE  balance'[Buyer[p]] = balance[Buyer[p]]
  <2>1. /\ Buyer[o] \notin Locked
        /\ \/ balance' = balance
           \/ balance' = [balance EXCEPT ![Buyer[o]] = @ + Price[o]]
    BY <1>7 DEF RefundOrder
  <2> QED BY <1>4, <2>1
<1>8. ASSUME NEW c \in Customers, OtherSpend(c)
      PROVE  balance'[Buyer[p]] = balance[Buyer[p]]
  <2>1. /\ c \notin Locked
        /\ \E coins : balance' = [balance EXCEPT ![c] = @ - coins]
    BY <1>8 DEF OtherSpend, SpendElsewhere, DeductCoins
  <2> QED BY <1>4, <2>1
<1>9. balance'[Buyer[p]] = balance[Buyer[p]]
  BY <1>5, <1>6, <1>7, <1>8 DEF RefundLeg, StartPaymentRefund
<1> QED BY <1>1, <1>9, SameCoins

(* And the rest moves no coins and opens no wallet checkout. *)
LEMMA QuietPlacings ==
  ASSUME ProtocolInv,
         \/ \E o \in Orders :
               \/ CheckoutCod(o) \/ CheckoutManual(o)
               \/ AbortDebit(o) \/ SettleCallback(o)
               \/ CheckHold(o) \/ HoldCallback(o) \/ LoseCallback(o)
               \/ \E s \in ManualSlots, cod \in BOOLEAN :
                     SubmitPayment(o, s, cod)
               \/ \E new \in Statuses : Advance(o, new)
               \/ Return(o) \/ Complete(o)
               \/ CheckCredit(o) \/ LoseCredit(o)
               \/ \E new \in {"cancelled", "refunded"} : StartReversal(o, new)
               \/ RefundRefused(o) \/ CommitReversal(o) \/ Rollback(o)
               \/ \E s \in Slots, new \in SlotStatuses :
                     ChangePayment(o, s, new)
               \/ CommitPaymentRefund(o)
               \/ ReservationPasses(o) \/ ReconcileList(o)
               \/ ReconcileSettle(o)
         \/ UNCHANGED vars
  PROVE  PlacingsLeft
<1>1. balance' = balance
  BY DEF CheckoutCod, CheckoutManual, PlaceOrder, AbortDebit, SettleCallback,
         Settle, CheckHold, HoldCallback, HoldCoupon, LoseCallback,
         SubmitPayment, Advance, Return, Complete, CheckCredit, LoseCredit,
         StartReversal, RefundRefused, CommitReversal, Rollback,
         ChangePayment, CommitPaymentRefund, ReservationPasses,
         ReconcileList, ReconcileSettle, vars, walletVars
<1>2. \/ checkout' = checkout
      \/ \E o \in Orders, new \in CheckoutSteps \ {"placing"} :
            checkout' = [checkout EXCEPT ![o] = new]
  BY DEF CheckoutCod, CheckoutManual, PlaceOrder, AfterPlacing, AbortDebit,
         SettleCallback, CheckHold, HoldCallback, LoseCallback,
         SubmitPayment, Advance, Return, Complete, CheckCredit, LoseCredit,
         StartReversal, RefundRefused, CommitReversal, Rollback,
         ChangePayment, CommitPaymentRefund, ReservationPasses,
         ReconcileList, ReconcileSettle, vars, orderVars,
         orderVarsButCredit, orderVarsButLeg, CheckoutSteps
<1>3. checkout \in [Orders -> CheckoutSteps] /\ WalletTypeOK
  BY DEF ProtocolInv, OrderTypeOK, WalletInv, WalletSound
<1> QED BY <1>1, <1>2, <1>3, SameCoins DEF PlacingsLeft

LEMMA PlacingsStep == ProtocolInv /\ Placings /\ [Next]_vars => Placings'
<1> SUFFICES ASSUME ProtocolInv, Placings, [Next]_vars PROVE Placings'
  OBVIOUS
<1>1. CASE PlacingsLeft
  BY <1>1, NextKeeps, PlacingsStay DEF ProtocolInv, WalletInv, WalletSound
<1>2. ASSUME NEW o \in Orders, Buying(o)
      PROVE  PlacingsLeft \/ Placings'
  BY <1>2, CheckoutPlacings, DebitPlacings, QuietPlacings DEF Buying
<1>3. ASSUME NEW o \in Orders, Staff(o) PROVE PlacingsLeft
  BY <1>3, CoinsPlacings, QuietPlacings DEF Staff
<1>4. ASSUME NEW o \in Orders, Maintenance(o) PROVE PlacingsLeft
  BY <1>4, QuietPlacings DEF Maintenance, ExpireReservation
<1> QED BY <1>1, <1>2, <1>3, <1>4, CoinsPlacings, QuietPlacings DEF Next

(* StagesInv holds in every reachable state. *)
LEMMA StagesAlways == Spec => []StagesInv
<1>1. Init => Stages /\ Placings
  BY DEF Init, WalletInit, Stages, StageInv, Reversing, Placings, PlacingInv
<1>2. /\ ProtocolInv /\ (Stages /\ Placings) /\ [Next]_vars
            => (Stages /\ Placings)'
      /\ Stages /\ Placings => StagesInv
  BY StagesStep, PlacingsStep DEF Stages, Placings, StagesInv
<1> QED BY <1>1, <1>2, Invariance, PTL DEF Spec

(* The balance a checkout has verified waits for its debit, whatever the    *)
(* other services, refunds and coupons do while the order is visible.       *)
THEOREM VerifiedBalanceAlwaysHolds == Spec => []VerifiedBalanceHolds
<1>1. StagesInv => VerifiedBalanceHolds
  BY DEF StagesInv, PlacingInv, VerifiedBalanceHolds
<1> QED BY <1>1, StagesAlways, PTL

(* credit_referral_coupon, however late its callback runs, pays for an      *)
(* order that was completed.                                                *)
THEOREM RewardAlwaysEarned == Spec => []RewardEarned
<1>1. ProtocolInv /\ StagesInv => RewardEarned
  BY DEF ProtocolInv, WalletInv, WalletSound, WalletTypeOK, StagesInv,
         StageInv, RewardEarned
<1> QED BY <1>1, StagesAlways, Invariance, PTL

---------------------------------------------------------------------------
(* Stock.  Restocking reads the first line an order has of a variant, so    *)
(* the books need every variant of an order on one line.                    *)
WholeLines ==
    \A o \in Orders, v \in Reserving : FirstLine[o][v] = Ordered[o][v]

StockRight ==
    \A v \in Variants :
        /\ v \notin Backorder => stock[v] >= 0
        /\ stock[v] + Total(Units(v), Live) = InitStock[v]

LEMMA UnitsAre ==
  ASSUME NEW v \in Variants
  PROVE  /\ Units(v) \in [Orders -> Nat]
         /\ \A o \in Orders : Units(v)[o] = IF v \in Reserving
                                            THEN Ordered[o][v] ELSE 0
  BY StockAssumption DEF Units

(* The same orders are live and the shelf is untouched. *)
LEMMA StockStays ==
  ASSUME StockRight, stock' = stock, Live' = Live
  PROVE  StockRight'
  BY DEF StockRight

(* An order takes its units from the shelf. *)
LEMMA StockTaken ==
  ASSUME OrderTypeOK, StockRight, NEW o \in Orders, o \notin Live,
         InStock(o), TakeStock(o), Live' = Live \cup {o}
  PROVE  StockRight'
<1> SUFFICES ASSUME NEW v \in Variants
             PROVE  /\ v \notin Backorder => stock'[v] >= 0
                    /\ stock'[v] + Total(Units(v), Live') = InitStock[v]
  BY DEF StockRight, Units
<1>1. /\ Live \in SUBSET Orders /\ stock[v] \in Int /\ InitStock[v] \in Nat
      /\ Ordered[o][v] \in Nat
  BY StockAssumption DEF Live, OrderTypeOK
<1>2. Units(v) \in [Orders -> Nat] /\ Units(v)[o] \in Nat
  BY UnitsAre
<1>3. stock'[v] = stock[v] - Units(v)[o]
  BY <1>1, UnitsAre DEF TakeStock
<1>4. Total(Units(v), Live') = Total(Units(v), Live) + Units(v)[o]
  BY <1>1, <1>2, TotalWith
<1>5. Total(Units(v), Live) \in Nat
  BY <1>1, <1>2, TotalNat
<1>6. /\ stock[v] + Total(Units(v), Live) = InitStock[v]
      /\ v \notin Backorder => Units(v)[o] <= stock[v]
  BY <1>1, UnitsAre DEF StockRight, InStock
<1>7. stock'[v] + Total(Units(v), Live') = InitStock[v]
  BY <1>1, <1>2, <1>3, <1>4, <1>5, <1>6
<1>8. v \notin Backorder => stock'[v] >= 0
  BY <1>1, <1>2, <1>3, <1>6
<1> QED BY <1>7, <1>8

(* An order that is shelved for the first time puts them back. *)
LEMMA StockReturned ==
  ASSUME WholeLines, OrderTypeOK, StockRight, NEW o \in Orders, o \in Live,
         o \notin released, Restock(o), Live' = Live \ {o}
  PROVE  StockRight'
<1> SUFFICES ASSUME NEW v \in Variants
             PROVE  /\ v \notin Backorder => stock'[v] >= 0
                    /\ stock'[v] + Total(Units(v), Live') = InitStock[v]
  BY DEF StockRight, Units
<1>1. /\ Live \in SUBSET Orders /\ stock[v] \in Int /\ InitStock[v] \in Nat
  BY StockAssumption DEF Live, OrderTypeOK
<1>2. Units(v) \in [Orders -> Nat] /\ Units(v)[o] \in Nat
  BY UnitsAre
<1>3. stock'[v] = stock[v] + Units(v)[o]
  <2>1. stock'[v] = IF v \in Reserving THEN stock[v] + FirstLine[o][v]
                                       ELSE stock[v]
    BY DEF Restock, ReturnedUnits
  <2> QED BY <1>1, <2>1, UnitsAre DEF WholeLines
<1>4. Total(Units(v), Live') = Total(Units(v), Live) - Units(v)[o]
  BY <1>1, <1>2, TotalWithout
<1>5. Total(Units(v), Live) \in Nat
  BY <1>1, <1>2, TotalNat
<1>6. /\ stock[v] + Total(Units(v), Live) = InitStock[v]
      /\ v \notin Backorder => stock[v] >= 0
  BY DEF StockRight
<1>7. stock'[v] + Total(Units(v), Live') = InitStock[v]
  BY <1>1, <1>2, <1>3, <1>4, <1>5, <1>6
<1>8. v \notin Backorder => stock'[v] >= 0
  BY <1>1, <1>2, <1>3, <1>6
<1> QED BY <1>7, <1>8

LEMMA LiveChanges ==
  ASSUME OrderTypeOK, NEW o \in Orders, NEW new,
         status' = [status EXCEPT ![o] = new]
  PROVE  Live' = IF new \in Shelved THEN Live \ {o} ELSE Live \cup {o}
  BY DEF OrderTypeOK, Live

LEMMA PlaceStock ==
  ASSUME ProtocolInv, StockRight, NEW o \in Orders,
         CheckoutWallet(o) \/ CheckoutCod(o) \/ CheckoutManual(o)
  PROVE  StockRight'
<1>1. PICK method : PlaceOrder(o, method)
  BY DEF CheckoutWallet, CheckoutCod, CheckoutManual
<1>2. /\ status[o] = "none" /\ InStock(o) /\ TakeStock(o) /\ OrderTypeOK
      /\ \E new \in {"pending", "confirmed"} :
            status' = [status EXCEPT ![o] = new]
  BY <1>1 DEF PlaceOrder, Placed, ProtocolInv
<1>3. o \notin Live /\ Live' = Live \cup {o}
  BY <1>2, LiveChanges DEF Live, Shelved
<1> QED BY <1>2, <1>3, StockTaken

(* Confirmation, fulfilment and completion keep a live order live. *)
LEMMA AdvanceStock ==
  ASSUME ProtocolInv, StockRight, NEW o \in Orders,
         Complete(o) \/ \E new \in Statuses : Advance(o, new)
  PROVE  StockRight'
<1>1. PICK new \in {"confirmed", "processing", "shipped", "delivered",
                    "completed"} :
         /\ status' = [status EXCEPT ![o] = new]
         /\ status[o] = new \/ new \in Transitions(status[o])
         /\ stock' = stock
  BY MethodAssumption DEF Advance, Complete, MayBecome
<1>2. status[o] \notin Shelved
  BY <1>1 DEF Transitions, Shelved
<1>3. o \in Live /\ OrderTypeOK
  BY <1>2 DEF Live, ProtocolInv
<1>4. Live' = Live
  <2>1. new \notin Shelved /\ Live \cup {o} = Live
    BY <1>1, <1>3 DEF Shelved
  <2> QED BY <1>1, <1>3, <2>1, LiveChanges
<1> QED BY <1>1, <1>4, StockStays

LEMMA ReturnStock ==
  ASSUME WholeLines, ProtocolInv, Stages, StockRight, NEW o \in Orders,
         Return(o)
  PROVE  StockRight'
<1>1. /\ status' = [status EXCEPT ![o] = "returned"] /\ Restock(o)
      /\ status[o] \in {"shipped", "delivered", "completed"}
      /\ OrderTypeOK
  BY DEF Return, Transitions, ProtocolInv
<1>2. o \in Live /\ o \notin released
  BY <1>1 DEF Live, Shelved, Stages, StageInv
<1>3. Live' = Live \ {o}
  BY <1>1, LiveChanges DEF Shelved
<1> QED BY <1>1, <1>2, <1>3, StockReturned

(* A cancellation puts the units back, the refund of a returned order and a *)
(* repeated cancellation do not.                                            *)
LEMMA CommitStock ==
  ASSUME WholeLines, ProtocolInv, Stages, StockRight, NEW o \in Orders,
         CommitReversal(o)
  PROVE  StockRight'
<1>1. /\ status' = [status EXCEPT ![o] = target[o]] /\ OrderTypeOK
      /\ IF target[o] = "cancelled" /\ status[o] # "cancelled"
         THEN Restock(o) ELSE stock' = stock
      /\ Reversing(o)
  BY DEF CommitReversal, ProtocolInv, Reversing
<1>2. \/ target[o] = "cancelled" /\ status[o] \in Open \cup {"cancelled"}
      \/ target[o] = "refunded" /\ status[o] \in {"returned", "refunded"}
  BY <1>1 DEF Stages, StageInv
<1>3. Live' = Live \ {o}
  BY <1>1, <1>2, LiveChanges DEF Shelved
<1>4. CASE target[o] = "cancelled" /\ status[o] # "cancelled"
  <2>1. o \in Live /\ o \notin released
    BY <1>2, <1>4 DEF Live, Shelved, Open, Stages, StageInv
  <2> QED BY <1>1, <1>3, <1>4, <2>1, StockReturned
<1>5. CASE ~ (target[o] = "cancelled" /\ status[o] # "cancelled")
  <2>1. o \notin Live
    BY <1>2, <1>5 DEF Live, Shelved
  <2> QED BY <1>1, <1>3, <1>5, <2>1, StockStays
<1> QED BY <1>4, <1>5

LEMMA QuietStock ==
  ASSUME StockRight,
         \/ \E o \in Orders :
               \/ CommitDebit(o) \/ AbortDebit(o) \/ SettleCallback(o)
               \/ CheckHold(o) \/ HoldCallback(o) \/ LoseCallback(o)
               \/ \E s \in ManualSlots, cod \in BOOLEAN :
                     SubmitPayment(o, s, cod)
               \/ CheckCredit(o) \/ CreditCallback(o) \/ LoseCredit(o)
               \/ \E new \in {"cancelled", "refunded"} : StartReversal(o, new)
               \/ ReversalLeg(o) \/ RefundLeg(o) \/ RefundRefused(o)
               \/ Rollback(o)
               \/ \E s \in Slots, new \in SlotStatuses :
                     ChangePayment(o, s, new)
               \/ StartPaymentRefund(o) \/ CommitPaymentRefund(o)
               \/ ReservationPasses(o) \/ ReconcileList(o)
               \/ ReconcileSettle(o)
         \/ \E c \in Customers : OtherSpend(c)
         \/ UNCHANGED vars
  PROVE  StockRight'
<1>1. status' = status /\ stock' = stock
  BY DEF CommitDebit, AbortDebit, SettleCallback, Settle, CheckHold,
         HoldCallback, LoseCallback, SubmitPayment, CheckCredit,
         CreditCallback, LoseCredit, StartReversal, ReversalLeg, RefundLeg,
         RefundRefused, Rollback, ChangePayment, StartPaymentRefund,
         CommitPaymentRefund, ReservationPasses, ReconcileList,
         ReconcileSettle, OtherSpend, vars, orderVars,
         orderVarsButCheckout, orderVarsButCredit, orderVarsButLeg
<1> QED BY <1>1, StockStays DEF Live

LEMMA StockStep ==
  ASSUME WholeLines
  PROVE  ProtocolInv /\ Stages /\ StockRight /\ [Next]_vars => StockRight'
<1> SUFFICES ASSUME ProtocolInv, Stages, StockRight, [Next]_vars
             PROVE  StockRight'
  OBVIOUS
<1>1. ASSUME NEW o \in Orders, Buying(o) PROVE StockRight'
  BY <1>1, PlaceStock, QuietStock DEF Buying
<1>2. ASSUME NEW o \in Orders, Staff(o) PROVE StockRight'
  BY <1>2, AdvanceStock, ReturnStock, CommitStock, QuietStock DEF Staff
<1>3. ASSUME NEW o \in Orders, Maintenance(o) PROVE StockRight'
  BY <1>3, QuietStock DEF Maintenance, ExpireReservation
<1> QED BY <1>1, <1>2, <1>3, QuietStock DEF Next

LEMMA StockStarts == Init => StockRight
<1> SUFFICES ASSUME Init PROVE StockRight
  OBVIOUS
<1>1. Live = {} /\ stock = InitStock
  BY DEF Init, Live, Shelved
<1>2. \A v \in Variants : Total(Units(v), {}) = 0 /\ InitStock[v] \in Nat
  BY SumNothing, StockAssumption DEF Total
<1> QED BY <1>1, <1>2 DEF StockRight

(* Where every variant of an order is on one line, cancelling or returning  *)
(* the order puts back exactly what its checkout took, and once             *)
(* (change_order).                                                          *)
THEOREM StockAlwaysBooked ==
  ASSUME WholeLines
  PROVE  Spec => []StockBooked
<1>1. StockRight => StockBooked
  BY DEF StockRight, StockBooked
<1>2. Spec => []Stages
  <2>1. StagesInv => Stages
    BY DEF StagesInv, Stages
  <2> QED BY <2>1, StagesAlways, PTL
<1> QED BY <1>1, <1>2, StockStarts, StockStep, Invariance, PTL DEF Spec
============================================================================
