---------------------------- MODULE MainWallet ----------------------------
(***************************************************************************)
(* The half of the shop's money that lives in the `default' database: a    *)
(* customer's spendable coins, the withdrawable referral share of them,    *)
(* and the WalletOperation rows whose unique keys make every movement      *)
(* happen at most once.                                                    *)
(*                                                                         *)
(* Every action below is the part of a transaction of that database that   *)
(* runs with the customer's row locked and commits, so it is one step.     *)
(* What the coupon operations read before they take the lock is a step of  *)
(* its own in CommerceOrders (HoldAllowed, CreditAllowed, SeenBefore).     *)
(* The only transaction that keeps the lock across a step visible          *)
(* elsewhere is a wallet checkout (see CommerceOrders), hence the          *)
(* parameter `locked': the customers locked by an open checkout.           *)
(*                                                                         *)
(* Amounts are coins; one taka is 100 coins, and available_taka,           *)
(* pending_taka and lifetime_earned_taka are kept in hundredths of a taka, *)
(* which is the same unit.                                                 *)
(***************************************************************************)
EXTENDS Integers

CONSTANTS
    Customers,      \* the Customer rows
    Orders,         \* the order numbers that checkout may draw
    NoReferrer,     \* an order placed without a registered-mobile coupon
    Buyer,          \* Buyer[o]: the signed-in account that owns order o
    Referrer,       \* Referrer[o]: whose mobile number was the coupon of o
    Price,          \* Price[o]: int(grand_total * 100)
    Reward,         \* Reward[o]: the 1% coupon of o, in coins
    InitBalance,    \* InitBalance[c]: coins before the first step
    InitAvailable,  \* InitAvailable[c]: the withdrawable share of them
    SpendAmounts,   \* coins the other paid services may charge
    SpendLimit      \* bound: total coins a customer spends elsewhere

ASSUME ReferrerAssumption ==
    /\ NoReferrer \notin Customers
    /\ Buyer \in [Orders -> Customers]
    /\ Referrer \in [Orders -> Customers \cup {NoReferrer}]
    /\ \A o \in Orders : Referrer[o] # Buyer[o]      \* same_account()

ASSUME AmountAssumption ==
    /\ Price \in [Orders -> Nat]
    /\ Reward \in [Orders -> Nat \ {0}]
    /\ InitBalance \in [Customers -> Nat]
    /\ InitAvailable \in [Customers -> Nat]
    /\ \A c \in Customers : InitAvailable[c] <= InitBalance[c]
    /\ SpendAmounts \subseteq Nat
    /\ SpendLimit \in Nat

VARIABLES
    balance,    \* Customer.settings['balance']
    available,  \* RewardsWallet.available_taka
    pending,    \* RewardsWallet.pending_taka
    earned,     \* RewardsWallet.lifetime_earned_taka
    debited,    \* orders with a commerce:debit operation
    refUsed,    \* the debit operation's reference_taka
    refunds,    \* orders with a commerce:refund operation
    held,       \* orders with a referral-coupon-hold operation
    credited,   \* orders with a referral-coupon operation
    reversed,   \* orders with a referral-coupon-refund operation
    clawed,     \* history: coins the reversal of an order's coupon took
    spent       \* coins a customer spent on other services

walletVars == <<balance, available, pending, earned, debited, refUsed,
                refunds, held, credited, reversed, clawed, spent>>

WalletTypeOK ==
    /\ balance \in [Customers -> Nat]
    /\ available \in [Customers -> Nat]
    /\ pending \in [Customers -> Nat]
    /\ earned \in [Customers -> Nat]
    /\ debited \subseteq Orders
    /\ refUsed \in [Orders -> Nat]
    /\ refunds \subseteq Orders
    /\ held \subseteq Orders
    /\ credited \subseteq Orders
    /\ reversed \subseteq Orders
    /\ clawed \in [Orders -> Nat]
    /\ spent \in [Customers -> Nat]

WalletInit ==
    /\ balance = InitBalance
    /\ available = InitAvailable
    /\ pending = [c \in Customers |-> 0]
    /\ earned = [c \in Customers |-> 0]
    /\ debited = {}
    /\ refUsed = [o \in Orders |-> 0]
    /\ refunds = {}
    /\ held = {}
    /\ credited = {}
    /\ reversed = {}
    /\ clawed = [o \in Orders |-> 0]
    /\ spent = [c \in Customers |-> 0]

---------------------------------------------------------------------------
Least(a, b) == IF a <= b THEN a ELSE b

(* A fault: the claw-back of spent coins goes below zero. *)
MonusUnclamped(a, b) == a - b

Monus(a, b) == IF a <= b THEN 0 ELSE a - b      \* max(0, a - b)

HasReward(o) == Referrer[o] # NoReferrer

(* A fault: a debit leaves the withdrawable share alone. *)
ReferenceUsedNever(c, coins) == 0

(* A debit consumes the withdrawable share first. *)
ReferenceUsed(c, coins) == Least(available[c], coins)

DeductCoins(c, coins) ==
    /\ coins <= balance[c]
    /\ balance' = [balance EXCEPT ![c] = @ - coins]
    /\ available' = [available EXCEPT ![c] = @ - ReferenceUsed(c, coins)]

(* Any other paid service: it locks the customer, deducts and commits. *)
SpendElsewhere(c, locked) ==
    /\ c \notin locked
    /\ \E coins \in SpendAmounts :
          /\ spent[c] + coins <= SpendLimit
          /\ DeductCoins(c, coins)
          /\ spent' = [spent EXCEPT ![c] = @ + coins]
    /\ UNCHANGED <<pending, earned, debited, refUsed, refunds, held, credited,
                   reversed, clawed>>

(* hold_referral_coupon.  Its first read, which locks nothing: refused once *)
(* the coupon was released or reversed.                                     *)
HoldAllowed(o) == HasReward(o) /\ o \notin credited \cup reversed

HoldEffect(o) ==
    IF HasReward(o) /\ o \notin held
    THEN /\ held' = held \cup {o}
         /\ pending' = [pending EXCEPT ![Referrer[o]] = @ + Reward[o]]
    ELSE UNCHANGED <<held, pending>>

HoldCoupon(o, locked) ==
    /\ o \notin held => Referrer[o] \notin locked
    /\ HoldEffect(o)
    /\ UNCHANGED <<balance, available, earned, debited, refUsed, refunds,
                   credited, reversed, clawed, spent>>

(* The wallet leg of a checkout: the deduction, its debit operation and the *)
(* coupon hold commit together.                                             *)
DebitOrder(o) ==
    /\ o \notin debited
    /\ DeductCoins(Buyer[o], Price[o])
    /\ debited' = debited \cup {o}
    /\ refUsed' = [refUsed EXCEPT ![o] = ReferenceUsed(Buyer[o], Price[o])]
    /\ IF HoldAllowed(o) THEN HoldEffect(o) ELSE UNCHANGED <<held, pending>>
    /\ UNCHANGED <<earned, refunds, credited, reversed, clawed, spent>>

(* A fault: the second call pays again. *)
RefundTwice(o, locked) ==
    /\ Buyer[o] \notin locked
    /\ o \in debited
    /\ refunds' = refunds \cup {o}
    /\ balance' = [balance EXCEPT ![Buyer[o]] = @ + Price[o]]
    /\ available' = [available EXCEPT ![Buyer[o]] = @ + refUsed[o]]
    /\ UNCHANGED <<pending, earned, debited, refUsed, held, credited, reversed,
                   clawed, spent>>

(* A fault: all refunded coins become withdrawable. *)
RefundAllWithdrawable(o, locked) ==
    /\ Buyer[o] \notin locked
    /\ o \in debited
    /\ IF o \in refunds
       THEN UNCHANGED <<refunds, balance, available>>
       ELSE /\ refunds' = refunds \cup {o}
            /\ balance' = [balance EXCEPT ![Buyer[o]] = @ + Price[o]]
            /\ available' = [available EXCEPT ![Buyer[o]] = @ + Price[o]]
    /\ UNCHANGED <<pending, earned, debited, refUsed, held, credited, reversed,
                   clawed, spent>>

(* refund_wallet: credit once; a second call finds the operation and does  *)
(* nothing.  Without a debit it raises, which is RefundRefused of          *)
(* CommerceOrders.                                                         *)
RefundOrder(o, locked) ==
    /\ Buyer[o] \notin locked
    /\ o \in debited
    /\ IF o \in refunds
       THEN UNCHANGED <<refunds, balance, available>>
       ELSE /\ refunds' = refunds \cup {o}
            /\ balance' = [balance EXCEPT ![Buyer[o]] = @ + Price[o]]
            /\ available' = [available EXCEPT ![Buyer[o]] = @ + refUsed[o]]
    /\ UNCHANGED <<pending, earned, debited, refUsed, held, credited, reversed,
                   clawed, spent>>

(* credit_referral_coupon: never after a reversal, says its first read, and *)
(* released once.                                                           *)
CreditAllowed(o) == HasReward(o) /\ o \notin reversed

CreditEffect(o) ==
    IF HasReward(o) /\ o \notin credited
    THEN LET r == Referrer[o]
             owed == IF o \in held THEN Reward[o] ELSE 0
         IN  /\ credited' = credited \cup {o}
             /\ balance' = [balance EXCEPT ![r] = @ + Reward[o]]
             /\ available' = [available EXCEPT ![r] = @ + Reward[o]]
             /\ earned' = [earned EXCEPT ![r] = @ + Reward[o]]
             /\ pending' = [pending EXCEPT ![r] = Monus(@, owed)]
    ELSE UNCHANGED <<credited, balance, available, earned, pending>>

CreditCoupon(o, locked) ==
    /\ o \notin credited => Referrer[o] \notin locked
    /\ CreditEffect(o)
    /\ UNCHANGED <<debited, refUsed, refunds, held, reversed, clawed, spent>>

(* A fault: a hold is taken for a release. *)
SeenCredit(o) == IF HasReward(o) /\ o \in held THEN "credit" ELSE "none"

(* reverse_referral_coupon first reads, without a lock, which operation     *)
(* there is to reverse; with neither it writes nothing.                     *)
SeenBefore(o) ==
    IF ~ HasReward(o) THEN "none"
    ELSE IF o \in credited THEN "credit"
    ELSE IF o \in held THEN "hold"
    ELSE "none"

(* Then it claws back the credit or drops the hold it has seen, once. *)
ReverseEffect(o, seen) ==
    IF HasReward(o) /\ o \notin reversed
    THEN LET r == Referrer[o] IN
         /\ reversed' = reversed \cup {o}
         /\ IF seen = "credit"
            THEN /\ balance' = [balance EXCEPT ![r] = Monus(@, Reward[o])]
                 /\ available' = [available EXCEPT ![r] = Monus(@, Reward[o])]
                 /\ clawed' = [clawed EXCEPT ![o] = Least(balance[r], Reward[o])]
                 /\ UNCHANGED pending
            ELSE /\ pending' = [pending EXCEPT ![r] = Monus(@, Reward[o])]
                 /\ UNCHANGED <<balance, available, clawed>>
    ELSE UNCHANGED <<reversed, balance, available, clawed, pending>>

ReverseCoupon(o, seen, locked) ==
    /\ o \notin reversed => Referrer[o] \notin locked
    /\ ReverseEffect(o, seen)
    /\ UNCHANGED <<earned, debited, refUsed, refunds, held, credited, spent>>

(* Everything the shop and the paid services may do to the wallet: one of   *)
(* these steps per commit.  A reversal acts on an operation that exists.    *)
CanReverse(o, seen) ==
    \/ seen = "credit" /\ o \in credited
    \/ seen = "hold" /\ o \in held

WalletStep ==
    \/ \E c \in Customers : SpendElsewhere(c, {})
    \/ \E o \in Orders :
          \/ DebitOrder(o)
          \/ RefundOrder(o, {})
          \/ HoldCoupon(o, {})
          \/ CreditCoupon(o, {})
          \/ \E seen \in {"credit", "hold"} :
                CanReverse(o, seen) /\ ReverseCoupon(o, seen, {})

---------------------------------------------------------------------------
(* The accounts S whose withdrawable share is backed by coins. *)
BackedIn(S) == \A c \in S : available[c] <= balance[c]

(* The withdrawable referral share never exceeds the coins it is a share    *)
(* of, so the same earnings cannot be spent and then withdrawn              *)
(* (deduct_wallet_coins, refund_wallet and the coupon operations).          *)
WithdrawableBacked == BackedIn(Customers)

(* Inductive: a debit never used more of the withdrawable share than it    *)
(* took coins, which is what makes giving both back safe.                   *)
WalletSound(S) ==
    /\ WalletTypeOK
    /\ BackedIn(S)
    /\ \A o \in Orders : refUsed[o] <= Price[o]

WalletInv == WalletSound(Customers)
===========================================================================
