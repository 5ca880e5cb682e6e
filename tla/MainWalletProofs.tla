------------------------- MODULE MainWalletProofs -------------------------
(***************************************************************************)
(* Every committed transaction of the main wallet keeps the wallet's       *)
(* invariant, for any customers, orders and amounts, and moves a balance   *)
(* and a withdrawable share by what it changes in their ledgers.           *)
(***************************************************************************)
EXTENDS WalletLedger, SumProofs

(* The initial amounts are well-formed: AmountAssumption. *)
LEMMA WalletStarts == WalletInit => WalletInv
  BY AmountAssumption
     DEF WalletInit, WalletInv, WalletSound, WalletTypeOK, BackedIn

(* deduct_wallet_coins takes the withdrawable share first and never more    *)
(* than the coins, so the share stays backed.                               *)
LEMMA DeductKeeps ==
  ASSUME NEW S \in SUBSET Customers, WalletSound(S),
         NEW c \in Customers, NEW coins \in Nat,
         DeductCoins(c, coins)
  PROVE  /\ balance' \in [Customers -> Nat]
         /\ available' \in [Customers -> Nat]
         /\ BackedIn(S)'
         /\ ReferenceUsed(c, coins) \in Nat
         /\ ReferenceUsed(c, coins) <= coins
<1>1. /\ balance[c] \in Nat /\ available[c] \in Nat
      /\ coins <= balance[c]
  BY DEF WalletSound, WalletTypeOK, DeductCoins
<1>2. /\ ReferenceUsed(c, coins) \in Nat
      /\ ReferenceUsed(c, coins) <= coins
      /\ ReferenceUsed(c, coins) <= available[c]
      /\ available[c] <= balance[c]
           => available[c] - ReferenceUsed(c, coins) <= balance[c] - coins
  BY <1>1 DEF ReferenceUsed, Least
<1>3. /\ balance' = [balance EXCEPT ![c] = @ - coins]
      /\ available' = [available EXCEPT ![c] = @ - ReferenceUsed(c, coins)]
  BY DEF DeductCoins
<1>4. balance' \in [Customers -> Nat] /\ available' \in [Customers -> Nat]
  BY <1>1, <1>2, <1>3 DEF WalletSound, WalletTypeOK
<1>5. BackedIn(S)'
  BY <1>1, <1>2, <1>3 DEF WalletSound, WalletTypeOK, BackedIn
<1> QED BY <1>2, <1>4, <1>5

(* The pending share only grows by a hold. *)
LEMMA HoldKeeps ==
  ASSUME NEW S \in SUBSET Customers, WalletSound(S),
         NEW o \in Orders, HoldEffect(o)
  PROVE  held' \subseteq Orders /\ pending' \in [Customers -> Nat]
  BY ReferrerAssumption, AmountAssumption
     DEF WalletSound, WalletTypeOK, HoldEffect, HasReward

(* The paid services that are not orders (SpendElsewhere). *)
LEMMA SpendKeeps ==
  ASSUME NEW S \in SUBSET Customers, WalletSound(S),
         NEW c \in Customers, NEW locked, SpendElsewhere(c, locked)
  PROVE  WalletSound(S)'
<1>1. PICK coins \in SpendAmounts :
         /\ DeductCoins(c, coins)
         /\ spent' = [spent EXCEPT ![c] = @ + coins]
  BY DEF SpendElsewhere
<1>2. coins \in Nat
  BY AmountAssumption
<1>3. /\ balance' \in [Customers -> Nat]
      /\ available' \in [Customers -> Nat]
      /\ BackedIn(S)'
  BY <1>1, <1>2, DeductKeeps
<1>4. spent' \in [Customers -> Nat]
  BY <1>1, <1>2 DEF WalletSound, WalletTypeOK
<1> QED BY <1>3, <1>4 DEF WalletSound, WalletTypeOK, SpendElsewhere

(* A late or lost hold callback. *)
LEMMA HoldCouponKeeps ==
  ASSUME NEW S \in SUBSET Customers, WalletSound(S),
         NEW o \in Orders, NEW locked, HoldCoupon(o, locked)
  PROVE  WalletSound(S)'
<1>1. held' \subseteq Orders /\ pending' \in [Customers -> Nat]
  BY HoldKeeps DEF HoldCoupon
<1> QED BY <1>1 DEF WalletSound, WalletTypeOK, BackedIn, HoldCoupon

(* The wallet leg of a checkout. *)
LEMMA DebitKeeps ==
  ASSUME NEW S \in SUBSET Customers, WalletSound(S),
         NEW o \in Orders, DebitOrder(o)
  PROVE  WalletSound(S)'
<1>1. Buyer[o] \in Customers /\ Price[o] \in Nat
  BY ReferrerAssumption, AmountAssumption
<1>2. /\ balance' \in [Customers -> Nat]
      /\ available' \in [Customers -> Nat]
      /\ BackedIn(S)'
      /\ ReferenceUsed(Buyer[o], Price[o]) \in Nat
      /\ ReferenceUsed(Buyer[o], Price[o]) <= Price[o]
  BY <1>1, DeductKeeps DEF DebitOrder
<1>3. held' \subseteq Orders /\ pending' \in [Customers -> Nat]
  BY HoldKeeps DEF DebitOrder, WalletSound, WalletTypeOK
<1>4. refUsed' = [refUsed EXCEPT ![o] = ReferenceUsed(Buyer[o], Price[o])]
  BY DEF DebitOrder
<1>5. /\ refUsed' \in [Orders -> Nat]
      /\ \A p \in Orders : refUsed'[p] <= Price[p]
  BY <1>2, <1>4 DEF WalletSound, WalletTypeOK
<1> QED BY <1>2, <1>3, <1>5 DEF WalletSound, WalletTypeOK, DebitOrder

(* refund_wallet gives back the coins and no more than their share. *)
LEMMA RefundKeeps ==
  ASSUME NEW S \in SUBSET Customers, WalletSound(S),
         NEW o \in Orders, NEW locked, RefundOrder(o, locked)
  PROVE  WalletSound(S)'
<1>1. CASE o \in refunds
  BY <1>1 DEF WalletSound, WalletTypeOK, BackedIn, RefundOrder
<1>2. CASE o \notin refunds
  <2>1. /\ Buyer[o] \in Customers /\ Price[o] \in Nat
        /\ refUsed[o] \in Nat /\ refUsed[o] <= Price[o]
    BY ReferrerAssumption, AmountAssumption DEF WalletSound, WalletTypeOK
  <2>2. /\ refunds' = refunds \cup {o}
        /\ balance' = [balance EXCEPT ![Buyer[o]] = @ + Price[o]]
        /\ available' = [available EXCEPT ![Buyer[o]] = @ + refUsed[o]]
    BY <1>2 DEF RefundOrder
  <2>3. balance' \in [Customers -> Nat] /\ available' \in [Customers -> Nat]
    BY <2>1, <2>2 DEF WalletSound, WalletTypeOK
  <2>4. BackedIn(S)'
    BY <2>1, <2>2 DEF WalletSound, WalletTypeOK, BackedIn
  <2> QED BY <2>2, <2>3, <2>4 DEF WalletSound, WalletTypeOK, RefundOrder
<1> QED BY <1>1, <1>2

(* credit_referral_coupon raises the coins and the share alike. *)
LEMMA CreditKeeps ==
  ASSUME NEW S \in SUBSET Customers, WalletSound(S),
         NEW o \in Orders, NEW locked, CreditCoupon(o, locked)
  PROVE  WalletSound(S)'
<1>1. CASE ~ (HasReward(o) /\ o \notin credited)
  BY <1>1 DEF WalletSound, WalletTypeOK, BackedIn, CreditCoupon,
              CreditEffect
<1>2. CASE HasReward(o) /\ o \notin credited
  <2> DEFINE r == Referrer[o]
             owed == IF o \in held THEN Reward[o] ELSE 0
  <2>1. r \in Customers /\ Reward[o] \in Nat /\ owed \in Nat
    BY <1>2, ReferrerAssumption, AmountAssumption
       DEF HasReward
  <2>2. /\ credited' = credited \cup {o}
        /\ balance' = [balance EXCEPT ![r] = @ + Reward[o]]
        /\ available' = [available EXCEPT ![r] = @ + Reward[o]]
        /\ earned' = [earned EXCEPT ![r] = @ + Reward[o]]
        /\ pending' = [pending EXCEPT ![r] = Monus(@, owed)]
    BY <1>2 DEF CreditCoupon, CreditEffect
  <2> HIDE DEF r, owed
  <2>3. /\ balance' \in [Customers -> Nat] /\ available' \in [Customers -> Nat]
        /\ earned' \in [Customers -> Nat]
    BY <2>1, <2>2 DEF WalletSound, WalletTypeOK
  <2>4. pending' \in [Customers -> Nat]
    BY <2>1, <2>2 DEF WalletSound, WalletTypeOK, Monus
  <2>5. BackedIn(S)'
    BY <2>1, <2>2 DEF WalletSound, WalletTypeOK, BackedIn
  <2> QED BY <2>2, <2>3, <2>4, <2>5 DEF WalletSound, WalletTypeOK, CreditCoupon
<1> QED BY <1>1, <1>2

(* reverse_referral_coupon lowers both alike and stops at zero. *)
LEMMA ReverseKeeps ==
  ASSUME NEW S \in SUBSET Customers, WalletSound(S),
         NEW o \in Orders, NEW seen, NEW locked,
         ReverseCoupon(o, seen, locked)
  PROVE  WalletSound(S)'
<1>1. CASE ~ (HasReward(o) /\ o \notin reversed)
  BY <1>1 DEF WalletSound, WalletTypeOK, BackedIn, ReverseCoupon,
              ReverseEffect
<1>2. CASE HasReward(o) /\ o \notin reversed
  <2> DEFINE r == Referrer[o]
  <2>1. r \in Customers /\ Reward[o] \in Nat
    BY <1>2, ReferrerAssumption, AmountAssumption
       DEF HasReward
  <2>2. reversed' = reversed \cup {o}
    BY <1>2 DEF ReverseCoupon, ReverseEffect
  <2>3. CASE seen = "credit"
    <3>1. /\ balance' = [balance EXCEPT ![r] = Monus(@, Reward[o])]
          /\ available' = [available EXCEPT ![r] = Monus(@, Reward[o])]
          /\ clawed' = [clawed EXCEPT ![o] = Least(balance[r], Reward[o])]
          /\ pending' = pending
      BY <1>2, <2>3 DEF ReverseCoupon, ReverseEffect
    <3> HIDE DEF r
    <3>2. /\ balance' \in [Customers -> Nat]
          /\ available' \in [Customers -> Nat]
          /\ clawed' \in [Orders -> Nat]
      BY <2>1, <3>1 DEF WalletSound, WalletTypeOK, Monus, Least
    <3>3. BackedIn(S)'
      BY <2>1, <3>1 DEF WalletSound, WalletTypeOK, BackedIn, Monus
    <3> QED BY <2>2, <3>1, <3>2, <3>3
            DEF WalletSound, WalletTypeOK, ReverseCoupon
  <2>4. CASE seen # "credit"
    <3>1. /\ pending' = [pending EXCEPT ![r] = Monus(@, Reward[o])]
          /\ balance' = balance /\ available' = available /\ clawed' = clawed
      BY <1>2, <2>4 DEF ReverseCoupon, ReverseEffect
    <3> HIDE DEF r
    <3>2. pending' \in [Customers -> Nat]
      BY <2>1, <3>1 DEF WalletSound, WalletTypeOK, Monus
    <3> QED BY <2>2, <3>1, <3>2
            DEF WalletSound, WalletTypeOK, BackedIn, ReverseCoupon
  <2> QED BY <2>3, <2>4
<1> QED BY <1>1, <1>2

(* A step of the shop that leaves the wallet alone. *)
LEMMA WalletStutters ==
  ASSUME NEW S \in SUBSET Customers, WalletSound(S), UNCHANGED walletVars
  PROVE  WalletSound(S)'
  BY DEF WalletSound, WalletTypeOK, BackedIn, walletVars

(* Whatever the shop and the paid services do. *)
LEMMA WalletStepKeeps ==
  ASSUME NEW S \in SUBSET Customers, WalletSound(S), WalletStep
  PROVE  WalletSound(S)'
  BY SpendKeeps, DebitKeeps, RefundKeeps, HoldCouponKeeps, CreditKeeps,
     ReverseKeeps DEF WalletStep

---------------------------------------------------------------------------
(* The books.  A set of orders is finite, so its sums are numbers.          *)
LEMMA TotalNat ==
  ASSUME NEW f \in [Orders -> Nat], NEW S \in SUBSET Orders
  PROVE  Total(f, S) \in Nat
  BY LedgerAssumption, FS_Subset, SumNat DEF Total

LEMMA TotalWith ==
  ASSUME NEW f \in [Orders -> Nat], NEW S \in SUBSET Orders,
         NEW o \in Orders
  PROVE  Total(f, S \cup {o}) = IF o \in S THEN Total(f, S)
                                          ELSE Total(f, S) + f[o]
<1>1. CASE o \in S
  <2>1. S \cup {o} = S
    BY <1>1
  <2> QED BY <1>1, <2>1
<1>2. CASE o \notin S
  <2>1. IsFiniteSet(S) /\ \A p \in S \cup {o} : f[p] \in Int
    BY LedgerAssumption, FS_Subset
  <2> QED BY <1>2, <2>1, SumWith DEF Total
<1> QED BY <1>1, <1>2

LEMMA TotalWithout ==
  ASSUME NEW f \in [Orders -> Nat], NEW S \in SUBSET Orders,
         NEW o \in Orders
  PROVE  Total(f, S \ {o}) = IF o \in S THEN Total(f, S) - f[o]
                                       ELSE Total(f, S)
<1>1. CASE o \notin S
  <2>1. S \ {o} = S
    BY <1>1
  <2> QED BY <1>1, <2>1
<1>2. CASE o \in S
  <2>1. IsFiniteSet(S) /\ \A p \in S : f[p] \in Int
    BY LedgerAssumption, FS_Subset
  <2>2. Total(f, S) = f[o] + Total(f, S \ {o})
    BY <1>2, <2>1, SumWithout DEF Total
  <2>3. Total(f, S \ {o}) \in Nat /\ f[o] \in Nat
    BY TotalNat
  <2> QED BY <1>2, <2>2, <2>3
<1> QED BY <1>1, <1>2

(* How the books of c move with one transaction: the balance as its ledger; *)
(* the share, with what refunds would restore to it, grows by earnings      *)
(* only, and is kept where there are none.                                  *)
SharedOut(c) == Total(refUsed, ChargedTo(c))

BooksMove(c) ==
    /\ balance'[c] - Booked(c)' = balance[c] - Booked(c)
    /\ available'[c] + SharedOut(c)' - earned'[c]
          <= available[c] + SharedOut(c) - earned[c]
    /\ spent'[c] = 0 /\ RewardsOf(c) \cap credited' = {}
          => /\ spent[c] = 0 /\ RewardsOf(c) \cap credited = {}
             /\ available'[c] + SharedOut(c)' = available[c] + SharedOut(c)

(* A reversal takes back once, at most the reward, and only what was paid. *)
ClawedOnce ==
    \A o \in Orders :
       /\ clawed[o] <= Reward[o]
       /\ clawed[o] > 0 => o \in credited \cap reversed

LEMMA BooksAreNumbers ==
  ASSUME WalletTypeOK, NEW c \in Customers
  PROVE  /\ balance[c] \in Nat /\ available[c] \in Nat
         /\ earned[c] \in Nat /\ spent[c] \in Nat
         /\ InitBalance[c] \in Nat
         /\ ChargedTo(c) \in SUBSET Orders
         /\ Total(Price, ChargedTo(c)) \in Nat
         /\ Total(Reward, RewardsOf(c) \cap credited) \in Nat
         /\ Total(clawed, RewardsOf(c)) \in Nat
         /\ SharedOut(c) \in Nat
         /\ Booked(c) \in Int
<1>1. /\ ChargedTo(c) \in SUBSET Orders /\ RewardsOf(c) \in SUBSET Orders
      /\ RewardsOf(c) \cap credited \in SUBSET Orders
  BY DEF ChargedTo, OrdersOf, RewardsOf
<1>2. /\ Price \in [Orders -> Nat] /\ Reward \in [Orders -> Nat]
      /\ refUsed \in [Orders -> Nat] /\ clawed \in [Orders -> Nat]
      /\ InitBalance \in [Customers -> Nat]
  BY AmountAssumption DEF WalletTypeOK
<1>3. /\ Total(Price, ChargedTo(c)) \in Nat
      /\ Total(Reward, RewardsOf(c) \cap credited) \in Nat
      /\ Total(clawed, RewardsOf(c)) \in Nat
      /\ SharedOut(c) \in Nat
  BY <1>1, <1>2, TotalNat DEF SharedOut
<1> QED BY <1>1, <1>2, <1>3 DEF WalletTypeOK, Booked

(* BooksAreNumbers, of the next state. *)
LEMMA BooksStayNumbers ==
  ASSUME WalletTypeOK', NEW c \in Customers
  PROVE  /\ balance'[c] \in Nat /\ available'[c] \in Nat
         /\ SharedOut(c)' \in Nat /\ Booked(c)' \in Int
<1>1. /\ ChargedTo(c)' \in SUBSET Orders
      /\ RewardsOf(c) \in SUBSET Orders
      /\ RewardsOf(c) \cap credited' \in SUBSET Orders
  BY DEF ChargedTo, OrdersOf, RewardsOf
<1>2. /\ Price \in [Orders -> Nat] /\ Reward \in [Orders -> Nat]
      /\ InitBalance \in [Customers -> Nat]
  BY AmountAssumption
<1>3. /\ refUsed' \in [Orders -> Nat] /\ clawed' \in [Orders -> Nat]
      /\ spent'[c] \in Nat
      /\ balance'[c] \in Nat /\ available'[c] \in Nat
  BY DEF WalletTypeOK
<1>4. /\ Total(Price, ChargedTo(c)') \in Nat
      /\ Total(Reward, RewardsOf(c) \cap credited') \in Nat
      /\ Total(clawed', RewardsOf(c)) \in Nat
      /\ Total(refUsed', ChargedTo(c)') \in Nat
  BY <1>1, <1>2, <1>3, TotalNat
<1>5. /\ SharedOut(c)' = Total(refUsed', ChargedTo(c)')
      /\ Booked(c)' = InitBalance[c] - spent'[c] - Total(Price, ChargedTo(c)')
                + Total(Reward, RewardsOf(c) \cap credited')
                - Total(clawed', RewardsOf(c))
  BY DEF SharedOut, Booked, RewardsOf
<1> QED BY <1>2, <1>3, <1>4, <1>5

(* A transaction that moves the balance as it moves the books, and the     *)
(* share against what refunds would restore.                               *)
LEMMA BooksStay ==
  ASSUME WalletTypeOK, NEW c \in Customers,
         NEW coins \in Int, NEW used \in Int,
         balance'[c] = balance[c] + coins,
         Booked(c)' = Booked(c) + coins,
         available'[c] = available[c] + used,
         SharedOut(c)' = SharedOut(c) - used,
         earned'[c] = earned[c], spent'[c] = spent[c],
         credited' = credited
  PROVE  BooksMove(c)
<1>1. /\ balance[c] \in Nat /\ available[c] \in Nat /\ earned[c] \in Nat
      /\ SharedOut(c) \in Nat /\ Booked(c) \in Int
  BY BooksAreNumbers
<1>2. RewardsOf(c) \cap credited' = RewardsOf(c) \cap credited
  BY DEF RewardsOf
<1>3. balance'[c] - Booked(c)' = balance[c] - Booked(c)
  BY <1>1
<1>4. available'[c] + SharedOut(c)' = available[c] + SharedOut(c)
  BY <1>1
<1>5. available'[c] + SharedOut(c)' - earned'[c]
         <= available[c] + SharedOut(c) - earned[c]
  BY <1>1
<1> QED BY <1>2, <1>3, <1>4, <1>5 DEF BooksMove

(* Nothing of the books of c changes. *)
LEMMA BooksUntouched ==
  ASSUME WalletTypeOK, NEW c \in Customers,
         balance'[c] = balance[c], available'[c] = available[c],
         earned'[c] = earned[c], spent'[c] = spent[c],
         ChargedTo(c)' = ChargedTo(c), refUsed' = refUsed,
         credited' = credited, clawed' = clawed
  PROVE  BooksMove(c)
<1>1. /\ balance[c] \in Nat /\ available[c] \in Nat
      /\ SharedOut(c) \in Nat /\ Booked(c) \in Int
  BY BooksAreNumbers
<1>2. Booked(c)' = Booked(c) /\ SharedOut(c)' = SharedOut(c)
  BY DEF Booked, SharedOut, RewardsOf
<1>3. /\ 0 \in Int /\ balance'[c] = balance[c] + 0
      /\ Booked(c)' = Booked(c) + 0 /\ available'[c] = available[c] + 0
      /\ SharedOut(c)' = SharedOut(c) - 0
  BY <1>1, <1>2
<1> HIDE DEF BooksMove
<1> QED BY <1>3, BooksStay

(* A paid service charges d. *)
LEMMA SpendBooks ==
  ASSUME WalletTypeOK, NEW c \in Customers, NEW d \in Customers,
         SpendElsewhere(d, {})
  PROVE  BooksMove(c)
<1>1. PICK coins \in SpendAmounts :
         /\ balance' = [balance EXCEPT ![d] = @ - coins]
         /\ available' = [available EXCEPT ![d] = @ - ReferenceUsed(d, coins)]
         /\ spent' = [spent EXCEPT ![d] = @ + coins]
  BY DEF SpendElsewhere, DeductCoins
<1>2. /\ coins \in Nat /\ ReferenceUsed(d, coins) \in Nat
      /\ coins = 0 => ReferenceUsed(d, coins) = 0
  BY AmountAssumption DEF ReferenceUsed, Least, WalletTypeOK
<1>3. UNCHANGED <<earned, debited, refUsed, refunds, credited, clawed>>
  BY DEF SpendElsewhere
<1>4. ChargedTo(c)' = ChargedTo(c)
  BY <1>3 DEF ChargedTo, OrdersOf
<1>5. CASE c # d
  BY <1>1, <1>3, <1>4, <1>5, BooksUntouched DEF WalletTypeOK
<1>6. CASE c = d
  <2>1. /\ balance'[c] = balance[c] - coins
        /\ spent'[c] = spent[c] + coins
        /\ available'[c] = available[c] - ReferenceUsed(d, coins)
    BY <1>1, <1>6 DEF WalletTypeOK
  <2>2. /\ balance[c] \in Nat /\ available[c] \in Nat /\ earned[c] \in Nat
        /\ spent[c] \in Nat /\ InitBalance[c] \in Nat
        /\ Total(Price, ChargedTo(c)) \in Nat
        /\ Total(Reward, RewardsOf(c) \cap credited) \in Nat
        /\ Total(clawed, RewardsOf(c)) \in Nat
        /\ SharedOut(c) \in Nat
    BY BooksAreNumbers
  <2>3. /\ Booked(c) = InitBalance[c] - spent[c] - Total(Price, ChargedTo(c))
              + Total(Reward, RewardsOf(c) \cap credited)
              - Total(clawed, RewardsOf(c))
        /\ Booked(c)' = InitBalance[c] - spent'[c] - Total(Price, ChargedTo(c))
              + Total(Reward, RewardsOf(c) \cap credited)
              - Total(clawed, RewardsOf(c))
    BY <1>3, <1>4 DEF Booked, RewardsOf
  <2>4. balance'[c] - Booked(c)' = balance[c] - Booked(c)
    BY <1>2, <2>1, <2>2, <2>3
  <2>5. /\ SharedOut(c)' = SharedOut(c) /\ earned'[c] = earned[c]
        /\ RewardsOf(c) \cap credited' = RewardsOf(c) \cap credited
    BY <1>3, <1>4 DEF SharedOut, RewardsOf
  <2>6. available'[c] + SharedOut(c)' - earned'[c]
           <= available[c] + SharedOut(c) - earned[c]
    BY <1>2, <2>1, <2>2, <2>5
  <2>7. spent'[c] = 0 => /\ spent[c] = 0
                         /\ available'[c] + SharedOut(c)'
                               = available[c] + SharedOut(c)
    <3> SUFFICES ASSUME spent'[c] = 0
                 PROVE  /\ spent[c] = 0
                        /\ available'[c] + SharedOut(c)'
                              = available[c] + SharedOut(c)
      OBVIOUS
    <3>1. coins = 0 /\ spent[c] = 0
      BY <1>2, <2>1, <2>2
    <3>2. ReferenceUsed(d, coins) = 0
      BY <1>2, <3>1
    <3> HIDE <1>2
    <3> QED BY <2>1, <2>2, <2>5, <3>1, <3>2
  <2> QED BY <2>4, <2>5, <2>6, <2>7 DEF BooksMove
<1> QED BY <1>5, <1>6

(* A checkout charges Price[o] and notes the share it used. *)
LEMMA DebitBooks ==
  ASSUME WalletTypeOK, refunds \subseteq debited, NEW c \in Customers,
         NEW o \in Orders, DebitOrder(o)
  PROVE  BooksMove(c)
<1> DEFINE b == Buyer[o]
           used == ReferenceUsed(b, Price[o])
<1>1. /\ b \in Customers /\ Price[o] \in Nat /\ used \in Nat
      /\ Price \in [Orders -> Nat]
  BY ReferrerAssumption, AmountAssumption
     DEF ReferenceUsed, Least, WalletTypeOK
<1>2. /\ o \notin debited /\ debited' = debited \cup {o}
      /\ balance' = [balance EXCEPT ![b] = @ - Price[o]]
      /\ available' = [available EXCEPT ![b] = @ - used]
      /\ refUsed' = [refUsed EXCEPT ![o] = used]
      /\ UNCHANGED <<earned, refunds, credited, clawed, spent>>
  BY DEF DebitOrder, DeductCoins
<1> HIDE DEF used
<1>3. /\ ChargedTo(c) \in SUBSET Orders /\ IsFiniteSet(ChargedTo(c))
      /\ balance[c] \in Nat /\ available[c] \in Nat /\ spent[c] \in Nat
      /\ InitBalance[c] \in Nat
      /\ Total(Price, ChargedTo(c)) \in Nat
      /\ Total(Reward, RewardsOf(c) \cap credited) \in Nat
      /\ Total(clawed, RewardsOf(c)) \in Nat
      /\ SharedOut(c) \in Nat
  BY BooksAreNumbers, LedgerAssumption, FS_Subset
<1>4. /\ o \notin ChargedTo(c)
      /\ c = b => ChargedTo(c)' = ChargedTo(c) \cup {o}
      /\ c # b => ChargedTo(c)' = ChargedTo(c)
  BY <1>2 DEF ChargedTo, OrdersOf
<1>5. refUsed' \in [Orders -> Nat] /\ refUsed'[o] = used
  BY <1>1, <1>2 DEF WalletTypeOK
<1>6. Total(refUsed', ChargedTo(c)) = SharedOut(c)
  <2>1. \A p \in ChargedTo(c) : refUsed'[p] = refUsed[p]
    BY <1>2, <1>3, <1>4 DEF WalletTypeOK
  <2> QED BY <1>3, <2>1, SumSame DEF Total, SharedOut
<1>7. /\ Booked(c) = InitBalance[c] - spent[c] - Total(Price, ChargedTo(c))
            + Total(Reward, RewardsOf(c) \cap credited)
            - Total(clawed, RewardsOf(c))
      /\ Booked(c)' = InitBalance[c] - spent[c] - Total(Price, ChargedTo(c)')
            + Total(Reward, RewardsOf(c) \cap credited)
            - Total(clawed, RewardsOf(c))
      /\ SharedOut(c)' = Total(refUsed', ChargedTo(c)')
  BY <1>2 DEF Booked, RewardsOf, SharedOut
<1>8. CASE c # b
  <2>1. balance'[c] = balance[c] /\ available'[c] = available[c]
    BY <1>2, <1>8 DEF WalletTypeOK
  <2>2. /\ 0 \in Int /\ balance'[c] = balance[c] + 0
        /\ Booked(c)' = Booked(c) + 0 /\ available'[c] = available[c] + 0
        /\ SharedOut(c)' = SharedOut(c) - 0
    BY <1>3, <1>4, <1>6, <1>7, <1>8, <2>1
  <2> QED BY <1>2, <2>2, BooksStay
<1>9. CASE c = b
  <2>1. /\ balance'[c] = balance[c] - Price[o]
        /\ available'[c] = available[c] - used
    BY <1>1, <1>2, <1>9 DEF WalletTypeOK
  <2>2. Total(Price, ChargedTo(c)') = Total(Price, ChargedTo(c)) + Price[o]
    BY <1>1, <1>3, <1>4, <1>9, TotalWith
  <2>3. Total(refUsed', ChargedTo(c)') = Total(refUsed', ChargedTo(c)) + used
    BY <1>3, <1>4, <1>5, <1>9, TotalWith
  <2>4. /\ -Price[o] \in Int /\ -used \in Int
        /\ balance'[c] = balance[c] + (-Price[o])
        /\ Booked(c)' = Booked(c) + (-Price[o])
        /\ available'[c] = available[c] + (-used)
        /\ SharedOut(c)' = SharedOut(c) - (-used)
    BY <1>1, <1>3, <1>6, <1>7, <2>1, <2>2, <2>3
  <2> QED BY <1>2, <2>4, BooksStay
<1> QED BY <1>8, <1>9

(* A refund gives back both, once. *)
LEMMA RefundBooks ==
  ASSUME WalletTypeOK, NEW c \in Customers,
         NEW o \in Orders, RefundOrder(o, {})
  PROVE  BooksMove(c)
<1> DEFINE b == Buyer[o]
<1>1. /\ b \in Customers /\ Price[o] \in Nat /\ refUsed[o] \in Nat
      /\ Price \in [Orders -> Nat] /\ refUsed \in [Orders -> Nat]
  BY ReferrerAssumption, AmountAssumption DEF WalletTypeOK
<1>2. UNCHANGED <<earned, debited, refUsed, credited, clawed, spent>>
  BY DEF RefundOrder
<1>3. CASE o \in refunds \/ c # b
  <2>1. balance'[c] = balance[c] /\ available'[c] = available[c]
    BY <1>3 DEF RefundOrder, WalletTypeOK
  <2>2. ChargedTo(c)' = ChargedTo(c)
    BY <1>2, <1>3 DEF ChargedTo, OrdersOf, RefundOrder
  <2> QED BY <1>2, <2>1, <2>2, BooksUntouched
<1>4. CASE o \notin refunds /\ c = b
  <2>1. /\ o \in debited /\ refunds' = refunds \cup {o}
        /\ balance'[c] = balance[c] + Price[o]
        /\ available'[c] = available[c] + refUsed[o]
    BY <1>1, <1>4 DEF RefundOrder, WalletTypeOK
  <2>2. ChargedTo(c)' = ChargedTo(c) \ {o} /\ o \in ChargedTo(c)
    BY <1>2, <1>4, <2>1 DEF ChargedTo, OrdersOf
  <2>3. /\ ChargedTo(c) \in SUBSET Orders
        /\ balance[c] \in Nat /\ available[c] \in Nat /\ spent[c] \in Nat
        /\ InitBalance[c] \in Nat
        /\ Total(Price, ChargedTo(c)) \in Nat
        /\ Total(Reward, RewardsOf(c) \cap credited) \in Nat
        /\ Total(clawed, RewardsOf(c)) \in Nat
        /\ SharedOut(c) \in Nat
    BY BooksAreNumbers
  <2>4. /\ Total(Price, ChargedTo(c)')
              = Total(Price, ChargedTo(c)) - Price[o]
        /\ Total(refUsed, ChargedTo(c)') = SharedOut(c) - refUsed[o]
    BY <1>1, <2>2, <2>3, TotalWithout DEF SharedOut
  <2>5. /\ Booked(c) = InitBalance[c] - spent[c] - Total(Price, ChargedTo(c))
              + Total(Reward, RewardsOf(c) \cap credited)
              - Total(clawed, RewardsOf(c))
        /\ Booked(c)' = InitBalance[c] - spent[c] - Total(Price, ChargedTo(c)')
              + Total(Reward, RewardsOf(c) \cap credited)
              - Total(clawed, RewardsOf(c))
        /\ SharedOut(c)' = Total(refUsed, ChargedTo(c)')
    BY <1>2 DEF Booked, RewardsOf, SharedOut
  <2>6. /\ Price[o] \in Int /\ refUsed[o] \in Int
        /\ Booked(c)' = Booked(c) + Price[o]
        /\ SharedOut(c)' = SharedOut(c) - refUsed[o]
    BY <1>1, <2>3, <2>4, <2>5
  <2> QED BY <1>2, <2>1, <2>6, BooksStay
<1> QED BY <1>3, <1>4

(* A hold promises coins, it moves none. *)
LEMMA HoldBooks ==
  ASSUME WalletTypeOK, NEW c \in Customers,
         NEW o \in Orders, HoldCoupon(o, {})
  PROVE  BooksMove(c)
<1>1. UNCHANGED <<balance, available, earned, debited, refUsed, refunds,
                  credited, clawed, spent>>
  BY DEF HoldCoupon
<1>2. ChargedTo(c)' = ChargedTo(c)
  BY <1>1 DEF ChargedTo, OrdersOf
<1> QED BY <1>1, <1>2, BooksUntouched

(* A release books what it pays. *)
LEMMA CreditBooks ==
  ASSUME WalletTypeOK, NEW c \in Customers,
         NEW o \in Orders, CreditCoupon(o, {})
  PROVE  BooksMove(c)
<1> DEFINE r == Referrer[o]
           coins == Reward[o]
           paid == RewardsOf(c) \cap credited
<1>1. UNCHANGED <<debited, refUsed, refunds, clawed, spent>>
  BY DEF CreditCoupon
<1>2. /\ ChargedTo(c)' = ChargedTo(c) /\ RewardsOf(c)' = RewardsOf(c)
      /\ SharedOut(c)' = SharedOut(c)
  BY <1>1 DEF ChargedTo, OrdersOf, SharedOut, RewardsOf
<1>3. CASE HasReward(o) /\ o \notin credited /\ c = r
  <2>1. coins \in Nat /\ coins > 0 /\ Reward \in [Orders -> Nat]
    BY AmountAssumption
  <2>2. /\ credited' = credited \cup {o}
        /\ balance'[c] = balance[c] + coins
        /\ available'[c] = available[c] + coins
        /\ earned'[c] = earned[c] + coins
    BY <1>3 DEF CreditCoupon, CreditEffect, WalletTypeOK
  <2>3. o \in RewardsOf(c) /\ paid \in SUBSET Orders
    BY <1>3 DEF RewardsOf
  <2>4. /\ balance[c] \in Nat /\ available[c] \in Nat /\ earned[c] \in Nat
        /\ spent[c] \in Nat /\ InitBalance[c] \in Nat
        /\ Total(Price, ChargedTo(c)) \in Nat
        /\ Total(Reward, paid) \in Nat /\ Total(clawed, RewardsOf(c)) \in Nat
        /\ SharedOut(c) \in Nat
    BY BooksAreNumbers
  <2>5. /\ Booked(c) = InitBalance[c] - spent[c] - Total(Price, ChargedTo(c))
                       + Total(Reward, paid) - Total(clawed, RewardsOf(c))
        /\ Booked(c)' = InitBalance[c] - spent[c] - Total(Price, ChargedTo(c))
                        + Total(Reward, paid') - Total(clawed, RewardsOf(c))
    BY <1>1, <1>2 DEF Booked
  <2>6. available'[c] + SharedOut(c)' - earned'[c]
           <= available[c] + SharedOut(c) - earned[c]
    <3> HIDE DEF coins
    <3> QED BY <1>2, <2>1, <2>2, <2>4
  <2>7. paid' = paid \cup {o} /\ o \notin paid
    BY <1>2, <1>3, <2>2, <2>3
  <2>8. Total(Reward, paid') = Total(Reward, paid) + coins
    <3> HIDE DEF paid
    <3> QED BY <2>1, <2>3, <2>7, TotalWith
  <2>9. balance'[c] - Booked(c)' = balance[c] - Booked(c)
    <3> HIDE DEF paid
    <3> QED BY <2>1, <2>2, <2>4, <2>5, <2>8
  <2>10. o \in RewardsOf(c) \cap credited'
    BY <2>2, <2>3
  <2> QED BY <1>2, <2>6, <2>9, <2>10 DEF BooksMove
<1>4. CASE ~ HasReward(o) \/ o \in credited
  <2>1. UNCHANGED <<balance, available, earned, credited>>
    BY <1>4 DEF CreditCoupon, CreditEffect
  <2> QED BY <1>1, <1>2, <2>1, BooksUntouched
<1>5. CASE HasReward(o) /\ o \notin credited /\ c # r
  <2>1. /\ balance'[c] = balance[c] /\ available'[c] = available[c]
        /\ earned'[c] = earned[c] /\ credited' = credited \cup {o}
    BY <1>5 DEF CreditCoupon, CreditEffect, WalletTypeOK
  <2>2. paid' = paid
    BY <1>1, <1>2, <1>5, <2>1 DEF RewardsOf
  <2>3. Booked(c)' = Booked(c) /\ spent'[c] = spent[c]
    BY <1>1, <1>2, <2>2 DEF Booked
  <2>4. /\ balance[c] \in Nat /\ available[c] \in Nat /\ earned[c] \in Nat
        /\ SharedOut(c) \in Nat /\ Booked(c) \in Int
    BY BooksAreNumbers
  <2>5. available'[c] + SharedOut(c)' - earned'[c]
           <= available[c] + SharedOut(c) - earned[c]
    BY <1>2, <2>1, <2>3, <2>4
  <2> QED BY <1>2, <2>1, <2>2, <2>3, <2>5 DEF BooksMove
<1> QED BY <1>3, <1>4, <1>5

(* What a reversal took of the rewards of c: its own part changes once.     *)
LEMMA ClawedBooks ==
  ASSUME WalletTypeOK, NEW c \in Customers, NEW o \in RewardsOf(c),
         NEW coins \in Nat, clawed[o] = 0,
         clawed' = [clawed EXCEPT ![o] = coins]
  PROVE  Total(clawed', RewardsOf(c)) = Total(clawed, RewardsOf(c)) + coins
<1> DEFINE S == RewardsOf(c)
<1>1. IsFiniteSet(S) /\ S \in SUBSET Orders
  BY LedgerAssumption, FS_Subset DEF RewardsOf
<1>2. o \in S /\ clawed \in [Orders -> Nat]
  BY DEF WalletTypeOK
<1> HIDE DEF S
<1>3. /\ \A p \in S : clawed[p] \in Int
      /\ \A p \in S \ {o} : clawed'[p] = clawed[p]
      /\ clawed'[o] = coins /\ clawed'[o] \in Int
  BY <1>1, <1>2
<1>4. SumFunctionOnSet(clawed', S)
         = SumFunctionOnSet(clawed, S) - clawed[o] + clawed'[o]
  <2> DEFINE g == clawed'
  <2>1. /\ g[o] \in Int /\ \A p \in S \ {o} : g[p] = clawed[p]
    BY <1>3
  <2> HIDE DEF g
  <2>2. SumFunctionOnSet(g, S) = SumFunctionOnSet(clawed, S) - clawed[o] + g[o]
    BY <1>1, <1>2, <1>3, <2>1, SumChanged
  <2> QED BY <2>2 DEF g
<1>5. SumFunctionOnSet(clawed, S) \in Nat
  BY <1>1, <1>2, TotalNat DEF Total
<1> QED BY <1>3, <1>4, <1>5 DEF Total, S

(* A reversal books what it takes, which is not more than there is.         *)
LEMMA ReverseBooks ==
  ASSUME WalletTypeOK, ClawedOnce, NEW c \in Customers, NEW o \in Orders,
         NEW seen \in {"credit", "hold"}, CanReverse(o, seen),
         ReverseCoupon(o, seen, {})
  PROVE  BooksMove(c)
<1> DEFINE r == Referrer[o]
           coins == Least(balance[c], Reward[o])
<1>1. UNCHANGED <<earned, debited, refUsed, refunds, held, credited, spent>>
  BY DEF ReverseCoupon
<1>2. /\ ChargedTo(c)' = ChargedTo(c) /\ RewardsOf(c)' = RewardsOf(c)
      /\ SharedOut(c)' = SharedOut(c) /\ SharedOut(c) \in Nat
  BY <1>1, BooksAreNumbers DEF ChargedTo, OrdersOf, SharedOut, RewardsOf
<1>3. CASE HasReward(o) /\ o \notin reversed /\ c = r /\ seen = "credit"
  <2>1. /\ balance[c] \in Nat /\ available[c] \in Nat /\ earned[c] \in Nat
        /\ spent[c] \in Nat /\ InitBalance[c] \in Nat
        /\ Total(Price, ChargedTo(c)) \in Nat
        /\ Total(Reward, RewardsOf(c) \cap credited) \in Nat
        /\ Total(clawed, RewardsOf(c)) \in Nat
    BY BooksAreNumbers
  <2>2. /\ Reward[o] \in Nat /\ coins \in Nat /\ clawed[o] = 0
        /\ o \in RewardsOf(c)
    BY <1>3, <2>1, AmountAssumption
       DEF Least, ClawedOnce, RewardsOf, WalletTypeOK
  <2>3. /\ balance'[c] = Monus(balance[c], Reward[o])
        /\ available'[c] = Monus(available[c], Reward[o])
        /\ clawed' = [clawed EXCEPT ![o] = coins]
    BY <1>3 DEF ReverseCoupon, ReverseEffect, WalletTypeOK
  <2>4. /\ balance'[c] = balance[c] - coins
        /\ available'[c] <= available[c] /\ available'[c] \in Int
    BY <2>1, <2>2, <2>3 DEF Monus, Least
  <2>5. o \in RewardsOf(c) \cap credited'
    BY <1>1, <1>3, <2>2 DEF CanReverse
  <2> HIDE DEF coins
  <2>6. Total(clawed', RewardsOf(c)) = Total(clawed, RewardsOf(c)) + coins
    BY <2>2, <2>3, ClawedBooks
  <2>7. /\ Booked(c) = InitBalance[c] - spent[c] - Total(Price, ChargedTo(c))
              + Total(Reward, RewardsOf(c) \cap credited)
              - Total(clawed, RewardsOf(c))
        /\ Booked(c)' = InitBalance[c] - spent[c] - Total(Price, ChargedTo(c))
              + Total(Reward, RewardsOf(c) \cap credited)
              - Total(clawed', RewardsOf(c))
    BY <1>1, <1>2 DEF Booked
  <2>8. balance'[c] - Booked(c)' = balance[c] - Booked(c)
    BY <2>1, <2>2, <2>4, <2>6, <2>7
  <2>9. available'[c] + SharedOut(c)' - earned'[c]
           <= available[c] + SharedOut(c) - earned[c]
    BY <1>1, <1>2, <2>1, <2>4
  <2> QED BY <2>5, <2>8, <2>9 DEF BooksMove
<1>4. CASE HasReward(o) /\ o \notin reversed /\ c # r /\ seen = "credit"
  <2>1. /\ balance'[c] = balance[c] /\ available'[c] = available[c]
        /\ \A p \in RewardsOf(c) : clawed'[p] = clawed[p]
    BY <1>4 DEF ReverseCoupon, ReverseEffect, WalletTypeOK, RewardsOf
  <2>2. IsFiniteSet(RewardsOf(c))
    BY LedgerAssumption, FS_Subset DEF RewardsOf
  <2>3. Total(clawed', RewardsOf(c)) = Total(clawed, RewardsOf(c))
    BY <2>1, <2>2, SumSame DEF Total
  <2>4. Booked(c)' = Booked(c)
    BY <1>1, <1>2, <2>3 DEF Booked
  <2>5. /\ balance[c] \in Nat /\ available[c] \in Nat /\ Booked(c) \in Int
        /\ earned'[c] = earned[c] /\ spent'[c] = spent[c]
    BY <1>1, BooksAreNumbers
  <2>6. /\ 0 \in Int /\ balance'[c] = balance[c] + 0
        /\ Booked(c)' = Booked(c) + 0 /\ available'[c] = available[c] + 0
        /\ SharedOut(c)' = SharedOut(c) - 0
    BY <1>2, <2>1, <2>4, <2>5
  <2> QED BY <1>1, <2>5, <2>6, BooksStay
<1>5. CASE ~ HasReward(o) \/ o \in reversed \/ seen # "credit"
  <2>1. UNCHANGED <<balance, available, clawed>>
    BY <1>5 DEF ReverseCoupon, ReverseEffect
  <2> QED BY <1>1, <1>2, <2>1, BooksUntouched
<1> QED BY <1>3, <1>4, <1>5

(* No refund without a debit. *)
RefundsPaid == refunds \subseteq debited

(* Whatever the shop and the paid services do, the books follow. *)
LEMMA WalletStepBooks ==
  ASSUME WalletTypeOK, RefundsPaid, ClawedOnce, WalletStep,
         NEW c \in Customers
  PROVE  BooksMove(c)
  BY SpendBooks, DebitBooks, RefundBooks, HoldBooks, CreditBooks,
     ReverseBooks DEF WalletStep, RefundsPaid

(* And there is still no refund without a debit. *)
LEMMA RefundsStayPaid ==
  ASSUME RefundsPaid, WalletStep
  PROVE  RefundsPaid'
<1>1. CASE \E c \in Customers : SpendElsewhere(c, {})
  BY <1>1 DEF RefundsPaid, SpendElsewhere
<1>2. ASSUME NEW o \in Orders, DebitOrder(o) PROVE RefundsPaid'
  BY <1>2 DEF RefundsPaid, DebitOrder
<1>3. ASSUME NEW o \in Orders, RefundOrder(o, {}) PROVE RefundsPaid'
  BY <1>3 DEF RefundsPaid, RefundOrder
<1>4. ASSUME NEW o \in Orders, HoldCoupon(o, {}) PROVE RefundsPaid'
  BY <1>4 DEF RefundsPaid, HoldCoupon
<1>5. ASSUME NEW o \in Orders, CreditCoupon(o, {}) PROVE RefundsPaid'
  BY <1>5 DEF RefundsPaid, CreditCoupon
<1>6. ASSUME NEW o \in Orders, NEW seen, ReverseCoupon(o, seen, {})
      PROVE  RefundsPaid'
  BY <1>6 DEF RefundsPaid, ReverseCoupon
<1> QED BY <1>1, <1>2, <1>3, <1>4, <1>5, <1>6 DEF WalletStep

(* Before the first reversal nothing was taken back.                        *)
LEMMA NothingClawed ==
  ASSUME clawed = [o \in Orders |-> 0], NEW c \in Customers
  PROVE  Total(clawed, RewardsOf(c)) = 0
<1>1. /\ IsFiniteSet(RewardsOf(c))
      /\ \A o \in RewardsOf(c) : clawed[o] \in Nat /\ clawed[o] <= 0
  BY LedgerAssumption, FS_Subset DEF RewardsOf
<1>2. Total(clawed, RewardsOf(c)) <= 0 * Cardinality(RewardsOf(c))
  BY <1>1, SumTimes DEF Total
<1>3. Total(clawed, RewardsOf(c)) \in Nat
  BY <1>1, SumNat DEF Total
<1>4. 0 * Cardinality(RewardsOf(c)) = 0
  BY <1>1, FS_CardinalityType
<1> QED BY <1>2, <1>3, <1>4

LEMMA ClawsStart == WalletInit => ClawedOnce
  BY AmountAssumption DEF WalletInit, ClawedOnce

(* A coupon that is reversed is not reversed again. *)
LEMMA ReverseClaws ==
  ASSUME WalletTypeOK, ClawedOnce, NEW o \in Orders,
         NEW seen \in {"credit", "hold"}, CanReverse(o, seen),
         ReverseCoupon(o, seen, {})
  PROVE  ClawedOnce'
<1>1. credited' = credited
  BY DEF ReverseCoupon
<1>2. CASE HasReward(o) /\ o \notin reversed /\ seen = "credit"
  <2> DEFINE r == Referrer[o]
  <2>1. /\ reversed' = reversed \cup {o}
        /\ clawed' = [clawed EXCEPT ![o] = Least(balance[r], Reward[o])]
    BY <1>2 DEF ReverseCoupon, ReverseEffect
  <2>2. balance[r] \in Nat /\ Reward[o] \in Nat
    BY <1>2, ReferrerAssumption, AmountAssumption DEF HasReward, WalletTypeOK
  <2>3. o \in credited
    BY <1>2 DEF CanReverse
  <2>4. clawed'[o] <= Reward[o]
    BY <2>1, <2>2 DEF Least, WalletTypeOK
  <2>5. \A p \in Orders : p # o => clawed'[p] = clawed[p]
    BY <2>1 DEF WalletTypeOK
  <2> QED BY <1>1, <2>1, <2>3, <2>4, <2>5 DEF ClawedOnce
<1>3. CASE ~ HasReward(o) \/ o \in reversed \/ seen # "credit"
  <2>1. clawed' = clawed /\ reversed \subseteq reversed'
    BY <1>3 DEF ReverseCoupon, ReverseEffect
  <2> QED BY <1>1, <2>1 DEF ClawedOnce
<1> QED BY <1>2, <1>3

LEMMA ClawsStay ==
  ASSUME WalletTypeOK, ClawedOnce, WalletStep
  PROVE  ClawedOnce'
<1>1. CASE \E c \in Customers : SpendElsewhere(c, {})
  BY <1>1 DEF ClawedOnce, SpendElsewhere
<1>2. ASSUME NEW o \in Orders, DebitOrder(o) PROVE ClawedOnce'
  BY <1>2 DEF ClawedOnce, DebitOrder
<1>3. ASSUME NEW o \in Orders, RefundOrder(o, {}) PROVE ClawedOnce'
  BY <1>3 DEF ClawedOnce, RefundOrder
<1>4. ASSUME NEW o \in Orders, HoldCoupon(o, {}) PROVE ClawedOnce'
  BY <1>4 DEF ClawedOnce, HoldCoupon
<1>5. ASSUME NEW o \in Orders, CreditCoupon(o, {}) PROVE ClawedOnce'
  <2>1. UNCHANGED <<clawed, reversed>> /\ credited \subseteq credited'
    BY <1>5 DEF CreditCoupon, CreditEffect
  <2> QED BY <2>1 DEF ClawedOnce
<1> QED BY <1>1, <1>2, <1>3, <1>4, <1>5, ReverseClaws DEF WalletStep

(* A step of the shop that leaves the wallet alone. *)
LEMMA BooksStutter ==
  ASSUME WalletTypeOK, UNCHANGED walletVars, NEW c \in Customers
  PROVE  BooksMove(c)
<1>1. UNCHANGED <<balance, available, earned, debited, refUsed, refunds,
                  credited, clawed, spent>>
  BY DEF walletVars
<1>2. ChargedTo(c)' = ChargedTo(c)
  BY <1>1 DEF ChargedTo, OrdersOf
<1> QED BY <1>1, <1>2, BooksUntouched

============================================================================
