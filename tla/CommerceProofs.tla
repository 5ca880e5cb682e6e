-------------------------- MODULE CommerceProofs --------------------------
(***************************************************************************)
(* Proofs about CommerceOrders, for any customers, orders, prices, stock   *)
(* and payment slots: the inductive invariant, the safety properties it    *)
(* gives, and that the two-database protocol keeps the WalletPromise.      *)
(***************************************************************************)
EXTENDS CommerceInvariant, MainWalletProofs

(* Changing one payment of one order changes nothing else. *)
LEMMA WithSlotIs ==
  ASSUME OrderTypeOK,
         NEW o \in Orders, NEW s \in Slots, NEW new \in SlotStatuses
  PROVE  /\ WithSlot(o, s, new) \in [Orders -> [Slots -> SlotStatuses]]
         /\ WithSlot(o, s, new)[o][s] = new
         /\ \A t \in Slots \ {s} : WithSlot(o, s, new)[o][t] = pay[o][t]
         /\ \A p \in Orders \ {o} : WithSlot(o, s, new)[p] = pay[p]
<1> DEFINE row == [pay[o] EXCEPT ![s] = new]
<1>1. pay \in [Orders -> [Slots -> SlotStatuses]]
  BY DEF OrderTypeOK
<1>2. /\ row \in [Slots -> SlotStatuses]
      /\ row[s] = new
      /\ \A t \in Slots \ {s} : row[t] = pay[o][t]
  BY <1>1
<1>3. WithSlot(o, s, new) = [pay EXCEPT ![o] = row]
  BY DEF WithSlot
<1> HIDE DEF row
<1> QED BY <1>1, <1>2, <1>3

(* Nor does changing the payments of one order that have a given status. *)
LEMMA WithEveryIs ==
  ASSUME OrderTypeOK,
         NEW o \in Orders, NEW old \in SlotStatuses, NEW new \in SlotStatuses
  PROVE  /\ WithEvery(o, old, new) \in [Orders -> [Slots -> SlotStatuses]]
         /\ \A s \in Slots : WithEvery(o, old, new)[o][s]
                                = IF pay[o][s] = old THEN new ELSE pay[o][s]
         /\ \A p \in Orders \ {o} : WithEvery(o, old, new)[p] = pay[p]
<1> DEFINE row == [s \in Slots |-> IF pay[o][s] = old THEN new
                                                       ELSE pay[o][s]]
<1>1. pay \in [Orders -> [Slots -> SlotStatuses]]
  BY DEF OrderTypeOK
<1>2. /\ row \in [Slots -> SlotStatuses]
      /\ \A t \in Slots : row[t] = IF pay[o][t] = old THEN new ELSE pay[o][t]
  BY <1>1
<1>3. WithEvery(o, old, new) = [pay EXCEPT ![o] = row]
  BY DEF WithEvery
<1> HIDE DEF row
<1> QED BY <1>1, <1>2, <1>3

LEMMA StatusNames ==
  /\ "wallet" \in Slots /\ ManualSlots \subseteq Slots
  /\ "none" \in SlotStatuses /\ "pending" \in SlotStatuses
  /\ "confirmed" \in SlotStatuses /\ "refunded" \in SlotStatuses
  BY DEF Slots, SlotStatuses

---------------------------------------------------------------------------
(* One lemma per operation: each keeps the invariant. *)
(* Coupon operations are never deleted. *)
CouponsKept == held \subseteq held' /\ credited \subseteq credited'

USE DEF OrderInv, LedgerInv, WordInv, StatusInv, LegInv, Wallet, Free, Placed,
        CouponsKept

LEMMA CheckoutWalletKeeps ==
  ASSUME ProtocolInv, NEW o \in Orders, CheckoutWallet(o)
  PROVE  ProtocolInv'
<1>1. WalletInv /\ OrderTypeOK
  BY DEF ProtocolInv
<1>2. WalletInv'
  BY <1>1, WalletStutters DEF WalletInv, CheckoutWallet, PlaceOrder
<1>3. /\ pay' \in [Orders -> [Slots -> SlotStatuses]]
      /\ pay'[o]["wallet"] = "pending"
      /\ \A p \in Orders \ {o} : pay'[p] = pay[p]
  BY <1>1, StatusNames, WithSlotIs DEF CheckoutWallet
<1>4. OrderTypeOK'
  <2>1. stock' \in [Variants -> Int]
    BY <1>1, StockAssumption
       DEF OrderTypeOK, CheckoutWallet, PlaceOrder, TakeStock
  <2> QED BY <1>1, <1>3, <2>1
          DEF OrderTypeOK, CheckoutWallet, PlaceOrder, Statuses, PayStatuses,
              CheckoutSteps
<1>5. ASSUME NEW p \in Orders PROVE OrderInv(p)'
  BY <1>1, <1>3, <1>4
     DEF ProtocolInv, OrderTypeOK, CheckoutWallet, PlaceOrder, walletVars
<1> QED BY <1>2, <1>4, <1>5 DEF ProtocolInv

LEMMA CheckoutCodKeeps ==
  ASSUME ProtocolInv, NEW o \in Orders, CheckoutCod(o)
  PROVE  ProtocolInv'
<1>1. WalletInv /\ OrderTypeOK
  BY DEF ProtocolInv
<1>2. WalletInv'
  BY <1>1, WalletStutters DEF WalletInv, CheckoutCod, PlaceOrder
<1>3. OrderTypeOK'
  <2>1. stock' \in [Variants -> Int]
    BY <1>1, StockAssumption
       DEF OrderTypeOK, CheckoutCod, PlaceOrder, TakeStock
  <2> QED BY <1>1, <2>1
          DEF OrderTypeOK, CheckoutCod, PlaceOrder, AfterPlacing, Statuses,
              CheckoutSteps
<1>4. ASSUME NEW p \in Orders PROVE OrderInv(p)'
  BY <1>1, <1>3 DEF ProtocolInv, OrderTypeOK, CheckoutCod, PlaceOrder,
                    AfterPlacing, walletVars
<1> QED BY <1>2, <1>3, <1>4 DEF ProtocolInv

LEMMA CheckoutManualKeeps ==
  ASSUME ProtocolInv, NEW o \in Orders, CheckoutManual(o)
  PROVE  ProtocolInv'
<1>1. WalletInv /\ OrderTypeOK
  BY DEF ProtocolInv
<1>2. WalletInv'
  BY <1>1, WalletStutters DEF WalletInv, CheckoutManual, PlaceOrder
<1>3. /\ pay' \in [Orders -> [Slots -> SlotStatuses]]
      /\ pay'[o]["wallet"] = pay[o]["wallet"]
      /\ \A p \in Orders \ {o} : pay'[p] = pay[p]
  <2>1. PICK s \in ManualSlots : pay' = WithSlot(o, s, "pending")
    BY DEF CheckoutManual
  <2>2. /\ s \in Slots /\ "wallet" \in Slots \ {s}
        /\ "pending" \in SlotStatuses
    BY StatusNames, MethodAssumption
  <2> QED BY <1>1, <2>1, <2>2, WithSlotIs
<1>4. OrderTypeOK'
  <2>1. stock' \in [Variants -> Int]
    BY <1>1, StockAssumption
       DEF OrderTypeOK, CheckoutManual, PlaceOrder, TakeStock
  <2> QED BY <1>1, <1>3, <2>1
          DEF OrderTypeOK, CheckoutManual, PlaceOrder, AfterPlacing,
              Statuses, PayStatuses, CheckoutSteps
<1>5. ASSUME NEW p \in Orders PROVE OrderInv(p)'
  BY <1>1, <1>3, <1>4 DEF ProtocolInv, OrderTypeOK, CheckoutManual,
                          PlaceOrder, AfterPlacing, walletVars
<1> QED BY <1>2, <1>4, <1>5 DEF ProtocolInv

LEMMA CommitDebitKeeps ==
  ASSUME ProtocolInv, NEW o \in Orders, CommitDebit(o)
  PROVE  ProtocolInv'
<1>1. WalletInv /\ OrderTypeOK
  BY DEF ProtocolInv
<1>2. WalletInv'
  BY <1>1, DebitKeeps DEF WalletInv, CommitDebit
<1>3. OrderTypeOK'
  BY <1>1 DEF OrderTypeOK, CommitDebit, orderVarsButCheckout, CheckoutSteps
<1>4. ASSUME NEW p \in Orders PROVE OrderInv(p)'
  BY <1>1, <1>3 DEF ProtocolInv, OrderTypeOK, CommitDebit, DebitOrder,
                    HoldEffect, orderVarsButCheckout
<1> QED BY <1>2, <1>3, <1>4 DEF ProtocolInv

(* The ways in which a checkout goes on or ends without moving coins. *)
LEMMA CheckoutEndKeeps ==
  ASSUME ProtocolInv, NEW o \in Orders,
         \/ AbortDebit(o)
         \/ LoseCallback(o)
         \/ CheckHold(o)
         \/ HoldCallback(o)
  PROVE  ProtocolInv'
<1>1. WalletInv /\ OrderTypeOK
  BY DEF ProtocolInv
<1>2. WalletInv'
  BY <1>1, WalletStutters, HoldCouponKeeps
     DEF WalletInv, AbortDebit, LoseCallback, CheckHold, HoldCallback
<1>3. /\ \E new \in {"holdable", "done"} :
            checkout' = [checkout EXCEPT ![o] = new]
      /\ UNCHANGED orderVarsButCheckout
      /\ CouponsKept /\ UNCHANGED <<debited, refunds>>
  BY DEF AbortDebit, LoseCallback, CheckHold, HoldCallback, HoldCoupon,
         HoldEffect, walletVars
<1>4. OrderTypeOK'
  BY <1>1, <1>3 DEF OrderTypeOK, orderVarsButCheckout, CheckoutSteps
<1>5. ASSUME NEW p \in Orders PROVE OrderInv(p)'
  BY <1>1, <1>3, <1>4 DEF ProtocolInv, OrderTypeOK, orderVarsButCheckout
<1> QED BY <1>2, <1>4, <1>5 DEF ProtocolInv

(* settle_wallet_order, from its callback or from the reconciliation run.   *)
LEMMA SettleKeeps ==
  ASSUME ProtocolInv, NEW o \in Orders,
         SettleCallback(o) \/ ReconcileSettle(o)
  PROVE  ProtocolInv'
<1>1. WalletInv /\ OrderTypeOK
  BY DEF ProtocolInv
<1>2. WalletInv'
  BY <1>1, WalletStutters
     DEF WalletInv, SettleCallback, ReconcileSettle, Settle
<1>3. Settle(o)
  BY DEF SettleCallback, ReconcileSettle
<1>4. /\ checkout' \in [Orders -> CheckoutSteps]
      /\ \A p \in Orders : checkout'[p] = "placing"
                              => checkout[p] = "placing"
      /\ listed' \subseteq Orders
  BY <1>1 DEF OrderTypeOK, SettleCallback, ReconcileSettle, CheckoutSteps
<1>5. /\ pay' \in [Orders -> [Slots -> SlotStatuses]]
      /\ \A p \in Orders \ {o} : pay'[p] = pay[p]
      /\ Wallet(o)' <=> Wallet(o)
      /\ \A s \in ManualSlots : pay'[o][s] = pay[o][s]
  <2>1. CASE pay' = pay
    BY <1>1, <2>1 DEF OrderTypeOK
  <2>2. CASE \E new \in {"refunded", "confirmed"} :
                /\ pay' = WithSlot(o, "wallet", new)
                /\ Wallet(o)
    <3>1. PICK new \in {"refunded", "confirmed"} :
             pay' = WithSlot(o, "wallet", new)
      BY <2>2
    <3>2. /\ new \in SlotStatuses /\ new # "none"
          /\ \A s \in ManualSlots : s \in Slots \ {"wallet"}
      BY StatusNames, MethodAssumption
    <3> QED BY <1>1, <2>2, <3>1, <3>2, StatusNames, WithSlotIs
  <2> QED BY <1>3, <2>1, <2>2 DEF Settle, SettledPay
<1>6. payStatus' \in [Orders -> PayStatuses]
  BY <1>1, <1>3 DEF OrderTypeOK, Settle, SettledPayStatus, PayStatuses
<1>7. OrderTypeOK'
  BY <1>1, <1>3, <1>4, <1>5, <1>6 DEF OrderTypeOK, Settle
<1>8. /\ pay'[o]["wallet"] = "confirmed" => o \in debited
      /\ pay'[o]["wallet"] = "refunded" => o \in refunds
      /\ payStatus'[o] = "paid" => payStatus[o] = "paid" \/ o \in debited
  <2>1. pay'[o]["wallet"] = pay[o]["wallet"]
           \/ /\ o \in refunds /\ pay'[o]["wallet"] = "refunded"
           \/ /\ o \in debited /\ pay'[o]["wallet"] = "confirmed"
    BY <1>1, <1>3, StatusNames, WithSlotIs
       DEF Settle, Settled, SettledPay
  <2>2. payStatus'[o] = payStatus[o] \/ o \in debited
    BY <1>3 DEF Settle, Settled
  <2> QED BY <2>1, <2>2 DEF ProtocolInv
<1>9. ASSUME NEW p \in Orders PROVE OrderInv(p)'
  <2>1. /\ CouponsKept /\ UNCHANGED <<debited, refunds, status, leg, target>>
        /\ p # o => payStatus'[p] = payStatus[p]
    BY <1>1, <1>3 DEF OrderTypeOK, Settle, walletVars
  <2> QED BY <1>4, <1>5, <1>8, <2>1 DEF ProtocolInv
<1> QED BY <1>2, <1>7, <1>9 DEF ProtocolInv

LEMMA SubmitPaymentKeeps ==
  ASSUME ProtocolInv, NEW o \in Orders, NEW s \in ManualSlots,
         NEW cod \in BOOLEAN, SubmitPayment(o, s, cod)
  PROVE  ProtocolInv'
<1>1. WalletInv /\ OrderTypeOK
  BY DEF ProtocolInv
<1>2. WalletInv'
  BY <1>1, WalletStutters DEF WalletInv, SubmitPayment
<1>3. /\ pay' \in [Orders -> [Slots -> SlotStatuses]]
      /\ pay'[o]["wallet"] = pay[o]["wallet"]
      /\ \A p \in Orders \ {o} : pay'[p] = pay[p]
  <2>1. /\ s \in Slots /\ "wallet" \in Slots \ {s}
        /\ "pending" \in SlotStatuses
    BY StatusNames, MethodAssumption
  <2> QED BY <1>1, <2>1, WithSlotIs DEF SubmitPayment
<1>4. OrderTypeOK'
  BY <1>1, <1>3 DEF OrderTypeOK, SubmitPayment, PayStatuses
<1>5. ASSUME NEW p \in Orders PROVE OrderInv(p)'
  BY <1>1, <1>3, <1>4
     DEF ProtocolInv, OrderTypeOK, SubmitPayment, walletVars
<1> QED BY <1>2, <1>4, <1>5 DEF ProtocolInv

(* Stock returns at most as an integer number of units, whatever a line     *)
(* holds.                                                                   *)
LEMMA RestockTypes ==
  ASSUME OrderTypeOK, NEW o \in Orders, Restock(o)
  PROVE  stock' \in [Variants -> Int] /\ released' \subseteq Orders
  BY StockAssumption DEF OrderTypeOK, Restock, ReturnedUnits

LEMMA AdvanceKeeps ==
  ASSUME ProtocolInv, NEW o \in Orders, NEW new \in Statuses, Advance(o, new)
  PROVE  ProtocolInv'
<1>1. WalletInv /\ OrderTypeOK
  BY DEF ProtocolInv
<1>2. WalletInv'
  BY <1>1, WalletStutters DEF WalletInv, Advance
<1>3. OrderTypeOK'
  BY <1>1 DEF OrderTypeOK, Advance
<1>4. ASSUME NEW p \in Orders PROVE OrderInv(p)'
  BY <1>1, <1>3, MethodAssumption
     DEF ProtocolInv, OrderTypeOK, Advance, walletVars
<1> QED BY <1>2, <1>3, <1>4 DEF ProtocolInv

LEMMA ReturnKeeps ==
  ASSUME ProtocolInv, NEW o \in Orders, Return(o)
  PROVE  ProtocolInv'
<1>1. WalletInv /\ OrderTypeOK
  BY DEF ProtocolInv
<1>2. WalletInv'
  BY <1>1, WalletStutters DEF WalletInv, Return
<1>3. OrderTypeOK'
  BY <1>1, RestockTypes DEF OrderTypeOK, Return, Statuses
<1>4. ASSUME NEW p \in Orders PROVE OrderInv(p)'
  BY <1>1, <1>3 DEF ProtocolInv, OrderTypeOK, Return, walletVars
<1> QED BY <1>2, <1>3, <1>4 DEF ProtocolInv

LEMMA CompleteKeeps ==
  ASSUME ProtocolInv, NEW o \in Orders, Complete(o)
  PROVE  ProtocolInv'
<1>1. WalletInv /\ OrderTypeOK
  BY DEF ProtocolInv
<1>2. WalletInv'
  BY <1>1, WalletStutters DEF WalletInv, Complete
<1>3. /\ pay' \in [Orders -> [Slots -> SlotStatuses]]
      /\ pay'[o]["wallet"] = IF pay[o]["wallet"] = "pending"
                             THEN "confirmed" ELSE pay[o]["wallet"]
      /\ \A p \in Orders \ {o} : pay'[p] = pay[p]
  <2>1. pay' = WithEvery(o, "pending", "confirmed")
    BY DEF Complete
  <2>2. /\ "pending" \in SlotStatuses /\ "confirmed" \in SlotStatuses
        /\ "wallet" \in Slots
    BY StatusNames
  <2> QED BY <1>1, <2>1, <2>2, WithEveryIs
<1>4. OrderTypeOK'
  <2>1. creditDue' \subseteq Orders
    BY <1>1 DEF OrderTypeOK, Complete
  <2> QED BY <1>1, <1>3, <2>1
          DEF OrderTypeOK, Complete, Statuses, PayStatuses
<1>5. Wallet(o) => o \in debited
  BY DEF Complete, MayComplete, Settled
<1>6. ASSUME NEW p \in Orders PROVE OrderInv(p)'
  BY <1>1, <1>3, <1>4, <1>5
     DEF ProtocolInv, OrderTypeOK, Complete, walletVars
<1> QED BY <1>2, <1>4, <1>6 DEF ProtocolInv

(* The coupon's credit callback, checked, run or lost. *)
LEMMA CreditCallbackKeeps ==
  ASSUME ProtocolInv, NEW o \in Orders,
         CheckCredit(o) \/ CreditCallback(o) \/ LoseCredit(o)
  PROVE  ProtocolInv'
<1>1. WalletInv /\ OrderTypeOK
  BY DEF ProtocolInv
<1>2. WalletInv'
  BY <1>1, WalletStutters, CreditKeeps
     DEF WalletInv, CheckCredit, CreditCallback, LoseCredit
<1>3. /\ UNCHANGED orderVarsButCredit
      /\ CouponsKept /\ UNCHANGED <<debited, refunds>>
      /\ creditDue' \subseteq creditDue
      /\ crediting' \subseteq crediting \cup {o}
  BY DEF CheckCredit, CreditCallback, LoseCredit, CreditCoupon,
         CreditEffect, walletVars
<1>4. OrderTypeOK'
  BY <1>1, <1>3 DEF OrderTypeOK, orderVarsButCredit
<1>5. ASSUME NEW p \in Orders PROVE OrderInv(p)'
  BY <1>3 DEF ProtocolInv, orderVarsButCredit
<1> QED BY <1>2, <1>4, <1>5 DEF ProtocolInv

(* Cancellation and refund.  Between their commits only the coupon and the  *)
(* coins have moved.                                                        *)
LEMMA StartReversalKeeps ==
  ASSUME ProtocolInv, NEW o \in Orders, NEW new \in {"cancelled", "refunded"},
         StartReversal(o, new)
  PROVE  ProtocolInv'
<1>1. WalletInv /\ OrderTypeOK
  BY DEF ProtocolInv
<1>2. WalletInv'
  BY <1>1, WalletStutters DEF WalletInv, StartReversal
<1>3. status[o] # "completed"
  BY DEF StartReversal, MayBecome, Transitions
<1>4. /\ leg' = [leg EXCEPT ![o] = LegAfterReading(o)]
      /\ \/ LegAfterReading(o) = "sawHold" /\ o \in held
         \/ LegAfterReading(o) = "sawCredit" /\ o \in credited
         \/ LegAfterReading(o) = "reversed"
      /\ target' = [target EXCEPT ![o] = new]
      /\ CouponsKept /\ UNCHANGED <<debited, refunds, orderVarsButLeg>>
      /\ status[o] # "none"
  BY DEF StartReversal, LegAfterReading, SeenBefore, walletVars
<1>5. OrderTypeOK'
  BY <1>1, <1>4 DEF OrderTypeOK, orderVarsButLeg, Legs
<1>6. ASSUME NEW p \in Orders PROVE OrderInv(p)'
  BY <1>1, <1>3, <1>4, <1>5 DEF ProtocolInv, OrderTypeOK, orderVarsButLeg
<1> QED BY <1>2, <1>5, <1>6 DEF ProtocolInv

LEMMA ReversalLegKeeps ==
  ASSUME ProtocolInv, NEW o \in Orders, ReversalLeg(o)
  PROVE  ProtocolInv'
<1>1. WalletInv /\ OrderTypeOK
  BY DEF ProtocolInv
<1>2. WalletInv'
  BY <1>1, ReverseKeeps DEF WalletInv, ReversalLeg
<1>3. /\ leg[o] \in {"sawHold", "sawCredit"}
      /\ leg' = [leg EXCEPT ![o] = "reversed"]
      /\ CouponsKept /\ UNCHANGED <<debited, refunds, target, orderVarsButLeg>>
  BY DEF ReversalLeg, ReverseCoupon
<1>4. OrderTypeOK'
  BY <1>1, <1>3 DEF OrderTypeOK, orderVarsButLeg, Legs
<1>5. ASSUME NEW p \in Orders PROVE OrderInv(p)'
  BY <1>1, <1>3, <1>4 DEF ProtocolInv, OrderTypeOK, orderVarsButLeg
<1> QED BY <1>2, <1>4, <1>5 DEF ProtocolInv

LEMMA RefundLegKeeps ==
  ASSUME ProtocolInv, NEW o \in Orders,
         RefundLeg(o) \/ StartPaymentRefund(o)
  PROVE  ProtocolInv'
<1>1. WalletInv /\ OrderTypeOK
  BY DEF ProtocolInv
<1>2. WalletInv'
  BY <1>1, RefundKeeps DEF WalletInv, RefundLeg, StartPaymentRefund
<1>3. /\ o \in debited
      /\ refunds' = refunds \cup {o}
      /\ debited' = debited /\ CouponsKept
      /\ UNCHANGED <<orderVarsButLeg, target>>
  BY DEF RefundLeg, StartPaymentRefund, RefundOrder
<1>4. OrderTypeOK'
  BY <1>1, <1>3
     DEF OrderTypeOK, RefundLeg, StartPaymentRefund, orderVarsButLeg, Legs
<1>5. \/ leg[o] = "reversed" /\ leg' = [leg EXCEPT ![o] = "repaid"]
      \/ leg' = [leg EXCEPT ![o] = "paymentRepaid"] /\ status[o] # "none"
  BY DEF RefundLeg, StartPaymentRefund
<1>6. ASSUME NEW p \in Orders PROVE OrderInv(p)'
  BY <1>1, <1>3, <1>4, <1>5
     DEF ProtocolInv, OrderTypeOK, orderVarsButLeg
<1> QED BY <1>2, <1>4, <1>6 DEF ProtocolInv

(* A refused or interrupted request leaves the order as it was. *)
LEMMA RollbackKeeps ==
  ASSUME ProtocolInv, NEW o \in Orders, RefundRefused(o) \/ Rollback(o)
  PROVE  ProtocolInv'
<1>1. WalletInv /\ OrderTypeOK
  BY DEF ProtocolInv
<1>2. WalletInv'
  BY <1>1, WalletStutters DEF WalletInv, RefundRefused, Rollback
<1>3. RequestOver(o) /\ UNCHANGED <<walletVars, orderVarsButLeg>>
  BY DEF RefundRefused, Rollback
<1>4. OrderTypeOK'
  BY <1>1, <1>3 DEF OrderTypeOK, RequestOver, orderVarsButLeg, Legs
<1>5. ASSUME NEW p \in Orders PROVE OrderInv(p)'
  BY <1>1, <1>3, <1>4
     DEF ProtocolInv, OrderTypeOK, RequestOver, orderVarsButLeg, walletVars
<1> QED BY <1>2, <1>4, <1>5 DEF ProtocolInv

LEMMA CommitReversalKeeps ==
  ASSUME ProtocolInv, NEW o \in Orders, CommitReversal(o)
  PROVE  ProtocolInv'
<1>1. WalletInv /\ OrderTypeOK
  BY DEF ProtocolInv
<1>2. WalletInv'
  BY <1>1, WalletStutters DEF WalletInv, CommitReversal
<1>3. /\ target[o] \in {"cancelled", "refunded"}
      /\ Wallet(o) => o \in refunds /\ o \in debited
  BY DEF ProtocolInv, CommitReversal
<1>4. /\ pay' \in [Orders -> [Slots -> SlotStatuses]]
      /\ Wallet(o)' <=> Wallet(o)
      /\ \A p \in Orders \ {o} : pay'[p] = pay[p]
  <2>1. CASE pay' = pay
    BY <1>1, <2>1 DEF OrderTypeOK
  <2>2. CASE Wallet(o) /\ pay' = WithSlot(o, "wallet", "refunded")
    BY <1>1, <2>2, StatusNames, WithSlotIs
  <2>3. CASE ~ Wallet(o) /\ pay' = WithEvery(o, "confirmed", "refunded")
    <3>1. /\ "refunded" \in SlotStatuses /\ "confirmed" \in SlotStatuses
          /\ "wallet" \in Slots
      BY StatusNames
    <3>2. pay'[o]["wallet"] = pay[o]["wallet"]
             \/ pay[o]["wallet"] = "confirmed"
      BY <1>1, <2>3, <3>1, WithEveryIs
    <3> QED BY <1>1, <2>3, <3>1, <3>2, WithEveryIs
  <2> QED BY <2>1, <2>2, <2>3 DEF CommitReversal
<1>5. /\ payStatus' \in [Orders -> PayStatuses]
      /\ \A p \in Orders \ {o} : payStatus'[p] = payStatus[p]
  BY <1>1 DEF OrderTypeOK, CommitReversal, PayStatuses
<1>6. stock' \in [Variants -> Int] /\ released' \subseteq Orders
  BY <1>1, RestockTypes DEF OrderTypeOK, CommitReversal
<1>7. OrderTypeOK'
  BY <1>1, <1>3, <1>4, <1>5, <1>6
     DEF OrderTypeOK, CommitReversal, RequestOver, Statuses, Legs
<1>8. ASSUME NEW p \in Orders PROVE OrderInv(p)'
  <2>1. CouponsKept /\ UNCHANGED <<debited, refunds, checkout>>
    BY DEF CommitReversal, walletVars
  <2>2. /\ status' = [status EXCEPT ![o] = target[o]]
        /\ leg' = [leg EXCEPT ![o] = "idle"]
        /\ target' = [target EXCEPT ![o] = "none"]
    BY DEF CommitReversal, RequestOver
  <2>3. CASE p = o
    BY <1>1, <1>3, <1>4, <2>1, <2>2, <2>3 DEF ProtocolInv, OrderTypeOK
  <2>4. CASE p # o
    BY <1>1, <1>4, <1>5, <2>1, <2>2, <2>4 DEF ProtocolInv, OrderTypeOK
  <2> QED BY <2>3, <2>4
<1> QED BY <1>2, <1>7, <1>8 DEF ProtocolInv

(* change_payment. *)
LEMMA ChangePaymentKeeps ==
  ASSUME ProtocolInv, NEW o \in Orders, NEW s \in Slots,
         NEW new \in SlotStatuses, ChangePayment(o, s, new)
  PROVE  ProtocolInv'
<1>1. WalletInv /\ OrderTypeOK
  BY DEF ProtocolInv
<1>2. WalletInv'
  BY <1>1, WalletStutters DEF WalletInv, ChangePayment
<1>3. /\ pay' \in [Orders -> [Slots -> SlotStatuses]]
      /\ pay'[o][s] = new
      /\ \A t \in Slots \ {s} : pay'[o][t] = pay[o][t]
      /\ \A p \in Orders \ {o} : pay'[p] = pay[p]
  BY <1>1, WithSlotIs DEF ChangePayment
<1>4. new # "none"
  BY DEF ChangePayment, PaymentTransitions
<1>5. payStatus' = [payStatus EXCEPT ![o] =
                       IF new = "refunded" THEN "refunded"
                                           ELSE Recomputed(pay'[o])]
  BY DEF ChangePayment
<1>6. payStatus' \in [Orders -> PayStatuses]
  BY <1>1, <1>5 DEF OrderTypeOK, Recomputed, PayStatuses
<1>7. OrderTypeOK'
  BY <1>1, <1>3, <1>6 DEF OrderTypeOK, ChangePayment
<1>8. /\ Wallet(o)' <=> Wallet(o)
      /\ pay'[o]["wallet"] = "confirmed" => o \in debited
      /\ pay'[o]["wallet"] = "refunded" => o \in refunds
  <2>1. CASE s = "wallet"
    <3>1. new = "confirmed" => o \in debited
      BY <2>1 DEF ChangePayment, MayConfirm, Settled
    <3>2. pay[o]["wallet"] # "none" /\ new # "refunded"
      BY <2>1 DEF ChangePayment
    <3> QED BY <1>3, <1>4, <2>1, <3>1, <3>2
  <2>2. CASE s # "wallet"
    BY <1>3, <2>2, StatusNames DEF ProtocolInv
  <2> QED BY <2>1, <2>2
<1>9. payStatus'[o] = "paid" => \E t \in Slots : pay'[o][t] = "confirmed"
  BY <1>1, <1>5 DEF OrderTypeOK, Recomputed
<1>10. ASSUME NEW p \in Orders PROVE OrderInv(p)'
  <2>1. /\ CouponsKept
        /\ UNCHANGED <<debited, refunds, status, leg, target, checkout>>
        /\ p # o => payStatus'[p] = payStatus[p]
    BY <1>1, <1>5 DEF OrderTypeOK, ChangePayment, walletVars
  <2>2. CASE p = o
    BY <1>8, <1>9, <2>1, <2>2 DEF ProtocolInv, Slots
  <2>3. CASE p # o
    BY <1>3, <2>1, <2>3 DEF ProtocolInv
  <2> QED BY <2>2, <2>3
<1> QED BY <1>2, <1>7, <1>10 DEF ProtocolInv

LEMMA CommitPaymentRefundKeeps ==
  ASSUME ProtocolInv, NEW o \in Orders, CommitPaymentRefund(o)
  PROVE  ProtocolInv'
<1>1. WalletInv /\ OrderTypeOK
  BY DEF ProtocolInv
<1>2. WalletInv'
  BY <1>1, WalletStutters DEF WalletInv, CommitPaymentRefund
<1>3. /\ o \in refunds /\ o \in debited /\ Wallet(o)
  BY DEF ProtocolInv, CommitPaymentRefund
<1>4. /\ pay' \in [Orders -> [Slots -> SlotStatuses]]
      /\ pay'[o]["wallet"] = "refunded"
      /\ \A p \in Orders \ {o} : pay'[p] = pay[p]
  BY <1>1, StatusNames, WithSlotIs DEF CommitPaymentRefund
<1>5. OrderTypeOK'
  BY <1>1, <1>4
     DEF OrderTypeOK, CommitPaymentRefund, RequestOver, PayStatuses, Legs
<1>6. ASSUME NEW p \in Orders PROVE OrderInv(p)'
  BY <1>1, <1>3, <1>4, <1>5 DEF ProtocolInv, OrderTypeOK,
        CommitPaymentRefund, RequestOver, walletVars
<1> QED BY <1>2, <1>5, <1>6 DEF ProtocolInv

(* The lists of the maintenance command. *)
LEMMA MaintenanceKeeps ==
  ASSUME ProtocolInv, NEW o \in Orders,
         ReservationPasses(o) \/ ReconcileList(o)
  PROVE  ProtocolInv'
<1>1. WalletInv /\ OrderTypeOK
  BY DEF ProtocolInv
<1>2. WalletInv'
  BY <1>1, WalletStutters DEF WalletInv, ReservationPasses, ReconcileList
<1>3. /\ UNCHANGED <<status, payStatus, pay, stock, released, checkout, leg,
                     target, creditDue, crediting>>
      /\ CouponsKept /\ UNCHANGED <<debited, refunds>>
      /\ overdue' \subseteq overdue \cup {o}
      /\ listed' \subseteq listed \cup {o}
  BY DEF ReservationPasses, ReconcileList, walletVars
<1>4. OrderTypeOK'
  BY <1>1, <1>3 DEF OrderTypeOK
<1>5. ASSUME NEW p \in Orders PROVE OrderInv(p)'
  BY <1>3 DEF ProtocolInv
<1> QED BY <1>2, <1>4, <1>5 DEF ProtocolInv

(* Coins spent elsewhere, and steps of something else altogether. *)
LEMMA ElsewhereKeeps ==
  ASSUME ProtocolInv,
         (\E c \in Customers : OtherSpend(c)) \/ UNCHANGED vars
  PROVE  ProtocolInv'
<1>1. WalletInv /\ OrderTypeOK
  BY DEF ProtocolInv
<1>2. WalletInv'
  BY <1>1, WalletStutters, SpendKeeps DEF WalletInv, OtherSpend, vars
<1>3. UNCHANGED orderVars /\ CouponsKept /\ UNCHANGED <<debited, refunds>>
  BY DEF OtherSpend, SpendElsewhere, vars, walletVars
<1>4. OrderTypeOK'
  BY <1>1, <1>3 DEF OrderTypeOK, orderVars
<1>5. ASSUME NEW p \in Orders PROVE OrderInv(p)'
  BY <1>3 DEF ProtocolInv, orderVars
<1> QED BY <1>2, <1>4, <1>5 DEF ProtocolInv

---------------------------------------------------------------------------
(* No order exists yet. *)
LEMMA InitKeeps == Init => ProtocolInv
<1> SUFFICES ASSUME Init PROVE ProtocolInv
  OBVIOUS
<1>1. WalletInv
  BY WalletStarts DEF Init
<1>2. OrderTypeOK
  BY StockAssumption
     DEF Init, OrderTypeOK, PayStatuses, SlotStatuses, CheckoutSteps, Legs
<1>3. ASSUME NEW o \in Orders PROVE OrderInv(o)
  BY DEF Init, WalletInit, Slots
<1> QED BY <1>1, <1>2, <1>3 DEF ProtocolInv

(* Every step of the shop, whoever takes it, keeps the invariant. *)
LEMMA NextKeeps == ProtocolInv /\ [Next]_vars => ProtocolInv'
<1> SUFFICES ASSUME ProtocolInv, [Next]_vars PROVE ProtocolInv'
  OBVIOUS
<1>1. CASE \E o \in Orders : Buying(o)
  <2>1. PICK o \in Orders : Buying(o)
    BY <1>1
  <2> QED BY <2>1, CheckoutWalletKeeps, CheckoutCodKeeps,
             CheckoutManualKeeps, CommitDebitKeeps, CheckoutEndKeeps,
             SettleKeeps, SubmitPaymentKeeps DEF Buying
<1>2. CASE \E o \in Orders : Staff(o)
  <2>1. PICK o \in Orders : Staff(o)
    BY <1>2
  <2> QED BY <2>1, AdvanceKeeps, ReturnKeeps, CompleteKeeps,
             CreditCallbackKeeps, StartReversalKeeps, ReversalLegKeeps,
             RefundLegKeeps, RollbackKeeps, CommitReversalKeeps,
             ChangePaymentKeeps, CommitPaymentRefundKeeps DEF Staff
<1>3. CASE \E o \in Orders : Maintenance(o)
  <2>1. PICK o \in Orders : Maintenance(o)
    BY <1>3
  <2> QED BY <2>1, MaintenanceKeeps, StartReversalKeeps, SettleKeeps
          DEF Maintenance, ExpireReservation
<1>4. CASE (\E c \in Customers : OtherSpend(c)) \/ UNCHANGED vars
  BY <1>4, ElsewhereKeeps
<1> QED BY <1>1, <1>2, <1>3, <1>4 DEF Next

(* ProtocolInv holds in every reachable state. *)
THEOREM Invariance == Spec => []ProtocolInv
<1> QED BY InitKeeps, NextKeeps, PTL DEF Spec

(* Every variable stays in its type; in particular no balance, withdrawable *)
(* share or pending share ever becomes negative.                            *)
THEOREM Typing == Spec => []TypeOK
<1>1. ProtocolInv => TypeOK
  BY DEF ProtocolInv, WalletInv, WalletSound, TypeOK
<1> QED BY <1>1, Invariance, PTL

(* deduct_wallet_coins' promise: the same referral earnings cannot be spent *)
(* and later withdrawn.                                                     *)
THEOREM BackedAlways == Spec => []WithdrawableBacked
<1>1. ProtocolInv => WithdrawableBacked
  BY DEF ProtocolInv, WalletInv, WalletSound, WithdrawableBacked
<1> QED BY <1>1, Invariance, PTL

(* settle_wallet_order's promise: never paid without a committed debit.     *)
THEOREM PaidAlwaysHasDebit == Spec => []PaidHasDebit
<1>1. ProtocolInv => PaidHasDebit
  BY DEF ProtocolInv, PaidHasDebit
<1> QED BY <1>1, Invariance, PTL

(* refund_wallet's promise: coins go back only for a debit, and nothing     *)
(* says refunded before they have.                                          *)
THEOREM RefundAlwaysBacked == Spec => []RefundBacked
<1>1. ProtocolInv => RefundBacked
  BY DEF ProtocolInv, RefundBacked, WalletInv, WalletSound, WalletTypeOK
<1> QED BY <1>1, Invariance, PTL

---------------------------------------------------------------------------
(* A step that may be taken while other rows are locked may be taken.       *)
LEMMA LocksOnlyRestrict ==
  ASSUME NEW o \in Orders, NEW locked
  PROVE  /\ RefundOrder(o, locked) => RefundOrder(o, {})
         /\ HoldCoupon(o, locked) => HoldCoupon(o, {})
         /\ CreditCoupon(o, locked) => CreditCoupon(o, {})
         /\ \A seen : ReverseCoupon(o, seen, locked)
                        => ReverseCoupon(o, seen, {})
  BY DEF RefundOrder, HoldCoupon, CreditCoupon, ReverseCoupon

(* What a request or a callback of one order does to the wallet.            *)
LEMMA OrderWalletStep ==
  ASSUME ProtocolInv, NEW o \in Orders,
         Buying(o) \/ Staff(o) \/ Maintenance(o)
  PROVE  WalletStep \/ UNCHANGED walletVars
<1>1. CASE Buying(o)
  BY <1>1, LocksOnlyRestrict
     DEF Buying, CheckoutWallet, CheckoutCod, CheckoutManual, PlaceOrder,
         CommitDebit, AbortDebit, SettleCallback, Settle, CheckHold,
         HoldCallback, LoseCallback, SubmitPayment, WalletStep
<1>2. CASE ReversalLeg(o)
  BY <1>2, LocksOnlyRestrict
     DEF ProtocolInv, ReversalLeg, WalletStep, CanReverse
<1>3. CASE Staff(o) /\ ~ ReversalLeg(o)
  BY <1>3, LocksOnlyRestrict
     DEF Staff, Advance, Return, Complete, CheckCredit, CreditCallback,
         LoseCredit, StartReversal, RefundLeg, RefundRefused, CommitReversal,
         Rollback, ChangePayment, StartPaymentRefund, CommitPaymentRefund,
         WalletStep
<1>4. CASE Maintenance(o)
  BY <1>4 DEF Maintenance, ReservationPasses, ExpireReservation,
              StartReversal, ReconcileList, ReconcileSettle, Settle
<1> QED BY <1>1, <1>2, <1>3, <1>4

(* Every commit of the shop in the main wallet is a WalletStep.             *)
LEMMA NextWalletStep == ProtocolInv /\ [Next]_vars => [WalletStep]_walletVars
<1> SUFFICES ASSUME ProtocolInv, [Next]_vars
             PROVE  WalletStep \/ UNCHANGED walletVars
  OBVIOUS
<1>1. CASE \E o \in Orders : Buying(o) \/ Staff(o) \/ Maintenance(o)
  BY <1>1, OrderWalletStep
<1>2. CASE \E c \in Customers : OtherSpend(c)
  BY <1>2 DEF OtherSpend, SpendElsewhere, WalletStep
<1>3. CASE UNCHANGED vars
  BY <1>3 DEF vars
<1> QED BY <1>1, <1>2, <1>3 DEF Next

(* The shop keeps the interface the rewards component reckons with.         *)
THEOREM ShopTakesWalletSteps == Spec => WalletInterface
<1> QED BY NextWalletStep, Invariance, PTL DEF Spec, WalletInterface

---------------------------------------------------------------------------
(* The two-database checkout, payment and refund protocol implements the    *)
(* one-ledger WalletPromise: a step of it is a step of the promise or       *)
(* changes nothing the promise speaks of.                                   *)
PromiseState == <<Money, Word, Fulfilled>>
PromiseStep == [Promised!PromiseNext]_PromiseState

USE DEF Money, Word, Fulfilled, PromiseState
USE DEF OrderInv, LedgerInv, WordInv, StatusInv, LegInv, Wallet, Free, Placed

(* How a change of an order's payments or status shows in the promise's     *)
(* state.                                                                   *)
LEMMA WordChanges ==
  ASSUME OrderTypeOK, NEW o \in Orders, NEW s \in Slots,
         NEW new \in SlotStatuses, pay' = WithSlot(o, s, new)
  PROVE  Word' = IF s = "wallet" THEN [Word EXCEPT ![o] = new] ELSE Word
<1>1. "wallet" \in Slots
  BY StatusNames
<1>2. /\ pay'[o][s] = new
      /\ s # "wallet" => pay'[o]["wallet"] = pay[o]["wallet"]
      /\ \A p \in Orders \ {o} : pay'[p] = pay[p]
  BY <1>1, WithSlotIs
<1>3. CASE s = "wallet"
  BY <1>2, <1>3
<1>4. CASE s # "wallet"
  <2>1. \A p \in Orders : pay'[p]["wallet"] = pay[p]["wallet"]
    BY <1>2, <1>4
  <2> QED BY <1>4, <2>1
<1> QED BY <1>3, <1>4

LEMMA EveryChanges ==
  ASSUME OrderTypeOK, NEW o \in Orders,
         NEW old \in SlotStatuses, NEW new \in SlotStatuses,
         pay' = WithEvery(o, old, new)
  PROVE  /\ pay'[o]["wallet"] = IF pay[o]["wallet"] = old THEN new
                                                         ELSE pay[o]["wallet"]
         /\ \A p \in Orders \ {o} : pay'[p] = pay[p]
<1>1. "wallet" \in Slots
  BY StatusNames
<1>2. /\ \A s \in Slots : WithEvery(o, old, new)[o][s]
                            = IF pay[o][s] = old THEN new ELSE pay[o][s]
      /\ \A p \in Orders \ {o} : WithEvery(o, old, new)[p] = pay[p]
  BY WithEveryIs
<1> QED BY <1>1, <1>2

LEMMA FulfilledChanges ==
  ASSUME OrderTypeOK, NEW o \in Orders, NEW new,
         status' = [status EXCEPT ![o] = new]
  PROVE  Fulfilled' = IF new = "completed" THEN Fulfilled \cup {o}
                                           ELSE Fulfilled \ {o}
  BY DEF OrderTypeOK

(* The ledger rows are all the promise knows of the main database. *)
LEMMA MoneyStays ==
  ASSUME UNCHANGED <<debited, refunds>>
  PROVE  Money' = Money
  OBVIOUS

(* A checkout from the wallet asks for the coins. *)
LEMMA AskStep ==
  ASSUME ProtocolInv, NEW o \in Orders, CheckoutWallet(o)
  PROVE  Promised!Ask(o)
<1>1. OrderTypeOK /\ "wallet" \in Slots /\ "pending" \in SlotStatuses
  BY StatusNames DEF ProtocolInv
<1>2. Word' = [Word EXCEPT ![o] = "pending"]
  BY <1>1, WordChanges DEF CheckoutWallet
<1>3. Money' = Money
  BY MoneyStays DEF CheckoutWallet, PlaceOrder, walletVars
<1>4. Fulfilled' = Fulfilled
  BY <1>1 DEF OrderTypeOK, CheckoutWallet, PlaceOrder
<1>5. Word[o] = "none" /\ Money[o] = "none"
  BY DEF ProtocolInv, CheckoutWallet, PlaceOrder
<1> QED BY <1>2, <1>3, <1>4, <1>5 DEF Promised!Ask, Promised!Says

(* The other two checkouts do not concern the wallet. *)
LEMMA OtherCheckoutStep ==
  ASSUME ProtocolInv, NEW o \in Orders, CheckoutCod(o) \/ CheckoutManual(o)
  PROVE  UNCHANGED PromiseState
<1>1. OrderTypeOK
  BY DEF ProtocolInv
<1>2. Word' = Word
  <2>1. CASE CheckoutCod(o)
    BY <2>1 DEF CheckoutCod
  <2>2. CASE CheckoutManual(o)
    <3>1. PICK s \in ManualSlots : pay' = WithSlot(o, s, "pending")
      BY <2>2 DEF CheckoutManual
    <3>2. s \in Slots /\ s # "wallet" /\ "pending" \in SlotStatuses
      BY StatusNames, MethodAssumption
    <3> QED BY <1>1, <3>1, <3>2, WordChanges
  <2> QED BY <2>1, <2>2
<1>3. Money' = Money
  BY MoneyStays DEF CheckoutCod, CheckoutManual, PlaceOrder, walletVars
<1>4. Fulfilled' = Fulfilled
  BY <1>1 DEF OrderTypeOK, CheckoutCod, CheckoutManual, PlaceOrder
<1> QED BY <1>2, <1>3, <1>4

(* The commit of the outer transaction is the charge. *)
LEMMA ChargeStep ==
  ASSUME ProtocolInv, NEW o \in Orders, CommitDebit(o)
  PROVE  Promised!Charge(o)
<1>1. /\ o \notin debited /\ o \notin refunds /\ Word[o] # "none"
      /\ debited' = debited \cup {o} /\ refunds' = refunds
      /\ UNCHANGED <<pay, status>>
  BY DEF ProtocolInv, CommitDebit, DebitOrder, orderVarsButCheckout
<1>2. Money' = [Money EXCEPT ![o] = "taken"]
  BY <1>1
<1> QED BY <1>1, <1>2 DEF Promised!Charge, Promised!Coins

(* A refund gives the coins back the first time and does nothing after. *)
LEMMA GiveBackStep ==
  ASSUME ProtocolInv, NEW o \in Orders,
         RefundLeg(o) \/ StartPaymentRefund(o)
  PROVE  Promised!GiveBack(o) \/ UNCHANGED PromiseState
<1>1. /\ o \in debited /\ debited' = debited
      /\ refunds' = refunds \cup {o}
      /\ UNCHANGED <<pay, status>>
  BY DEF RefundLeg, StartPaymentRefund, RefundOrder, orderVarsButLeg
<1>2. CASE o \in refunds
  BY <1>1, <1>2
<1>3. CASE o \notin refunds
  <2>1. Money' = [Money EXCEPT ![o] = "returned"] /\ Money[o] = "taken"
    BY <1>1, <1>3
  <2> QED BY <1>1, <2>1 DEF Promised!GiveBack, Promised!Coins
<1> QED BY <1>2, <1>3

(* An acknowledgement says what the ledger says at that moment. *)
LEMMA SettleStep ==
  ASSUME ProtocolInv, NEW o \in Orders, Settle(o)
  PROVE  \/ Promised!SayPaid(o) \/ Promised!SayRefunded(o)
         \/ UNCHANGED PromiseState
<1>1. /\ OrderTypeOK /\ "wallet" \in Slots
      /\ "confirmed" \in SlotStatuses /\ "refunded" \in SlotStatuses
  BY StatusNames DEF ProtocolInv
<1>2. Money' = Money /\ Fulfilled' = Fulfilled
  BY MoneyStays DEF Settle, walletVars
<1>3. CASE pay' = pay
  BY <1>2, <1>3
<1>4. CASE /\ o \in refunds /\ Wallet(o)
           /\ pay' = WithSlot(o, "wallet", "refunded")
  <2>1. Word' = [Word EXCEPT ![o] = "refunded"]
    BY <1>1, <1>4, WordChanges
  <2> QED BY <1>2, <1>4, <2>1 DEF Promised!SayRefunded, Promised!Says
<1>5. CASE /\ o \in debited /\ o \notin refunds /\ pay[o]["wallet"] = "pending"
           /\ pay' = WithSlot(o, "wallet", "confirmed")
  <2>1. Word' = [Word EXCEPT ![o] = "confirmed"]
    BY <1>1, <1>5, WordChanges
  <2> QED BY <1>2, <1>5, <2>1 DEF Promised!SayPaid, Promised!Says
<1> QED BY <1>3, <1>4, <1>5 DEF Settle, Settled, SettledPay

(* Completion fulfils, and confirms what was pending. *)
LEMMA FulfilStep ==
  ASSUME ProtocolInv, NEW o \in Orders, Complete(o)
  PROVE  Promised!Fulfil(o)
<1>1. /\ OrderTypeOK /\ "wallet" \in Slots
      /\ "confirmed" \in SlotStatuses /\ "pending" \in SlotStatuses
  BY StatusNames DEF ProtocolInv
<1>2. Money' = Money
  BY MoneyStays DEF Complete, walletVars
<1>3. Fulfilled' = Fulfilled \cup {o}
  BY <1>1, FulfilledChanges DEF Complete
<1>4. Word[o] # "none" => Money[o] = "taken"
  BY DEF Complete, MayComplete, Settled, SettledPayStatus
<1>5. pay' = WithEvery(o, "pending", "confirmed")
  BY DEF Complete
<1>6. /\ pay'[o]["wallet"] = IF pay[o]["wallet"] = "pending"
                             THEN "confirmed" ELSE pay[o]["wallet"]
      /\ \A p \in Orders \ {o} : pay'[p] = pay[p]
  BY <1>1, <1>5, EveryChanges
<1>7. Word' = IF Word[o] = "pending" THEN [Word EXCEPT ![o] = "confirmed"]
                                     ELSE Word
  <2>1. CASE pay[o]["wallet"] = "pending"
    BY <1>6, <2>1
  <2>2. CASE pay[o]["wallet"] # "pending"
    <3>1. \A p \in Orders : pay'[p]["wallet"] = pay[p]["wallet"]
      BY <1>6, <2>2
    <3> QED BY <2>2, <3>1
  <2> QED BY <2>1, <2>2
<1> QED BY <1>2, <1>3, <1>4, <1>7 DEF Promised!Fulfil, Promised!Says

(* Only a return takes a completed order back. *)
LEMMA StatusStep ==
  ASSUME ProtocolInv, NEW o \in Orders,
         Return(o) \/ \E new \in Statuses : Advance(o, new)
  PROVE  Promised!TakeBack(o)
<1>1. OrderTypeOK
  BY DEF ProtocolInv
<1>2. /\ UNCHANGED <<pay, debited, refunds>>
      /\ \E new \in Statuses \ {"completed"} :
            status' = [status EXCEPT ![o] = new]
  BY MethodAssumption DEF Return, Advance, Statuses, walletVars
<1>3. Fulfilled' = Fulfilled \ {o}
  BY <1>1, <1>2, FulfilledChanges
<1> QED BY <1>2, <1>3, MoneyStays DEF Promised!TakeBack

(* The last commit of a cancellation or refund says refunded. *)
LEMMA CommitReversalStep ==
  ASSUME ProtocolInv, NEW o \in Orders, CommitReversal(o)
  PROVE  Promised!SayRefunded(o) \/ UNCHANGED PromiseState
<1>1. /\ OrderTypeOK /\ "wallet" \in Slots
      /\ "confirmed" \in SlotStatuses /\ "refunded" \in SlotStatuses
  BY StatusNames DEF ProtocolInv
<1>2. Money' = Money
  BY MoneyStays DEF CommitReversal, walletVars
<1>3. Fulfilled' = Fulfilled
  <2>1. status[o] # "completed" /\ target[o] # "completed"
    BY DEF ProtocolInv, CommitReversal
  <2> QED BY <1>1, <2>1, FulfilledChanges DEF CommitReversal
<1>4. CASE Wallet(o)
  <2>1. o \in refunds
    BY <1>4 DEF ProtocolInv, CommitReversal
  <2>2. Word' = [Word EXCEPT ![o] = "refunded"]
    BY <1>1, <1>4, WordChanges DEF CommitReversal
  <2> QED BY <1>2, <1>3, <1>4, <2>1, <2>2
          DEF Promised!SayRefunded, Promised!Says
<1>5. CASE ~ Wallet(o)
  <2>1. CASE pay' = pay
    BY <1>2, <1>3, <2>1
  <2>2. CASE pay' = WithEvery(o, "confirmed", "refunded")
    <3>0. /\ pay'[o]["wallet"] = "none"
          /\ \A p \in Orders \ {o} : pay'[p] = pay[p]
      BY <1>1, <1>5, <2>2, EveryChanges
    <3>1. \A p \in Orders : pay'[p]["wallet"] = pay[p]["wallet"]
      BY <1>5, <3>0
    <3> QED BY <1>2, <1>3, <3>1
  <2> QED BY <1>5, <2>1, <2>2 DEF CommitReversal
<1> QED BY <1>4, <1>5

LEMMA PaymentStep ==
  ASSUME ProtocolInv, NEW o \in Orders, NEW s \in Slots,
         NEW new \in SlotStatuses, ChangePayment(o, s, new)
  PROVE  \/ Promised!SayPaid(o) \/ Promised!Reject(o)
         \/ UNCHANGED PromiseState
<1>1. OrderTypeOK
  BY DEF ProtocolInv
<1>2. Money' = Money /\ Fulfilled' = Fulfilled
  BY MoneyStays DEF ChangePayment, walletVars
<1>3. Word' = IF s = "wallet" THEN [Word EXCEPT ![o] = new] ELSE Word
  BY <1>1, WordChanges DEF ChangePayment
<1>4. CASE s # "wallet" \/ new = pay[o][s]
  BY <1>2, <1>3, <1>4
<1>5. CASE s = "wallet" /\ new # pay[o][s]
  <2>1. Word[o] = "pending" /\ new \in {"confirmed", "failed"}
    BY <1>5 DEF ChangePayment, PaymentTransitions
  <2>2. new = "confirmed" => Money[o] = "taken"
    BY <1>5 DEF ChangePayment, MayConfirm, Settled, SettledPayStatus
  <2> QED BY <1>2, <1>3, <1>5, <2>1, <2>2
          DEF Promised!SayPaid, Promised!Reject, Promised!Says
<1> QED BY <1>4, <1>5

LEMMA CommitPaymentRefundStep ==
  ASSUME ProtocolInv, NEW o \in Orders, CommitPaymentRefund(o)
  PROVE  Promised!SayRefunded(o)
<1>1. OrderTypeOK /\ "wallet" \in Slots /\ "refunded" \in SlotStatuses
  BY StatusNames DEF ProtocolInv
<1>2. Money' = Money /\ Fulfilled' = Fulfilled
  BY MoneyStays DEF CommitPaymentRefund, walletVars
<1>3. Word' = [Word EXCEPT ![o] = "refunded"]
  BY <1>1, WordChanges DEF CommitPaymentRefund
<1>4. o \in refunds /\ Word[o] # "none"
  BY DEF ProtocolInv, CommitPaymentRefund
<1> QED BY <1>2, <1>3, <1>4 DEF Promised!SayRefunded, Promised!Says

LEMMA SubmitPaymentStep ==
  ASSUME ProtocolInv, NEW o \in Orders, NEW s \in ManualSlots,
         NEW cod \in BOOLEAN, SubmitPayment(o, s, cod)
  PROVE  UNCHANGED PromiseState
<1>1. /\ OrderTypeOK /\ s \in Slots /\ s # "wallet"
      /\ "pending" \in SlotStatuses
  BY StatusNames, MethodAssumption DEF ProtocolInv
<1>2. Word' = Word
  BY <1>1, WordChanges DEF SubmitPayment
<1> QED BY <1>2, MoneyStays DEF SubmitPayment, walletVars

(* Everything else is none of the promise's business. *)
LEMMA QuietStep ==
  ASSUME ProtocolInv,
         \/ \E o \in Orders :
               \/ AbortDebit(o) \/ LoseCallback(o)
               \/ CheckHold(o) \/ HoldCallback(o)
               \/ CheckCredit(o) \/ CreditCallback(o) \/ LoseCredit(o)
               \/ \E new \in {"cancelled", "refunded"} : StartReversal(o, new)
               \/ ReversalLeg(o) \/ RefundRefused(o) \/ Rollback(o)
               \/ ReservationPasses(o) \/ ReconcileList(o)
         \/ \E c \in Customers : OtherSpend(c)
         \/ UNCHANGED vars
  PROVE  UNCHANGED PromiseState
<1>1. UNCHANGED <<pay, status, debited, refunds>>
  BY DEF AbortDebit, CheckHold, HoldCallback, HoldCoupon, LoseCallback,
         CheckCredit, CreditCallback, CreditCoupon, LoseCredit,
         StartReversal, ReversalLeg, ReverseCoupon, orderVarsButCredit,
         RefundRefused, Rollback, ReservationPasses, ReconcileList,
         OtherSpend, SpendElsewhere, vars, walletVars, orderVars,
         orderVarsButCheckout, orderVarsButLeg
<1> QED BY <1>1

---------------------------------------------------------------------------
LEMMA InitPromised == Init => Promised!PromiseInit
  BY DEF Init, WalletInit, Slots, Promised!PromiseInit

LEMMA NextPromised == ProtocolInv /\ [Next]_vars => PromiseStep
<1> SUFFICES ASSUME ProtocolInv, [Next]_vars PROVE PromiseStep
  OBVIOUS
<1> USE DEF PromiseStep, Promised!PromiseNext
<1>1. CASE \E o \in Orders : Buying(o)
  <2>1. PICK o \in Orders : Buying(o)
    BY <1>1
  <2>2. CASE CheckoutWallet(o)
    BY <2>2, AskStep
  <2>3. CASE CheckoutCod(o) \/ CheckoutManual(o)
    BY <2>3, OtherCheckoutStep
  <2>4. CASE CommitDebit(o)
    BY <2>4, ChargeStep
  <2>5. CASE SettleCallback(o)
    BY <2>5, SettleStep DEF SettleCallback
  <2>6. CASE \/ AbortDebit(o) \/ LoseCallback(o)
             \/ CheckHold(o) \/ HoldCallback(o)
    BY <2>6, QuietStep
  <2>7. CASE \E s \in ManualSlots, cod \in BOOLEAN : SubmitPayment(o, s, cod)
    BY <2>7, SubmitPaymentStep
  <2> QED BY <2>1, <2>2, <2>3, <2>4, <2>5, <2>6, <2>7 DEF Buying
<1>2. CASE \E o \in Orders : Staff(o)
  <2>1. PICK o \in Orders : Staff(o)
    BY <1>2
  <2>2. CASE Return(o) \/ \E new \in Statuses : Advance(o, new)
    BY <2>2, StatusStep
  <2>3. CASE Complete(o)
    BY <2>3, FulfilStep
  <2>4. CASE \/ CheckCredit(o) \/ CreditCallback(o) \/ LoseCredit(o)
             \/ \E new \in {"cancelled", "refunded"} : StartReversal(o, new)
             \/ ReversalLeg(o) \/ RefundRefused(o) \/ Rollback(o)
    BY <2>4, QuietStep
  <2>5. CASE RefundLeg(o) \/ StartPaymentRefund(o)
    BY <2>5, GiveBackStep
  <2>6. CASE CommitReversal(o)
    BY <2>6, CommitReversalStep
  <2>7. CASE \E s \in Slots, new \in SlotStatuses : ChangePayment(o, s, new)
    BY <2>7, PaymentStep
  <2>8. CASE CommitPaymentRefund(o)
    BY <2>8, CommitPaymentRefundStep
  <2> QED BY <2>1, <2>2, <2>3, <2>4, <2>5, <2>6, <2>7, <2>8 DEF Staff
<1>3. CASE \E o \in Orders : Maintenance(o)
  <2>1. PICK o \in Orders : Maintenance(o)
    BY <1>3
  <2>2. CASE ReservationPasses(o) \/ ExpireReservation(o) \/ ReconcileList(o)
    BY <2>2, QuietStep DEF ExpireReservation
  <2>3. CASE ReconcileSettle(o)
    BY <2>3, SettleStep DEF ReconcileSettle
  <2> QED BY <2>1, <2>2, <2>3 DEF Maintenance
<1>4. CASE (\E c \in Customers : OtherSpend(c)) \/ UNCHANGED vars
  BY <1>4, QuietStep
<1> QED BY <1>1, <1>2, <1>3, <1>4 DEF Next

(* The shop keeps its promise about wallet payments, for any number of      *)
(* customers and orders and through every crash between two commits.        *)
THEOREM PromiseKept == Spec => KeepsPromise
<1>1. Spec => Promised!PromiseInit
  BY InitPromised DEF Spec
<1>2. ProtocolInv /\ [Next]_vars
         => [Promised!PromiseNext]_(Promised!promiseVars)
  BY NextPromised DEF PromiseStep, Promised!promiseVars
<1> QED BY <1>1, <1>2, Invariance, PTL DEF Spec, KeepsPromise, Promised!Promise

(* change_order never completes an order whose coins went back, nor a       *)
(* wallet order whose coins were never taken.                               *)
THEOREM NeverCompletedAfterRefund == Spec => NoCompletionAfterRefund
<1> DEFINE Sound == \A o \in Orders :
                       (status'[o] = "completed" /\ status[o] # "completed")
                          => o \notin refunds /\ (Wallet(o) => o \in debited)
<1>1. ProtocolInv /\ [Next]_vars => [Sound]_vars
  <2> SUFFICES ASSUME ProtocolInv, [Next]_vars, NEW o \in Orders,
                      status'[o] = "completed", status[o] # "completed"
               PROVE  o \notin refunds /\ (Wallet(o) => o \in debited)
    OBVIOUS
  <2>1. PromiseStep
    BY NextPromised
  <2>2. o \in Fulfilled' /\ o \notin Fulfilled
    OBVIOUS
  <2>3. PICK p \in Orders : Promised!Fulfil(p)
    BY <2>1, <2>2
       DEF PromiseStep, Promised!PromiseNext, Promised!Ask, Promised!Charge,
           Promised!GiveBack, Promised!SayPaid, Promised!SayRefunded,
           Promised!Reject, Promised!TakeBack
  <2>4. Word[o] # "none" => Money[o] = "taken"
    BY <2>2, <2>3 DEF Promised!Fulfil
  <2>5. Wallet(o) => o \in debited /\ o \notin refunds
    BY <2>4
  <2> QED BY <2>5 DEF ProtocolInv
<1> QED BY <1>1, Invariance, PTL DEF Spec, NoCompletionAfterRefund
============================================================================
