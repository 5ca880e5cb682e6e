------------------------- MODULE CommerceInvariant -------------------------
(***************************************************************************)
(* The inductive invariant of CommerceOrders.  The safety properties are   *)
(* not inductive as they stand: they say nothing of a refund that has      *)
(* committed in one database and not in the other, nor of a checkout whose *)
(* debit is still open.                                                    *)
(***************************************************************************)
EXTENDS CommercePromise

(* One order and its two ledger entries. *)
LedgerInv(o) ==
    /\ o \in refunds => o \in debited
    /\ o \in debited => Wallet(o) /\ checkout[o] # "placing"
    /\ checkout[o] = "placing" => Wallet(o)

(* What the wallet payment and the order say of them. *)
WordInv(o) ==
    /\ pay[o]["wallet"] = "confirmed" => o \in debited
    /\ pay[o]["wallet"] = "refunded" => o \in refunds
    /\ Wallet(o) /\ payStatus[o] = "paid"
                 /\ (\A s \in ManualSlots : pay[o][s] # "confirmed")
          => o \in debited

StatusInv(o) ==
    /\ status[o] = "none" => ~ Wallet(o) /\ leg[o] = "idle"
    /\ Wallet(o) /\ status[o] = "completed" => o \in debited
    /\ Wallet(o) /\ status[o] \in {"cancelled", "refunded"} => o \in refunds

(* The request that holds the order lock. *)
LegInv(o) ==
    /\ leg[o] = "sawCredit" => o \in credited
    /\ leg[o] = "sawHold" => o \in held
    /\ leg[o] = "repaid" => o \in refunds
    /\ leg[o] = "paymentRepaid" => o \in refunds
    /\ leg[o] \in {"sawHold", "sawCredit", "reversed", "repaid"}
          => /\ target[o] \in {"cancelled", "refunded"}
             /\ status[o] # "completed"

OrderInv(o) == LedgerInv(o) /\ WordInv(o) /\ StatusInv(o) /\ LegInv(o)

(* What holds between any two commits: the ledger, the payment, the order   *)
(* and the request in progress agree on where the coins are                 *)
(* (order_service.py, CheckoutView).                                        *)
ProtocolInv ==
    /\ WalletInv
    /\ OrderTypeOK
    /\ \A o \in Orders : OrderInv(o)

(* Where an order is while a request holds it, and what it has left behind: *)
(* its stock is back, its reward is due or paid.                            *)
Open == {"pending", "confirmed", "processing"}
Reversing(o) == leg[o] \in {"sawHold", "sawCredit", "reversed", "repaid"}

StageInv(o) ==
    /\ Reversing(o)
          => \/ /\ target[o] = "cancelled"
                /\ status[o] \in Open \cup {"cancelled"}
             \/ /\ target[o] = "refunded"
                /\ status[o] \in {"returned", "refunded"}
    /\ o \in released => status[o] \in {"cancelled", "returned", "refunded"}
    /\ o \in creditDue \cup crediting \cup credited
          => status[o] \in {"completed", "returned", "refunded"}

(* An open checkout has the balance it has verified to itself.              *)
PlacingInv(o) ==
    checkout[o] = "placing" =>
        /\ Price[o] <= balance[Buyer[o]]
        /\ \A p \in Orders :
              checkout[p] = "placing" /\ Buyer[p] = Buyer[o] => p = o

(* The stages of every order (change_order, CheckoutView).                  *)
StagesInv == \A o \in Orders : StageInv(o) /\ PlacingInv(o)
============================================================================
