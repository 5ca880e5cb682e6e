--------------------------- MODULE MCOrderAlone ---------------------------
(***************************************************************************)
(* One order with everything that can happen to it: every payment method,  *)
(* a manual payment besides, a friend's coupon, an item without a counted  *)
(* quantity, and a buyer who also pays for other services.                 *)
(***************************************************************************)
EXTENDS CommerceAccounts

CONSTANTS ann, bob, o1, v1, v2

MCBuyer == [o \in Orders |-> ann]
MCReferrer == [o \in Orders |-> bob]
MCPrice == [o \in Orders |-> 3]
MCReward == [o \in Orders |-> 1]
MCInitBalance == [c \in Customers |-> IF c = ann THEN 3 ELSE 0]
MCInitAvailable == [c \in Customers |-> IF c = ann THEN 2 ELSE 0]
MCOrdered == [o \in Orders |-> [v \in Variants |-> 2]]
MCInitStock == [v \in Variants |-> IF v = v1 THEN 2 ELSE 0]
MCMethods == [o \in Orders |-> {"wallet", "cod", "manual"}]
===========================================================================
