-------------------------- MODULE MCOrdersScarce --------------------------
(***************************************************************************)
(* Two orders of one buyer, paid from the wallet or on delivery, for an    *)
(* item of which there is not enough for both.  The first order also takes *)
(* an item that is sold beyond its stock, the second one whose quantity no *)
(* one counts, so that it is confirmed upon placement.                     *)
(***************************************************************************)
EXTENDS CommerceAccounts

CONSTANTS ann, bob, o1, o2, v1, v2, v3

MCBuyer == [o \in Orders |-> ann]
MCReferrer == [o \in Orders |-> NoReferrer]
MCPrice == [o \in Orders |-> IF o = o1 THEN 3 ELSE 2]
MCReward == [o \in Orders |-> 1]
MCInitBalance == [c \in Customers |-> 4]
MCInitAvailable == [c \in Customers |-> 0]
MCOrdered ==
    [o \in Orders |->
        [v \in Variants |->
            IF v = v1 THEN 2
            ELSE IF v = IF o = o1 THEN v2 ELSE v3 THEN 1 ELSE 0]]
MCOneOfTwoLines ==
    [o \in Orders |-> [v \in Variants |-> IF v = v1 THEN 1
                                          ELSE MCOrdered[o][v]]]
MCInitStock == [v \in Variants |-> IF v = v1 THEN 3 ELSE 0]
MCMethods == [o \in Orders |-> {"wallet", "cod"}]
===========================================================================
