------------------------------ MODULE MCBooks ------------------------------
(***************************************************************************)
(* Where amounts add up: three scenes, each with orders or calls of its    *)
(* own, so one run takes them in turn.                                     *)
(*                                                                         *)
(* shared   two orders that move the coins of one customer: ann pays o1    *)
(*          from her wallet while bob orders o2 with her mobile number as  *)
(*          his coupon, so debit and refund of the one meet reward and     *)
(*          claw-back of the other on one customer row                     *)
(* scarce   two orders of bob, paid from the wallet or on delivery, for an *)
(*          item of which there is not enough for both; o3 also takes an   *)
(*          item that is sold beyond its stock, o4 one whose quantity no   *)
(*          one counts, so that it is confirmed upon placement             *)
(* billing  two members of a team and two calls that may overlap           *)
(***************************************************************************)
EXTENDS CommerceAccounts, MCBilling

CONSTANTS ann, bob, o1, o2, o3, o4, v1, v2, v3, v4

VARIABLE scene

booksVars == <<vars, billingVars, scene>>

MCBuyer == [o \in Orders |-> IF o = o1 THEN ann ELSE bob]
MCReferrer == [o \in Orders |-> IF o = o2 THEN ann ELSE NoReferrer]
MCPrice == [o \in Orders |-> IF o = o4 THEN 2 ELSE 3]
MCReward == [o \in Orders |-> 1]
MCInitBalance == [c \in Customers |-> IF c = ann THEN 3 ELSE 4]
MCInitAvailable == [c \in Customers |-> IF c = ann THEN 2 ELSE 0]
MCOrdered ==
    [o \in Orders |->
        [v \in Variants |->
            CASE v = v1 /\ o \in {o3, o4} -> 2
              [] v = v2 /\ o = o3 -> 1
              [] v = v3 /\ o = o4 -> 1
              [] v = v4 /\ o \in {o1, o2} -> 1
              [] OTHER -> 0]]
MCInitStock ==
    [v \in Variants |-> CASE v = v1 -> 3 [] v = v4 -> 2 [] OTHER -> 0]
MCMethods ==
    [o \in Orders |-> CASE o = o1 -> {"wallet"}
                        [] o = o2 -> {"cod"}
                        [] OTHER -> {"wallet", "cod"}]

BooksInit ==
    /\ Init
    /\ BillingInit
    /\ scene \in {"shared", "scarce", "billing"}

Handle(orders) ==
    /\ \E o \in orders : Buying(o) \/ Staff(o) \/ Maintenance(o)
    /\ UNCHANGED billingVars

(* Bound: the shared orders are not shipped.                                *)
Unshipped == \A o \in Orders : status'[o] \notin Fulfilment

BooksNext ==
    /\ UNCHANGED scene
    /\ \/ scene = "shared" /\ Handle({o1, o2}) /\ Unshipped
       \/ scene = "scarce" /\ Handle({o3, o4})
       \/ scene = "billing" /\ BillingNext /\ UNCHANGED vars

BooksSpec == BooksInit /\ [][BooksNext]_booksVars
=============================================================================
