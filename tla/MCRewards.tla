----------------------------- MODULE MCRewards -----------------------------
(***************************************************************************)
(* ann buys the order o1 from her wallet with the coupon of bob; bob       *)
(* withdraws earnings while his account form, a staff note and two rows of *)
(* one payment are open.                                                   *)
(***************************************************************************)
EXTENDS RewardsLedger

CONSTANTS ann, bob, o1, w1, x1

MCBuyer == [o \in Orders |-> ann]
MCReferrer == [o \in Orders |-> bob]
MCPrice == [o \in Orders |-> 2]
MCReward == [o \in Orders |-> 1]
MCInitBalance == [c \in Customers |-> 2]
MCInitAvailable == [c \in Customers |-> 1]
MCRequester == [w \in Withdrawals |-> bob]
MCRequested == [w \in Withdrawals |-> 1]
MCTrxId == [t \in Receipts |-> x1]
MCReceived == [t \in Receipts |-> t]

(* Bound: a recharge, which only adds to a balance, does not meet the shop; *)
(* a note and an account form meet all else, but not each other.            *)
ShopQuiet ==
    /\ debited \cup held \cup credited \cup reversed = {}
    /\ \A c \in Customers : spent[c] = 0
NoReceipt == rows = {} /\ intake = {}

NoForm == overwritten = {} /\ \A c \in Customers : profile[c] = Closed
NoNote == reopened = {} /\ \A w \in Withdrawals : note[w] = "closed"

Focus == (ShopQuiet \/ NoReceipt) /\ (NoForm \/ NoNote)
============================================================================
