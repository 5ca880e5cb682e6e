-------------------------- MODULE CommercePromise --------------------------
(***************************************************************************)
(* The two-database implementation keeps the WalletPromise: an order's     *)
(* coins are what the ledger of the main database says about it, and the   *)
(* word is the status of its wallet payment in the commerce database.      *)
(***************************************************************************)
EXTENDS CommerceOrders

Money == [o \in Orders |-> IF o \in refunds THEN "returned"
                           ELSE IF o \in debited THEN "taken"
                           ELSE "none"]
Word == [o \in Orders |-> pay[o]["wallet"]]
Fulfilled == {o \in Orders : status[o] = "completed"}

Promised == INSTANCE WalletPromise
                WITH money <- Money, word <- Word, fulfilled <- Fulfilled

(* Whatever crashes and interleaves, the wallet orders behave as if one     *)
(* database held the coins and the payments (order_service.py).             *)
KeepsPromise == Promised!Promise
============================================================================
