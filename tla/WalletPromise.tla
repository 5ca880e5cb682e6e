--------------------------- MODULE WalletPromise ---------------------------
(***************************************************************************)
(* What the shop promises about an order paid from the wallet, with one    *)
(* ledger instead of two databases: the coins are taken at most once and   *)
(* given back at most once; "paid" is said only while they are taken,      *)
(* "refunded" only after they were given back, and the order is fulfilled  *)
(* only while they are taken.                                              *)
(***************************************************************************)
CONSTANT Orders

VARIABLES
    money,      \* what happened to the coins of an order
    word,       \* what its wallet payment says about them
    fulfilled   \* the orders that are completed

promiseVars == <<money, word, fulfilled>>

PromiseInit ==
    /\ money = [o \in Orders |-> "none"]
    /\ word = [o \in Orders |-> "none"]
    /\ fulfilled = {}

Says(o, new) == word' = [word EXCEPT ![o] = new]
Coins(o, new) == money' = [money EXCEPT ![o] = new]

(* The buyer chooses to pay from the wallet. *)
Ask(o) ==
    /\ word[o] = "none"
    /\ money[o] = "none"
    /\ Says(o, "pending")
    /\ UNCHANGED <<money, fulfilled>>

Charge(o) ==
    /\ word[o] # "none"
    /\ money[o] = "none"
    /\ Coins(o, "taken")
    /\ UNCHANGED <<word, fulfilled>>

GiveBack(o) ==
    /\ money[o] = "taken"
    /\ Coins(o, "returned")
    /\ UNCHANGED <<word, fulfilled>>

SayPaid(o) ==
    /\ word[o] = "pending"
    /\ money[o] = "taken"
    /\ Says(o, "confirmed")
    /\ UNCHANGED <<money, fulfilled>>

SayRefunded(o) ==
    /\ word[o] # "none"
    /\ money[o] = "returned"
    /\ Says(o, "refunded")
    /\ UNCHANGED <<money, fulfilled>>

Reject(o) ==
    /\ word[o] = "pending"
    /\ Says(o, "failed")
    /\ UNCHANGED <<money, fulfilled>>

Fulfil(o) ==
    /\ word[o] # "none" => money[o] = "taken"
    /\ fulfilled' = fulfilled \cup {o}
    /\ IF word[o] = "pending" THEN Says(o, "confirmed") ELSE UNCHANGED word
    /\ UNCHANGED money

(* The goods come back. *)
TakeBack(o) ==
    /\ fulfilled' = fulfilled \ {o}
    /\ UNCHANGED <<money, word>>

PromiseNext ==
    \E o \in Orders :
        \/ Ask(o) \/ Charge(o) \/ GiveBack(o)
        \/ SayPaid(o) \/ SayRefunded(o) \/ Reject(o)
        \/ Fulfil(o) \/ TakeBack(o)

Promise == PromiseInit /\ [][PromiseNext]_promiseVars
=============================================================================
