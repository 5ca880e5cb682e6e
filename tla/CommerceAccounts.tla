------------------------- MODULE CommerceAccounts -------------------------
(***************************************************************************)
(* The books of the shop: properties of CommerceOrders that add amounts    *)
(* up over orders.                                                         *)
(***************************************************************************)
EXTENDS CommerceInvariant, WalletLedger

(* Coins are neither made nor lost: a balance is always what its movements  *)
(* add up to, in whatever order the commits of several orders, their        *)
(* callbacks and their reversals fall.  A reversal takes back at most the   *)
(* reward, and takes coins only for a reward that was credited.             *)
CoinsBooked ==
    /\ \A c \in Customers : balance[c] = Booked(c)
    /\ \A o \in Orders :
          /\ clawed[o] <= Reward[o]
          /\ clawed[o] > 0 => o \in credited \cap reversed

(* Refunds restore the consumed reference portion, once: without other      *)
(* spending and without rewards the withdrawable share is the initial one   *)
(* minus what the debits still outstanding used.                            *)
ReferenceRestored ==
    \A c \in Customers :
        (spent[c] = 0 /\ RewardsOf(c) \cap credited = {})
           => available[c] = InitAvailable[c]
                             - Total(refUsed, ChargedTo(c))

Shelved == {"none", "cancelled", "returned", "refunded"}

Units(v) ==
    [o \in Orders |-> IF v \in Reserving THEN Ordered[o][v] ELSE 0]

Live == {o \in Orders : status[o] \notin Shelved}

(* Stock that left the shelf is on a live order: cancelling or returning an *)
(* order puts back what its checkout took, once, and nothing else does.     *)
StockBooked ==
    \A v \in Variants :
        /\ v \notin Backorder => stock[v] >= 0
        /\ stock[v] + Total(Units(v), Live) = InitStock[v]

---------------------------------------------------------------------------
(* What late coupon callbacks leave behind; the code does not keep these     *)
(* two: "Remove a pending hold, or claw back a released credit, once per    *)
(* order" (reverse_referral_coupon).                                        *)

Closed == {"cancelled", "refunded"}

(* pending_taka is exactly the rewards that are held for orders still under *)
(* way, and neither released nor reversed.                                  *)
Awaited == {o \in held \ (credited \cup reversed) : status[o] \notin Closed}

PendingBooked ==
    \A c \in Customers : pending[c] = Total(Reward, RewardsOf(c) \cap Awaited)

(* When a closed order was reversed and has no callback left to run, the    *)
(* reward that was credited for it is back, unless the referrer may have    *)
(* spent it.                                                                *)
SpentNothing(c) == spent[c] = 0 /\ OrdersOf(c) \cap debited = {}

RewardTakenBack ==
    \A o \in credited \cap reversed :
        /\ status[o] \in Closed
        /\ o \notin creditDue \cup crediting
        /\ SpentNothing(Referrer[o])
        => clawed[o] = Reward[o]
===========================================================================
