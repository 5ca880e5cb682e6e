--------------------------- MODULE RewardsLedger ---------------------------
(***************************************************************************)
(* The books of RewardsWallet: properties that add amounts up over         *)
(* withdrawals, recharges and orders.                                      *)
(***************************************************************************)
EXTENDS RewardsWallet, WalletLedger

(* The withdrawals of a site; their sums exist. *)
ASSUME WithdrawalsAssumption == IsFiniteSet(Withdrawals)

WithdrawalsIn(c, statuses) ==
    {w \in Withdrawals : Requester[w] = c /\ request[w] \in statuses}

(* Reserved for c, or already paid out to c. *)
Outstanding(c) ==
    Total(Requested, WithdrawalsIn(c, {"pending", "processing", "approved"}))

Recharged(c) ==
    Total([r \in recharges |-> r.coins], {r \in recharges : r.to = c})

(* The withdrawals of c whose status no form has put back. *)
Orderly(c) == \A w \in reopened : Requester[w] # c

(* A balance is what shop, recharges and withdrawals add up to: no coin is  *)
(* both spendable and reserved for a withdrawal, none is lost when a        *)
(* request is closed, and a recharge counts once.  lifetime_withdrawn_taka  *)
(* is the sum of the approved withdrawals.                                  *)
RewardsBooked ==
    /\ \A c \in Kept :
          Orderly(c) =>
              balance[c] = Booked(c) + Recharged(c) - Outstanding(c)
    /\ \A c \in Customers :
          Orderly(c) =>
              withdrawn[c] = Total(Requested, WithdrawalsIn(c, {"approved"}))

(* The same earnings are not spent, reserved and paid out twice: the share, *)
(* what a refund would restore to it and what withdrawals hold or have paid *)
(* come from the initial share and the earnings.                            *)
EarningsHeld(c) ==
    available[c] + Outstanding(c) + Total(refUsed, ChargedTo(c))
      <= InitAvailable[c] + earned[c]

EarningsOnce == \A c \in Customers : Orderly(c) => EarningsHeld(c)

(* What the code does not keep, because a form may put a row back.          *)

(* "Withdrawal requests reserve both reference earnings and their           *)
(* equivalent main-wallet Coins": reserved coins are not spendable too.     *)
ReservationHeld ==
    \A c \in Customers :
        balance[c] + Outstanding(c)
          <= InitBalance[c] + Recharged(c) + earned[c]

(* "Cancellation/rejection releases the reservation once."                  *)
ReleasedOnce == \A c \in Customers : EarningsHeld(c)
===========================================================================
