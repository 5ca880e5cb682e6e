--------------------------- MODULE WalletLedger ---------------------------
(***************************************************************************)
(* What the movements of the main wallet add up to, per customer.          *)
(***************************************************************************)
EXTENDS MainWallet, FiniteSets, Functions

(* The orders of a shop; their sums exist. *)
ASSUME LedgerAssumption == IsFiniteSet(Orders)

Total(amount, S) == SumFunctionOnSet(amount, S)

OrdersOf(c) == {o \in Orders : Buyer[o] = c}
RewardsOf(c) == {o \in Orders : Referrer[o] = c}

(* The orders of c whose coins are taken and not given back. *)
ChargedTo(c) == OrdersOf(c) \cap (debited \ refunds)

(* What c had, less what c spent and paid for orders, and with the rewards   *)
(* that were credited, less what their reversals really took back.          *)
Booked(c) ==
    InitBalance[c] - spent[c]
    - Total(Price, ChargedTo(c))
    + Total(Reward, RewardsOf(c) \cap credited)
    - Total(clawed, RewardsOf(c))
===========================================================================
