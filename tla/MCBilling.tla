----------------------------- MODULE MCBilling -----------------------------
(***************************************************************************)
(* Two members of a team and two calls of the extension's API that may     *)
(* overlap.                                                                *)
(***************************************************************************)
EXTENDS ExtensionBilling, TLC

CONSTANTS c1, c2, u1, u2

MCQuota == [free |-> 1, paid |-> 1]
MCRoomyQuota == [free |-> 2, paid |-> 2]

(* Neither the calls nor the members are told apart.                        *)
Interchangeable == Permutations(Calls) \cup Permutations(Users)

(* Leaves out, for size, the bonus and a guest's device beside purchases,   *)
(* and a second purchase before the calls that handle the first one's       *)
(* events have started.                                                     *)
BillingBound ==
    /\ buys > 0 => db.claimed = {} /\ db.guest = 0
    /\ Cardinality(notices) <= 2
============================================================================
