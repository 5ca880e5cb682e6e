------------------------ MODULE MCOfficeAndRewards ------------------------
(***************************************************************************)
(* The scenes of MCBackOffice and the accounts of MCRewards in one run:    *)
(* they share neither state nor steps.                                     *)
(***************************************************************************)
EXTENDS MCBackOffice, MCRewards

VARIABLE part

wholeVars == <<officeVars, rewardsVars, part>>

WholeInit ==
    /\ OfficeInit
    /\ RewardsInit
    /\ part \in {"office", "rewards"}
    /\ part = "rewards" => scene = "recovery"

WholeNext ==
    /\ UNCHANGED part
    /\ \/ part = "office" /\ OfficeNext /\ UNCHANGED rewardsVars
       \/ part = "rewards" /\ RewardsNext /\ UNCHANGED officeVars

(* Nothing the fairness is about is enabled in the part of the rewards.     *)
WholeSpec == WholeInit /\ [][WholeNext]_wholeVars /\ SceneFairness
===========================================================================
