-------------------------- MODULE MCUpgradeRollout --------------------------
(* An instance of UpgradeRollout for TLC: beside the installed program one   *)
(* that works, one that ends at once and one that hangs.                     *)
EXTENDS UpgradeRollout

CONSTANTS first, good, dud, hung, file
=============================================================================
