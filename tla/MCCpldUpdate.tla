---------------------------- MODULE MCCpldUpdate ----------------------------
(* Instance of CpldUpdate for TLC: three images, two SVNs, one that hangs. *)
EXTENDS CpldUpdate

CONSTANTS old, new, bad

MCImages  == {old, new, bad}
MCSvn     == [im \in MCImages |-> IF im = old THEN 0 ELSE 1]
MCHanging == {bad}
MCJunkSvns == {0, 32}

Budget(p, t, f, i) ==
  [power |-> p, trip |-> t, fault |-> f, intent |-> i]

\* power failing twice, trips alone, and one of each
MCBudgets     == {Budget(2, 1, 0, 2), Budget(0, 2, 0, 2), Budget(1, 1, 1, 2)}
OnePowerLoss  == {Budget(1, 0, 0, 1)}
PowerAndTrips == {Budget(1, 2, 0, 1)}
=============================================================================
