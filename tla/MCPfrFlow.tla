----------------------------- MODULE MCPfrFlow -----------------------------
(* Instances of PfrFlow for TLC: b0, p0 are the firmware in service, b1, p1 *)
(* updates with a higher SVN, bh and ph updates that do not boot.           *)
EXTENDS PfrFlow

CONSTANTS b0, b1, bh, p0, p1, ph

Both        == [f \in Flashes |-> IF f = "bmc" THEN {b0, b1} ELSE {p0, p1}]
BmcUpdates  == [f \in Flashes |-> IF f = "bmc" THEN {b0, b1} ELSE {p0}]
AllHang     == [f \in Flashes |-> IF f = "bmc" THEN {b0, bh} ELSE {p0, ph}]
Fixed       == [f \in Flashes |-> IF f = "bmc" THEN {b0} ELSE {p0}]
MCSvn       == [i \in AllImages |-> IF i \in {b1, p1} THEN 1 ELSE 0]
MCHanging   == {bh, ph} \intersect AllImages
Anything    == [f \in Flashes |-> Capsules(f)]
StageHang   == [f \in Flashes |-> IF f = "bmc" THEN {b0, bh} ELSE {ph}]
OobNew      == {p1}
OobHang     == {ph}
L(p, f, t, i, h, b) ==
  [power |-> p, fault |-> f, timeout |-> t, intent |-> i, host |-> h, bmcReset |-> b]
Quiet    == {L(0, 0, 0, 1, 0, 0)}
PowerOob == {L(1, 0, 0, 2, 1, 0)}
\* two intents, or one beside a timer that expires early or a damaged flash
Timers   == {L(0, 0, 0, 2, 0, 0), L(0, 0, 1, 1, 0, 0), L(0, 1, 0, 1, 0, 0)}
Damage   == {L(0, 2, 0, 1, 0, 1)}
Fault1   == {L(0, 1, 1, 1, 0, 0)}
=============================================================================
