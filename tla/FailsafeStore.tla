--------------------------- MODULE FailsafeStore ---------------------------
(***************************************************************************)
(* What the platform promises of one flash: firmware in service, a copy to *)
(* go back to, and an anti-rollback floor.  A copy is only taken apart     *)
(* while the other one is complete, the copy to go back to is only ever    *)
(* replaced by the firmware in service, and the floor stays at or below    *)
(* both.  PfrFlow implements it for the BMC and the PCH flash.             *)
(***************************************************************************)
EXTENDS Naturals

CONSTANTS
  Images,   \* complete firmware
  Svn,      \* the security version number of each
  Bad       \* erased or half-written content

\* what an instance must bring along
StoreAssumption ==
  /\ Bad \notin Images
  /\ \A i \in Images : Svn[i] \in Nat

VARIABLES active, recovery, floor
store == <<active, recovery, floor>>

Allowed(i) == i \in Images /\ Svn[i] >= floor

Init ==
  /\ active \in Images /\ recovery \in Images
  /\ floor \in 0..Svn[active] /\ Svn[recovery] >= floor

\* an update or a restore erases the firmware in service ...
TakeApart ==
  /\ recovery \in Images /\ active' = Bad
  /\ UNCHANGED <<recovery, floor>>

\* ... and puts complete firmware in its place
Install ==
  /\ active = Bad /\ recovery \in Images
  /\ active' \in {i \in Images : Allowed(i)}
  /\ UNCHANGED <<recovery, floor>>

\* promotion erases the copy to go back to ...
Discard ==
  /\ active \in Images /\ recovery' = Bad
  /\ UNCHANGED <<active, floor>>

\* ... and replaces it with the firmware in service
Promote ==
  /\ active \in Images /\ recovery = Bad
  /\ recovery' = active
  /\ UNCHANGED <<active, floor>>

\* the SVN policy follows once both are new enough
Raise ==
  /\ active \in Images /\ recovery \in Images
  /\ floor' \in floor..Svn[active] /\ Svn[recovery] >= floor'
  /\ UNCHANGED <<active, recovery>>

Next == TakeApart \/ Install \/ Discard \/ Promote \/ Raise

Spec == Init /\ [][Next]_store

\* One of the two copies is complete at any time, and no complete copy is below
\* the anti-rollback floor: what perform_active_firmware_update,
\* perform_firmware_recovery_update and authenticate_and_recover_spi_flash keep
\* between them, whichever write the power fails in.
Safe ==
  /\ active \in Images \/ recovery \in Images
  /\ active \in Images => Svn[active] >= floor
  /\ recovery \in Images => Svn[recovery] >= floor

=============================================================================
