-------------------------- MODULE CpldUpdateProofs --------------------------
(***************************************************************************)
(* Type correctness and the safety properties of CpldUpdate, for every set *)
(* of images, every SVN assignment, every set of hanging images and every  *)
(* budget.                                                                 *)
(*                                                                         *)
(* No property of CpldUpdate is inductive: each speaks of one moment of an *)
(* update (the first word written back, the capsule promoted), while what  *)
(* makes it true was checked several steps, often a reconfiguration,       *)
(* earlier.  Four invariants carry the checks along:                       *)
(*   RunInv   what is known on every behaviour, damage and power loss      *)
(*            included: what runs is complete, what is copied from staging *)
(*            was found new enough;                                        *)
(*   FlagInv  what the bread crumb and the status word say of the staged   *)
(*            capsule, while no capsule is damaged from outside;           *)
(*   CopyInv  where a complete copy is, while the hardware watchdog trips  *)
(*            at most once on an image that works;                         *)
(*   BootInv  what the recovery capsule is, without power loss and damage. *)
(* RunInv is inductive by itself, FlagInv too; CopyInv and BootInv lean on *)
(* both.  TLC agrees on all four on the instance of MCCpldUpdate.          *)
(***************************************************************************)
EXTENDS CpldUpdate, TLAPS

RecoverSteps == {"romRecovery", "recCheck", "recErase", "recWrite"}
PromoteSteps == {"promoteErase", "promoteWrite", "promoteSvn", "promoteDone"}
CopySteps    == {"eraseLo", "eraseHi", "writeHi", "writeFirst"}
WaitSteps    == {"romWait", "romWaitCheck", "romFlag", "romCrumb"}

(***************************************************************************)
(* Type correctness.                                                       *)
(***************************************************************************)

\* A reconfiguration leaves the RAM and the mailbox within their types
\* (perform_cfm_switch; the BSP starts from zeroed memory).
LEMMA RamReset ==
  LoseRam => /\ src' \in {"staging", "recovery"}
             /\ ready' \in BOOLEAN /\ booted' \in BOOLEAN /\ guarded' \in BOOLEAN
             /\ intent' \in Intents
             /\ failed' \in Nat
<1>1. {} \in Intents
  BY DEF Intents
<1>2. LoseRam => ready' \in BOOLEAN /\ booted' \in BOOLEAN /\ guarded' \in BOOLEAN
  BY Zenon DEF LoseRam
<1>3. LoseRam => src' \in {"staging", "recovery"} /\ failed' \in Nat
  BY DEF LoseRam
<1> QED
  BY <1>1, <1>2, <1>3 DEF LoseRam

\* Every step of the two images, the BMC and the platform keeps the types.
LEMMA TypeStep == TypeOK /\ [Next]_vars => TypeOK'
<1> SUFFICES ASSUME TypeOK, [Next]_vars PROVE TypeOK'
  OBVIOUS
<1>a. {} \in Intents
  BY DEF Intents
<1> USE ImagesAssumption, RamReset, <1>a
    DEF TypeOK, flashVars, ramVars, Capsules, Content, RomSteps, Cfm1Steps,
        Events, Source, Bitstream
<1>1. CASE Tmin1
  BY <1>1, ZenonT(40) DEF Tmin1, Goto
<1>2. CASE PromoteErase
  BY <1>2 DEF PromoteErase, Goto
<1>3. CASE PromoteWrite
  BY <1>3 DEF PromoteWrite, Goto
<1>4. CASE PromoteSvn
  BY <1>4 DEF PromoteSvn, Goto, SvnFields
<1>5. CASE PromoteDone
  BY <1>5, ZenonT(40) DEF PromoteDone, Goto
<1>6. CASE ActIntent
  BY <1>6 DEF ActIntent, Goto, CountFailure
<1>7. CASE SetFlag
  BY <1>7 DEF SetFlag, Goto
<1>8. CASE SetCrumb
  BY <1>8 DEF SetCrumb, SwitchToCfm0, EnterRom
<1>9. CASE Protect
  BY <1>9 DEF Protect, Goto
<1>10. CASE T0Intent
  BY <1>10 DEF T0Intent, Goto
<1>11. CASE T0Post
  BY <1>11 DEF T0Post, Goto
<1>12. CASE RomEntry
  BY <1>12 DEF RomEntry, Goto, SwitchToCfm1, EnterRom
<1>13. CASE RomUpdate
  BY <1>13 DEF RomUpdate, Goto, SwitchToCfm1, EnterRom, SvnFields
<1>14. CASE RomRecovery
  BY <1>14, ZenonT(40) DEF RomRecovery, Goto
<1>15. CASE RecCheck
  BY <1>15 DEF RecCheck, Goto
<1>16. CASE RecErase
  BY <1>16 DEF RecErase, Goto
<1>17. CASE RecWrite
  BY <1>17 DEF RecWrite, Goto
<1>18. CASE EraseLo
  BY <1>18 DEF EraseLo, Goto
<1>19. CASE EraseHi
  BY <1>19 DEF EraseHi, Goto
<1>20. CASE WriteHi
  BY <1>20 DEF WriteHi, Goto
<1>21. CASE WriteFirst
  BY <1>21 DEF WriteFirst, EnterRom
<1>22. CASE RomWait
  BY <1>22 DEF RomWait, Goto
<1>23. CASE RomWaitCheck
  BY <1>23 DEF RomWaitCheck, Goto, CountFailure
<1>24. CASE BootCompletes
  BY <1>24 DEF BootCompletes
<1>25. CASE HangTrips
  BY <1>25 DEF HangTrips, EnterRom
<1>26. CASE BmcStages
  BY <1>26 DEF BmcStages
<1>27. CASE BmcPostsIntent
  BY <1>27 DEF BmcPostsIntent, Use
<1>28. CASE PowerLoss
  BY <1>28 DEF PowerLoss, Use, EnterRom
<1>29. CASE WatchdogTrips
  BY <1>29 DEF WatchdogTrips, Use, EnterRom
<1>30. CASE FlashFault
  BY <1>30 DEF FlashFault, Use
<1>31. CASE UNCHANGED vars
  BY <1>31 DEF vars
<1> QED
  BY <1>1, <1>2, <1>3, <1>4, <1>5, <1>6, <1>7, <1>8, <1>9, <1>10, <1>11,
     <1>12, <1>13, <1>14, <1>15, <1>16, <1>17, <1>18, <1>19, <1>20, <1>21, <1>22,
     <1>23, <1>24, <1>25, <1>26, <1>27, <1>28, <1>29, <1>30, <1>31
     DEF Next, NiosStep, EnvStep

\* The state of the CPLD image and of the two capsules stays within its types
\* in every behaviour of the firmware, whatever the BMC stages.
THEOREM TypeCorrect == Spec => []TypeOK
<1>1. Init => TypeOK
  <2> SUFFICES ASSUME Init PROVE TypeOK
    OBVIOUS
  <2>1. intent \in Intents
    BY DEF Init, Intents
  <2>2. crumb \in BOOLEAN /\ rcFlag \in BOOLEAN /\ ready \in BOOLEAN
        /\ booted \in BOOLEAN /\ guarded \in BOOLEAN
    BY Zenon DEF Init
  <2>3. used \in [Events -> Nat]
    BY DEF Init
  <2> QED
    BY <2>1, <2>2, <2>3, ImagesAssumption
       DEF Init, TypeOK, Content, Capsules, RomSteps, Cfm1Steps
<1> QED
  BY <1>1, TypeStep, PTL DEF Spec

(***************************************************************************)
(* What holds whatever is damaged and whenever the power fails.            *)
(***************************************************************************)

\* 1: the active image only runs complete; 2: past T-1 it does not hang;
\* 3: the first word is written after the rest of the same source; 4: what the
\* ROM image copies from staging passed the SVN check, and nobody can restage
\* while the BMC is in reset; 5: the repair of the recovery capsule is part of
\* a recovery.
RunInv ==
  /\ pc \in Cfm1Steps => Bootable
  /\ pc \in Cfm1Steps \ {"tmin1"} => lo \notin Hanging
  /\ pc = "writeFirst" => Source \in {hi, NoImage}
  /\ pc \in CopySteps /\ src = "staging" /\ staging \in Images => SvnOk(staging)
  /\ pc \in {"recErase", "recWrite"} => src = "recovery"

\* RunInv is inductive: the copy (EraseLo to WriteFirst) is the part that needs
\* its clauses together.
LEMMA RunStep == TypeOK /\ RunInv /\ [Next]_vars => RunInv'
<1> SUFFICES ASSUME TypeOK, RunInv, [Next]_vars PROVE RunInv'
  OBVIOUS
<1> USE ImagesAssumption
    DEF TypeOK, RunInv, flashVars, ramVars, Capsules, Content, RomSteps,
        Cfm1Steps, CopySteps, Source, Bitstream, Bootable, SvnOk, BmcRunning
<1>1. CASE Tmin1
  BY <1>1 DEF Tmin1, Goto
<1>2. CASE PromoteErase
  BY <1>2 DEF PromoteErase, Goto
<1>3. CASE PromoteWrite
  BY <1>3 DEF PromoteWrite, Goto
<1>4. CASE PromoteSvn
  BY <1>4 DEF PromoteSvn, Goto, SvnFields
<1>5. CASE PromoteDone
  BY <1>5 DEF PromoteDone, Goto
<1>6. CASE ActIntent
  BY <1>6 DEF ActIntent, Goto, CountFailure
<1>7. CASE SetFlag
  BY <1>7 DEF SetFlag, Goto
<1>8. CASE SetCrumb
  BY <1>8 DEF SetCrumb, SwitchToCfm0, EnterRom, LoseRam
<1>9. CASE Protect
  BY <1>9 DEF Protect, Goto
<1>10. CASE T0Intent
  BY <1>10 DEF T0Intent, Goto
<1>11. CASE T0Post
  BY <1>11 DEF T0Post, Goto
<1>12. CASE RomEntry
  BY <1>12 DEF RomEntry, Goto, SwitchToCfm1, EnterRom, LoseRam
<1>13. CASE RomUpdate
  BY <1>13 DEF RomUpdate, Goto, SwitchToCfm1, EnterRom, LoseRam, SvnFields
<1>14. CASE RomRecovery
  BY <1>14 DEF RomRecovery, Goto
<1>15. CASE RecCheck
  BY <1>15 DEF RecCheck, Goto
<1>16. CASE RecErase
  BY <1>16 DEF RecErase, Goto
<1>17. CASE RecWrite
  BY <1>17 DEF RecWrite, Goto
<1>18. CASE EraseLo
  BY <1>18 DEF EraseLo, Goto
<1>19. CASE EraseHi
  BY <1>19 DEF EraseHi, Goto
<1>20. CASE WriteHi
  BY <1>20 DEF WriteHi, Goto
<1>21. CASE WriteFirst
  BY <1>21 DEF WriteFirst, EnterRom, LoseRam
<1>22. CASE RomWait
  BY <1>22 DEF RomWait, Goto
<1>23. CASE RomWaitCheck
  BY <1>23 DEF RomWaitCheck, Goto, CountFailure
<1>24. CASE BootCompletes
  BY <1>24 DEF BootCompletes
<1>25. CASE HangTrips
  BY <1>25 DEF HangTrips, EnterRom, LoseRam
<1>26. CASE BmcStages
  BY <1>26 DEF BmcStages
<1>27. CASE BmcPostsIntent
  BY <1>27 DEF BmcPostsIntent, Use
<1>28. CASE PowerLoss
  BY <1>28 DEF PowerLoss, Use, EnterRom, LoseRam
<1>29. CASE WatchdogTrips
  BY <1>29 DEF WatchdogTrips, Use, EnterRom, LoseRam
<1>30. CASE FlashFault
  BY <1>30 DEF FlashFault, Use
<1>31. CASE UNCHANGED vars
  BY <1>31 DEF vars
<1> QED
  BY <1>1, <1>2, <1>3, <1>4, <1>5, <1>6, <1>7, <1>8, <1>9, <1>10, <1>11,
     <1>12, <1>13, <1>14, <1>15, <1>16, <1>17, <1>18, <1>19, <1>20, <1>21, <1>22,
     <1>23, <1>24, <1>25, <1>26, <1>27, <1>28, <1>29, <1>30, <1>31
     DEF Next, NiosStep, EnvStep

\* No image runs from a CFM1 that is not complete.
THEOREM RunsComplete == Spec => [](TypeOK /\ RunInv)
<1>1. Init => RunInv
  BY DEF Init, RunInv, Cfm1Steps, CopySteps
<1> QED
  BY <1>1, TypeCorrect, RunStep, PTL DEF Spec

\* The first word of CFM1 never makes an image below the anti-rollback number
\* bootable: the SVN was read before the copy, and still holds at its end.
THEOREM NeverRollsBack == Spec => UpdateNeverRollsBack
<1>1. TypeOK /\ RunInv /\ [Next]_vars
        => [pc = "writeFirst" /\ src = "staging" /\ pc' = "tmin1"
              => Svn[lo'] >= svn]_vars
  <2> SUFFICES ASSUME TypeOK, RunInv, Next,
                      pc = "writeFirst", src = "staging", pc' = "tmin1"
               PROVE  Svn[lo'] >= svn
    BY DEF vars
  <2>1. WriteFirst
    BY DEF Next, NiosStep, EnvStep, Tmin1, PromoteErase, PromoteWrite,
           PromoteSvn, PromoteDone, ActIntent, SetFlag, SetCrumb, Protect,
           T0Intent, T0Post, RomEntry, RomUpdate, RomRecovery, RecCheck,
           RecErase, RecWrite, EraseLo, EraseHi, WriteHi, RomWait,
           RomWaitCheck, BootCompletes, HangTrips, BmcStages, BmcPostsIntent,
           PowerLoss, WatchdogTrips, FlashFault, BmcRunning, EnterRom
  <2>2. lo' = staging /\ staging \in Images
    BY <2>1, ImagesAssumption DEF WriteFirst, Source, Bitstream, EnterRom
  <2> QED
    BY <2>2 DEF RunInv, CopySteps, SvnOk
<1> QED
  BY <1>1, RunsComplete, PTL DEF Spec, UpdateNeverRollsBack

(***************************************************************************)
(* What the bread crumb and the status word say of the staged capsule.     *)
(***************************************************************************)

\* While no capsule is damaged, the bread crumb and the status word each vouch
\* for the staged capsule: it is a CPLD capsule, and not older than the policy
\* asks.  They can, because the staging region is write protected whenever the
\* status word is set and the BMC runs, and because the ROM image clears the
\* status word before it lets the BMC run or writes the recovery region.
FlagInv == used["fault"] = 0 =>
  /\ crumb =>
       /\ SvnOk(staging) /\ reason = "powerUpOrSwitch"
       /\ pc \in {"romEntry", "romUpdate", "eraseLo", "eraseHi"}
       /\ pc \in CopySteps => src = "staging"
  /\ pc = "romUpdate" => crumb
  /\ pc = "romRecovery" => reason = "fallback"
  /\ rcFlag => SvnOk(staging)
  /\ rcFlag /\ BmcRunning => guarded
  /\ pc \in {"recCheck", "recErase", "recWrite", "romWait", "romWaitCheck",
             "romFlag"} => ~rcFlag
  /\ pc \in {"setFlag", "setCrumb", "romFlag", "romCrumb"} => SvnOk(staging)
  /\ pc \in PromoteSteps => rcFlag
  /\ ready => rcFlag /\ pc \in Cfm1Steps
  /\ pc \in CopySteps => IF src = "staging" THEN SvnOk(staging) ELSE ~rcFlag
  /\ pc \in {"recErase", "recWrite"} => recovery = NoImage /\ src = "recovery"

\* FlagInv is inductive.
LEMMA FlagStep == TypeOK /\ FlagInv /\ [Next]_vars => FlagInv'
<1> SUFFICES ASSUME TypeOK, FlagInv, [Next]_vars PROVE FlagInv'
  OBVIOUS
<1> USE ImagesAssumption
    DEF TypeOK, FlagInv, flashVars, ramVars, Capsules, RomSteps, Cfm1Steps,
        CopySteps, PromoteSteps, SvnOk, Signed, Events, BmcRunning
<1>1. CASE Tmin1
  BY <1>1 DEF Tmin1, Goto
<1>2. CASE PromoteErase
  BY <1>2 DEF PromoteErase, Goto
<1>3. CASE PromoteWrite
  BY <1>3 DEF PromoteWrite, Goto
<1>4. CASE PromoteSvn
  BY <1>4 DEF PromoteSvn, Goto, SvnFields
<1>5. CASE PromoteDone
  BY <1>5 DEF PromoteDone, Goto
<1>6. CASE ActIntent
  BY <1>6 DEF ActIntent, Goto, CountFailure
<1>7. CASE SetFlag
  BY <1>7 DEF SetFlag, Goto
<1>8. CASE SetCrumb
  BY <1>8 DEF SetCrumb, SwitchToCfm0, EnterRom, LoseRam
<1>9. CASE Protect
  BY <1>9 DEF Protect, Goto
<1>10. CASE T0Intent
  BY <1>10 DEF T0Intent, Goto
<1>11. CASE T0Post
  BY <1>11 DEF T0Post, Goto
<1>12. CASE RomEntry
  BY <1>12 DEF RomEntry, Goto, SwitchToCfm1, EnterRom, LoseRam
<1>13. CASE RomUpdate
  BY <1>13 DEF RomUpdate, Goto, SwitchToCfm1, EnterRom, LoseRam, SvnFields
<1>14. CASE RomRecovery
  BY <1>14 DEF RomRecovery, Goto
<1>15. CASE RecCheck
  BY <1>15 DEF RecCheck, Goto
<1>16. CASE RecErase
  BY <1>16 DEF RecErase, Goto
<1>17. CASE RecWrite
  BY <1>17 DEF RecWrite, Goto
<1>18. CASE EraseLo
  BY <1>18 DEF EraseLo, Goto
<1>19. CASE EraseHi
  BY <1>19 DEF EraseHi, Goto
<1>20. CASE WriteHi
  BY <1>20 DEF WriteHi, Goto
<1>21. CASE WriteFirst
  BY <1>21 DEF WriteFirst, EnterRom, LoseRam
<1>22. CASE RomWait
  BY <1>22 DEF RomWait, Goto
<1>23. CASE RomWaitCheck
  BY <1>23 DEF RomWaitCheck, Goto, CountFailure
<1>24. CASE BootCompletes
  BY <1>24 DEF BootCompletes
<1>25. CASE HangTrips
  BY <1>25 DEF HangTrips, EnterRom, LoseRam
<1>26. CASE BmcStages
  BY <1>26 DEF BmcStages
<1>27. CASE BmcPostsIntent
  BY <1>27 DEF BmcPostsIntent, Use
<1>28. CASE PowerLoss
  BY <1>28 DEF PowerLoss, Use, EnterRom, LoseRam
<1>29. CASE WatchdogTrips
  BY <1>29 DEF WatchdogTrips, Use, EnterRom, LoseRam
<1>30. CASE FlashFault
  BY <1>30 DEF FlashFault, Use
<1>31. CASE UNCHANGED vars
  BY <1>31 DEF vars
<1> QED
  BY <1>1, <1>2, <1>3, <1>4, <1>5, <1>6, <1>7, <1>8, <1>9, <1>10, <1>11,
     <1>12, <1>13, <1>14, <1>15, <1>16, <1>17, <1>18, <1>19, <1>20, <1>21, <1>22,
     <1>23, <1>24, <1>25, <1>26, <1>27, <1>28, <1>29, <1>30, <1>31
     DEF Next, NiosStep, EnvStep

\* The bread crumb and the status word are never set, nor left set, over a
\* capsule that perform_update_post_reconfig or the T-1 promotion should not
\* take.
THEOREM FlagsVouch == Spec => [](TypeOK /\ RunInv /\ FlagInv)
<1>1. Init => FlagInv
  BY DEF Init, FlagInv, Cfm1Steps, CopySteps, PromoteSteps, BmcRunning
<1> QED
  BY <1>1, RunsComplete, FlagStep, PTL DEF Spec

(***************************************************************************)
(* Where a complete copy is, with power losses and one watchdog trip.      *)
(***************************************************************************)

\* The recovery capsule is erased in two places: by the promotion, with the
\* status word set, and by the repair of a bad recovery capsule, which needs the
\* staged one.  In between the staged capsule is the copy; the clauses after
\* "recovery = NoImage" say how long the firmware knows it: an image that was
\* just running is bootable, and only an image that hangs comes back into the
\* recovery flow without a trip.
CopyInv == used["fault"] = 0 /\ used["trip"] <= 1 =>
  /\ recovery \in Images \union {NoImage}
  /\ pc \in {"promoteSvn", "promoteDone"} => recovery = staging
  /\ pc \notin WaitSteps
  /\ pc \in CopySteps /\ src = "recovery" => recovery \in Images
  /\ reason = "fallback" /\ used["trip"] = 0 /\ Bootable
       /\ pc \in RecoverSteps \union {"romEntry"} => lo \in Hanging
  /\ recovery = NoImage /\ ~rcFlag =>
       /\ pc \in RecoverSteps => staging \in Images
       /\ pc = "romEntry" /\ reason = "fallback" => staging \in Images
       /\ pc = "romEntry" => staging \in Images \/ (Bootable /\ lo \notin Hanging)
       /\ pc = "tmin1" /\ lo \in Hanging => staging \in Images
       /\ used["trip"] = 0 =>
            /\ staging \in Images
            /\ pc \in RecoverSteps \union {"romEntry", "tmin1"}
            /\ ~crumb /\ (Bootable => lo \in Hanging)

\* CopyInv is inductive relative to RunInv and FlagInv.
LEMMA CopyStep == TypeOK /\ RunInv /\ FlagInv /\ CopyInv /\ [Next]_vars => CopyInv'
<1> SUFFICES ASSUME TypeOK, RunInv, FlagInv, CopyInv, [Next]_vars PROVE CopyInv'
  OBVIOUS
<1> USE ImagesAssumption
    DEF TypeOK, RunInv, FlagInv, CopyInv, flashVars, ramVars, Capsules, Content,
        RomSteps, Cfm1Steps, CopySteps, PromoteSteps, RecoverSteps, WaitSteps,
        SvnOk, Signed, Events, BmcRunning, Bootable, Source, Bitstream
<1>1. CASE Tmin1
  BY <1>1 DEF Tmin1, Goto
<1>2. CASE PromoteErase
  BY <1>2 DEF PromoteErase, Goto
<1>3. CASE PromoteWrite
  BY <1>3 DEF PromoteWrite, Goto
<1>4. CASE PromoteSvn
  BY <1>4 DEF PromoteSvn, Goto, SvnFields
<1>5. CASE PromoteDone
  BY <1>5 DEF PromoteDone, Goto
<1>6. CASE ActIntent
  BY <1>6 DEF ActIntent, Goto, CountFailure
<1>7. CASE SetFlag
  BY <1>7 DEF SetFlag, Goto
<1>8. CASE SetCrumb
  BY <1>8 DEF SetCrumb, SwitchToCfm0, EnterRom, LoseRam
<1>9. CASE Protect
  BY <1>9 DEF Protect, Goto
<1>10. CASE T0Intent
  BY <1>10 DEF T0Intent, Goto
<1>11. CASE T0Post
  BY <1>11 DEF T0Post, Goto
<1>12. CASE RomEntry
  BY <1>12 DEF RomEntry, Goto, SwitchToCfm1, EnterRom, LoseRam
<1>13. CASE RomUpdate
  BY <1>13 DEF RomUpdate, Goto, SwitchToCfm1, EnterRom, LoseRam, SvnFields
<1>14. CASE RomRecovery
  BY <1>14 DEF RomRecovery, Goto
<1>15. CASE RecCheck
  BY <1>15 DEF RecCheck, Goto
<1>16. CASE RecErase
  BY <1>16 DEF RecErase, Goto
<1>17. CASE RecWrite
  BY <1>17 DEF RecWrite, Goto
<1>18. CASE EraseLo
  BY <1>18 DEF EraseLo, Goto
<1>19. CASE EraseHi
  BY <1>19 DEF EraseHi, Goto
<1>20. CASE WriteHi
  BY <1>20 DEF WriteHi, Goto
<1>21. CASE WriteFirst
  BY <1>21 DEF WriteFirst, EnterRom, LoseRam
<1>22. CASE RomWait
  BY <1>22 DEF RomWait, Goto
<1>23. CASE RomWaitCheck
  BY <1>23 DEF RomWaitCheck, Goto, CountFailure
<1>24. CASE BootCompletes
  BY <1>24 DEF BootCompletes
<1>25. CASE HangTrips
  BY <1>25 DEF HangTrips, EnterRom, LoseRam
<1>26. CASE BmcStages
  BY <1>26 DEF BmcStages
<1>27. CASE BmcPostsIntent
  BY <1>27 DEF BmcPostsIntent, Use
<1>28. CASE PowerLoss
  BY <1>28 DEF PowerLoss, Use, EnterRom, LoseRam
<1>29. CASE WatchdogTrips
  BY <1>29 DEF WatchdogTrips, Use, EnterRom, LoseRam
<1>30. CASE FlashFault
  BY <1>30 DEF FlashFault, Use
<1>31. CASE UNCHANGED vars
  BY <1>31 DEF vars
<1> QED
  BY <1>1, <1>2, <1>3, <1>4, <1>5, <1>6, <1>7, <1>8, <1>9, <1>10, <1>11,
     <1>12, <1>13, <1>14, <1>15, <1>16, <1>17, <1>18, <1>19, <1>20, <1>21, <1>22,
     <1>23, <1>24, <1>25, <1>26, <1>27, <1>28, <1>29, <1>30, <1>31
     DEF Next, NiosStep, EnvStep

(***************************************************************************)
(* What the recovery capsule is, without power loss and damage.            *)
(***************************************************************************)

\* Without power loss the status word survives in the active image only if the
\* staged capsule is what runs, so that promoting it promotes what ran; and the
\* recovery capsule is absent only in the promotion's two steps and in a
\* recovery flow that still has the staged capsule.
BootInv == Undisturbed =>
  /\ recovery \in (Images \ Hanging) \union {NoImage}
  /\ recovery \in Images => SvnOk(recovery)
  /\ pc \in Cfm1Steps => SvnOk(lo)
  /\ rcFlag /\ pc \in Cfm1Steps \ {"setCrumb"} => staging = lo
  /\ pc \in {"promoteSvn", "promoteDone"} => recovery = staging
  /\ recovery = NoImage =>
       \/ pc = "promoteWrite"
       \/ /\ pc \in RecoverSteps \union {"romEntry"} /\ reason = "fallback"
          /\ SvnOk(staging) /\ staging \notin Hanging
  /\ pc = "romEntry" /\ reason = "powerUpOrSwitch" /\ ~crumb
       => ~rcFlag /\ Bootable /\ SvnOk(lo)
  /\ pc \notin WaitSteps
  /\ pc \in CopySteps /\ src = "recovery" => recovery \in Images

\* BootInv is inductive relative to RunInv and FlagInv.
LEMMA BootStep == TypeOK /\ RunInv /\ FlagInv /\ BootInv /\ [Next]_vars => BootInv'
<1> SUFFICES ASSUME TypeOK, RunInv, FlagInv, BootInv, [Next]_vars PROVE BootInv'
  OBVIOUS
<1> USE ImagesAssumption
    DEF TypeOK, RunInv, FlagInv, BootInv, Undisturbed, flashVars, ramVars,
        Capsules, Content, RomSteps, Cfm1Steps, CopySteps, PromoteSteps,
        RecoverSteps, WaitSteps, SvnOk, Signed, Events, BmcRunning, Bootable,
        Source, Bitstream
<1>1. CASE Tmin1
  BY <1>1 DEF Tmin1, Goto
<1>2. CASE PromoteErase
  BY <1>2 DEF PromoteErase, Goto
<1>3. CASE PromoteWrite
  BY <1>3 DEF PromoteWrite, Goto
<1>4. CASE PromoteSvn
  BY <1>4 DEF PromoteSvn, Goto, SvnFields
<1>5. CASE PromoteDone
  BY <1>5 DEF PromoteDone, Goto
<1>6. CASE ActIntent
  BY <1>6 DEF ActIntent, Goto, CountFailure
<1>7. CASE SetFlag
  BY <1>7 DEF SetFlag, Goto
<1>8. CASE SetCrumb
  BY <1>8 DEF SetCrumb, SwitchToCfm0, EnterRom, LoseRam
<1>9. CASE Protect
  BY <1>9 DEF Protect, Goto
<1>10. CASE T0Intent
  BY <1>10 DEF T0Intent, Goto
<1>11. CASE T0Post
  BY <1>11 DEF T0Post, Goto
<1>12. CASE RomEntry
  BY <1>12 DEF RomEntry, Goto, SwitchToCfm1, EnterRom, LoseRam
<1>13. CASE RomUpdate
  BY <1>13 DEF RomUpdate, Goto, SwitchToCfm1, EnterRom, LoseRam, SvnFields
<1>14. CASE RomRecovery
  BY <1>14 DEF RomRecovery, Goto
<1>15. CASE RecCheck
  BY <1>15 DEF RecCheck, Goto
<1>16. CASE RecErase
  BY <1>16 DEF RecErase, Goto
<1>17. CASE RecWrite
  BY <1>17 DEF RecWrite, Goto
<1>18. CASE EraseLo
  BY <1>18 DEF EraseLo, Goto
<1>19. CASE EraseHi
  BY <1>19 DEF EraseHi, Goto
<1>20. CASE WriteHi
  BY <1>20 DEF WriteHi, Goto
<1>21. CASE WriteFirst
  BY <1>21 DEF WriteFirst, EnterRom, LoseRam
<1>22. CASE RomWait
  BY <1>22 DEF RomWait, Goto
<1>23. CASE RomWaitCheck
  BY <1>23 DEF RomWaitCheck, Goto, CountFailure
<1>24. CASE BootCompletes
  BY <1>24 DEF BootCompletes
<1>25. CASE HangTrips
  BY <1>25 DEF HangTrips, EnterRom, LoseRam
<1>26. CASE BmcStages
  BY <1>26 DEF BmcStages
<1>27. CASE BmcPostsIntent
  BY <1>27 DEF BmcPostsIntent, Use
<1>28. CASE PowerLoss
  BY <1>28 DEF PowerLoss, Use, EnterRom, LoseRam
<1>29. CASE WatchdogTrips
  BY <1>29 DEF WatchdogTrips, Use, EnterRom, LoseRam
<1>30. CASE FlashFault
  BY <1>30 DEF FlashFault, Use
<1>31. CASE UNCHANGED vars
  BY <1>31 DEF vars
<1> QED
  BY <1>1, <1>2, <1>3, <1>4, <1>5, <1>6, <1>7, <1>8, <1>9, <1>10, <1>11,
     <1>12, <1>13, <1>14, <1>15, <1>16, <1>17, <1>18, <1>19, <1>20, <1>21, <1>22,
     <1>23, <1>24, <1>25, <1>26, <1>27, <1>28, <1>29, <1>30, <1>31
     DEF Next, NiosStep, EnvStep

IInv == TypeOK /\ RunInv /\ FlagInv /\ CopyInv /\ BootInv

\* The four invariants together are an inductive invariant of the component.
THEOREM Inductive == Spec => []IInv
<1>1. Init => CopyInv
  BY ImagesAssumption
     DEF Init, CopyInv, Events, CopySteps, RecoverSteps, WaitSteps, Bootable
<1>2. Init => BootInv
  BY ImagesAssumption
     DEF Init, BootInv, Undisturbed, Events, Cfm1Steps, CopySteps, RecoverSteps,
         WaitSteps, SvnOk, Bootable
<1> QED
  BY <1>1, <1>2, FlagsVouch, CopyStep, BootStep, PTL DEF Spec, IInv

\* However the power fails during an update, a complete CPLD image is left
\* somewhere: the active one, the recovery capsule, or the staged capsule.
THEOREM CopyComplete == Spec => []SomeCopyComplete
<1>1. IInv => SomeCopyComplete
  <2> SUFFICES ASSUME IInv, used["fault"] = 0,
                      ~Bootable, recovery \notin Images,
                      used["power"] = 0 \/ used["trip"] <= 1
               PROVE  staging \in Images
    BY DEF SomeCopyComplete
  <2> USE DEF IInv
  <2>1. CASE used["trip"] <= 1
    <3>1. recovery = NoImage /\ pc \notin Cfm1Steps
      BY <2>1 DEF CopyInv, RunInv
    <3>2. CASE rcFlag
      BY <3>2 DEF FlagInv, SvnOk
    <3>3. CASE ~rcFlag
      BY <2>1, <3>1, <3>3
         DEF TypeOK, CopyInv, FlagInv, SvnOk, RomSteps, CopySteps, WaitSteps,
             RecoverSteps
    <3> QED
      BY <3>2, <3>3
  <2>2. CASE used["power"] = 0
    <3>1. recovery = NoImage
      BY <2>2 DEF BootInv, Undisturbed
    <3>2. CASE pc = "promoteWrite"
      BY <3>2 DEF RunInv, Cfm1Steps
    <3>3. CASE pc # "promoteWrite"
      BY <2>2, <3>1, <3>3 DEF BootInv, Undisturbed, SvnOk
    <3> QED
      BY <3>2, <3>3
  <2> QED
    BY <2>1, <2>2
<1> QED
  BY <1>1, Inductive, PTL

\* Without power loss and damage the capsule perform_cpld_recovery falls back to
\* is never an image that hangs.
THEOREM RecoveryCapsuleBoots == Spec => []RecoveryBoots
<1>1. IInv => RecoveryBoots
  BY ImagesAssumption DEF IInv, BootInv, RecoveryBoots
<1> QED
  BY <1>1, Inductive, PTL

\* Without power loss and damage neither the running image nor the recovery
\* capsule falls below the anti-rollback number.
THEOREM SvnCovered == Spec => []SvnFloorCovered
<1>1. IInv => SvnFloorCovered
  BY DEF IInv, BootInv, SvnFloorCovered, SvnOk
<1> QED
  BY <1>1, Inductive, PTL

\* Without power loss and damage perform_cpld_recovery_update only ever promotes
\* the image that is running.
THEOREM PromotesWhatRan == Spec => PromotesOnlyWhatRan
<1>1. IInv /\ [Next]_vars
        => [pc = "promoteWrite" /\ pc' = "promoteSvn" /\ Undisturbed
              => recovery' = lo]_vars
  <2> SUFFICES ASSUME IInv, Next, Undisturbed,
                      pc = "promoteWrite", pc' = "promoteSvn"
               PROVE  recovery' = lo
    BY DEF vars
  <2>1. PromoteWrite
    BY DEF Next, NiosStep, EnvStep, Tmin1, PromoteErase, PromoteSvn,
           PromoteDone, ActIntent, SetFlag, SetCrumb, Protect, T0Intent,
           T0Post, RomEntry, RomUpdate, RomRecovery, RecCheck, RecErase,
           RecWrite, EraseLo, EraseHi, WriteHi, WriteFirst, RomWait,
           RomWaitCheck, BootCompletes, HangTrips, BmcStages, BmcPostsIntent,
           PowerLoss, WatchdogTrips, FlashFault, BmcRunning, EnterRom, Cfm1Steps
  <2>2. staging = lo
    BY DEF IInv, FlagInv, BootInv, Undisturbed, PromoteSteps, Cfm1Steps
  <2> QED
    BY <2>1, <2>2 DEF PromoteWrite
<1> QED
  BY <1>1, Inductive, PTL DEF Spec, PromotesOnlyWhatRan
=============================================================================
