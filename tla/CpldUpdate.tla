----------------------------- MODULE CpldUpdate -----------------------------
(***************************************************************************)
(* The CPLD's own image: the dual-configuration flash (CFM0 = ROM image,   *)
(* CFM1 = active image), the staged and the recovery CPLD capsules in the  *)
(* BMC flash, and the firmware that moves images between them:             *)
(*   pfr_main.h, t0_update.h, tmin1_update.h   (active image, CFM1)        *)
(*   recovery_main.h, cpld_recovery.h          (ROM image, CFM0)           *)
(*   cpld_update.h, cpld_reconfig.h            (both)                      *)
(* One action is one write to non-volatile storage, so that a power loss   *)
(* or a reconfiguration may come between any two of them.                  *)
(***************************************************************************)
EXTENDS Naturals, FiniteSets

CONSTANTS
  Images,       \* CPLD bitstreams that exist as signed update capsules
  Svn,          \* the SVN of each image, within the 8 bits is_svn_valid looks at
  Hanging,      \* images that never pet the hardware watchdog
  NoImage,      \* erased, half-written or damaged content
  Cert,         \* a signed capsule that carries no bitstream
  JunkSvns,     \* numbers found where a capsule without bitstream has no SVN
  MaxFailed,    \* MAX_FAILED_UPDATE_ATTEMPTS_FROM_BMC
  Budgets       \* bounds: how many power losses, hardware watchdog trips of an
                \* image that is not Hanging, flash regions damaged from outside
                \* and update intents one behaviour may have together

ASSUME ImagesAssumption ==
  /\ NoImage \notin Images /\ Cert \notin Images /\ Cert # NoImage
  /\ Hanging \subseteq Images
  /\ Svn \in [Images -> 0..255]
  /\ JunkSvns \subseteq Nat /\ JunkSvns # {}
ASSUME BoundsAssumption ==
  /\ MaxFailed \in Nat
  /\ Budgets \subseteq [{"power", "trip", "fault", "intent"} -> Nat]

VARIABLES
  lo, hi,       \* CFM1: sector 3 with the first word, sector 4 with the last
  crumb,        \* TRUE: the last word of CFM1 is 0 (CFM1_BREAD_CRUMB)
  rcFlag,       \* TRUE: the CPLD update status word in UFM is 0
  svn,          \* svn_policy_cpld
  staging,      \* CPLD capsule in the BMC staging region
  recovery,     \* CPLD capsule at BMC_CPLD_RECOVERY_IMAGE_OFFSET
  reason,       \* why the running image was configured
  pc,           \* the next step of the running image
  src,          \* spi_cpld_bitstream_ptr: the capsule the ROM image copies from
  ready,        \* SPI_FLASH_STATE_READY_FOR_CPLD_RECOVERY_UPDATE
  booted,       \* is_timed_boot_done()
  guarded,      \* the staging region is write protected by the SPI filter
  intent,       \* CPLD bits of MB_BMC_UPDATE_INTENT
  failed,       \* num_failed_update_attempts_from_bmc
  used          \* how much of each bound has been used up

flashVars == <<lo, hi, crumb, rcFlag, svn, staging, recovery>>
ramVars   == <<src, ready, booted, guarded, intent, failed>>
vars      == <<flashVars, ramVars, reason, pc, used>>

Capsules == Images \union {Cert, NoImage}
Content  == Images \union {NoImage}
Intents  == SUBSET {"active", "recovery"}
RomSteps == {"romEntry", "romUpdate", "romRecovery", "recCheck", "recErase",
             "recWrite", "eraseLo", "eraseHi", "writeHi", "writeFirst",
             "romWait", "romWaitCheck", "romFlag", "romCrumb"}
Cfm1Steps == {"tmin1", "promoteErase", "promoteWrite", "promoteSvn",
              "promoteDone", "actIntent", "setFlag", "setCrumb", "protect", "t0"}

Events == {"power", "trip", "fault", "intent"}

Within(u) == \E b \in Budgets : \A e \in Events : u[e] <= b[e]

Use(e) == used' = [used EXCEPT ![e] = @ + 1] /\ Within(used')

(***************************************************************************)
(* is_signature_valid, is_svn_valid and the bitstream part of a capsule.   *)
(***************************************************************************)
BitstreamOfAny(capsule) == capsule   \* mutant of Bitstream

Signed(capsule)    == capsule # NoImage
Bitstream(capsule) == IF capsule \in Images THEN capsule ELSE NoImage
SvnOk(capsule)     == capsule \in Images /\ Svn[capsule] >= svn

Bootable   == lo \in Images /\ hi = lo
BmcRunning == pc \in {"t0", "romWait"}

(***************************************************************************)
(* perform_cfm_switch and the other ways to be reconfigured: RAM and the   *)
(* mailbox are lost.  A CFM1 that fails to configure falls back to CFM0,   *)
(* which then sees another reason than power-up or a requested switch.     *)
(***************************************************************************)
LoseRam ==
  /\ src' = "staging" /\ ready' = FALSE /\ booted' = FALSE /\ guarded' = FALSE
  /\ intent' = {} /\ failed' = 0

EnterRom(why) == pc' = "romEntry" /\ reason' = why /\ LoseRam

SwitchToCfm1 ==
  \/ /\ Bootable
     /\ pc' = "tmin1" /\ reason' = "powerUpOrSwitch" /\ LoseRam
  \/ ~Bootable /\ EnterRom("fallback")

SwitchToCfm0 == EnterRom("powerUpOrSwitch")

Goto(step) == pc' = step /\ UNCHANGED <<reason, used>>

SvnFields(capsule) == IF capsule \in Images THEN {Svn[capsule]} ELSE JunkSvns

\* check_capsule_before_update counts a rejected capsule, but not a key
\* cancellation certificate, which it carries out instead
CountFailure == IF SvnOk(staging) \/ staging = Cert THEN failed ELSE failed + 1

(***************************************************************************)
(* The active image: T-1 with the two deferred CPLD jobs, then T0.         *)
(***************************************************************************)
\* process_pending_recovery_update looks at the READY flag first
Tmin1 ==
  /\ pc = "tmin1" /\ lo \notin Hanging
  /\ Goto(IF ready THEN "promoteErase" ELSE "actIntent")
  /\ booted' = FALSE
  /\ UNCHANGED <<flashVars, src, ready, guarded, intent, failed>>

\* mutant of PromoteErase: the status word is cleared before the copy
PromoteClearsFirst ==
  /\ pc = "promoteErase" /\ Goto("promoteWrite")
  /\ recovery' = NoImage /\ rcFlag' = FALSE
  /\ UNCHANGED <<lo, hi, crumb, svn, staging, ramVars>>

\* perform_cpld_recovery_update: erase, copy, SVN policy, status word
PromoteErase ==
  /\ pc = "promoteErase" /\ Goto("promoteWrite")
  /\ recovery' = NoImage
  /\ UNCHANGED <<lo, hi, crumb, rcFlag, svn, staging, ramVars>>

PromoteWrite ==
  /\ pc = "promoteWrite" /\ Goto("promoteSvn")
  /\ recovery' = staging
  /\ UNCHANGED <<lo, hi, crumb, rcFlag, svn, staging, ramVars>>

PromoteSvn ==
  /\ pc = "promoteSvn" /\ Goto("promoteDone")
  /\ \E n \in SvnFields(staging) : svn' = IF n > svn THEN n ELSE svn
  /\ UNCHANGED <<lo, hi, crumb, rcFlag, staging, recovery, ramVars>>

\* mutant of PromoteDone: the status word stays
PromoteKeepsFlag ==
  /\ pc = "promoteDone" /\ Goto("actIntent")
  /\ ready' = FALSE
  /\ UNCHANGED <<lo, hi, crumb, rcFlag, svn, staging, recovery, src, booted,
                 guarded, intent, failed>>

PromoteDone ==
  /\ pc = "promoteDone" /\ Goto("actIntent")
  /\ rcFlag' = FALSE /\ ready' = FALSE
  /\ UNCHANGED <<lo, hi, crumb, svn, staging, recovery, src, booted, guarded,
                 intent, failed>>

\* act_on_bmc_update_intent: the register is read and cleared, the capsule
\* checked
ActIntent ==
  /\ pc = "actIntent"
  /\ Goto(IF intent = {} \/ ~SvnOk(staging) THEN "protect"
          ELSE IF "recovery" \in intent THEN "setFlag" ELSE "setCrumb")
  /\ failed' = IF intent = {} THEN failed ELSE CountFailure
  /\ intent' = {}
  /\ UNCHANGED <<flashVars, src, ready, booted, guarded>>

\* trigger_cpld_update: status word, bread crumb, switch to CFM0
SetFlag ==
  /\ pc \in {"setFlag", "romFlag"}
  /\ Goto(IF pc = "setFlag" THEN "setCrumb" ELSE "romCrumb")
  /\ rcFlag' = TRUE
  /\ UNCHANGED <<lo, hi, crumb, svn, staging, recovery, ramVars>>

SetCrumb ==
  /\ pc \in {"setCrumb", "romCrumb"}
  /\ crumb' = TRUE /\ SwitchToCfm0
  /\ UNCHANGED <<lo, hi, rcFlag, svn, staging, recovery, used>>

\* mutant of Protect: the staging region stays writable
ProtectNothing ==
  /\ pc = "protect" /\ Goto("t0")
  /\ guarded' = FALSE
  /\ UNCHANGED <<flashVars, src, ready, booted, intent, failed>>

\* end of perform_tmin1_operations_for_bmc and release of the BMC
Protect ==
  /\ pc = "protect" /\ Goto("t0")
  /\ guarded' = rcFlag
  /\ UNCHANGED <<flashVars, src, ready, booted, intent, failed>>

\* mb_update_intent_handler_for_bmc
T0Intent ==
  /\ pc = "t0" /\ intent # {}
  /\ IF failed >= MaxFailed THEN intent' = {} /\ Goto("t0")
                            ELSE Goto("tmin1") /\ UNCHANGED intent
  /\ UNCHANGED <<flashVars, src, ready, booted, guarded, failed>>

\* post_update_routine
T0Post ==
  /\ pc = "t0" /\ booted /\ rcFlag /\ Goto("tmin1")
  /\ ready' = TRUE
  /\ UNCHANGED <<flashVars, src, booted, guarded, intent, failed>>

(***************************************************************************)
(* The ROM image.                                                          *)
(***************************************************************************)
\* mutant of RomEntry: only the bread crumb decides
RomEntryByCrumb ==
  /\ pc = "romEntry"
  /\ IF ~crumb THEN SwitchToCfm1 /\ UNCHANGED used
               ELSE Goto("romUpdate") /\ UNCHANGED ramVars
  /\ UNCHANGED flashVars

\* recovery_main: the reason and the bread crumb decide
RomEntry ==
  /\ pc = "romEntry"
  /\ IF reason = "powerUpOrSwitch" /\ ~crumb
       THEN SwitchToCfm1 /\ UNCHANGED used
       ELSE /\ Goto(IF reason = "powerUpOrSwitch" THEN "romUpdate" ELSE "romRecovery")
            /\ UNCHANGED ramVars
  /\ UNCHANGED flashVars

\* mutant of RomUpdate: the SVN is left to the firmware's check
RomUpdateAnySvn ==
  /\ pc = "romUpdate"
  /\ IF Signed(staging)
       THEN /\ Goto("eraseLo") /\ src' = "staging"
            /\ UNCHANGED <<ready, booted, guarded, intent, failed>>
       ELSE SwitchToCfm1 /\ UNCHANGED used
  /\ UNCHANGED flashVars

\* perform_update_post_reconfig: a certificate is signed too, and the number
\* read as its SVN may be large enough
RomUpdate ==
  /\ pc = "romUpdate"
  /\ \E n \in SvnFields(staging) :
       IF Signed(staging) /\ n >= svn
         THEN /\ Goto("eraseLo") /\ src' = "staging"
              /\ UNCHANGED <<ready, booted, guarded, intent, failed>>
         ELSE SwitchToCfm1 /\ UNCHANGED used
  /\ UNCHANGED flashVars

\* mutant of RomRecovery: the status word stays
RomRecoveryKeepsFlag ==
  /\ pc = "romRecovery" /\ Goto("recCheck")
  /\ UNCHANGED <<flashVars, ramVars>>

\* perform_cpld_recovery: the status word goes first
RomRecovery ==
  /\ pc = "romRecovery" /\ Goto("recCheck")
  /\ rcFlag' = FALSE
  /\ UNCHANGED <<lo, hi, crumb, svn, staging, recovery, ramVars>>

RecCheck ==
  /\ pc = "recCheck"
  /\ Goto(IF Signed(recovery) THEN "eraseLo"
          ELSE IF Signed(staging) THEN "recErase" ELSE "romWait")
  /\ src' = "recovery"
  /\ UNCHANGED <<flashVars, ready, booted, guarded, intent, failed>>

RecErase ==
  /\ pc = "recErase" /\ Goto("recWrite")
  /\ recovery' = NoImage
  /\ UNCHANGED <<lo, hi, crumb, rcFlag, svn, staging, ramVars>>

RecWrite ==
  /\ pc = "recWrite" /\ Goto("eraseLo")
  /\ recovery' = staging
  /\ UNCHANGED <<lo, hi, crumb, rcFlag, svn, staging, ramVars>>

\* The copy into CFM1: sector 3, sector 4 (and with it the bread crumb), all
\* words from the last one down, the first word
EraseLo ==
  /\ pc = "eraseLo" /\ Goto("eraseHi")
  /\ lo' = NoImage
  /\ UNCHANGED <<hi, crumb, rcFlag, svn, staging, recovery, ramVars>>

EraseHi ==
  /\ pc = "eraseHi" /\ Goto("writeHi")
  /\ hi' = NoImage /\ crumb' = FALSE
  /\ UNCHANGED <<lo, rcFlag, svn, staging, recovery, ramVars>>

Source == Bitstream(IF src = "staging" THEN staging ELSE recovery)

WriteHi ==
  /\ pc = "writeHi" /\ Goto("writeFirst")
  /\ hi' = Source
  /\ UNCHANGED <<lo, crumb, rcFlag, svn, staging, recovery, ramVars>>

WriteFirst ==
  /\ pc = "writeFirst"
  /\ lo' = Source
  /\ IF Source \in Images
       THEN pc' = "tmin1" /\ reason' = "powerUpOrSwitch" /\ LoseRam
       ELSE EnterRom("fallback")
  /\ UNCHANGED <<hi, crumb, rcFlag, svn, staging, recovery, used>>

\* boot_bmc_and_wait_for_recovery_update: every intent is read and cleared,
\* only a recovery update is looked at
RomWait ==
  /\ pc = "romWait" /\ intent # {}
  /\ Goto(IF "recovery" \in intent THEN "romWaitCheck" ELSE "romWait")
  /\ intent' = {}
  /\ UNCHANGED <<flashVars, src, ready, booted, guarded, failed>>

RomWaitCheck ==
  /\ pc = "romWaitCheck"
  /\ Goto(IF SvnOk(staging) THEN "romFlag" ELSE "romWait")
  /\ failed' = CountFailure
  /\ UNCHANGED <<flashVars, src, ready, booted, guarded, intent>>

(***************************************************************************)
(* The BMC, the power supply and the hardware watchdog.                    *)
(***************************************************************************)
BmcStages ==
  /\ BmcRunning /\ ~guarded
  /\ staging' \in Capsules \ {staging}
  /\ UNCHANGED <<lo, hi, crumb, rcFlag, svn, recovery, ramVars, reason, pc, used>>

BmcPostsIntent ==
  /\ BmcRunning /\ Use("intent")
  /\ intent' \in Intents \ {{}}
  /\ UNCHANGED <<flashVars, src, ready, booted, guarded, failed, reason, pc>>

BootCompletes ==
  /\ pc = "t0" /\ ~booted
  /\ booted' = TRUE
  /\ UNCHANGED <<flashVars, src, ready, guarded, intent, failed, reason, pc, used>>

PowerLoss ==
  /\ Use("power")
  /\ EnterRom("powerUpOrSwitch")
  /\ UNCHANGED flashVars

HangTrips ==
  /\ pc = "tmin1" /\ lo \in Hanging /\ EnterRom("fallback")
  /\ UNCHANGED <<flashVars, used>>

WatchdogTrips ==
  /\ pc \in Cfm1Steps /\ Use("trip")
  /\ EnterRom("fallback")
  /\ UNCHANGED flashVars

FlashFault ==
  /\ Use("fault")
  /\ \/ staging' = NoImage /\ UNCHANGED recovery
     \/ recovery' = NoImage /\ UNCHANGED staging
  /\ UNCHANGED <<lo, hi, crumb, rcFlag, svn, ramVars, reason, pc>>

(***************************************************************************)
(* A provisioned platform is powered up with a complete active image, a    *)
(* recovery capsule, and an SVN policy that neither of them is below.      *)
(***************************************************************************)
Init ==
  /\ lo \in Images /\ hi = lo /\ crumb = FALSE /\ rcFlag = FALSE
  /\ recovery \in Images \ Hanging /\ staging \in Capsules
  /\ svn = 0
  /\ pc = "romEntry" /\ reason = "powerUpOrSwitch"
  /\ src = "staging" /\ ready = FALSE /\ booted = FALSE /\ guarded = FALSE
  /\ intent = {} /\ failed = 0
  /\ used = [e \in Events |-> 0]

NiosStep ==
  \/ Tmin1 \/ PromoteErase \/ PromoteWrite \/ PromoteSvn \/ PromoteDone
  \/ ActIntent \/ SetFlag \/ SetCrumb \/ Protect \/ T0Intent \/ T0Post
  \/ RomEntry \/ RomUpdate \/ RomRecovery \/ RecCheck \/ RecErase \/ RecWrite
  \/ EraseLo \/ EraseHi \/ WriteHi \/ WriteFirst \/ RomWait \/ RomWaitCheck

EnvStep ==
  \/ BmcStages \/ BmcPostsIntent \/ PowerLoss \/ WatchdogTrips \/ FlashFault

Next == NiosStep \/ BootCompletes \/ HangTrips \/ EnvStep

Spec == Init /\ [][Next]_vars

\* The Nios loop always takes its next step, a hung image is always caught by
\* the hardware watchdog, and a platform that is left alone boots.
FairSpec ==
  Spec /\ WF_vars(NiosStep) /\ WF_vars(HangTrips) /\ WF_vars(BootCompletes)

(***************************************************************************)
(* Properties.                                                             *)
(***************************************************************************)
TypeOK ==
  /\ lo \in Content /\ hi \in Content
  /\ crumb \in BOOLEAN /\ rcFlag \in BOOLEAN
  /\ svn \in Nat
  /\ staging \in Capsules /\ recovery \in Capsules
  /\ reason \in {"powerUpOrSwitch", "fallback"}
  /\ pc \in RomSteps \union Cfm1Steps
  /\ src \in {"staging", "recovery"}
  /\ ready \in BOOLEAN /\ booted \in BOOLEAN /\ guarded \in BOOLEAN
  /\ intent \in Intents
  /\ failed \in Nat
  /\ used \in [Events -> Nat]

\* However the power fails and whatever the BMC stages, some copy of a CPLD
\* image is complete: the active image, the recovery capsule, or the staged
\* capsule the firmware works from.  Holds while no capsule is damaged from
\* outside and the hardware watchdog does not trip twice on an image that works
\* in a behaviour that also loses power (cpld_update.h, cpld_recovery.h).
SomeCopyComplete ==
  used["fault"] = 0 /\ (used["power"] = 0 \/ used["trip"] <= 1)
    => Bootable \/ recovery \in Images \/ staging \in Images

Undisturbed == used["power"] = 0 /\ used["fault"] = 0

\* Only the image the platform is running becomes the recovery capsule: what
\* cpld_update.h says of perform_cpld_recovery_update.
PromotesRunningImage ==
  [][pc = "promoteWrite" /\ pc' = "promoteSvn" => recovery' = lo]_vars

\* What is left of it: without power loss and damage, hanging images and
\* watchdog trips never get a capsule that was not run into the recovery region.
PromotesOnlyWhatRan ==
  [][pc = "promoteWrite" /\ pc' = "promoteSvn" /\ Undisturbed => recovery' = lo]_vars

\* Without power loss and damage the recovery capsule never becomes an image
\* that does not boot: after a failed update perform_cpld_recovery must have
\* something that works.
RecoveryBoots == Undisturbed => recovery \notin Hanging

\* Without power loss and damage the anti-rollback number never outruns what is
\* running or kept for recovery, so that neither can be refused later
\* (write_ufm_svn in perform_cpld_recovery_update).
SvnFloorCovered ==
  Undisturbed =>
    /\ pc \in Cfm1Steps => Svn[lo] >= svn
    /\ recovery \in Images => Svn[recovery] >= svn

\* An update never takes the active image below the anti-rollback number, not
\* even when a bread crumb that an earlier failure left behind makes the ROM
\* image retry with whatever is staged by then (perform_update_post_reconfig).
UpdateNeverRollsBack ==
  [][pc = "writeFirst" /\ src = "staging" /\ pc' = "tmin1" => Svn[lo'] >= svn]_vars

\* Whatever is staged, whichever image hangs and whenever the hardware watchdog
\* trips, a platform without power loss and damage gets back to a running BMC
\* (perform_cpld_recovery, perform_cfm_switch).
BmcRunsAgain == []<>(Undisturbed => BmcRunning)

\* The status word of a CPLD recovery update is always cleared in the end: the
\* update is completed, or given up by the ROM image.
UpdateSettles == rcFlag ~> ~rcFlag

\* The ROM image's recovery flow ends with a running BMC: "in the case that
\* that is not possible either we will boot the BMC" (cpld_recovery.h).
RomRecoveryEnds == pc = "romRecovery" ~> BmcRunning

=============================================================================
