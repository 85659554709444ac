------------------------------ MODULE PfrFlow ------------------------------
(***************************************************************************)
(* The firmware resiliency flow of the active CPLD image on a provisioned  *)
(* platform: T0 monitoring, the three kinds of reset, and the T-1          *)
(* operations that update, promote, authenticate and recover the BMC and   *)
(* the PCH flash.                                                          *)
(*   t0_routines.h, t0_update.h, t0_watchdog_handler.h      (T0)           *)
(*   transition.h, tmin1_routines.h                         (resets)       *)
(*   tmin1_update.h, firmware_update.h, firmware_recovery.h,               *)
(*   flash_validation.h, capsule_validation.h               (T-1)          *)
(* T-1 is one action per write to a flash or the UFM, so that the power    *)
(* may fail and a host that is still running may act between any two.      *)
(***************************************************************************)
EXTENDS Naturals, FiniteSets

CONSTANTS
  Images,       \* for each flash, the firmware that exists as signed capsules
  Svn,          \* the security version number of each firmware
  Hanging,      \* firmware that never completes its timed boot
  Bad,          \* erased, half-written or damaged content
  Cert,         \* a signed capsule without firmware: key cancellation
  JunkSvns,     \* numbers read where content without firmware has no SVN
  MaxFailed,    \* MAX_FAILED_UPDATE_ATTEMPTS_FROM_BMC and _FROM_PCH
  BmcIntents,   \* the update intents the BMC posts
  PchIntents,   \* the update intents the PCH posts
  Staged,       \* bound: for each flash, the capsules its host stages
  OobCapsules,  \* bound: the PCH capsules the BMC stages
  Forces,       \* positions the FORCE_RECOVERY strap may be in
  Limits        \* bounds, one of which is kept: how often each event may happen

Flashes == {"bmc", "pch"}
Parts   == {"bmc", "me", "bios"}
Events  == {"power", "fault", "timeout", "intent", "host", "bmcReset"}
Bits    == {"BA", "BR", "PA", "PR", "CA", "CR", "atReset"}
States  == {"recFailed", "allFailed", "pending", "wdt"}
AllImages == UNION {Images[f] : f \in Flashes}
Content(f)  == Images[f] \union {Bad}
Capsules(f) == Images[f] \union {Bad, Cert}

ASSUME ImagesAssumption ==
  /\ Images \in [Flashes -> SUBSET AllImages]
  /\ Bad \notin AllImages /\ Cert \notin AllImages /\ Bad # Cert
  /\ Svn \in [AllImages -> Nat]
  /\ Hanging \subseteq AllImages
  /\ JunkSvns \subseteq Nat /\ JunkSvns # {}
ASSUME BoundsAssumption ==
  /\ BmcIntents \subseteq SUBSET Bits /\ PchIntents \subseteq SUBSET Bits
  /\ \A f \in Flashes : Staged[f] \subseteq Capsules(f)
  /\ OobCapsules \subseteq Capsules("pch")
  /\ Forces \subseteq {"off", "on"} /\ Forces # {}
  /\ MaxFailed \in Nat /\ Limits \subseteq [Events -> Nat]

VARIABLES
  active,       \* what each flash runs
  recovery,     \* the capsule in each recovery region
  staging,      \* the capsule in each staging region
  oob,          \* the PCH capsule in the BMC staging region
  svn,          \* svn_policy_bmc, svn_policy_pch in UFM
  intent,       \* MB_BMC_UPDATE_INTENT, MB_PCH_UPDATE_INTENT
  mbSvn,        \* MB_BMC_PFM_RECOVERY_SVN, MB_PCH_PFM_RECOVERY_SVN
  flags,        \* bmc_flash_state, pch_flash_state
  failed,       \* num_failed_update_attempts_from_bmc, _pch
  level,        \* current_recovery_level_mask_for_bmc, _pch; 4 is exhausted
  boot,         \* wdt_boot_status
  armed,        \* watchdog timers that are counting
  enabled,      \* wdt_enable_status, by flash
  up,           \* which of BMC and PCH is out of reset
  cpld,         \* CPLD bits of the update_intent act_on_bmc_update_intent read
  mode,         \* which reset is in progress: platform, bmc or pch
  pc,           \* the next step of the Nios firmware and the flash it is for
  proven,       \* history: flashes whose active firmware has completed a boot
  used          \* how much of each bound has been used up

flashVars == <<active, recovery, staging, oob, svn>>
bootVars  == <<level, boot, armed, enabled>>
ramVars   == <<intent, mbSvn, flags, failed, bootVars, up, cpld, mode>>
vars      == <<flashVars, ramVars, pc, proven, used>>

Owner(part) == IF part = "bmc" THEN "bmc" ELSE "pch"
PartsOf(f)  == {p \in Parts : Owner(p) = f}
Use(e) ==
  /\ used' = [used EXCEPT ![e] = @ + 1]
  /\ \E limit \in Limits : \A d \in Events : used'[d] <= limit[d]

At(op, f)   == pc = <<op, f>>
Goto(op, f) == pc' = <<op, f>>

Has(f, s)   == s \in flags[f]
Raised(f, n) == [svn EXCEPT ![f] = IF n > @ THEN n ELSE @]
SvnsIn(f, capsule) == IF capsule \in Images[f] THEN {Svn[capsule]} ELSE JunkSvns
Firmware(f, capsule) == IF capsule \in Images[f] THEN capsule ELSE Bad

(***************************************************************************)
(* Capsule checks.                                                         *)
(***************************************************************************)
\* mutant of Accepts: the SVN policy is left to the Recovery region's check
AcceptsAnySvn(f, capsule, forRecovery) ==
  /\ capsule \in Images[f]
  /\ forRecovery \/ mbSvn[f] = Svn[capsule]

\* check_capsule_before_update, for a firmware capsule
Accepts(f, capsule, forRecovery) ==
  /\ capsule \in Images[f]
  /\ Svn[capsule] >= svn[f]
  /\ forRecovery \/ mbSvn[f] = Svn[capsule]

\* ... and its count of rejected capsules; a certificate is carried out
CountFailure(f, capsule) ==
  failed' = IF capsule = Cert THEN failed ELSE [failed EXCEPT ![f] = @ + 1]

\* mutant of Promotable: the staged PFM is not compared with the active one
PromotableAny(f, skipHash) == staging[f] # Bad

\* check_capsule_before_fw_recovery_update: the outer signature, and the hash
\* of the PFM unless it is to be skipped
Promotable(f, skipHash) ==
  staging[f] # Bad /\ (skipHash \/ staging[f] = active[f])

(***************************************************************************)
(* Resets.                                                                 *)
(***************************************************************************)
\* perform_platform_reset, perform_bmc_only_reset, perform_pch_only_reset up
\* to the first T-1 step
StartReset(m) ==
  /\ mode' = m
  /\ up' = IF m = "platform" THEN {} ELSE up \ {m}
  /\ IF m = "platform" THEN Goto("oob", "bmc") ELSE Goto("wdt", m)

\* a power cycle or a reconfiguration of the CPLD, then pfr_main
Restart ==
  /\ intent' = [f \in Flashes |-> {}] /\ mbSvn' = [f \in Flashes |-> 0]
  /\ flags' = [f \in Flashes |-> {}] /\ failed' = [f \in Flashes |-> 0]
  /\ level' = [f \in Flashes |-> 1]
  /\ boot' = {} /\ armed' = {} /\ enabled' = Flashes /\ cpld' = {}
  /\ StartReset("platform")

\* what follows perform_tmin1_operations_for_bmc and _for_pch
AfterAuth(f) ==
  \/ mode # "platform" /\ Goto("entry", mode)
  \/ mode = "platform" /\ f = "bmc" /\ Goto("wdt", "pch")
  \/ mode = "platform" /\ f = "pch" /\ Goto("entry", "platform")

NextFlash(f) == IF f = "bmc" THEN Goto("pend", "pch") ELSE Goto("wdt", "bmc")

(***************************************************************************)
(* T-1, whole platform: prep_for_oob_pch_fw_update.                        *)
(***************************************************************************)
OobBits == intent["bmc"] \intersect {"PA", "PR"}

Oob ==
  /\ At("oob", "bmc")
  /\ \/ /\ OobBits = {}
        /\ Goto("pend", "bmc") /\ UNCHANGED <<staging, failed>>
     \/ /\ OobBits # {} /\ Accepts("pch", oob, "PR" \in OobBits)
        /\ staging' = [staging EXCEPT !["pch"] = Bad]
        /\ Goto("oobWrite", "pch") /\ UNCHANGED failed
     \/ /\ OobBits # {} /\ ~Accepts("pch", oob, "PR" \in OobBits)
        /\ CountFailure("bmc", oob)
        /\ Goto("pend", "bmc") /\ UNCHANGED staging
  /\ UNCHANGED <<active, recovery, oob, svn, intent, mbSvn, flags, bootVars, up,
                 cpld, mode, proven, used>>

OobWrite ==
  /\ At("oobWrite", "pch") /\ Goto("pend", "bmc")
  /\ staging' = [staging EXCEPT !["pch"] = oob]
  /\ IF "PR" \in OobBits /\ Has("pch", "recFailed")
       THEN /\ flags' = [flags EXCEPT !["pch"] = @ \union {"pending"}]
            /\ UNCHANGED intent
       ELSE /\ intent' = [intent EXCEPT !["pch"] = @ \union OobBits]
            /\ UNCHANGED flags
  /\ UNCHANGED <<active, recovery, oob, svn, mbSvn, failed, bootVars, up, cpld,
                 mode, proven, used>>

(***************************************************************************)
(* T-1, whole platform: process_pending_recovery_update.                   *)
(***************************************************************************)
Pend(f) ==
  /\ At("pend", f)
  /\ \/ /\ ~Has(f, "pending")
        /\ NextFlash(f) /\ UNCHANGED <<recovery, flags, failed>>
     \/ /\ Has(f, "pending") /\ Promotable(f, FALSE)
        /\ recovery' = [recovery EXCEPT ![f] = Bad]
        /\ Goto("pendWrite", f) /\ UNCHANGED <<flags, failed>>
     \/ /\ Has(f, "pending") /\ ~Promotable(f, FALSE)
        /\ flags' = [flags EXCEPT ![f] = @ \ {"pending"}]
        /\ failed' = [failed EXCEPT ![f] = @ + 1]
        /\ NextFlash(f) /\ UNCHANGED recovery
  /\ UNCHANGED <<active, staging, oob, svn, intent, mbSvn, bootVars, up, cpld,
                 mode, proven, used>>

\* perform_firmware_recovery_update: the copy, then the SVN policy
Promote(f) ==
  /\ \/ At("pendWrite", f) /\ Goto("pendSvn", f)
     \/ At("authRec", f) /\ Goto("authSvn", f)
  /\ recovery' = [recovery EXCEPT ![f] = staging[f]]
  /\ UNCHANGED <<active, staging, oob, svn, ramVars, proven, used>>

\* mutant of PendSvn: the pending flag stays
PendSvnKeepsFlag(f) ==
  /\ At("pendSvn", f) /\ NextFlash(f)
  /\ \E n \in SvnsIn(f, staging[f]) : svn' = Raised(f, n)
  /\ UNCHANGED <<active, recovery, staging, oob, intent, mbSvn, flags, failed,
                 bootVars, up, cpld, mode, proven, used>>

PendSvn(f) ==
  /\ At("pendSvn", f) /\ NextFlash(f)
  /\ \E n \in SvnsIn(f, staging[f]) : svn' = Raised(f, n)
  /\ flags' = [flags EXCEPT ![f] = @ \ {"pending"}]
  /\ UNCHANGED <<active, recovery, staging, oob, intent, mbSvn, failed, bootVars,
                 up, cpld, mode, proven, used>>

(***************************************************************************)
(* T-1 for one flash: timers, then perform_wdt_recovery.  Whether it takes *)
(* the static regions depends on the RPLM bits of the active PFM.          *)
(***************************************************************************)
\* mutant of WdtRecovered: the recovery level is not raised
WdtNotCounted(f) ==
  /\ flags' = [flags EXCEPT ![f] = @ \ {"wdt"}]
  /\ UNCHANGED level

WdtRecovered(f) ==
  /\ level' = [level EXCEPT ![f] = @ + 1]
  /\ flags' = [flags EXCEPT ![f] = @ \ {"wdt"}]

Wdt(f) ==
  /\ At("wdt", f)
  /\ boot' = boot \ PartsOf(f) /\ armed' = armed \ PartsOf(f)
  /\ LET recovers == Has(f, "wdt") /\ recovery[f] # Bad
     IN  \/ /\ ~recovers
            /\ Goto("intent", f) /\ UNCHANGED <<active, level, flags>>
         \/ /\ recovers
            /\ Goto("intent", f) /\ WdtRecovered(f) /\ UNCHANGED active
         \/ /\ recovers
            /\ active' = [active EXCEPT ![f] = Bad]
            /\ Goto("wdtWrite", f) /\ UNCHANGED <<level, flags>>
  /\ UNCHANGED <<recovery, staging, oob, svn, intent, mbSvn, failed, enabled, up,
                 cpld, mode, proven, used>>

WdtWrite(f) ==
  /\ At("wdtWrite", f) /\ Goto("intent", f)
  /\ active' = [active EXCEPT ![f] = Firmware(f, recovery[f])]
  /\ proven' = proven \ {f}
  /\ WdtRecovered(f)
  /\ UNCHANGED <<recovery, staging, oob, svn, intent, mbSvn, failed, boot, armed,
                 enabled, up, cpld, mode, used>>

(***************************************************************************)
(* T-1 for one flash: act_on_bmc_update_intent, act_on_pch_update_intent   *)
(* and perform_active_firmware_update.                                     *)
(***************************************************************************)
FwBits(f) == IF f = "bmc" THEN {"BA", "BR"} ELSE {"PA", "PR"}
RecBit(f) == IF f = "bmc" THEN "BR" ELSE "PR"
AfterIntent(f) == Goto(IF f = "bmc" THEN "cpld" ELSE "auth", f)

Intent(f) ==
  /\ At("intent", f)
  /\ intent' = [intent EXCEPT ![f] = {}]
  /\ cpld' = IF f = "bmc" THEN intent[f] \intersect {"CA", "CR"} ELSE cpld
  /\ LET asked == intent[f] \intersect FwBits(f) # {}
         forRecovery == RecBit(f) \in intent[f]
         accepted == Accepts(f, staging[f], forRecovery)
     IN  \/ /\ ~asked
            /\ AfterIntent(f) /\ UNCHANGED <<active, flags, failed>>
         \/ /\ asked /\ ~accepted
            /\ CountFailure(f, staging[f])
            /\ AfterIntent(f) /\ UNCHANGED <<active, flags>>
         \/ /\ asked /\ accepted
            /\ failed' = [failed EXCEPT ![f] = 0]
            /\ flags' = IF forRecovery
                          THEN [flags EXCEPT ![f] = @ \union {"pending"}] ELSE flags
            /\ active' = [active EXCEPT ![f] = Bad]
            /\ Goto("intentWrite", f)
  /\ UNCHANGED <<recovery, staging, oob, svn, mbSvn, bootVars, up, mode, proven, used>>

IntentWrite(f) ==
  /\ At("intentWrite", f) /\ AfterIntent(f)
  /\ active' = [active EXCEPT ![f] = Firmware(f, staging[f])]
  /\ proven' = proven \ {f}
  /\ enabled' = enabled \union {f}
  /\ UNCHANGED <<recovery, staging, oob, svn, intent, mbSvn, flags, failed, level,
                 boot, armed, up, cpld, mode, used>>

\* the CPLD part waits for pending firmware updates; the update itself is
\* module CpldUpdate, here it ends in a reconfiguration
CpldIntent ==
  /\ At("cpld", "bmc")
  /\ LET waits == \/ \E f \in Flashes : Has(f, "pending")
                  \/ intent["pch"] \intersect {"PA", "PR"} # {}
     IN  \/ /\ cpld = {} \/ waits
            /\ intent' = [intent EXCEPT !["bmc"] = IF cpld = {} THEN @ ELSE cpld]
            /\ cpld' = {} /\ Goto("auth", "bmc")
            /\ UNCHANGED <<mbSvn, flags, failed, bootVars, up, mode>>
         \/ /\ cpld # {} /\ ~waits
            /\ failed' \in {failed, [failed EXCEPT !["bmc"] = @ + 1]}
            /\ cpld' = {} /\ Goto("auth", "bmc")
            /\ UNCHANGED <<intent, mbSvn, flags, bootVars, up, mode>>
         \/ cpld # {} /\ ~waits /\ Restart
  /\ UNCHANGED <<flashVars, proven, used>>

(***************************************************************************)
(* T-1 for one flash: authenticate_and_recover_spi_flash.                  *)
(***************************************************************************)
Authentic(f) == active[f] \in Images[f]

\* mb_write_pfm_info ends it
EndAuth(f) ==
  /\ \E n \in SvnsIn(f, recovery[f]) : mbSvn' = [mbSvn EXCEPT ![f] = n]
  /\ AfterAuth(f)

\* mutant of Auth: the recovery capsule is never restored from staging
AuthNoRestore(f) ==
  /\ At("auth", f)
  /\ LET cleared == flags[f] \ {"recFailed", "allFailed"}
         Mark(s) == flags' = [flags EXCEPT ![f] = cleared \union s]
     IN  \/ /\ recovery[f] \in Images[f]
            /\ Mark({}) /\ Goto("authAct", f) /\ UNCHANGED mbSvn
         \/ /\ recovery[f] \notin Images[f]
            /\ Mark({IF Authentic(f) THEN "recFailed" ELSE "allFailed"})
            /\ EndAuth(f)
  /\ UNCHANGED <<active, recovery, staging, oob, svn, intent, failed, bootVars, up,
                 cpld, mode, proven, used>>

\* the recovery capsule first
Auth(f) ==
  /\ At("auth", f)
  /\ LET cleared == flags[f] \ {"recFailed", "allFailed"}
         Mark(s) == flags' = [flags EXCEPT ![f] = cleared \union s]
     IN  \/ /\ recovery[f] \in Images[f]
            /\ Mark({}) /\ Goto("authAct", f) /\ UNCHANGED <<recovery, mbSvn>>
         \/ /\ recovery[f] \notin Images[f] /\ Promotable(f, ~Authentic(f))
            /\ recovery' = [recovery EXCEPT ![f] = Bad]
            /\ Mark({}) /\ Goto("authRec", f) /\ UNCHANGED mbSvn
         \/ /\ recovery[f] \notin Images[f] /\ ~Promotable(f, ~Authentic(f))
            /\ Mark({IF Authentic(f) THEN "recFailed" ELSE "allFailed"})
            /\ UNCHANGED recovery /\ EndAuth(f)
  /\ UNCHANGED <<active, staging, oob, svn, intent, failed, bootVars, up, cpld,
                 mode, proven, used>>

AuthSvn(f) ==
  /\ At("authSvn", f) /\ Goto("authAct", f)
  /\ \E n \in SvnsIn(f, staging[f]) : svn' = Raised(f, n)
  /\ UNCHANGED <<active, recovery, staging, oob, ramVars, proven, used>>

\* mutant of AuthAct: only a forced recovery restores the active firmware
AuthActForced(f) ==
  /\ At("authAct", f)
  /\ \/ /\ "off" \in Forces
        /\ EndAuth(f) /\ UNCHANGED active
     \/ /\ "on" \in Forces
        /\ active' = [active EXCEPT ![f] = Bad]
        /\ Goto("authWrite", f) /\ UNCHANGED mbSvn
  /\ UNCHANGED <<recovery, staging, oob, svn, intent, flags, failed, bootVars, up,
                 cpld, mode, proven, used>>

\* then the active firmware, from a recovery capsule held to be valid
AuthAct(f) ==
  /\ At("authAct", f)
  /\ \/ /\ Authentic(f) /\ "off" \in Forces
        /\ EndAuth(f) /\ UNCHANGED <<active, recovery>>
     \/ /\ ~Authentic(f) \/ "on" \in Forces
        /\ active' = [active EXCEPT ![f] = Bad]
        /\ Goto("authWrite", f) /\ UNCHANGED <<recovery, mbSvn>>
  /\ UNCHANGED <<staging, oob, svn, intent, flags, failed, bootVars, up, cpld, mode,
                 proven, used>>

AuthWrite(f) ==
  /\ At("authWrite", f)
  /\ active' = [active EXCEPT ![f] = Firmware(f, recovery[f])]
  /\ proven' = proven \ {f}
  /\ UNCHANGED recovery /\ EndAuth(f)
  /\ UNCHANGED <<staging, oob, svn, intent, flags, failed, bootVars, up, cpld, mode,
                 used>>

(***************************************************************************)
(* Entry to T0.                                                            *)
(***************************************************************************)
Bootable(f) == ~Has(f, "allFailed")
EnterT0 == Goto("t0", "platform") /\ mode' = "platform"
BothBootable == \A f \in Flashes : Bootable(f)

\* perform_entry_to_t0, tmin1_boot_bmc_and_pch
EntryPlatform ==
  /\ At("entry", "platform")
  /\ IF \E f \in Flashes : Bootable(f)
       THEN /\ EnterT0
            /\ up' = {f \in Flashes : Bootable(f) /\ Bootable("bmc")}
            /\ armed' = armed \union
                 {p \in {"bmc", "me"} : BothBootable /\ ~Has(Owner(p), "recFailed")}
       ELSE Goto("lockdown", "platform") /\ UNCHANGED <<up, armed, mode>>
  /\ UNCHANGED <<flashVars, intent, mbSvn, flags, failed, level, boot, enabled, cpld,
                 proven, used>>

\* perform_entry_to_t0_bmc_only arms the timer whatever the recovery region
EntryBmcOnly ==
  /\ At("entry", "bmc") /\ EnterT0
  /\ up' = IF Bootable("bmc") THEN up \union {"bmc"} ELSE up
  /\ boot' = IF BothBootable THEN boot \ {"bmc"} ELSE boot
  /\ armed' = IF BothBootable THEN armed \union {"bmc"} ELSE armed
  /\ UNCHANGED <<flashVars, intent, mbSvn, flags, failed, level, enabled, cpld, proven,
                 used>>

\* mutant of EntryPchOnly: the state of the BMC flash is not looked at
EntryPchAlone ==
  /\ At("entry", "pch") /\ EnterT0
  /\ up' = IF Bootable("pch") THEN up \union {"pch"} ELSE up
  /\ armed' = IF Bootable("pch") /\ ~Has("pch", "recFailed")
                THEN armed \union {"me"} ELSE armed
  /\ UNCHANGED <<flashVars, intent, mbSvn, flags, failed, level, boot, enabled, cpld,
                 proven, used>>

\* tmin1_boot_pch
EntryPchOnly ==
  /\ At("entry", "pch") /\ EnterT0
  /\ up' = IF BothBootable THEN up \union {"pch"} ELSE up
  /\ armed' = IF BothBootable /\ ~Has("pch", "recFailed")
                THEN armed \union {"me"} ELSE armed
  /\ UNCHANGED <<flashVars, intent, mbSvn, flags, failed, level, boot, enabled, cpld,
                 proven, used>>

(***************************************************************************)
(* T0: the handlers perform_t0_operations polls.                           *)
(***************************************************************************)
InT0 == pc[1] = "t0"

\* platform_reset_handler; the first PLTRST# of a boot is free
PlatformReset ==
  /\ InT0 /\ "pch" \in up
  /\ IF "bios" \in boot \union armed THEN Use("host") ELSE UNCHANGED used
  /\ IF "bios" \notin armed /\ ~Has("pch", "recFailed")
       THEN boot' = boot \ {"bios"} /\ armed' = armed \union {"bios"}
       ELSE UNCHANGED <<boot, armed>>
  /\ intent' = [f \in Flashes |-> intent[f] \ {"atReset"}]
  /\ UNCHANGED <<flashVars, mbSvn, flags, failed, level, enabled, up, cpld, mode, pc,
                 proven>>

\* the watchdog handlers: a component reports that it has booted ...
BootDone(p) ==
  /\ InT0 /\ p \in armed /\ Owner(p) \in enabled \intersect up
  /\ active[Owner(p)] \in Images[Owner(p)] \ Hanging
  /\ boot' = boot \union {p} /\ armed' = armed \ {p}
  /\ IF PartsOf(Owner(p)) \subseteq boot'
       THEN /\ level' = [level EXCEPT ![Owner(p)] = 1]
            /\ proven' = proven \union {Owner(p)}
       ELSE UNCHANGED <<level, proven>>
  /\ UNCHANGED <<flashVars, intent, mbSvn, flags, failed, enabled, up, cpld, mode, pc,
                 used>>

\* ... or its timer expires: trigger_bmc_wdt_recovery, trigger_pch_wdt_recovery
Hangs(f) == active[f] \notin Images[f] \ Hanging

\* mutant of Timeout: no bound on the recoveries
TimeoutAlways(p) ==
  /\ InT0 /\ p \in armed /\ Owner(p) \in enabled
  /\ IF Hangs(Owner(p)) THEN UNCHANGED used ELSE Use("timeout")
  /\ flags' = [flags EXCEPT ![Owner(p)] = {"wdt"}]
  /\ StartReset("platform")
  /\ UNCHANGED <<flashVars, intent, mbSvn, failed, level, boot, armed, enabled, cpld,
                 proven>>

Timeout(p) ==
  /\ InT0 /\ p \in armed /\ Owner(p) \in enabled
  /\ IF Hangs(Owner(p)) THEN UNCHANGED used ELSE Use("timeout")
  /\ IF level[Owner(p)] <= 3
       THEN /\ flags' = [flags EXCEPT ![Owner(p)] = {"wdt"}]
            /\ StartReset("platform") /\ UNCHANGED enabled
       ELSE /\ enabled' = enabled \ {Owner(p)}
            /\ UNCHANGED <<flags, mode, up, pc>>
  /\ UNCHANGED <<flashVars, intent, mbSvn, failed, level, boot, armed, cpld, proven>>

\* mb_update_intent_handler_for_bmc, _for_pch
Actionable(f) == IF f = "bmc" THEN Bits \ {"atReset"} ELSE {"PA", "PR"}
ActiveBit(f)  == IF f = "bmc" THEN "BA" ELSE "PA"

Refused(f) ==
  \/ intent[f] \intersect Actionable(f) = {}
  \/ failed[f] >= MaxFailed
  \/ Has(f, "recFailed") /\ ActiveBit(f) \in intent[f]
  \/ f = "bmc" /\ Has("pch", "recFailed") /\ "PA" \in intent[f]

ResetFor(f) ==
  IF f = "bmc" THEN IF intent[f] \intersect {"BR", "CA", "CR", "PA", "PR"} # {}
                      THEN "platform" ELSE "bmc"
               ELSE IF "PA" \in intent[f] THEN "pch" ELSE "platform"

PromotesDirectly(f) == Has(f, "recFailed") /\ RecBit(f) \in intent[f]

UpdateIntent(f) ==
  /\ InT0 /\ intent[f] # {} /\ "atReset" \notin intent[f]
  /\ \/ /\ Refused(f)
        /\ intent' = [intent EXCEPT ![f] = {}]
        \* the direct promotion is noted before the PCH part is refused
        /\ flags' = IF /\ f = "bmc" /\ failed[f] < MaxFailed /\ PromotesDirectly(f)
                       /\ ActiveBit(f) \notin intent[f]
                      THEN [flags EXCEPT ![f] = @ \union {"pending"}] ELSE flags
        /\ UNCHANGED <<up, mode, pc>>
     \/ /\ ~Refused(f) /\ PromotesDirectly(f)
        /\ intent' = [intent EXCEPT ![f] = {}]
        /\ flags' = [flags EXCEPT ![f] = @ \union {"pending"}]
        /\ StartReset(ResetFor(f))
     \/ /\ ~Refused(f) /\ ~PromotesDirectly(f)
        /\ StartReset(ResetFor(f)) /\ UNCHANGED <<intent, flags>>
  /\ UNCHANGED <<flashVars, mbSvn, failed, bootVars, cpld, proven, used>>

\* bmc_reset_handler
BmcReset ==
  /\ InT0 /\ "bmc" \in boot /\ Use("bmcReset")
  /\ StartReset("bmc")
  /\ UNCHANGED <<flashVars, intent, mbSvn, flags, failed, bootVars, cpld, proven>>

\* mutant of PostUpdate: only the PCH flash is looked at
PostUpdatePch ==
  /\ InT0 /\ boot = Parts /\ Has("pch", "pending")
  /\ StartReset("platform")
  /\ UNCHANGED <<flashVars, intent, mbSvn, flags, failed, bootVars, cpld, proven, used>>

\* post_update_routine
PostUpdate ==
  /\ InT0 /\ boot = Parts /\ \E f \in Flashes : Has(f, "pending")
  /\ StartReset("platform")
  /\ UNCHANGED <<flashVars, intent, mbSvn, flags, failed, bootVars, cpld, proven, used>>

(***************************************************************************)
(* The BMC and the PCH, the power supply, flash that goes bad.             *)
(***************************************************************************)
Stages(f) ==
  /\ f \in up
  /\ \/ \E c \in Staged[f] : staging' = [staging EXCEPT ![f] = c] /\ UNCHANGED oob
     \/ f = "bmc" /\ oob' \in OobCapsules /\ UNCHANGED staging
  /\ UNCHANGED <<active, recovery, svn, ramVars, pc, proven, used>>

PostsIntent(f) ==
  /\ f \in up /\ Use("intent")
  /\ \E i \in (IF f = "bmc" THEN BmcIntents ELSE PchIntents) :
       intent' = [intent EXCEPT ![f] = i]
  /\ UNCHANGED <<flashVars, mbSvn, flags, failed, bootVars, up, cpld, mode, pc, proven>>

PowerLoss ==
  /\ Use("power") /\ Restart /\ UNCHANGED <<flashVars, proven>>

FlashFault(f) ==
  /\ InT0 \/ At("oob", "bmc")
  /\ Use("fault")
  /\ \/ active' = [active EXCEPT ![f] = Bad] /\ UNCHANGED recovery
     \/ recovery' = [recovery EXCEPT ![f] = Bad] /\ UNCHANGED active
     \/ active' = [active EXCEPT ![f] = Bad] /\ recovery' = [recovery EXCEPT ![f] = Bad]
  /\ UNCHANGED <<staging, oob, svn, ramVars, pc, proven>>

(***************************************************************************)
(* A provisioned platform that is powered up: firmware and recovery        *)
(* capsule of each flash are complete and boot, nothing is staged.         *)
(***************************************************************************)
Init ==
  /\ active \in [Flashes -> AllImages] /\ recovery \in [Flashes -> AllImages]
  /\ \A f \in Flashes : {active[f], recovery[f]} \subseteq Images[f] \ Hanging
  /\ svn = [f \in Flashes |-> 0]
  /\ \A f \in Flashes : Svn[active[f]] = 0 /\ Svn[recovery[f]] = 0
  /\ staging = [f \in Flashes |-> Bad] /\ oob = Bad
  /\ intent = [f \in Flashes |-> {}] /\ mbSvn = [f \in Flashes |-> 0]
  /\ flags = [f \in Flashes |-> {}] /\ failed = [f \in Flashes |-> 0]
  /\ level = [f \in Flashes |-> 1]
  /\ boot = {} /\ armed = {} /\ enabled = Flashes /\ up = {} /\ cpld = {}
  /\ mode = "platform" /\ pc = <<"oob", "bmc">>
  /\ proven = {}
  /\ used = [e \in Events |-> 0]

Tmin1Step ==
  \/ Oob \/ OobWrite \/ CpldIntent
  \/ \E f \in Flashes :
       \/ Pend(f) \/ Promote(f) \/ PendSvn(f) \/ Wdt(f) \/ WdtWrite(f)
       \/ Intent(f) \/ IntentWrite(f)
       \/ Auth(f) \/ AuthSvn(f) \/ AuthAct(f) \/ AuthWrite(f)
  \/ EntryPlatform \/ EntryBmcOnly \/ EntryPchOnly

T0Step ==
  \/ \E f \in Flashes : UpdateIntent(f)
  \/ BmcReset \/ PostUpdate

HostStep ==
  \/ PlatformReset
  \/ \E p \in Parts : BootDone(p) \/ Timeout(p)

EnvStep ==
  \/ \E f \in Flashes : Stages(f) \/ PostsIntent(f) \/ FlashFault(f)
  \/ PowerLoss

Next == Tmin1Step \/ T0Step \/ HostStep \/ EnvStep

Spec == Init /\ [][Next]_vars

\* The Nios loop always goes on; a component that is watched either reports its
\* boot or its timer expires; the host asserts PLTRST# once it is powered.
FairSpec ==
  /\ Spec
  /\ WF_vars(Tmin1Step) /\ WF_vars(PostUpdate)
  /\ \A f \in Flashes : WF_vars(UpdateIntent(f))
  /\ \A p \in Parts : WF_vars(BootDone(p)) /\ WF_vars(Timeout(p) /\ Hangs(Owner(p)))
  /\ WF_vars(PlatformReset /\ "bios" \in armed' \ armed)

(***************************************************************************)
(* Properties.                                                             *)
(***************************************************************************)
Ops == {"oob", "oobWrite", "pend", "pendWrite", "pendSvn", "wdt", "wdtWrite",
        "intent", "intentWrite", "cpld", "auth", "authRec", "authSvn", "authAct",
        "authWrite", "entry", "t0", "lockdown"}

StoreTypes ==
  /\ active \in [Flashes -> AllImages \union {Bad}]
  /\ recovery \in [Flashes -> AllImages \union {Bad, Cert}]
  /\ staging \in [Flashes -> AllImages \union {Bad, Cert}]
  /\ \A f \in Flashes : /\ active[f] \in Content(f)
                         /\ recovery[f] \in Capsules(f) /\ staging[f] \in Capsules(f)
  /\ oob \in Capsules("pch")
  /\ svn \in [Flashes -> Nat]

AskTypes ==
  /\ intent \in [Flashes -> SUBSET Bits] /\ mbSvn \in [Flashes -> Nat]
  /\ flags \in [Flashes -> SUBSET States] /\ failed \in [Flashes -> Nat]
  /\ cpld \subseteq {"CA", "CR"}

BootTypes ==
  /\ level \in [Flashes -> 1..4]
  /\ boot \subseteq Parts /\ armed \subseteq Parts
  /\ enabled \subseteq Flashes /\ up \subseteq Flashes
  /\ mode \in Flashes \union {"platform"}

FlowTypes ==
  /\ pc \in Ops \X (Flashes \union {"platform"})
  /\ proven \subseteq Flashes /\ used \in [Events -> Nat]

TypeOK == StoreTypes /\ AskTypes /\ BootTypes /\ FlowTypes

\* Each flash keeps the promise of FailsafeStore, as long as nothing is damaged
\* from outside: power may fail between any two writes, and the BMC may change
\* what is staged at any time it runs.
Store(f) ==
  INSTANCE FailsafeStore WITH Images <- Images[f], active <- active[f],
                              recovery <- recovery[f], floor <- svn[f]

FailsafeFlash ==
  /\ \A f \in Flashes : Store(f)!Init
  /\ [][\A f \in Flashes : [Store(f)!Next]_<<active[f], recovery[f], svn[f]>>]_vars

\* Without damage from outside, no power loss between any two flash writes and
\* nothing that is staged ever makes authenticate_and_recover_spi_flash give up
\* a region for good.
NoRegionLost ==
  \A f \in Flashes : flags[f] \intersect {"recFailed", "allFailed"} = {}

\* The SVN policy never rises above the firmware in service or kept for
\* recovery, so that neither can be refused later (perform_firmware_recovery_
\* update raises it, perform_active_firmware_update must not undercut it).
SvnFloorCovered ==
  \A f \in Flashes :
    /\ active[f] \in Images[f] => Svn[active[f]] >= svn[f]
    /\ recovery[f] \in Images[f] => Svn[recovery[f]] >= svn[f]

\* A component is only taken out of reset on firmware that is authentic:
\* "Boot BMC only if it has valid active image in its SPI flash"
\* (tmin1_boot_bmc, tmin1_boot_pch).
BootsAuthentic ==
  [][\A f \in up' \ up : Authentic(f)]_vars

\* The PCH is only released from reset next to a BMC that runs: "CPLD cannot
\* release PCH from reset without releasing BMC from reset first"
\* (tmin1_boot_pch), whichever resets of one component came before.
PchNeedsBmc == [][up' \ up = {"pch"} => "bmc" \in up']_vars

\* The platform is only locked down when no flash has anything left to boot or
\* to recover from: "both BMC and PCH flashes failed authentication for all
\* regions" (perform_entry_to_t0).
LockdownIsLast ==
  pc[1] = "lockdown" =>
    \A f \in Flashes : {active[f], recovery[f], staging[f]} \intersect Images[f] = {}

\* "Nios firmware needs to verify that the firmware from the update capsule
\* passes authentication and can boot up correctly, before promoting that
\* firmware to the recovery region" (perform_active_firmware_update).
BootedBeforePromoted ==
  [][\A f \in Flashes : At("pendWrite", f) /\ pc' = <<"pendSvn", f>>
       => f \in proven]_vars

\* Resets come to an end: once the hosts post no more intents, updates that
\* hang, timers that expire, intents deferred to the next reset and CPLD bits
\* that are written back (act_on_bmc_update_intent) do not keep the platform
\* going through T-1 forever, whatever the two flashes still ask for.
ResetsEnd == <>[](pc[1] \in {"t0", "lockdown"})

\* A flash whose boot is no longer watched, so that it neither times out nor
\* lets post_update_routine see a timed boot that is done: its timers are off
\* after three recoveries (perform_wdt_recovery), or were never started because
\* its recovery region is not valid, or a flash cannot be booted at all
\* (perform_entry_to_t0, tmin1_boot_bmc, tmin1_boot_pch).
Unwatched(f) ==
  f \notin enabled \/ Has(f, "recFailed") \/ ~BothBootable

\* Firmware that does not boot is rolled back, or the firmware gives up on its
\* flash after three recoveries (trigger_bmc_wdt_recovery, perform_wdt_recovery);
\* it only stays in place where the boot is not watched.
HangHandled ==
  \A f \in Flashes : <>[](active[f] \in Hanging) => <>[]Unwatched(f)

\* A recovery update that was accepted is carried out or abandoned, by its own
\* timer, the other flash's or the timed boot (post_update_routine,
\* process_pending_recovery_update): it stays pending only next to a flash that
\* is not watched, so that timed boot done is never reached.
PendingSettles ==
  \A f \in Flashes : <>[]Has(f, "pending") => <>[](\E g \in Flashes : Unwatched(g))

=============================================================================
