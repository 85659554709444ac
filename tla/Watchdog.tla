------------------------------ MODULE Watchdog ------------------------------
(***************************************************************************)
(* Timed boot in T0: the hardware timers, the boot checkpoints that BMC,   *)
(* ACM and BIOS write to the mailbox, the boot-done GPIO of the ME, the    *)
(* PLTRST# edge latch, the IBB access latch of the BMC SPI filter, and the *)
(* handlers of the Nios that poll them:                                    *)
(*   t0_routines.h, t0_watchdog_handler.h, watchdog_timers.h, timer_utils.h*)
(*   timer_bank.sv, spi_filter.sv, pfr_core.sv                             *)
(* A handler reads a register in one step and acts on it in the next, so   *)
(* that the timers count and the hosts write in between.  What T-1 does to *)
(* the flashes is module PfrFlow; a reset here is its effect on timers,    *)
(* checkpoints and hosts.                                                  *)
(***************************************************************************)
EXTENDS Naturals, FiniteSets

CONSTANTS
  Timeout,       \* WD_*_TIMEOUT_VAL, in ticks of the timer bank
  MaxRecoveries, \* recovery levels with a RECOVER bit: 3
  Scenarios      \* results of the authentication in T-1 of the two flashes, each
                 \* with a bound on how often each event may happen

Flashes == {"bmc", "pch"}
Timers  == {"bmc", "me", "pch"}
Boxes   == {"bmc", "acm", "bios"}
Cmds    == {"start", "pause", "resume", "authFail", "complete"}
Parts   == {"bmc", "me", "acm", "ibb", "obb"}
Hosts   == {"bmc", "me", "cpu"}
Stages  == {"off", "boot", "loader", "up", "ready", "acm", "ibb", "obb", "os"}
Events  == {"warm", "extra", "intent", "bmcReset"}
PchTimers == {"me", "pch"}
PchParts  == Parts \ {"bmc"}
BiosParts == {"acm", "ibb", "obb"}

ASSUME TimingAssumption ==
  Timeout \in Nat \ {0} /\ MaxRecoveries \in Nat
ASSUME BoundsAssumption ==
  Scenarios \subseteq [auth  : [Flashes -> {"ok", "recFailed", "allFailed"}],
                       bound : [Events -> Nat]]

VARIABLES
  count,    \* timers of the timer bank: the value
  running,  \* ... and the active bit
  chk,      \* MB_BMC_CHECKPOINT, MB_ACM_CHECKPOINT, MB_BIOS_CHECKPOINT
  done,     \* wdt_boot_status
  enabled,  \* wdt_enable_status
  level,    \* current_recovery_level_mask_for_bmc, _pch
  auth,     \* bmc_flash_state, pch_flash_state as authentication leaves them
  pltrst,   \* GPI_1_PLTRST_DETECTED_REARM_ACM_TIMER
  latch,    \* GPI_1_BMC_SPI_IBB_ACCESS_DETECTED
  clear,    \* GPO_1_BMC_SPI_CLEAR_IBB_DETECTED
  host,     \* how far BMC, ME and CPU are in their boot
  pc, cmd,  \* the next step of the Nios, the checkpoint it has read
  panic,    \* panic_reason of acm_bios_watchdog_timer_handler
  restart,  \* history: the BMC restarted itself before, after it was recorded booted
  lost,     \* history: a checkpoint, a count or a re-arm was lost in this boot
  used      \* how much of each bound has been used up

timerVars == <<count, running>>
ibbVars   == <<latch, clear>>
niosVars  == <<done, enabled, level, auth, cmd, panic>>
vars == <<timerVars, chk, niosVars, pltrst, ibbVars, host, pc, restart, lost, used>>

Use(e) ==
  /\ used' = [used EXCEPT ![e] = @ + 1]
  /\ \E s \in Scenarios : s.auth = auth /\ \A x \in Events : used'[x] <= s.bound[x]

(***************************************************************************)
(* timer_utils.h, watchdog_timers.h.  Start, Stop, Pause and Resume are    *)
(* writes to one register of the timer bank.                               *)
(***************************************************************************)
Reads0(t)  == count[t] = 0 /\ t \notin running
Expired(t) == count[t] = 0 /\ t \in running

Start(S) == /\ count' = [t \in Timers |-> IF t \in S THEN Timeout ELSE count[t]]
            /\ running' = running \union S

\* mutant of Stop: the active bit stays set
StopCount(S) == /\ count' = [t \in Timers |-> IF t \in S THEN 0 ELSE count[t]]
                /\ UNCHANGED running

Stop(S)  == /\ count' = [t \in Timers |-> IF t \in S THEN 0 ELSE count[t]]
            /\ running' = running \ S
Pause(t)  == running' = running \ {t} /\ UNCHANGED count
Resume(t) == running' = running \union {t} /\ UNCHANGED count

(***************************************************************************)
(* Resets.                                                                 *)
(***************************************************************************)
\* spi_filter.sv: the latch is set by every read of the IBB and follows these
\* reads while the clear input is high
ReadsIbb    == host["bmc"] \in {"boot", "loader"}
BmcReadsIbb == latch' = TRUE
BmcPastIbb  == latch' = (latch /\ ~clear)

CanBootBmc == auth["bmc"] # "allFailed"
CanBootPch == CanBootBmc /\ auth["pch"] # "allFailed"

\* mutant of Raised: the level of recovery stays where it is
RaisedNever(f) == level

\* perform_wdt_recovery with an authentic recovery capsule raises the level
Raised(f) == IF auth[f] = "ok" THEN [level EXCEPT ![f] = @ + 1] ELSE level

\* the hosts after T-1: BMC and ME leave reset if their flash can be booted
Released == [h \in Hosts |-> IF \/ h = "bmc" /\ CanBootBmc
                                \/ h = "me" /\ CanBootPch THEN "boot" ELSE "off"]

\* timers that tmin1_boot_bmc and tmin1_boot_pch arm
Armed == (IF auth["bmc"] = "ok" /\ CanBootPch THEN {"bmc"} ELSE {})
           \union (IF auth["pch"] = "ok" /\ CanBootPch THEN {"me"} ELSE {})

\* perform_platform_reset: T-1 for both flashes clears timers, boot status and
\* the BMC checkpoint (not those of ACM and BIOS), then both boot
PlatformReset ==
  /\ count' = [t \in Timers |-> IF t \in Armed THEN Timeout ELSE 0]
  /\ running' = Armed
  /\ chk' = [chk EXCEPT !["bmc"] = "none"]
  /\ done' = {}
  /\ host' = Released
  /\ IF CanBootBmc THEN BmcReadsIbb ELSE BmcPastIbb
  /\ restart' = "no" /\ lost' = FALSE

\* mutant of LevelLeft: one level too many
LevelLeftOver(f) == level[f] <= MaxRecoveries + 1

LevelLeft(f) == level[f] <= MaxRecoveries

\* trigger_bmc_wdt_recovery, trigger_pch_wdt_recovery: a platform reset while
\* a level is left, else the timers of the flash are switched off
Trigger(f) ==
  \/ /\ LevelLeft(f)
     /\ PlatformReset
     /\ level' = Raised(f)
     /\ UNCHANGED enabled
  \/ /\ ~LevelLeft(f)
     /\ enabled' = enabled \ (IF f = "bmc" THEN {"bmc"} ELSE PchTimers)
     /\ UNCHANGED <<timerVars, chk, done, host, latch, restart, lost, level>>

(***************************************************************************)
(* platform_reset_handler.  The pulse on GPO_1_CLEAR_PLTRST_DETECT_FLAG    *)
(* clears the latch; a timer that still counts is left alone.              *)
(***************************************************************************)
PlatformResetHandler ==
  /\ pc = "pltrst" /\ pc' = "bmc"
  /\ pltrst' = FALSE
  /\ \/ /\ pltrst /\ "pch" \notin running /\ auth["pch"] # "recFailed"
        /\ chk' = [chk EXCEPT !["acm"] = "none", !["bios"] = "none"]
        /\ done' = done \ BiosParts
        /\ Start({"pch"})
        /\ lost' = (lost \/ host["cpu"] \notin {"off", "acm"})
     \/ /\ ~pltrst \/ "pch" \in running \/ auth["pch"] = "recFailed"
        /\ lost' = (lost \/ (pltrst /\ "pch" \in running))
        /\ UNCHANGED <<chk, done, timerVars>>
  /\ UNCHANGED <<enabled, level, auth, cmd, panic, ibbVars, host, restart, used>>

(***************************************************************************)
(* bmc_watchdog_timer_handler                                              *)
(***************************************************************************)
Watched(t) == t \in enabled /\ ~Reads0(t)

\* a timer paused after its last tick reads 0, which the handlers take for "off"
PausedAtZero(t) == cmd = "pause" /\ count[t] = 0

\* mutant of Clear: the box is cleared even if nothing was read
ClearAlways(box) ==
  /\ chk' = [chk EXCEPT ![box] = "none"]
  /\ lost' = (lost \/ (cmd # "none" /\ chk[box] # cmd))

\* a checkpoint that came between the read and the write of 0 is erased
Clear(box) ==
  /\ chk' = IF cmd = "none" THEN chk ELSE [chk EXCEPT ![box] = "none"]
  /\ lost' = \/ lost
             \/ cmd # "none" /\ chk[box] # cmd
             \/ box = "bmc" /\ PausedAtZero("bmc")

BmcLook ==
  /\ pc = "bmc"
  /\ \/ /\ ~Watched("bmc")
        /\ pc' = "me"
        /\ UNCHANGED <<timerVars, chk, niosVars, ibbVars, host, restart, lost>>
     \/ /\ Watched("bmc") /\ Expired("bmc")
        /\ pc' = "me" /\ Trigger("bmc")
        /\ UNCHANGED <<auth, cmd, panic, clear>>
     \/ /\ Watched("bmc") /\ ~Expired("bmc")
        /\ cmd' = chk["bmc"]
        /\ pc' = IF cmd' = "none" THEN "me" ELSE "bmcAct"
        /\ UNCHANGED <<timerVars, chk, done, enabled, level, auth, panic, ibbVars, host, restart, lost>>
  /\ UNCHANGED <<pltrst, used>>

\* mutant of ClearIbb: the latch keeps what the boot of the BMC left in it
ClearIbbNever == UNCHANGED <<clear, latch>>

\* set_bit(GPO_1_BMC_SPI_CLEAR_IBB_DETECTED)
ClearIbb == clear' = TRUE /\ latch' = ReadsIbb

\* bmc_boot_complete_actions
BmcBootComplete ==
  /\ done' = done \union {"bmc"}
  /\ Stop({"bmc"})
  /\ level' = [level EXCEPT !["bmc"] = 1]
  /\ ClearIbb

BmcAct ==
  /\ pc = "bmcAct" /\ pc' = "me"
  /\ cmd' = "none"
  /\ Clear("bmc")
  /\ \/ /\ cmd = "complete" /\ BmcBootComplete
     \/ /\ cmd # "complete"
        /\ CASE cmd = "start"  -> Start({"bmc"})
             [] cmd = "pause"  -> Pause("bmc")
             [] cmd = "resume" -> Resume("bmc")
             [] OTHER          -> UNCHANGED timerVars
        /\ UNCHANGED <<done, level, clear, latch>>
  /\ UNCHANGED <<enabled, auth, panic, pltrst, host, restart, used>>

(***************************************************************************)
(* me_watchdog_timer_handler: the boot-done GPIO is a level, not a message *)
(***************************************************************************)
MeStep ==
  /\ pc = "me" /\ pc' = "bios"
  /\ \/ /\ ~Watched("me") \/ (~Expired("me") /\ host["me"] # "ready")
        /\ UNCHANGED <<timerVars, chk, done, level, enabled, host, latch, restart, lost>>
     \/ /\ Watched("me") /\ Expired("me")
        /\ Trigger("pch")
     \/ /\ Watched("me") /\ ~Expired("me") /\ host["me"] = "ready"
        /\ done' = done \union {"me"}
        /\ Stop({"me"})
        /\ level' = IF "obb" \in done THEN [level EXCEPT !["pch"] = 1] ELSE level
        /\ UNCHANGED <<chk, enabled, host, latch, restart, lost>>
  /\ UNCHANGED <<auth, cmd, panic, pltrst, clear, used>>

(***************************************************************************)
(* acm_bios_watchdog_timer_handler: an expired timer is noted, the BIOS    *)
(* checkpoint is read and cleared all the same, the recovery comes last.   *)
(***************************************************************************)
Settled(failed) == IF failed THEN "recover" ELSE "resets"

\* the ACM checkpoint is read as long as neither ACM nor IBB has booted
ReadsAcm(booted) == "ibb" \notin done /\ "acm" \notin booted

BiosLook ==
  /\ pc = "bios"
  /\ \/ /\ ~Watched("pch")
        /\ pc' = "resets" /\ UNCHANGED <<cmd, panic>>
     \/ /\ Watched("pch")
        /\ panic' = Expired("pch")
        /\ cmd' = chk["bios"]
        /\ pc' = IF cmd' # "none" THEN "biosStage"
                  ELSE IF ReadsAcm(done) THEN "acm" ELSE Settled(panic')
  /\ UNCHANGED <<timerVars, chk, done, enabled, level, auth, pltrst, ibbVars, host, restart, lost, used>>

\* mutant of BiosParty: one COMPLETE is enough for IBB and OBB
BiosPartyOne == {"ibb", "obb"}

\* the part of the boot that a COMPLETE of the BIOS ends
BiosParty == IF "ibb" \in done THEN {"obb"} ELSE {"ibb"}

BiosStage ==
  /\ pc = "biosStage"
  /\ Clear("bios")
  /\ done' = done \union
       CASE cmd = "complete" -> BiosParty
         [] cmd = "start" /\ "ibb" \notin done -> {"acm"}
         [] OTHER -> {}
  /\ CASE cmd = "complete" /\ "ibb" \in done -> Stop({"pch"})
       [] cmd = "complete" /\ "ibb" \notin done -> Start({"pch"})
       [] cmd = "start" -> Start({"pch"})
       [] OTHER -> UNCHANGED timerVars
  /\ level' = IF cmd = "complete" /\ {"ibb", "me"} \subseteq done
              THEN [level EXCEPT !["pch"] = 1] ELSE level
  /\ pc' = IF ReadsAcm(done') THEN "acm" ELSE "pchAct"
  /\ UNCHANGED cmd
  /\ UNCHANGED <<enabled, auth, panic, pltrst, ibbVars, host, restart, used>>

\* the ACM checkpoint, read in place of that of the BIOS
AcmLook ==
  /\ pc = "acm"
  /\ cmd' = chk["acm"]
  /\ pc' = IF cmd' # "none" THEN "acmClear" ELSE Settled(panic)
  /\ UNCHANGED <<timerVars, chk, done, enabled, level, auth, panic, pltrst, ibbVars, host, restart, lost, used>>

AcmClear ==
  /\ pc = "acmClear" /\ pc' = "pchAct"
  /\ Clear("acm")
  /\ UNCHANGED <<timerVars, niosVars, pltrst, ibbVars, host, restart, used>>

\* PAUSE, RESUME, AUTH_FAIL of ACM or BIOS; the 2 s sleep after AUTH_FAIL runs on
\* the same timer and puts its value back
PchAct ==
  /\ pc = "pchAct"
  /\ CASE cmd = "pause"  -> Pause("pch")
       [] cmd = "resume" -> Resume("pch")
       [] OTHER -> UNCHANGED timerVars
  /\ lost' = (lost \/ PausedAtZero("pch"))
  /\ panic' = (panic \/ cmd = "authFail")
  /\ pc' = Settled(panic')
  /\ cmd' = "none"
  /\ UNCHANGED <<chk, done, enabled, level, auth, pltrst, ibbVars, host, restart, used>>

Recover ==
  /\ pc = "recover" /\ pc' = "resets"
  /\ Trigger("pch")
  /\ panic' = FALSE
  /\ UNCHANGED <<auth, cmd, pltrst, clear, used>>

(***************************************************************************)
(* What else resets in T0 (mb_update_intent_handler, bmc_reset_handler,    *)
(* post_update_routine).  T-1 of one flash takes minutes: the timers count *)
(* and the other hosts run until BmcOnlyEnd or PchOnlyEnd.                 *)
(***************************************************************************)
ReEnabled(S) == enabled' \in {enabled, enabled \union S}

\* perform_entry_to_tmin1_bmc_only, then the timer, the checkpoint and the
\* boot status as perform_tmin1_operations_for_bmc clears them
BmcOnlyStart ==
  /\ pc' = "tmin1Bmc"
  /\ host' = [host EXCEPT !["bmc"] = "off"]
  /\ Stop({"bmc"})
  /\ chk' = [chk EXCEPT !["bmc"] = "none"]
  /\ done' = done \ {"bmc"}
  /\ restart' = "no"
  /\ UNCHANGED <<level, auth, cmd, panic, pltrst, lost>>

\* perform_entry_to_t0_bmc_only
BmcOnlyEnd ==
  /\ pc = "tmin1Bmc" /\ pc' = "pltrst"
  /\ \/ /\ CanBootBmc
        /\ host' = [host EXCEPT !["bmc"] = "boot"]
        /\ BmcReadsIbb
        /\ IF auth["pch"] # "allFailed"
           THEN Start({"bmc"}) /\ done' = done \ {"bmc"}
           ELSE UNCHANGED <<timerVars, done>>
     \/ ~CanBootBmc /\ UNCHANGED <<host, latch, timerVars, done>>
  /\ UNCHANGED <<chk, enabled, level, auth, cmd, panic, pltrst, clear, restart, lost, used>>

\* perform_entry_to_tmin1_pch_only, perform_tmin1_operations_for_pch
PchOnlyStart ==
  /\ pc' = "tmin1Pch"
  /\ host' = [host EXCEPT !["me"] = "off", !["cpu"] = "off"]
  /\ Stop(PchTimers)
  /\ done' = done \ PchParts
  /\ UNCHANGED <<chk, level, auth, cmd, panic, pltrst, ibbVars, restart, lost>>

\* tmin1_boot_pch
PchOnlyEnd ==
  /\ pc = "tmin1Pch" /\ pc' = "resets"
  /\ host' = [host EXCEPT !["me"] = IF CanBootPch THEN "boot" ELSE "off"]
  /\ IF CanBootPch /\ auth["pch"] = "ok" THEN Start({"me"}) ELSE UNCHANGED timerVars
  /\ UNCHANGED <<chk, niosVars, pltrst, ibbVars, restart, lost, used>>

Intent ==
  /\ pc = "resets"
  /\ Use("intent")
  /\ \/ /\ UNCHANGED pc /\ PlatformReset
        /\ ReEnabled({"bmc"}) \/ ReEnabled(PchTimers)
        /\ UNCHANGED <<level, auth, cmd, panic, pltrst, clear>>
     \/ BmcOnlyStart /\ BmcPastIbb /\ ReEnabled({"bmc"}) /\ UNCHANGED clear
     \/ PchOnlyStart /\ ReEnabled(PchTimers)

IbbSeen == "bmc" \in done /\ latch

\* bmc_reset_handler
BmcResetHandler ==
  /\ pc = "resets"
  /\ \/ /\ ~IbbSeen
        /\ pc' = "pltrst"
        /\ UNCHANGED <<timerVars, chk, niosVars, pltrst, ibbVars, host, restart, lost, used>>
     \/ /\ IbbSeen
        /\ clear' = TRUE /\ latch' = FALSE
        /\ BmcOnlyStart
        /\ UNCHANGED <<enabled, used>>

Nios == \/ PlatformResetHandler \/ BmcLook \/ BmcAct \/ MeStep
        \/ BiosLook \/ BiosStage \/ AcmLook \/ AcmClear \/ PchAct \/ Recover
        \/ Intent \/ BmcResetHandler \/ BmcOnlyEnd \/ PchOnlyEnd

(***************************************************************************)
(* Timer bank and hosts (external: what the firmware expects of them).     *)
(***************************************************************************)
Tick ==
  /\ \E t \in running : count[t] > 0
  /\ count' = [t \in Timers |-> IF t \in running /\ count[t] > 0 THEN count[t] - 1
                                ELSE count[t]]
  /\ UNCHANGED <<running, chk, niosVars, pltrst, ibbVars, host, pc, restart, lost, used>>

Post(b, c) ==
  /\ chk' = [chk EXCEPT ![b] = c]
  /\ lost' = (lost \/ chk[b] # "none")

Advance(h, from, to) == host[h] = from /\ host' = [host EXCEPT ![h] = to]

NoNios == UNCHANGED <<timerVars, niosVars, pc, used>>

\* bootloader and kernel of the BMC; the bootloader is past the IBB
Bmc ==
  /\ \/ Advance("bmc", "boot", "loader") /\ Post("bmc", "start") /\ UNCHANGED latch
     \/ /\ Advance("bmc", "loader", "up") /\ Post("bmc", "complete")
        /\ BmcPastIbb
  /\ NoNios /\ UNCHANGED <<pltrst, clear, restart>>

Me == /\ Advance("me", "boot", "ready")
      /\ NoNios /\ UNCHANGED <<chk, pltrst, ibbVars, restart, lost>>

Cpu ==
  /\ \/ /\ host["me"] # "off" /\ Advance("cpu", "off", "acm")
        /\ pltrst' = TRUE /\ UNCHANGED <<chk, lost>>
     \/ /\ \/ Advance("cpu", "acm", "ibb") /\ Post("bios", "start")
           \/ Advance("cpu", "ibb", "obb") /\ Post("bios", "complete")
           \/ Advance("cpu", "obb", "os") /\ Post("bios", "complete")
        /\ UNCHANGED pltrst
  /\ NoNios /\ UNCHANGED <<ibbVars, restart>>

\* pfr_core.sv: the rising edge of PLTRST# sets the latch
WarmReset ==
  /\ Use("warm")
  /\ host["cpu"] \notin {"off", "acm"}
  /\ host' = [host EXCEPT !["cpu"] = "acm"]
  /\ pltrst' = TRUE
  /\ UNCHANGED <<timerVars, chk, niosVars, ibbVars, pc, restart, lost>>

ExtraCheckpoint ==
  /\ Use("extra")
  /\ \E c \in {"pause", "resume", "authFail"} :
       \/ host["bmc"] \in {"boot", "loader"} /\ c # "authFail" /\ Post("bmc", c)
       \/ host["cpu"] = "acm" /\ Post("acm", c)
       \/ host["cpu"] \in {"ibb", "obb"} /\ Post("bios", c)
  /\ UNCHANGED <<timerVars, niosVars, pltrst, ibbVars, host, pc, restart>>

BmcSelfReset ==
  /\ Use("bmcReset")
  /\ host["bmc"] \in {"loader", "up"}
  /\ host' = [host EXCEPT !["bmc"] = "boot"]
  /\ BmcReadsIbb
  /\ restart' = IF "bmc" \in done THEN "after" ELSE "before"
  /\ UNCHANGED <<timerVars, chk, niosVars, pltrst, clear, pc, lost>>

Init ==
  /\ auth \in {s.auth : s \in Scenarios}
  /\ enabled = Timers /\ level = [f \in Flashes |-> 1]
  /\ count = [t \in Timers |-> IF t \in Armed THEN Timeout ELSE 0] /\ running = Armed
  /\ chk = [b \in Boxes |-> "none"] /\ done = {}
  /\ pltrst = FALSE /\ clear = FALSE /\ latch = CanBootBmc
  /\ host = Released
  /\ pc = "pltrst" /\ cmd = "none" /\ panic = FALSE
  /\ restart = "no" /\ lost = FALSE
  /\ used = [e \in Events |-> 0]

Next == Nios \/ Tick \/ Bmc \/ Me \/ Cpu \/ WarmReset \/ ExtraCheckpoint
        \/ BmcSelfReset

Spec == Init /\ [][Next]_vars
FairSpec == Spec /\ WF_vars(Nios) /\ WF_vars(Tick)

(***************************************************************************)
(* Properties                                                              *)
(***************************************************************************)
TimerTypes ==
  count \in [Timers -> 0..Timeout] /\ running \subseteq Timers
NiosTypes ==
  /\ chk \in [Boxes -> Cmds \union {"none"}] /\ cmd \in Cmds \union {"none"}
  /\ done \subseteq Parts /\ enabled \subseteq Timers
  /\ level \in [Flashes -> 1..(MaxRecoveries + 1)]
  /\ auth \in {s.auth : s \in Scenarios}
FlagTypes ==
  /\ pltrst \in BOOLEAN /\ panic \in BOOLEAN /\ lost \in BOOLEAN
  /\ latch \in BOOLEAN /\ clear \in BOOLEAN
HostTypes ==
  /\ host \in [Hosts -> Stages]
  /\ host["bmc"] \in {"off", "boot", "loader", "up"}
  /\ host["me"] \in {"off", "boot", "ready"}
  /\ host["cpu"] \in {"off", "acm", "ibb", "obb", "os"}
  /\ restart \in {"no", "before", "after"}
  /\ used \in [Events -> Nat]

TypeOK == TimerTypes /\ NiosTypes /\ FlagTypes /\ HostTypes

\* the pass that found the timer expired has also read the COMPLETE of the OBB
LateComplete == pc = "recover" /\ "obb" \in done

\* a handler is about to act on a timeout or an AUTH_FAIL
Strikes(f) ==
  IF f = "bmc" THEN pc = "bmc" /\ Watched("bmc") /\ Expired("bmc")
  ELSE pc = "recover" \/ (pc = "me" /\ Watched("me") /\ Expired("me"))

\* No recovery loop: a flash whose firmware does not boot is given up after the
\* last level.  Timeouts go on for ever only if that flash is recorded as booted
\* again and again (which starts its levels anew).
NoRecoveryLoop ==
  /\ []<>Strikes("bmc") => []<>("bmc" \in done)
  /\ []<>Strikes("pch") => []<>({"me", "obb"} \subseteq done)

BmcUp == /\ host["bmc"] = "up" /\ ~lost
         /\ "bmc" \in enabled /\ "bmc" \in Armed
PchUp == /\ host["me"] = "ready" /\ host["cpu"] = "os" /\ ~lost
         /\ PchTimers \subseteq enabled /\ "me" \in Armed

\* A boot is recorded: when the hosts of a flash with a recovery image are up and
\* no checkpoint was lost on the way, the Nios comes to know it, which ends the
\* timed boot and releases the pending recovery update.
BootRecorded ==
  /\ BmcUp ~> ("bmc" \in done \/ ~BmcUp)
  /\ PchUp ~> (PchParts \subseteq done \/ ~PchUp)

\* A PCH recovery by timeout or AUTH_FAIL strikes a host that has failed to boot:
\* never one that is up with all its checkpoints accounted for.
HealthyHostKept ==
  [][ (pc \in {"me", "recover"} /\ host'["me"] # host["me"] /\ ~lost)
        => \/ host["cpu"] # "os" \/ "me" \notin done
                        \/ chk["bios"] = "complete" \/ LateComplete ]_vars

\* The boot status is honest: OBB recorded as booted means that the CPU is in the
\* OS, until a PLTRST# the Nios has not handled yet, if no checkpoint was lost.
BootRecordHonest ==
  ("obb" \in done /\ ~lost) => (host["cpu"] = "os" \/ pltrst)

\* A BMC that was recorded booted is pulled into T-1 by the IBB detection only if
\* it did restart itself: the accesses of its normal boot do not count.
NoPhantomReset == [][ (pc = "resets" /\ pc' = "tmin1Bmc" /\ UNCHANGED used) => restart # "no" ]_vars

\* A restart of the BMC that the filter has detected while the Nios is busy with
\* T-1 of the PCH leads to a new authentication of the BMC: spi_filter.sv keeps the detection "asserted until
\* i_clear_ibb_detected is asserted", and spi_control.sv wants that input
\* deasserted "to re-enable detection".
RestartSeen == (restart = "after" /\ pc = "tmin1Pch" /\ latch) ~> restart # "after"
=============================================================================
