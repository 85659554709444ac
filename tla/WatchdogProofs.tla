--------------------------- MODULE WatchdogProofs ---------------------------
(***************************************************************************)
(* Type correctness and the safety properties of Watchdog, for any timeout,*)
(* any number of recovery levels and any scenario: every combination of    *)
(* warm resets, extra checkpoints, update intents and BMC restarts.        *)
(*                                                                         *)
(* None of the properties is inductive.  A handler acts on what it read in *)
(* an earlier step, and what it read was posted by a host that may have    *)
(* been reset since; the invariants say what a checkpoint still proves     *)
(* while it is in its box, in the Nios' hands, or in the boot status:      *)
(*   BmcInv  a COMPLETE of the BMC, and the detection latch after it;      *)
(*   PchInv  when the ACM/BIOS timer reads as switched off;                *)
(*   CpuInv  the COMPLETEs of IBB and OBB, counted against the CPU.        *)
(* BmcInv and PchInv are inductive given the types, CpuInv given PchInv.   *)
(* TLC agrees on all of them, for every outcome of the authentication that *)
(* boots the BMC and one event of each of three kinds.                     *)
(***************************************************************************)
EXTENDS Watchdog, TLAPS

(***************************************************************************)
(* Types.                                                                  *)
(***************************************************************************)

\* tmin1_boot_bmc and tmin1_boot_pch start BMC and ME, never the CPU.
LEMMA ReleasedTypes ==
  /\ Released \in [Hosts -> Stages]
  /\ Released["bmc"] \in {"off", "boot"} /\ Released["me"] \in {"off", "boot"}
  /\ Released["cpu"] = "off"
  BY DEF Released, Hosts, Stages

\* What is done to the timer bank keeps its types, whichever timers it is for.
LEMMA TimerOps ==
  ASSUME TimerTypes
  PROVE  /\ \A S \in SUBSET Timers : Start(S) => TimerTypes'
         /\ \A S \in SUBSET Timers : Stop(S) => TimerTypes'
         /\ \A t \in Timers : Pause(t) \/ Resume(t) => TimerTypes'
         /\ PlatformReset \/ Tick \/ UNCHANGED timerVars => TimerTypes'
<1>1. ASSUME NEW S \in SUBSET Timers, Start(S) PROVE TimerTypes'
  <2>1. count' \in [Timers -> 0..Timeout]
    BY <1>1, TimingAssumption DEF TimerTypes, Start
  <2> QED
    BY <1>1, <2>1 DEF TimerTypes, Start
<1>2. ASSUME NEW S \in SUBSET Timers, Stop(S) PROVE TimerTypes'
  <2>1. count' \in [Timers -> 0..Timeout]
    BY <1>2, TimingAssumption DEF TimerTypes, Stop
  <2> QED
    BY <1>2, <2>1 DEF TimerTypes, Stop
<1>3. ASSUME NEW t \in Timers, Pause(t) \/ Resume(t) PROVE TimerTypes'
  BY <1>3 DEF TimerTypes, Pause, Resume
<1>4. ASSUME PlatformReset PROVE TimerTypes'
  <2>1. Armed \subseteq Timers
    BY DEF Armed, Timers
  <2>2. count' \in [Timers -> 0..Timeout]
    BY <1>4, TimingAssumption DEF PlatformReset
  <2> QED
    BY <1>4, <2>1, <2>2 DEF TimerTypes, PlatformReset
<1>5. ASSUME Tick PROVE TimerTypes'
  BY <1>5, TimingAssumption DEF Tick, TimerTypes
<1>6. ASSUME UNCHANGED timerVars PROVE TimerTypes'
  BY <1>6 DEF timerVars, TimerTypes
<1> QED
  BY <1>1, <1>2, <1>3, <1>4, <1>5, <1>6

\* Resets, cleared boxes and recoveries keep the types of what the Nios knows;
\* a level is only raised while one is left.
LEMMA ResetOps ==
  ASSUME NiosTypes
  PROVE  /\ PlatformReset => /\ chk' \in [Boxes -> Cmds \union {"none"}]
                             /\ done' \subseteq Parts
         /\ \A b \in Boxes : Clear(b) => chk' \in [Boxes -> Cmds \union {"none"}]
         /\ \A f \in Flashes : Trigger(f) =>
              /\ chk' \in [Boxes -> Cmds \union {"none"}]
              /\ done' \subseteq Parts /\ enabled' \subseteq Timers
              /\ level' \in [Flashes -> 1..(MaxRecoveries + 1)]
<1>1. PlatformReset => /\ chk' \in [Boxes -> Cmds \union {"none"}]
                       /\ done' \subseteq Parts
  BY DEF NiosTypes, PlatformReset
<1>2. \A b \in Boxes : Clear(b) => chk' \in [Boxes -> Cmds \union {"none"}]
  BY DEF NiosTypes, Clear
<1>3. ASSUME NEW f \in Flashes, Trigger(f)
      PROVE  level' \in [Flashes -> 1..(MaxRecoveries + 1)]
  <2>1. CASE LevelLeft(f) /\ level' = Raised(f)
    <3>1. level[f] + 1 \in 1 .. (MaxRecoveries + 1)
      BY <2>1, TimingAssumption DEF LevelLeft, NiosTypes
    <3> QED
      BY <2>1, <3>1 DEF Raised, NiosTypes
  <2> QED
    BY <1>3, <2>1 DEF Trigger, NiosTypes
<1>4. ASSUME NEW f \in Flashes, Trigger(f)
      PROVE  /\ chk' \in [Boxes -> Cmds \union {"none"}]
             /\ done' \subseteq Parts /\ enabled' \subseteq Timers
  BY <1>1, <1>4 DEF Trigger, NiosTypes, Timers, PchTimers
<1> QED
  BY <1>1, <1>2, <1>3, <1>4

\* The timers keep their types and their range.
LEMMA TimerStep == TimerTypes /\ [Next]_vars => TimerTypes'
<1> SUFFICES ASSUME TimerTypes, [Next]_vars PROVE TimerTypes'
  OBVIOUS
<1> USE TimerOps DEF timerVars, Timers, PchTimers
<1>1. CASE PlatformResetHandler
  BY <1>1 DEF PlatformResetHandler
<1>2. CASE BmcLook
  BY <1>2 DEF BmcLook, Trigger
<1>3. CASE BmcAct
  BY <1>3 DEF BmcAct, BmcBootComplete
<1>4. CASE MeStep
  BY <1>4 DEF MeStep, Trigger
<1>5. CASE BiosLook
  BY <1>5 DEF BiosLook
<1>6. CASE BiosStage
  BY <1>6 DEF BiosStage
<1>7. CASE AcmLook
  BY <1>7 DEF AcmLook
<1>8. CASE AcmClear
  BY <1>8 DEF AcmClear
<1>9. CASE PchAct
  BY <1>9 DEF PchAct
<1>10. CASE Recover
  BY <1>10 DEF Recover, Trigger
<1>11. CASE Intent
  BY <1>11 DEF Intent, BmcOnlyStart, PchOnlyStart
<1>12. CASE BmcResetHandler
  BY <1>12 DEF BmcResetHandler, BmcOnlyStart
<1>13. CASE BmcOnlyEnd
  BY <1>13 DEF BmcOnlyEnd
<1>14. CASE PchOnlyEnd
  BY <1>14 DEF PchOnlyEnd
<1>15. CASE Tick
  BY <1>15 DEF Tick
<1>16. CASE Bmc
  BY <1>16 DEF Bmc, NoNios
<1>17. CASE Me
  BY <1>17 DEF Me, NoNios
<1>18. CASE Cpu
  BY <1>18 DEF Cpu, NoNios
<1>19. CASE WarmReset
  BY <1>19 DEF WarmReset
<1>20. CASE ExtraCheckpoint
  BY <1>20 DEF ExtraCheckpoint
<1>21. CASE BmcSelfReset
  BY <1>21 DEF BmcSelfReset
<1>22. CASE UNCHANGED vars
  BY <1>22 DEF vars
<1> QED
  BY <1>1, <1>2, <1>3, <1>4, <1>5, <1>6, <1>7, <1>8, <1>9, <1>10, <1>11,
     <1>12, <1>13, <1>14, <1>15, <1>16, <1>17, <1>18, <1>19, <1>20, <1>21, <1>22
     DEF Next, Nios

\* Checkpoints, boot status, recovery levels and what a handler has read keep
\* their types.
LEMMA NiosStep == TypeOK /\ [Next]_vars => NiosTypes'
<1> SUFFICES ASSUME TypeOK, [Next]_vars PROVE NiosTypes'
  OBVIOUS
<1> USE TimingAssumption, ResetOps
    DEF TypeOK, NiosTypes, timerVars, niosVars, Flashes, Timers, Boxes, Cmds,
        Parts, PchTimers, PchParts, BiosParts
<1>1. CASE PlatformResetHandler
  BY <1>1, ZenonT(40) DEF PlatformResetHandler
<1>2. CASE BmcLook
  BY <1>2 DEF BmcLook, Watched, Expired
<1>3. CASE BmcAct
  BY <1>3 DEF BmcAct, BmcBootComplete, ClearIbb
<1>4. CASE MeStep
  <2>1. CASE Trigger("pch")
    BY <1>4, <2>1 DEF MeStep
  <2>2. CASE ~Trigger("pch")
    <3>1. level' \in {level, [level EXCEPT !["pch"] = 1]}
      BY <1>4, <2>2 DEF MeStep
    <3>2. level' \in [Flashes -> 1..(MaxRecoveries + 1)]
      BY <3>1
    <3>3. done' \subseteq Parts /\ UNCHANGED <<chk, enabled, auth, cmd>>
      BY <1>4, <2>2 DEF MeStep
    <3> QED
      BY <3>2, <3>3
  <2> QED
    BY <2>1, <2>2
<1>5. CASE BiosLook
  BY <1>5 DEF BiosLook, Watched, Expired, Settled, ReadsAcm
<1>6. CASE BiosStage
  BY <1>6 DEF BiosStage, BiosParty, ReadsAcm
<1>7. CASE AcmLook
  BY <1>7 DEF AcmLook, Settled
<1>8. CASE AcmClear
  BY <1>8 DEF AcmClear
<1>9. CASE PchAct
  BY <1>9 DEF PchAct, Settled
<1>10. CASE Recover
  BY <1>10 DEF Recover
<1>11. CASE Intent
  BY <1>11, ZenonT(40) DEF Intent, Use, BmcOnlyStart, PchOnlyStart, ReEnabled
<1>12. CASE BmcResetHandler
  BY <1>12, ZenonT(40) DEF BmcResetHandler, BmcOnlyStart
<1>13. CASE BmcOnlyEnd
  BY <1>13 DEF BmcOnlyEnd
<1>14. CASE PchOnlyEnd
  BY <1>14 DEF PchOnlyEnd
<1>15. CASE Tick
  BY <1>15 DEF Tick
<1>16. CASE Bmc
  BY <1>16 DEF Bmc, Advance, Post, NoNios
<1>17. CASE Me
  BY <1>17 DEF Me, Advance, NoNios
<1>18. CASE Cpu
  BY <1>18 DEF Cpu, Advance, Post, NoNios
<1>19. CASE WarmReset
  BY <1>19 DEF WarmReset, Use
<1>20. CASE ExtraCheckpoint
  BY <1>20 DEF ExtraCheckpoint, Use, Post
<1>21. CASE BmcSelfReset
  BY <1>21 DEF BmcSelfReset, Use
<1>22. CASE UNCHANGED vars
  BY <1>22 DEF vars
<1> QED
  BY <1>1, <1>2, <1>3, <1>4, <1>5, <1>6, <1>7, <1>8, <1>9, <1>10, <1>11,
     <1>12, <1>13, <1>14, <1>15, <1>16, <1>17, <1>18, <1>19, <1>20, <1>21, <1>22
     DEF Next, Nios

\* The latches of the hardware and the flags of the Nios stay Boolean.
LEMMA FlagStep == TypeOK /\ [Next]_vars => FlagTypes'
<1> SUFFICES ASSUME TypeOK, [Next]_vars PROVE FlagTypes'
  OBVIOUS
<1> USE DEF TypeOK, FlagTypes, timerVars, niosVars, ibbVars
<1>1. CASE PlatformResetHandler
  BY <1>1 DEF PlatformResetHandler, Start
<1>2. CASE BmcLook
  BY <1>2 DEF BmcLook, Trigger, PlatformReset, Watched, Expired, BmcReadsIbb,
              BmcPastIbb
<1>3. CASE BmcAct
  <2>1. lost' \in BOOLEAN
    BY <1>3 DEF BmcAct, Clear
  <2>2. UNCHANGED <<pltrst, panic>>
    BY <1>3 DEF BmcAct
  <2>3. CASE cmd = "complete"
    <3>1. latch' = (host["bmc"] \in {"boot", "loader"}) /\ clear' = TRUE
      BY <1>3, <2>3 DEF BmcAct, BmcBootComplete, ClearIbb, ReadsIbb
    <3> QED
      BY <2>1, <2>2, <3>1
  <2>4. CASE cmd # "complete"
    BY <1>3, <2>1, <2>2, <2>4 DEF BmcAct
  <2> QED
    BY <2>3, <2>4
<1>4. CASE MeStep
  BY <1>4 DEF MeStep, Watched, Expired, Trigger, PlatformReset, Stop,
              BmcReadsIbb, BmcPastIbb
<1>5. CASE BiosLook
  BY <1>5 DEF BiosLook, Watched, Expired, Settled, ReadsAcm
<1>6. CASE BiosStage
  BY <1>6 DEF BiosStage, Clear, PausedAtZero, BiosParty, Stop, Start, ReadsAcm
<1>7. CASE AcmLook
  BY <1>7 DEF AcmLook, Settled
<1>8. CASE AcmClear
  BY <1>8 DEF AcmClear, Clear, PausedAtZero
<1>9. CASE PchAct
  BY <1>9 DEF PchAct, Pause, Resume, PausedAtZero, Settled
<1>10. CASE Recover
  BY <1>10 DEF Recover, Trigger, PlatformReset, BmcReadsIbb, BmcPastIbb
<1>11. CASE Intent
  BY <1>11 DEF Intent, Use, PlatformReset, BmcOnlyStart, PchOnlyStart,
               ReEnabled, Stop, BmcReadsIbb, BmcPastIbb
<1>12. CASE BmcResetHandler
  BY <1>12 DEF BmcResetHandler, BmcOnlyStart, Stop
<1>13. CASE BmcOnlyEnd
  BY <1>13 DEF BmcOnlyEnd, Start, BmcReadsIbb
<1>14. CASE PchOnlyEnd
  BY <1>14 DEF PchOnlyEnd, Start
<1>15. CASE Tick
  BY <1>15 DEF Tick
<1>16. CASE Bmc
  BY <1>16 DEF Bmc, Advance, Post, NoNios, BmcPastIbb
<1>17. CASE Me
  BY <1>17 DEF Me, Advance, NoNios
<1>18. CASE Cpu
  BY <1>18 DEF Cpu, Advance, Post, NoNios
<1>19. CASE WarmReset
  BY <1>19 DEF WarmReset, Use
<1>20. CASE ExtraCheckpoint
  BY <1>20 DEF ExtraCheckpoint, Use, Post
<1>21. CASE BmcSelfReset
  BY <1>21 DEF BmcSelfReset, Use, BmcReadsIbb
<1>22. CASE UNCHANGED vars
  BY <1>22 DEF vars
<1> QED
  BY <1>1, <1>2, <1>3, <1>4, <1>5, <1>6, <1>7, <1>8, <1>9, <1>10, <1>11,
     <1>12, <1>13, <1>14, <1>15, <1>16, <1>17, <1>18, <1>19, <1>20, <1>21, <1>22
     DEF Next, Nios

\* The hosts go through their boot stages, wherever they are reset.
LEMMA HostStep == TypeOK /\ [Next]_vars => HostTypes'
<1> SUFFICES ASSUME TypeOK, [Next]_vars PROVE HostTypes'
  OBVIOUS
<1> USE ReleasedTypes
    DEF TypeOK, HostTypes, timerVars, niosVars, ibbVars, Hosts, Stages, Events
<1>1. CASE PlatformResetHandler
  BY <1>1 DEF PlatformResetHandler, Start
<1>2. CASE BmcLook
  BY <1>2 DEF BmcLook, Trigger, PlatformReset, Watched, Expired, BmcReadsIbb,
              BmcPastIbb
<1>3. CASE BmcAct
  BY <1>3 DEF BmcAct, Clear, PausedAtZero, BmcBootComplete, Stop, Start, Pause,
              Resume, ClearIbb
<1>4. CASE MeStep
  BY <1>4 DEF MeStep, Watched, Expired, Trigger, PlatformReset, Stop,
              BmcReadsIbb, BmcPastIbb
<1>5. CASE BiosLook
  BY <1>5 DEF BiosLook, Watched, Expired, Settled, ReadsAcm
<1>6. CASE BiosStage
  BY <1>6 DEF BiosStage, Clear, PausedAtZero, BiosParty, Stop, Start, ReadsAcm
<1>7. CASE AcmLook
  BY <1>7 DEF AcmLook, Settled
<1>8. CASE AcmClear
  BY <1>8 DEF AcmClear, Clear, PausedAtZero
<1>9. CASE PchAct
  BY <1>9 DEF PchAct, Pause, Resume, PausedAtZero, Settled
<1>10. CASE Recover
  BY <1>10 DEF Recover, Trigger, PlatformReset, BmcReadsIbb, BmcPastIbb
<1>11. CASE Intent
  BY <1>11 DEF Intent, Use, PlatformReset, BmcOnlyStart, PchOnlyStart,
               ReEnabled, Stop, BmcReadsIbb, BmcPastIbb
<1>12. CASE BmcResetHandler
  BY <1>12 DEF BmcResetHandler, BmcOnlyStart, Stop
<1>13. CASE BmcOnlyEnd
  BY <1>13 DEF BmcOnlyEnd, Start, BmcReadsIbb
<1>14. CASE PchOnlyEnd
  BY <1>14 DEF PchOnlyEnd, Start
<1>15. CASE Tick
  BY <1>15 DEF Tick
<1>16. CASE Bmc
  BY <1>16 DEF Bmc, Advance, Post, NoNios, BmcPastIbb
<1>17. CASE Me
  BY <1>17 DEF Me, Advance, NoNios
<1>18. CASE Cpu
  BY <1>18 DEF Cpu, Advance, Post, NoNios
<1>19. CASE WarmReset
  BY <1>19 DEF WarmReset, Use
<1>20. CASE ExtraCheckpoint
  BY <1>20 DEF ExtraCheckpoint, Use, Post
<1>21. CASE BmcSelfReset
  BY <1>21 DEF BmcSelfReset, Use, BmcReadsIbb
<1>22. CASE UNCHANGED vars
  BY <1>22 DEF vars
<1> QED
  BY <1>1, <1>2, <1>3, <1>4, <1>5, <1>6, <1>7, <1>8, <1>9, <1>10, <1>11,
     <1>12, <1>13, <1>14, <1>15, <1>16, <1>17, <1>18, <1>19, <1>20, <1>21, <1>22
     DEF Next, Nios

(***************************************************************************)
(* The checkpoint of the BMC and the detection latch.                      *)
(***************************************************************************)

\* As long as the BMC did not restart itself, a COMPLETE in its box, in the
\* hands of the handler or in the boot status means that the BMC is up, and from
\* the moment it is recorded the latch is clear.  T-1 of the BMC leaves neither
\* checkpoint nor boot status behind.
BmcInv ==
  /\ restart = "no" /\ chk["bmc"] = "complete" => host["bmc"] = "up"
  /\ restart = "no" /\ pc = "bmcAct" /\ cmd = "complete" => host["bmc"] = "up"
  /\ restart = "no" /\ "bmc" \in done => host["bmc"] = "up" /\ ~latch
  /\ pc = "tmin1Bmc" => "bmc" \notin done /\ chk["bmc"] # "complete" /\ host["bmc"] = "off"

\* BmcInv is inductive: the latch is cleared in the step that records the boot.
LEMMA BmcStep == TypeOK /\ BmcInv /\ [Next]_vars => BmcInv'
<1> SUFFICES ASSUME TypeOK, BmcInv, [Next]_vars PROVE BmcInv'
  OBVIOUS
<1> USE ReleasedTypes
    DEF TypeOK, NiosTypes, FlagTypes, HostTypes, BmcInv, timerVars, ibbVars,
        niosVars, Flashes, Boxes, Cmds, Parts, Hosts, PchTimers, PchParts,
        BiosParts, ReadsIbb
<1>1. CASE PlatformResetHandler
  BY <1>1 DEF PlatformResetHandler, Start
<1>2. CASE BmcLook
  BY <1>2 DEF BmcLook, Trigger, PlatformReset, Watched, Expired, BmcReadsIbb,
              BmcPastIbb
<1>3. CASE BmcAct
  <2>1. /\ pc' = "me" /\ UNCHANGED <<host, restart>>
        /\ chk'["bmc"] = "complete" => chk["bmc"] = "complete"
    BY <1>3 DEF BmcAct, Clear
  <2>2. CASE cmd = "complete"
    <3>1. done' = done \union {"bmc"} /\ latch' = ReadsIbb
      BY <1>3, <2>2 DEF BmcAct, BmcBootComplete, ClearIbb
    <3> QED
      BY <1>3, <2>1, <2>2, <3>1 DEF BmcAct
  <2>3. CASE cmd # "complete"
    <3>1. UNCHANGED <<done, latch>>
      BY <1>3, <2>3 DEF BmcAct
    <3> QED
      BY <2>1, <3>1
  <2> QED
    BY <2>2, <2>3
<1>4. CASE MeStep
  BY <1>4 DEF MeStep, Watched, Expired, Trigger, PlatformReset, Stop,
              BmcReadsIbb, BmcPastIbb
<1>5. CASE BiosLook
  BY <1>5 DEF BiosLook, Watched, Expired, Settled, ReadsAcm
<1>6. CASE BiosStage
  BY <1>6 DEF BiosStage, Clear, PausedAtZero, BiosParty, Stop, Start, ReadsAcm
<1>7. CASE AcmLook
  BY <1>7 DEF AcmLook, Settled
<1>8. CASE AcmClear
  BY <1>8 DEF AcmClear, Clear, PausedAtZero
<1>9. CASE PchAct
  BY <1>9 DEF PchAct, Pause, Resume, PausedAtZero, Settled
<1>10. CASE Recover
  BY <1>10 DEF Recover, Trigger, PlatformReset, BmcReadsIbb, BmcPastIbb
<1>11. CASE Intent
  BY <1>11 DEF Intent, Use, PlatformReset, BmcOnlyStart, PchOnlyStart,
               ReEnabled, Stop, BmcReadsIbb, BmcPastIbb
<1>12. CASE BmcResetHandler
  BY <1>12 DEF BmcResetHandler, BmcOnlyStart, Stop
<1>13. CASE BmcOnlyEnd
  BY <1>13 DEF BmcOnlyEnd, Start, BmcReadsIbb
<1>14. CASE PchOnlyEnd
  BY <1>14 DEF PchOnlyEnd, Start
<1>15. CASE Tick
  BY <1>15 DEF Tick
<1>16. CASE Bmc
  BY <1>16 DEF Bmc, Advance, Post, NoNios, BmcPastIbb
<1>17. CASE Me
  BY <1>17 DEF Me, Advance, NoNios
<1>18. CASE Cpu
  BY <1>18 DEF Cpu, Advance, Post, NoNios
<1>19. CASE WarmReset
  BY <1>19 DEF WarmReset, Use
<1>20. CASE ExtraCheckpoint
  BY <1>20 DEF ExtraCheckpoint, Use, Post
<1>21. CASE BmcSelfReset
  BY <1>21 DEF BmcSelfReset, Use, BmcReadsIbb
<1>22. CASE UNCHANGED vars
  BY <1>22 DEF vars
<1> QED
  BY <1>1, <1>2, <1>3, <1>4, <1>5, <1>6, <1>7, <1>8, <1>9, <1>10, <1>11,
     <1>12, <1>13, <1>14, <1>15, <1>16, <1>17, <1>18, <1>19, <1>20, <1>21, <1>22
     DEF Next, Nios

(***************************************************************************)
(* The ACM/BIOS timer and the boot status of the ME.                       *)
(***************************************************************************)

\* 1-3: the handler that reads and carries out a checkpoint of BIOS or ACM has
\* seen the timer on, and only a last COMPLETE switches it off in between;
\* 4, 5: a recorded ME is ready, and its timer is off until it is reset;
\* 6: without a recovery image for the PCH the timer is never switched on, so
\* that nothing the CPU posts is ever read.
PchInv ==
  /\ pc = "biosStage" => cmd # "none"
  /\ pc \in {"biosStage", "acm", "acmClear"} => ~Reads0("pch")
  /\ pc = "pchAct" => ~Reads0("pch") \/ cmd = "complete"
  /\ "me" \in done => "me" \notin running /\ host["me"] = "ready"
  /\ pc = "tmin1Pch" => "me" \notin done
  /\ auth["pch"] = "recFailed" =>
       /\ Reads0("pch") /\ done \intersect {"ibb", "obb"} = {}
       /\ pc \notin {"biosStage", "acm", "acmClear", "pchAct"}

\* PchInv is inductive.
LEMMA PchStep == TypeOK /\ PchInv /\ [Next]_vars => PchInv'
<1> SUFFICES ASSUME TypeOK, PchInv, [Next]_vars PROVE PchInv'
  OBVIOUS
<1> USE ReleasedTypes, TimingAssumption
    DEF TypeOK, TimerTypes, NiosTypes, HostTypes, PchInv, timerVars, ibbVars,
        niosVars, Flashes, Timers, Boxes, Cmds, Parts, Hosts, PchTimers,
        PchParts, BiosParts, Reads0, Armed
<1>1. CASE PlatformResetHandler
  BY <1>1 DEF PlatformResetHandler, Start
<1>2. CASE BmcLook
  BY <1>2 DEF BmcLook, Trigger, PlatformReset, Watched, Expired, BmcReadsIbb,
              BmcPastIbb
<1>3. CASE BmcAct
  BY <1>3 DEF BmcAct, Clear, PausedAtZero, BmcBootComplete, Stop, Start, Pause,
              Resume, ClearIbb
<1>4. CASE MeStep
  BY <1>4 DEF MeStep, Watched, Expired, Trigger, PlatformReset, Stop,
              BmcReadsIbb, BmcPastIbb
<1>5. CASE BiosLook
  BY <1>5 DEF BiosLook, Watched, Expired, Settled, ReadsAcm
<1>6. CASE BiosStage
  BY <1>6 DEF BiosStage, Clear, PausedAtZero, BiosParty, Stop, Start, ReadsAcm
<1>7. CASE AcmLook
  BY <1>7 DEF AcmLook, Settled
<1>8. CASE AcmClear
  BY <1>8 DEF AcmClear, Clear, PausedAtZero
<1>9. CASE PchAct
  BY <1>9 DEF PchAct, Pause, Resume, PausedAtZero, Settled
<1>10. CASE Recover
  BY <1>10 DEF Recover, Trigger, PlatformReset, BmcReadsIbb, BmcPastIbb
<1>11. CASE Intent
  BY <1>11 DEF Intent, Use, PlatformReset, BmcOnlyStart, PchOnlyStart,
               ReEnabled, Stop, BmcReadsIbb, BmcPastIbb
<1>12. CASE BmcResetHandler
  BY <1>12 DEF BmcResetHandler, BmcOnlyStart, Stop
<1>13. CASE BmcOnlyEnd
  BY <1>13 DEF BmcOnlyEnd, Start, BmcReadsIbb
<1>14. CASE PchOnlyEnd
  BY <1>14 DEF PchOnlyEnd, Start
<1>15. CASE Tick
  BY <1>15 DEF Tick
<1>16. CASE Bmc
  BY <1>16 DEF Bmc, Advance, Post, NoNios, BmcPastIbb
<1>17. CASE Me
  BY <1>17 DEF Me, Advance, NoNios
<1>18. CASE Cpu
  BY <1>18 DEF Cpu, Advance, Post, NoNios
<1>19. CASE WarmReset
  BY <1>19 DEF WarmReset, Use
<1>20. CASE ExtraCheckpoint
  BY <1>20 DEF ExtraCheckpoint, Use, Post
<1>21. CASE BmcSelfReset
  BY <1>21 DEF BmcSelfReset, Use, BmcReadsIbb
<1>22. CASE UNCHANGED vars
  BY <1>22 DEF vars
<1> QED
  BY <1>1, <1>2, <1>3, <1>4, <1>5, <1>6, <1>7, <1>8, <1>9, <1>10, <1>11,
     <1>12, <1>13, <1>14, <1>15, <1>16, <1>17, <1>18, <1>19, <1>20, <1>21, <1>22
     DEF Next, Nios

(***************************************************************************)
(* The checkpoints of the BIOS and the stages of the CPU.                  *)
(***************************************************************************)

\* As long as no checkpoint was lost, the COMPLETE in the box and the parts in
\* the boot status account for the stage the CPU is in (2, 3: none is missing),
\* and unless a PLTRST# waits to be handled they do not claim more (4: none is
\* left over from before the reset; what a reset of the platform leaves in the
\* box is only read after platform_reset_handler has cleared it).
CpuInv == ~lost =>
  /\ pc = "biosStage" => chk["bios"] = cmd
  /\ host["cpu"] = "obb" => chk["bios"] = "complete" \/ "ibb" \in done
  /\ host["cpu"] = "os" => "ibb" \in done /\ (chk["bios"] = "complete" \/ "obb" \in done)
  /\ ~pltrst /\ auth["pch"] # "recFailed" =>
       /\ host["cpu"] \in {"off", "acm"} =>
            /\ "ibb" \notin done /\ pc # "biosStage"
            /\ Reads0("pch") \/ chk["bios"] = "none"
       /\ host["cpu"] = "ibb" => "ibb" \notin done /\ chk["bios"] # "complete"
       /\ host["cpu"] = "obb" /\ chk["bios"] = "complete" => "ibb" \notin done
       /\ "obb" \in done => host["cpu"] = "os"

\* CpuInv is inductive, given PchInv.
LEMMA CpuStep == TypeOK /\ PchInv /\ CpuInv /\ [Next]_vars => CpuInv'
<1> SUFFICES ASSUME TypeOK, PchInv, CpuInv, [Next]_vars PROVE CpuInv'
  OBVIOUS
<1> USE ReleasedTypes, TimingAssumption
    DEF TypeOK, TimerTypes, NiosTypes, HostTypes, PchInv, CpuInv, timerVars,
        ibbVars, niosVars, Flashes, Timers, Boxes, Cmds, Parts, Hosts,
        PchTimers, PchParts, BiosParts, Reads0, Armed
<1>1. CASE PlatformResetHandler
  BY <1>1 DEF PlatformResetHandler, Start
<1>2. CASE BmcLook
  BY <1>2 DEF BmcLook, Trigger, PlatformReset, Watched, Expired, BmcReadsIbb,
              BmcPastIbb
<1>3. CASE BmcAct
  BY <1>3 DEF BmcAct, Clear, PausedAtZero, BmcBootComplete, Stop, Start, Pause,
              Resume, ClearIbb
<1>4. CASE MeStep
  BY <1>4 DEF MeStep, Watched, Expired, Trigger, PlatformReset, Stop,
              BmcReadsIbb, BmcPastIbb
<1>5. CASE BiosLook
  BY <1>5 DEF BiosLook, Watched, Expired, Settled, ReadsAcm
<1>6. CASE BiosStage
  BY <1>6 DEF BiosStage, Clear, PausedAtZero, BiosParty, Stop, Start, ReadsAcm
<1>7. CASE AcmLook
  BY <1>7 DEF AcmLook, Settled
<1>8. CASE AcmClear
  BY <1>8 DEF AcmClear, Clear, PausedAtZero
<1>9. CASE PchAct
  BY <1>9 DEF PchAct, Pause, Resume, PausedAtZero, Settled
<1>10. CASE Recover
  BY <1>10 DEF Recover, Trigger, PlatformReset, BmcReadsIbb, BmcPastIbb
<1>11. CASE Intent
  BY <1>11 DEF Intent, Use, PlatformReset, BmcOnlyStart, PchOnlyStart,
               ReEnabled, Stop, BmcReadsIbb, BmcPastIbb
<1>12. CASE BmcResetHandler
  BY <1>12 DEF BmcResetHandler, BmcOnlyStart, Stop
<1>13. CASE BmcOnlyEnd
  BY <1>13 DEF BmcOnlyEnd, Start, BmcReadsIbb
<1>14. CASE PchOnlyEnd
  BY <1>14 DEF PchOnlyEnd, Start
<1>15. CASE Tick
  BY <1>15 DEF Tick
<1>16. CASE Bmc
  BY <1>16 DEF Bmc, Advance, Post, NoNios, BmcPastIbb
<1>17. CASE Me
  BY <1>17 DEF Me, Advance, NoNios
<1>18. CASE Cpu
  BY <1>18 DEF Cpu, Advance, Post, NoNios
<1>19. CASE WarmReset
  BY <1>19 DEF WarmReset, Use
<1>20. CASE ExtraCheckpoint
  BY <1>20 DEF ExtraCheckpoint, Use, Post
<1>21. CASE BmcSelfReset
  BY <1>21 DEF BmcSelfReset, Use, BmcReadsIbb
<1>22. CASE UNCHANGED vars
  BY <1>22 DEF vars
<1> QED
  BY <1>1, <1>2, <1>3, <1>4, <1>5, <1>6, <1>7, <1>8, <1>9, <1>10, <1>11,
     <1>12, <1>13, <1>14, <1>15, <1>16, <1>17, <1>18, <1>19, <1>20, <1>21, <1>22
     DEF Next, Nios

(***************************************************************************)
(* The theorems.                                                           *)
(***************************************************************************)
\* The platform comes out of T-1 with all of it.
LEMMA Initially == Init => TypeOK /\ BmcInv /\ PchInv /\ CpuInv
<1> SUFFICES ASSUME Init PROVE TypeOK /\ BmcInv /\ PchInv /\ CpuInv
  OBVIOUS
<1> USE TimingAssumption, ReleasedTypes
<1>1. TimerTypes
  <2>1. Armed \subseteq Timers
    BY DEF Armed, Timers
  <2> QED
    BY <2>1 DEF Init, TimerTypes
<1>2. NiosTypes
  BY DEF Init, NiosTypes
<1>3. FlagTypes
  BY DEF Init, FlagTypes, CanBootBmc
<1>4. HostTypes
  BY DEF Init, HostTypes
<1>5. BmcInv
  BY DEF Init, BmcInv, Boxes
<1>6. PchInv
  BY DEF Init, PchInv, Reads0, Armed, Timers
<1>7. CpuInv
  BY DEF Init, CpuInv, Reads0, Armed, Timers, Boxes
<1> QED
  BY <1>1, <1>2, <1>3, <1>4, <1>5, <1>6, <1>7 DEF TypeOK

IInv == TypeOK /\ BmcInv /\ PchInv /\ CpuInv

\* All variables keep their types, the count of a timer and the recovery level
\* their range, however events and handlers interleave.
THEOREM TypeCorrect == Spec => []TypeOK
<1>1. TypeOK /\ [Next]_vars => TypeOK'
  BY TimerStep, NiosStep, FlagStep, HostStep DEF TypeOK
<1> QED
  BY <1>1, Initially, PTL DEF Spec

\* The invariants together are an inductive invariant of timed boot.
THEOREM Inductive == Spec => []IInv
  BY TypeCorrect, Initially, BmcStep, PchStep, CpuStep, PTL DEF Spec, IInv

\* OBB recorded as booted means that the CPU is in the OS, until a PLTRST# the
\* Nios has not handled yet, if no checkpoint was lost
\* (acm_bios_watchdog_timer_handler, platform_reset_handler).
THEOREM RecordHonest == Spec => []BootRecordHonest
<1>1. IInv => BootRecordHonest
  BY DEF IInv, PchInv, CpuInv, BootRecordHonest
<1> QED
  BY <1>1, Inductive, PTL

\* bmc_reset_handler pulls a BMC into T-1 only if the BMC restarted itself.
THEOREM NoPhantom == Spec => NoPhantomReset
<1>1. IInv /\ [Next]_vars
        => [(pc = "resets" /\ pc' = "tmin1Bmc" /\ UNCHANGED used) => restart # "no"]_vars
  <2> SUFFICES ASSUME IInv, Next, pc = "resets", pc' = "tmin1Bmc", UNCHANGED used
               PROVE  restart # "no"
    BY DEF vars
  <2> USE DEF IInv, TypeOK, HostTypes
  <2>1. ~Intent
    BY DEF Intent, Use, Events
  <2>2. BmcResetHandler
    BY <2>1 DEF Next, Nios, PlatformResetHandler, BmcLook, BmcAct, MeStep,
                BiosLook,
           BiosStage, AcmLook, AcmClear, PchAct, Recover, BmcOnlyEnd, PchOnlyEnd,
           Tick, Bmc, Me, Cpu, NoNios, WarmReset, ExtraCheckpoint, BmcSelfReset
  <2> QED
    BY <2>2 DEF BmcResetHandler, IbbSeen, BmcInv
<1> QED
  BY <1>1, Inductive, PTL DEF Spec, NoPhantomReset

\* A PCH recovery never strikes a host that is up with all its checkpoints
\* accounted for (me_watchdog_timer_handler, trigger_pch_wdt_recovery).
THEOREM HealthyKept == Spec => HealthyHostKept
<1>1. IInv /\ [Next]_vars
        => [(pc \in {"me", "recover"} /\ host'["me"] # host["me"] /\ ~lost)
              => \/ host["cpu"] # "os" \/ "me" \notin done
                 \/ chk["bios"] = "complete" \/ LateComplete]_vars
  <2> SUFFICES ASSUME IInv, Next, pc \in {"me", "recover"}, host'["me"] # host["me"],
                      ~lost, host["cpu"] = "os", "me" \in done
               PROVE  chk["bios"] = "complete" \/ LateComplete
    BY DEF vars
  <2> USE DEF IInv, TypeOK, HostTypes, Hosts
  <2>1. chk["bios"] = "complete" \/ "obb" \in done
    BY DEF CpuInv
  <2>2. ~Expired("me") /\ host["me"] = "ready"
    BY DEF PchInv, Expired
  <2>3. pc = "recover"
    BY <2>2 DEF Next, Nios, PlatformResetHandler, BmcLook, BmcAct, MeStep,
                BiosLook,
           BiosStage, AcmLook, AcmClear, PchAct, Recover, BmcOnlyEnd, PchOnlyEnd,
           Tick, Bmc, Me, Cpu, NoNios, WarmReset, ExtraCheckpoint, BmcSelfReset,
           Intent, BmcResetHandler, Advance, Expired
  <2> QED
    BY <2>1, <2>3 DEF LateComplete
<1> QED
  BY <1>1, Inductive, PTL DEF Spec, HealthyHostKept
=============================================================================
