# Verification of the Wilson City PFR root of trust

The repository holds the platform firmware resiliency (PFR) design of the Wilson
City server board: an Intel MAX 10 CPLD whose Nios II firmware (`src/fw/code/inc`)
authenticates, updates and recovers the firmware of the BMC and of the PCH, and the
RTL around it (`src/src`): SPI filters, SMBus relays, a mailbox, timers, crypto
engines, power sequencers. This directory holds TLA+ models of it, the TLC
configurations that check them and the TLAPS proofs about them.

Line numbers without a directory refer to `src/fw/code/inc`.

## 1. The system

### Modes

* **T-1**: BMC and PCH are held in reset, the Nios owns both SPI flashes. It
  promotes pending updates, recovers firmware whose watchdog expired, carries out
  update intents, authenticates both flashes and repairs them
  (`tmin1_routines.h`, `tmin1_update.h`, `flash_validation.h`).
* **T0**: the hosts run and stage update capsules in their own flash; the Nios
  polls five handlers in a loop (`perform_t0_operations`, t0_routines.h:143).
* A handler leaves T0 through one of three resets: of the platform, of the BMC
  alone, of the PCH alone (`transition.h`). Only the platform reset runs the first
  part of T-1 (out-of-band PCH capsule, pending recovery updates).
* The CPLD itself has two images: **CFM1**, the active one, runs the above;
  **CFM0**, the ROM image, copies a CPLD capsule over CFM1 (`recovery_main.h`).

### Inventory

| Component | State it keeps | Operations | Talks to | What is hard |
|---|---|---|---|---|
| Firmware resiliency flow | regions and SVN policy of two flashes, flash states, failed-update counters, recovery levels, boot status, update intents | T-1 steps, five T0 handlers, three resets | hosts (mailbox, flash), timers, CPLD update | power loss between any two writes; hosts that change capsule and intent after they were checked; several resets that ask for each other |
| CPLD update | CFM1, bread crumb, update status word, staged and recovery CPLD capsule, SVN policy | trigger, apply, promote, recover, reconfigure | BMC (capsule, intent), hardware watchdog | two images that see each other only through flash; power loss between the two flags |
| Watchdogs and boot checkpoints | three down counters with an enable bit, checkpoint registers, boot stage | arm, pause, resume, complete, expire | BMC, ACM, BIOS, ME | hardware counts while the firmware reads; checkpoint and expiry in one poll |
| BMC reset detection | IBB (initial boot block) access latch in the SPI filter, clear bit | detect, clear, handle | BMC flash traffic | the clear bit is level sensitive |
| UFM provisioning | UFM words, status bits, provisioning commands, protect-in-transit hashes | provision, lock, read, PIT L1/L2 | BMC through the mailbox, RFNVRAM | the status bit is written before the data |
| Signatures, key cancellation | root key hash, cancelled key bits in UFM | verify, cancel | every capsule check | keys cancelled by a capsule that is already staged |
| PFM, PBC, capsule layout | region tables and bitmaps in flash | look up, decompress, hash | T-1 | which page of a capsule goes where; erases that reach beyond a region |
| SPI access by the Nios | address mode, write enable memory | erase, copy, write enable | SPI filter | power loss inside a command; borders of regions inside a word of the memory |
| Mailbox | register file, FIFOs, write permissions | host reads and writes, Nios reads and writes | hosts, Nios | two writers of one register |
| SPI filter | command in flight, address mode, write-enable bits | filter a command | hosts, flash | command state across chip select |
| SMBus relay | bus state, command enable memory | relay, block | hosts, devices | two bus masters |
| Power sequencers | state of each rail's sequencer | start, stop, fault | each other | faults during a sequence |
| JTAG lock, crypto engines, RFNVRAM master, logging | see PROJECT.json | | | |

What makes each component correct: a flash always keeps one
complete copy and never loses its way back (flow); the CPLD never loses its last image
and only keeps what it has run (CPLD update); a watchdog only ever ends in a recorded
boot, a recovery or a disabled timer, and a late answer never undoes a recovery
(watchdogs); a reset that happened is handled once (reset detection); what was
provisioned is never written over, sealed flashes are the ones admitted, and the mailbox
tells the truth about both, across power losses (provisioning); a cancelled key
never signs what is accepted later (key cancellation); a host never writes a region its
firmware did not open (SPI filter); a command that is not enabled never reaches a device
(relay); a rail is only up with the rails it needs (sequencers).

The hazards of each, at the line where they bite, and the properties that cover them are
listed in PROJECT.json, and where a property covers one only in part, what it leaves
out. Three are left without a property, because the code does lose what would have to be
kept: a PAUSE at the last tick (t0_watchdog_handler.h:253), a checkpoint that comes between
the read and the clear (t0_watchdog_handler.h:235), and a power loss between the lock bit
and the SVN policies (t0_provisioning.h:162). See the observations.

## 2. Modules

| Module | Role |
|---|---|
| `PfrFlow` | the firmware resiliency flow of the active CPLD image |
| `FailsafeStore` | abstract specification of one flash; `PfrFlow` implements it twice, as `Store("bmc")` and `Store("pch")`, `FlashPages` once more page by page |
| `CpldUpdate` | both CPLD images, their flags and capsules |
| `Watchdog` | timed boot: timer bank, checkpoints, the handlers that poll them, BMC reset detection |
| `UfmPage` | the UFM page as data: status bits, provisioned fields, hashes, SVN and key policies |
| `Authentication` | signature chains, certificates and the checks of a capsule, as operators over a UFM page |
| `Provisioning` | UFM commands of the mailbox, protect-in-transit (PIT), power losses |
| `Ufm` | composes `Provisioning` and `Authentication` with the T-1 operations that read or change the page |
| `FlashPages` | the BMC flash page by page, and the BMC behind the SPI filter |
| `MCPfrFlow`, `MCCpldUpdate`, `MCWatchdog`, `MCUfm`, `MCFlashPages` | instances for TLC |
| `PfrFlowProofs`, `FailsafeStoreProofs` | theorems about the flow and its abstraction |
| `CpldUpdateProofs` | theorems about the CPLD update |
| `WatchdogProofs` | theorems about timed boot |
| `UfmProofs` | theorems about the UFM page, provisioning and keys |
| `FlashFilterProofs` | induction and arithmetic; the loop that fills the write enable memory |
| `FlashPagesProofs` | what the commands of each T-1 handler make of the flash; the invariants of `FlashPages` |
| `FlashStoreProofs` | `FlashPages` implements `FailsafeStore` |

The modules look at one system at different depths. What is one step in one of them is
spelled out in another: an update that `PfrFlow` accepts by choice is admitted by keys
and SVNs in `Ufm`; a region it erases and writes in two steps is a sequence of flash
commands in `FlashPages`; a timer it lets expire counts in `Watchdog`.

### PfrFlow

A flash has an `active` region, a `recovery` capsule and a `staging` capsule; their
content is complete firmware (a member of `Images[f]`), `Cert` (a signed capsule
without firmware: a key cancellation certificate) or `Bad` (erased, half written or
damaged). `pc` is the next step of the Nios and the flash it is for:

    oob -> [oobWrite] -> pend(bmc) -> [pendWrite -> pendSvn] -> pend(pch) -> ...
        -> wdt(f) -> [wdtWrite] -> intent(f) -> [intentWrite] -> [cpld, BMC only]
        -> auth(f) -> [authRec -> authSvn] -> authAct -> [authWrite] -> entry -> t0

A BMC-only or PCH-only reset enters at `wdt`. Steps in brackets are writes: each write
to a flash region is an erase in one step and the copy in the next, and the SVN policy
follows in a third, so that `PowerLoss` may come between any two of them. Everything
that is RAM or mailbox is reset by `Restart`. A host runs while it is in `up`, also in
the middle of a T-1 pass for the other flash.

| Action | Code |
|---|---|
| `Oob`, `OobWrite` | `prep_for_oob_pch_fw_update` |
| `Pend`, `Promote`, `PendSvn` | `process_pending_recovery_update`, `perform_firmware_recovery_update` |
| `Wdt`, `WdtWrite` | `perform_wdt_recovery` |
| `Intent`, `IntentWrite` | `act_on_bmc_update_intent`, `act_on_pch_update_intent`, `perform_active_firmware_update` |
| `CpldIntent` | the CPLD part of `act_on_bmc_update_intent`; the update itself is `CpldUpdate` |
| `Auth`, `AuthSvn`, `AuthAct`, `AuthWrite` | `authenticate_and_recover_spi_flash` |
| `EntryPlatform`, `EntryBmcOnly`, `EntryPchOnly` | `perform_entry_to_t0`, `..._bmc_only`, `tmin1_boot_pch` |
| `UpdateIntent` | `mb_update_intent_handler_for_bmc`, `_for_pch` |
| `BootDone`, `Timeout` | the watchdog handlers and `trigger_*_wdt_recovery` |
| `PlatformReset`, `BmcReset`, `PostUpdate` | `platform_reset_handler`, `bmc_reset_handler`, `post_update_routine` |

Choices that are data in the code and nondeterministic here: whether a watchdog
recovery takes the static regions (RPLM bits of the PFM), the number read as SVN of
content that has none, the outcome of a CPLD update. `proven` is a history variable.

### CpldUpdate

CFM1 is two parts, `lo` (sector 3, with the first word, which is written last) and
`hi` (sector 4, with the last word, whose value 0 is the bread crumb). It is bootable
when both belong to the same image. `rcFlag` is the update status word in UFM.
`tmin1` .. `t0` are steps of CFM1, `romEntry` .. `romCrumb` of CFM0; one action is one
write to CFM1, UFM or the BMC flash. A reconfiguration loses RAM and mailbox
(`LoseRam`); CFM0 learns why it runs from `reason` only. Hanging images are caught by
the hardware watchdog (`HangTrips`); `WatchdogTrips` is the watchdog tripping on an
image that works, at any step.

### FailsafeStore

What the platform promises of one flash: firmware in service, a copy to go back to, an
anti-rollback floor. Five steps: take the active firmware apart while the copy is
complete, install complete firmware that is not below the floor, discard the copy while
the active firmware is complete, replace it by the firmware in service, raise the floor
to at most what both carry. `PfrFlow` maps `active[f]`, `recovery[f]` and `svn[f]` to
its variables; every other step of the flow is a stutter.

### Watchdog

`count` and `running` are the registers of `timer_bank.sv`. A handler reads a register in
one step and acts on it in the next, so timers count (`Tick`) and hosts post checkpoints
in between; `pc` goes round the T0 loop

    pltrst -> bmc [-> bmcAct] -> me -> bios [-> biosStage] [-> acm -> acmClear] [-> pchAct]
      [-> recover] -> resets -> pltrst

| Action | Code |
|---|---|
| `PlatformResetHandler` | `platform_reset_handler`, with the PLTRST# edge latch of `pfr_core.sv` |
| `BmcLook`, `BmcAct` | `bmc_watchdog_timer_handler` |
| `MeStep` | `me_watchdog_timer_handler` |
| `BiosLook`, `BiosStage`, `AcmLook`, `AcmClear`, `PchAct`, `Recover` | `acm_bios_watchdog_timer_handler` |
| `Intent`, `BmcOnlyEnd`, `PchOnlyEnd` | update intents and what a reset does to timers and checkpoints |
| `BmcResetHandler` | `bmc_reset_handler`, with the latch of `spi_filter.sv` (`latch`, `clear`) |
| `Bmc`, `Me`, `Cpu`, `WarmReset`, `ExtraCheckpoint`, `BmcSelfReset` | the hosts (external) |

A host may stop at any point, which is how it hangs. `lost` is a history variable: the
checkpoint protocol has one register per host and no acknowledgement, so a checkpoint
that is overwritten, or cleared between the read and the write of 0, is lost; properties
about healthy hosts only speak of boots in which nothing was lost.

### UfmPage, Authentication, Provisioning, Ufm

An erased bit of the UFM is 1 and can only become 0. `UfmPage` has the page as a record:
the status bits that are set, per field one of `Blank`, a value, `Part` (only the first
words written) or `Blend` (two values over each other), and the SVN and key policies as
the sets of bits that are still 1. `write_ufm_svn` is two operators, `WriteFirst` and
`WriteSecond`, because power may fail between the two words. `Authentication` has the
checks of `authentication.h`, `keychain.h` and `capsule_validation.h` as predicates with
the names of the source; a digest is the content itself, a signature names its key and
what it is over.

`Provisioning` takes `mb_ufm_provisioning_handler` apart at every write that a host or a
power loss can tell apart: taking the trigger, the status bit before the data, the FIFO,
the two halves of a field, RFNVRAM, lock bit and SVN policies. `at` is the next step,
`local` holds local variables and return addresses. `EnterTmin1`, `PitL1`, `PitL2`,
`Seal` and `Passed` are `perform_pit_protection`; `PowerLoss`, `PowerOn`, `Reconfig`
lose all registers; `Transit` replaces RFNVRAM or flash content while power is off.

`Ufm` adds what T-1 does next, one action per function: `Pend`, `Intent`, `Cpld`,
`CpldRestart`, `AuthRecovery`, `AuthActive`, `AuthDone`, `PchIntent`, with the staging
areas, the intent registers and the capsules in the regions. Copying a capsule is one
step here.

### FlashPages

The BMC flash as a function from pages to contents: `Erased`, `Junk`, a page of firmware,
a signed PFM, or the first page of a capsule. Each T-1 handler computes the commands it
gives (`plan`) with the loops of `erase_spi_region`, `decompress_spi_region_from_capsule`
and `memcpy_signed_payload`; `Exec` carries out one of them, and `PowerLoss` may leave the
pages of the one under way half done. `goal` is a history variable: what the flash should
look like afterwards, from what the operation is for. `vetting` is another one: whether
the intent in the mailbox is the one that T0 has let in. The BMC writes the mailbox in a
step of its own (`PostIntent`), so a reset may come between that and the handler of T0.

| Action | Code |
|---|---|
| `Pend` | `process_pending_recovery_update` |
| `Wdt` | `perform_wdt_recovery`, with the recovery bits of the PFM in the flash |
| `Intent` | `act_on_bmc_update_intent`, `perform_active_firmware_update`, on whatever is in the mailbox; which capsule is admitted is left to `PfrFlow` and `Ufm`, so it may be refused for any reason |
| `Auth`, `AuthAct` | `authenticate_and_recover_spi_flash`, with FORCE_RECOVERY |
| `Apply` | `apply_spi_write_protection_and_smbus_rules` and the two `write_protect_cpld_*_region`; `CollectWord` is one pass of the inner loop |
| `Entry` | `tmin1_boot_bmc`, `perform_entry_to_t0_bmc_only`: address mode of flash and filter |
| `Decay` | the recovery capsule goes bad before it is authenticated (external) |
| `EnterFourByte`, `HostWrite`, `Stage` | the BMC through `spi_filter.sv` |
| `PostIntent` | the BMC writes its update intent, for now or for the next reset (external) |
| `UpdateIntent` | `mb_update_intent_handler_for_bmc`: refuses, promotes directly, or resets |
| `PostUpdate`, `BootDone`, `Timeout`, `OtherReset` | what ends T0, or changes RAM in it |

`LayoutAssumption` and `PlacesAssumption` collect what comments in decompression.h
(183-190), pfm_utils.h (107-110) and spi_filter.sv (118) ask of whoever builds the firmware
and the code does not check: the regions are contiguous and cover the flash, a writable
region starts on 16 kB unless the one before is writable too, for images a BMC stages no
64 kB sector is half writable; no region that is copied to or that the BMC may write
overlaps a recovery capsule, for images a BMC stages none that it may write overlaps the
PFM, the staged capsule is in a region of its own. The hash of a region is over all its
pages (pfm_validation.h:80), and a restore writes those in the active bitmap: a capsule
that can be installed at all has the pages of its hashed regions in its active bitmap,
and the pages of the signed PFM in none of them, which it could not contain.
`SizesAssumption` relates the sizes of page, chunk,
sector and word.

## 3. Runs

Bounds are constants: each member of `Limits` says how often each event may happen in a
behaviour of `PfrFlow`, and a behaviour keeps to one of them; `Budgets` is the same of
`CpldUpdate`; `Watchdog`, `Provisioning` and `FlashPages`
have `Scenarios`, a set of starting points each with its own budget, so that one run
covers many small combinations. In `PfrFlow` staging is not bounded in number: a running host may
replace its capsule at any step, by one of `Staged`; in `Ufm` power losses are not bounded either.

| Run | Specification and bounds | Checks | Shows |
|---|---|---|---|
| `flow_power` | two images for each flash; BMC intents active, recovery, at reset, PCH recovery, PCH recovery with CPLD; PCH intent; out-of-band PCH capsule; 2 intents, 1 power loss, 1 PLTRST#, FORCE_RECOVERY off and on | `NoRegionLost`, `SvnFloorCovered`, `FailsafeFlash`, `BootsAuthentic` | power loss between any two writes of any update or recovery loses nothing, although two hosts may update the PCH flash |
| `flow_timers` | BMC and PCH firmware that hangs, in either staging region and out-of-band; BMC intents recovery, recovery with CPLD recovery (written back), active at reset (deferred), PCH recovery with CPLD active; PCH intents active and recovery; 2 intents, or 1 with 1 timer that expires early, or 1 with 1 damage event; `FairSpec`; 1,208,448 states | `TypeOK`, `ResetsEnd`, `HangHandled`, `PendingSettles` | resets end; hangs are rolled back or given up and no update stays pending, where all parts are watched |
| `flow_damage` | 2 events that damage a region or both regions of a flash, 1 PCH intent, 1 BMC-only reset | `LockdownIsLast`, `PchNeedsBmc` | lockdown only when nothing is left; PCH never released without the BMC |
| `flow_boot` | 1 intent with BMC recovery and CPLD recovery bits | `BootedBeforePromoted` | finding 1 |
| `flow_cert` | 1 damage event, a certificate in staging | `BootsAuthentic` | finding 2 |
| `cpld` | 2 intents with 2 power losses and 1 trip, with 2 trips, or with 1 power loss, 1 trip and 1 damaged region; `FairSpec` | `TypeOK`, `SomeCopyComplete`, `SvnFloorCovered`, `RecoveryBoots`, `PromotesOnlyWhatRan`, `UpdateNeverRollsBack`, `UpdateSettles`, `BmcRunsAgain` | a complete copy is left, hanging images never get into the recovery region, no update goes below the SVN policy, each one is settled, the BMC runs again |
| `cpld_power_promotes` | 1 power loss, 1 intent | `PromotesRunningImage` | finding 3 |
| `cpld_rom_stuck` | 1 power loss, 2 trips, 1 intent; `FairSpec` | `RomRecoveryEnds` | finding 4 |
| `watchdog` | timers of 1 tick, 1 recovery level, seven combinations of authentication results and events; `FairSpec` | `TypeOK`, `BootRecordHonest`, `NoPhantomReset`, `HealthyHostKept`, `NoRecoveryLoop`, `BootRecorded` | boots are recorded once and honestly, only firmware that failed to boot is recovered, and not for ever |
| `watchdog_ibb` | one PCH intent, one restart of the BMC by itself; `FairSpec` | `RestartSeen` | finding 5 |
| `ufm` | seven scenarios, below; any number of power losses; `FairSpec` | `TypeOK`, `WrittenOnce`, `SealHonest`, `StatusHonest`, `BootAdmitted`, `DoneIsMine`, `LockedIsFrozen`, `FloorExact`, `UpdateAboveFloor`, `CancelledStaysOut`, `CommandAnswered` | provisioning, locking, sealing, updates, cancellation and decommissioning survive power losses, and the mailbox tells the truth about them |
| `flash_pages` | 48 pages, two updates with different region borders, about 180 more layouts that only boot; intents now and at reset; 1 or 2 power losses; 547,535 states | `CopiesExact`, `BootsComplete`, `RulesExact`, `FailsafePages`, `OnlyOpened` | copies leave exactly the intended pages, the flash keeps the promise of `FailsafeStore` until an intent that T0 has not let in meets a missing recovery capsule, the filter opens what the PFM says |

Why the bounds are enough.

* `PfrFlow`, `CpldUpdate`: two images per flash are needed for an update, three (one of
  them hanging) for a failed one; the SVNs 0 and 1 tell a rollback from an update. Two
  intents are the smallest number with an update on top of a pending one, one power loss
  reaches every state between two writes with every repair that follows it; the proofs
  below cover any number. `JunkSvns` stands for what the code reads as SVN from content
  that has none: a value below, and one above every real SVN. Two damage events reach both
  flashes with all regions gone. `MaxFailed` is 2 instead of 10 so that the counter's
  limit is reached.
* `Watchdog`: with a period of one tick a timer expires between any two steps of a
  handler or of a host, or does not; a longer period adds no order of events. One level of
  recovery is enough to use up the levels and start them anew.
* `Ufm`: with two bits to a word SVN policies need none, one or both words, and an SVN
  beyond the maximum is a 5. The scenarios: `Blanks` provisions an erased page (two root
  keys, erase, lock, reconfigure, read), `Late` ends provisioning and updates before the
  next T-1, `Pit` seals, ships and unseals a platform whose flash or RFNVRAM may be
  replaced, `PitPending` has the PIT ID still to come, `Updates` has capsules of two SVNs
  under two keys with certificates in either flash, `Recoveries` replaces images whose key
  is cancelled and offers forged capsules, `Lockings` locks and decommissions.
* `FlashPages`: 2 pages to a write enable bit, 2 bits to a word, 4 pages to a sector. The
  two updates differ in their borders, one of them has a border inside a chunk, and both
  have pages that a capsule leaves out and regions that a capsule does not touch. The
  other layouts have every set of up to two borders in the first three words, and every
  three borders in pages 2 to 6, with five patterns of permissions.

`CHECK_DEADLOCK FALSE` is only set where the system may stop: a lockdown, hosts that are
up with all events used, or `never_exit_loop` of Protect-in-Transit.

Fairness. `FairSpec` of `PfrFlow` asks that the Nios goes on with T-1, a loop without
waits; that the T0 handlers it polls act when their condition stays true; that a
component whose timer counts reports its boot or the timer expires, which the timer
hardware guarantees for one that hangs; that a host asserts PLTRST# after it is released,
as the chipset does. Nothing is asked of hosts' updates, power or damage. `FairSpec` of
`CpldUpdate` asks that the Nios takes its next step, that the hardware watchdog catches
an image that hangs, and that a platform left alone boots. `FairSpec` of `Watchdog` asks
that the Nios goes round its loop and that the timer bank counts; of the hosts nothing,
they may stop anywhere. `FairSpec` of `Ufm` asks the same of the Nios and that a host that
waits for its command reads the mailbox.

Limits that are part of a property's statement: `SomeCopyComplete` holds for any number
of power losses with one trip of an image that works, and for any number of trips
without power loss, but not for one power loss with two such trips
(budget `PowerAndTrips` refutes it); `SvnFloorCovered`, `RecoveryBoots` and
`PromotesOnlyWhatRan` of `CpldUpdate` assume that power does not fail between the two
flags (finding 3) and that no capsule is damaged. `HangHandled` and `PendingSettles` of
`PfrFlow` except flashes that are `Unwatched`: their timers were switched off after three
recoveries, or are not armed because the recovery capsule is bad or the platform does not
boot. Firmware that hangs there stays in place, and a recovery update of the other flash
stays pending, since `post_update_routine` waits for the boot of all parts; both happen in
`flow_timers`. `FailsafePages` ends with the step in which T-1 carries out an update intent
that T0 has not let in while there is no recovery capsule; TLC shows that it cannot
be dropped. `BootRecorded`, `HealthyHostKept` and `BootRecordHonest` are about boots in
which no checkpoint was lost. `RulesExact` is about openings that start on a write
enable bit. `UpdateAboveFloor` lets an active
update through with the SVN 0, see the observations.

## 4. Theorems

| Theorem | Module | Statement |
|---|---|---|
| `TypeCorrect` | `PfrFlow` | `Spec => []TypeOK` |
| `RegionsKept` | `PfrFlow` | `NoDamage` implies `Spec => []NoRegionLost` |
| `FloorCovered` | `PfrFlow` | `NoDamage` implies `Spec => []SvnFloorCovered` |
| `OnlyAuthenticBoots` | `PfrFlow` | `NoDamage` implies `Spec => BootsAuthentic` |
| `FlashesAreFailsafe` | `PfrFlow` | `NoDamage` implies `Spec => FailsafeFlash`: both flashes implement `FailsafeStore` |
| `PchAfterBmc` | `PfrFlow` | `Spec => PchNeedsBmc`, damage included |
| `LockdownIsJustified` | `PfrFlow` | `Spec => []LockdownIsLast`, damage included |
| `StoreSafe` | `FailsafeStore` | one of the two copies is complete, no complete copy is below the floor |
| `TypeCorrect` | `CpldUpdate` | `Spec => []TypeOK` |
| `CopyComplete` | `CpldUpdate` | `Spec => []SomeCopyComplete` |
| `NeverRollsBack` | `CpldUpdate` | `Spec => UpdateNeverRollsBack` |
| `RecoveryCapsuleBoots` | `CpldUpdate` | `Spec => []RecoveryBoots` |
| `SvnCovered` | `CpldUpdate` | `Spec => []SvnFloorCovered` |
| `PromotesWhatRan` | `CpldUpdate` | `Spec => PromotesOnlyWhatRan` |
| `TypeCorrect` | `Watchdog` | `Spec => []TypeOK` |
| `RecordHonest` | `Watchdog` | `Spec => []BootRecordHonest` |
| `NoPhantom` | `Watchdog` | `Spec => NoPhantomReset` |
| `HealthyKept` | `Watchdog` | `Spec => HealthyHostKept` |
| `SvnWrites`, `SecondSvnWrites` | `UfmPage` | each word of an SVN policy that is written leaves a pattern that reads as an SVN between the old and the new one, and the last one reads as the new one |
| `UfmTypeCorrect` | `Ufm` | `Spec => []TypeOK`: an SVN policy always has one of the patterns that can be read |
| `NeverOverwritten` | `Ufm` | `Spec => []WrittenOnce` |
| `LockHolds` | `Ufm` | `Spec => LockedIsFrozen` |
| `SealIsHonest` | `Ufm` | `Spec => []SealHonest` |
| `OnlyAdmittedBoots` | `Ufm` | `Spec => BootAdmitted` |
| `FloorIsExact` | `Ufm` | `Spec => FloorExact` |
| `OnlyLiveKeys` | `Ufm` | `Spec => CancelledStaysOut` |
| `NoneBelowFloor` | `Ufm` | `Spec => UpdateAboveFloor` |
| `StatusIsHonest` | `Ufm` | `Spec => []StatusHonest` |
| `AnswerIsMine` | `Ufm` | `Spec => DoneIsMine` |
| `RulesOpenExactly` | `FlashPages` | `Rules(Layout(i).defs)` has the bit of a chunk exactly when all pages of the chunk are in writable regions, for every image `i` |
| `FlashInductive` | `FlashPages` | `Spec => []FlashInv`, the inductive invariant the next ones follow from |
| `CopiesAreExact` | `FlashPages` | `Spec => []CopiesExact` |
| `BootsAuthentic` | `FlashPages` | `Spec => []BootsComplete` |
| `RulesAreExact` | `FlashPages` | `Spec => []RulesExact` |
| `WritesOnlyOpened` | `FlashPages` | `Spec => OnlyOpened` |
| `PagesAreFailsafe` | `FlashPages` | `Spec => FailsafePages`: the flash, page by page, implements `FailsafeStore`, until T-1 carries out an intent that T0 has not let in without a recovery capsule |

Those of `PfrFlow` hold for all sets of images, all SVNs, any number of power losses,
timeouts, intents and resets, any `MaxFailed`, and both strap positions. Assumptions:
`ImagesAssumption` and `BoundsAssumption` of `PfrFlow` (the values of the constants have
the right types, `Bad` and `Cert` are no firmware), and, where the table says so,
`NoDamage`, that is `limit["fault"] = 0` for all of `Limits`: finding 2 shows that it cannot be dropped.

Those of `CpldUpdate` hold for any images, SVNs, set of hanging images and budgets
(`ImagesAssumption`, `BoundsAssumption`: types, and `NoImage` and `Cert` are no images).
What limits them is in the properties themselves, see the end of section 3.
`NeverRollsBack` needs none of it: it holds whatever is damaged. Those of `Watchdog` hold
for any period of the timers (at least one tick, `TimingAssumption`), any number of
recovery levels and any scenario.

Those of `FlashPages` hold for a flash of any number of pages, any size of chunk, word and
sector, any layouts that keep to the three assumptions of section 2,
and any budgets of power losses, resets, updates and writes of the BMC.

Those of `Ufm` hold for words of any size, any set of key IDs, values, contents and
payloads, and any scenario. Assumptions: `UfmAssumption` (a word has a bit),
`ValueAssumption` and `ContentAssumption` (the erased, half written and doubly written
area are no values), `PayloadAssumption` (SVNs are in the range of the code) and
`ScenarioAssumption` (a scenario starts with a page on which nothing was written twice
and nothing is sealed).

The argument for `PfrFlow`. `TypeOK` needs one strengthening, `LevelInv`: a recovery
level of 4 is only reached by a watchdog recovery started on 3. The other theorems share
the inductive invariant `FlashInv`:

* `ResetInv`: in T-1 for a flash the owner of the flash is held in reset, so the staged
  capsule cannot change between the check and the copy;
* `RecoveryInv`, `ActiveInv`: a region that is not complete is being written right now,
  or power failed while it was: then the platform is `Fresh` (no intent, no pending
  update, nobody runs) and T-1 has not come to the authentication of that flash yet, and
  what the region is restored from is complete and still there;
* `StepInv`: what a step takes from an earlier one (the capsule accepted by `Intent` is
  the one `IntentWrite` installs, the SVN raised is that of the firmware in service).

None of the properties is inductive by itself: `NoRegionLost`, for instance, needs to
know that the capsule a power loss leaves behind matches the active firmware.
`PchAfterBmc` and `LockdownIsJustified` must do without `FlashInv`, since regions may be
damaged at any time the hosts run or the power is off. Their invariant is `HostInv`:
`ResetInv` again, `GivenUpInv` (a flash is given up only when nothing is left in it, and
stays so until the other one has been authenticated, because nobody runs who could write
to it) and `BmcUpInv` (the BMC runs in T0 and during a PCH-only reset, unless its flash
was given up).

The argument for `CpldUpdate`. Each property speaks of one moment of an update, while what
makes it true was checked several steps, often a reconfiguration, before. `RunInv` says
what is known on every behaviour (what runs is complete, what is copied from staging was
found new enough); `FlagInv` what bread crumb and status word prove of the staged capsule
while nothing is damaged; `CopyInv` where a complete copy is, while the watchdog trips at
most once on an image that works, `BootInv` what the recovery capsule is without power
loss and damage. `CopyComplete` takes the behaviours with one trip from `CopyInv` and those
without power loss from `BootInv`.

The argument for `Watchdog`. A handler acts on what it read a step before, and what it read
was posted by a host that may have been reset since. `BmcInv` says what a COMPLETE of the
BMC proves in its register, in the Nios' hands and in the boot status, and that the
detection latch is clear after it; `PchInv` when the ACM/BIOS timer reads as switched off;
`CpuInv` counts the COMPLETEs of IBB and OBB against the stage of the CPU, and needs
`PchInv`.

The argument for `FlashPages`. `Leads(plan, before, after)` says what the commands of a plan
make of a flash. One lemma for each level, from `erase_spi_region` up to
`decompress_capsule` and `memcpy_signed_payload`, says what its plan leads to, given only
that the capsule it reads is whole and is not in the pages it writes. These loops, and the
one that collects the write enable memory, are inductions over a number of pages, regions
or bits. The prover cannot instantiate the induction theorem of the library, so
`SetInduction` states it of the set of numbers for which a claim holds (by its smallest
missing member), and the recursive functions of the model exist because each is built one
value at a time. `FlashInv` then carries from handler to handler what the flash is going
to be once the commands are given: `TypeInv`; `PlanInv` (the plan leads to `goal`);
`PhaseInv` (the capsule that `AuthAct` restores from is whole, the active region that
`Apply` takes its rules from authenticates, and rules, PFM and address mode agree while
the BMC runs).

`PagesAreFailsafe` needs more, because `FailsafeStore` looks at the flash between two
commands and after a power loss inside one. `SafePlan` says which of the two copies the
commands still to give leave alone: with the recovery capsule whole they stay out of the
pages where one may be (`Aside`); with the staged firmware in service and being promoted
(`Promotions`) they stay in those pages, erase its header first and write it from that
capsule. `RepairInv` is what the handlers rely on to start either: a promotion only pends
while the active region authenticates, and what T0 has let in is carried out with a whole
recovery capsule (`vetting`). An intent that T0 has not let in is carried out as well. If
the recovery capsule is whole, nothing is lost; if it is not, the active region is taken
apart without a copy to go back to, and the theorem claims nothing from there on: what is
invariant is that this has happened (`RacedStays`) or `SafeInv` holds.

TLC checked the invariants of `PfrFlow`, `CpldUpdate`, `Watchdog` and `FlashPages` named in
this section on the instances of their runs before they were proved.

The argument for `Ufm`. Every theorem rests on `TypeInv` (`TypeOK` with `HalfWritten`:
between the two words of an SVN the policy reads exactly `WordBits`, which is why the
second write cannot pass the SVN) and on an invariant of its own, which says what the Nios
relies on between two writes:

* `WriteInv`: a field without its status bit is erased, and between the status bit and
  the data it is erased or half written, whatever command comes next;
* `LockInv`: while a command that found the page unlocked is processed, the page stays
  unlocked: only the command itself can lock it;
* `SealInv`: the hashes written so far are those of the flashes, which do not change
  while the Nios seals;
* `AdmitInv`: from the end of Protect-in-Transit to T0 the admission holds, since T-1
  changes no provisioned field;
* `KeyInv`: what the active firmware is recovered from is a recovery capsule whose key
  was found live in the same pass, and no key is cancelled in between;
* `RecoveryInv`: the recovery SVN in the mailbox is one the recovery capsule may be read
  to have, or 0 before the first T-1 as a provisioned platform, or a promotion is under
  way;
* `StatusInv`: which mailbox status bit may lag behind the page at which step;
* `AnswerInv`: `HostInv` (a host that has sent a command waits, a command is processed
  only for a host that waits), `CommandInv` (the command the Nios has read is the host's),
  `ProgressInv` (how far it has come) and `EffectInv` (from the end of the command on, an
  answer without ERROR means that its effect is there).

Every invariant and every action property of the passing runs is proved. Only
model-checked are the liveness properties, since liveness under fairness is out of the
prover's reach: `ResetsEnd`, `HangHandled` and `PendingSettles` of `PfrFlow`,
`UpdateSettles` and `BmcRunsAgain` of `CpldUpdate`, `NoRecoveryLoop` and `BootRecorded` of
`Watchdog`, `CommandAnswered` of `Ufm`; and, by their nature, the properties the violation
runs refute.

## 5. Findings

1. `flow_boot` (tmin1_update.h:96). CPLD bits that are written back while a firmware
   recovery update is pending start another platform reset at the next T0 pass, and T-1
   promotes firmware that has not booted yet.
2. `flow_cert` (flash_validation.h:164). With both regions damaged and a key
   cancellation certificate staged, the certificate is taken for a recovery capsule and
   the flash counts as valid without firmware.
3. `cpld_power_promotes` (cpld_update.h:82). The update status word is written before the
   bread crumb; a power loss in between makes CFM1 promote a capsule it never ran.
4. `cpld_rom_stuck` (cpld_recovery.h:126). The ROM image accepts a certificate as its
   last resort and reconfigures forever instead of booting the BMC.
5. `watchdog_ibb` (t0_watchdog_handler.h:202). The clear input of the IBB detection is
   asserted at the first boot and never deasserted, against spi_control.sv:91: a restart
   of the BMC while the Nios is in T-1 of the PCH is forgotten.

### Observations

Seen in the models while they were built, not kept as runs.

Resiliency flow:

* An active update deferred behind a promotion in the same T-1 pass is compared with the
  recovery SVN of the previous pass, which the mailbox still holds (capsule_validation.h:326
  against capsule_validation.h:245), and is counted as a failed attempt.
* T-1 reads the update intent again (tmin1_update.h:73): an intent that another reset came
  before, and any intent deferred to the reset, is carried out without the T0 checks
  (t0_update.h:151-200) that tmin1_update.h:43-45 expects. One of those checks refuses an
  update of the active region alone while the recovery region is bad. In `FlashPages` the
  recovery capsule decays, the BMC posts such an update, a timer or a deferred reset comes
  first, and T-1 erases the active region with no recovery capsule on the flash: when
  power fails then, the staged capsule is all that is left.
* A recovery update of one flash stays pending for good next to a flash that hangs and is
  not watched any more: `post_update_routine` (t0_update.h:263) waits for timed boot done
  of all parts. Its capsule is authenticated again at the next platform reset and
  promoted then, if it is still staged.
* `perform_entry_to_t0_bmc_only` (transition.h:184) arms the BMC watchdog without the
  valid recovery image that tmin1_routines.h:85-88 asks for.

Watchdogs:

* A COMPLETE that is read in the pass that found the timer expired resets the recovery
  level, and the recovery is carried out all the same.
* Two flashes whose recoveries alternate, each booting when the other one hangs, are
  recovered for ever: every recorded boot starts the levels anew.
* A PAUSE processed after the last tick leaves the timer at 0, which the handlers take for
  a timer that was never started; test_timed_boot.cpp:144-147 expects it to be resumed.
* A PCH that takes a warm reset and boots while the Nios is in T-1 of the BMC alone is
  re-armed only afterwards, and a healthy host can then be recovered; transition.h:147-149
  lets it run on purpose.

UFM:

* With a power loss between the lock bit and the SVN policies the command END leaves a
  locked page whose policies are still those of an erased page.
* With a power loss between the status bit of a provisioning command and its words
  (t0_provisioning.h:252) the field counts as provisioned and is blank or half written;
  only an erase gets it right.
* is_svn_valid (ufm_utils.h:137) takes the 32-bit SVN of a CPLD capsule as 8 bits: an SVN
  of 256 and above is checked modulo 256 (`CpldSvn`).
* END, or an update of the active firmware alone, right after the last provisioning
  command uses the recovery SVN in the mailbox, which is 0 until the first T-1 of a
  provisioned platform: the policies stay at 0, and only an update of SVN 0 passes.
* A provisioning command that is rejected does not read the FIFO, so a host must flush it
  before it sends the next one. DONE of a command stays until the next one is taken.
* On an unprovisioned platform ENABLE_PIT_L2 resets the platform, but T-1 skips
  Protect-in-Transit and the platform returns to T0 unsealed.
* When power fails while the hashes are stored and a flash changes before the next
  attempt, the stored hash is a blend that matches nothing: the platform locks down at
  every T-1 from then on.
* The recovery SVN in the mailbox may be read from a damaged recovery capsule, and
  `check_capsule_before_fw_recovery_update` with `skip_hash_check` promotes a staged
  capsule without a check of its SVN and of the signature of its PFM.
* A key of the BMC that a certificate in the PCH flash cancels after the BMC flash was
  authenticated still boots once.

Flash layout:

* pfm_utils.h:107-110 relies on a validation of the region definitions (ascending, no
  overlap) that `is_pfm_body_valid` (pfm_validation.h:92) does not make.
* firmware_update.h:56-58 says that the staging region is write protected during an
  update; only the words of the CPLD capsules are.
* The filters stay disabled after the last provisioning command until the CPLD is
  reconfigured (initialization.h:147-153).
* SMBus rules of the old PFM that the new one does not have stay in the whitelist.
* A power loss in an update of static and dynamic regions can leave dynamic regions half
  done under static ones that authenticate; static regions without a hash can be torn
  unnoticed.
* `decompress_capsule` leaves the staging region out of the dynamic regions it restores;
  `perform_wdt_recovery` does not.
* A BMC-only reset releases a flash in 4-byte mode, a platform reset one in 3-byte mode.

## 6. Not modelled, and why

* `PfrFlow`: decommission capsules and capsules of another type (they are in `Ufm`),
  the dynamic-region bit of the intent (in `FlashPages`), an
  unprovisioned platform and protect-in-transit (in `Provisioning`). Damage is at the
  level of whole regions and is detected (a region that passes authentication is what it
  says). Watchdogs are armed or not; they count in `Watchdog`.
* `CpldUpdate`: the contents of a bitstream, the half of a power loss inside one word.
* `Watchdog`: the 2 s sleep after AUTH_FAIL only borrows the timer and gives it back.
* `Ufm`: power loss inside the erase of the page, the checks of an intent in T0 (they are
  in `PfrFlow`), staging between the two steps of a T-1 pass, the bus of the RFNVRAM.
* `FlashPages`: the PCH flash (same code with other offsets), SMBus rules,
  `copy_between_flashes`, the registers of the flash controller, quad protocols; the
  filter takes a whole command at a time, and its command log is left out.
* Mailbox register file: every register that steers the firmware is a variable of the
  model that uses it; the write permissions of the register file are left to a module of
  the plan, and so are the SMBus relays, the power sequencers and the JTAG lock.
* Crypto engines are arithmetic; hierarchical PFR is compiled out for this board; logging
  has no influence on control; the RFNVRAM master is a bus master bit by bit whose
  transfers are single steps of `Provisioning`.

## 7. Plan

Done: the flow, CPLD update, watchdogs with BMC reset detection, provisioning with
protect-in-transit, signatures and key cancellation, the BMC flash page by page with the
SPI filter, their runs, the theorems above. Left, in this order:

1. `SmbusRelay` with the command enable memory (the SMBus rules of the PFM), and the
   mailbox register file with its permissions, with their proofs.
2. The power sequencers (`Mstr_Seq.v` and those it starts), the JTAG lock.
3. More theorems: what `Ufm` admits is what `PfrFlow` accepts by choice, as a relation
   between the two models.
