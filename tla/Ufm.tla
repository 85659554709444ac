-------------------------------- MODULE Ufm --------------------------------
(***************************************************************************)
(* The life of the UFM page: Provisioning together with the T-1 operations *)
(* that read it (which capsule may be used) or change it (SVN policies,    *)
(* cancelled keys, a decommission capsule).                                *)
(*                                                                         *)
(* The flash is that of the BMC, with its areas for a CPLD capsule; of the *)
(* PCH flash only the staging area is here, which may hold a certificate   *)
(* for a key of the BMC.  Copying a capsule is one step: PfrFlow has the   *)
(* erase and the write, the watchdogs and the updates of both flashes.     *)
(***************************************************************************)
EXTENDS Provisioning
CONSTANTS Payloads,  \* signed payloads that may lie in a staging area
          Factory,   \* the firmware capsule a platform leaves the factory with
          PchSvn     \* SVN of the PCH recovery image

VARIABLES
  active,    \* the capsule the active firmware was decompressed from
  recovery,  \* the recovery capsule
  staged,    \* staging areas: for the BMC and for the CPLD in the BMC flash; in the PCH flash
  asks,      \* update intent registers
  pending    \* SPI_FLASH_STATE_HAS_PENDING_RECOVERY_FW_UPDATE of the BMC flash

imageVars == <<active, recovery, staged>>
updateVars == <<asks, pending>>
provVars == <<page, mb, pitVars, at, local, hostVars>>
vars == <<provVars, imageVars, updateVars>>

Slots == {"bmc", "cpld", "pch"}
Asks  == {"active", "recovery", "cpld", "pch"}
Svns  == 0 .. MaxSvn + 1

ASSUME PayloadAssumption ==
  PchSvn \in Svns /\ \A p \in Payloads \union {Factory} : PfmSvns(p) \subseteq Svns

\* a platform starts with a page no value was written to twice and nothing
\* is sealed on
ASSUME ScenarioAssumption ==
  \A s \in Scenarios :
    /\ s.page \in PageType(Contents) /\ "hashStored" \notin s.page.status
    /\ \A f \in Fields :
         s.page.data[f] # Blend /\ (f \in s.page.status \/ s.page.data[f] = Blank)
    /\ s.content \in [Flashes -> Contents] /\ s.transit \in BOOLEAN
    /\ s.sends \subseteq Commands \X (Values \union {Blank})
    /\ s.stages \subseteq [slot : Slots, payload : Payloads, ask : SUBSET Asks]

\* does_staged_fw_image_match_active_fw_image
StagedMatchesActive ==
  /\ IsFirmware(staged["bmc"]) /\ IsFirmware(active)
  /\ staged["bmc"].pc.pfm.b0.hash = active.pc.pfm.b0.hash

\* mutant of Promotable: the staged capsule was authenticated before
PromotableUnchecked(skipHash) == skipHash \/ StagedMatchesActive

\* check_capsule_before_fw_recovery_update
Promotable(skipHash) ==
  /\ is_signature_valid(page, staged["bmc"])
  /\ skipHash \/ StagedMatchesActive

\* perform_firmware_recovery_update, up to write_ufm_svn
Promote(next) ==
  /\ recovery' = staged["bmc"] /\ at' = "svn1"
  /\ \E n \in PfmSvns(staged["bmc"]) :
       local' = [local EXCEPT !.next = next, !.todo = << <<"bmc", n>> >>]

(***************************************************************************)
(* T-1, in the order of perform_tmin1_operations.                          *)
(***************************************************************************)
\* process_pending_recovery_update
Pend ==
  \/ /\ Step("work", "intent") /\ (pending => ~Promotable(FALSE))
     /\ pending' = FALSE /\ UNCHANGED <<recovery, local>>
  \/ /\ at = "work" /\ pending /\ Promotable(FALSE)
     /\ Promote("pendDone") /\ UNCHANGED pending
  \/ /\ Step("pendDone", "intent")
     /\ pending' = FALSE /\ UNCHANGED <<recovery, local>>

FirmwareVerdict ==
  Verdict(page, staged["bmc"], "bmc", "recovery" \in asks, mb.svn["bmc"])
Cancel(payload) == page' = CancelKey(page, payload.b0.type, payload.pc.csk_id)

\* act_on_bmc_update_intent, firmware; perform_active_firmware_update
Intent ==
  /\ Step("intent", "cpld")
  /\ asks' = asks \ {"active", "recovery"}
  /\ LET v == IF asks \intersect {"active", "recovery"} = {} THEN "none"
              ELSE FirmwareVerdict
     IN  \/ v \in {"none", "reject"} /\ UNCHANGED <<page, active, pending>>
         \/ v = "cancel" /\ Cancel(staged["bmc"]) /\ UNCHANGED <<active, pending>>
         \/ /\ v = "accept" /\ active' = staged["bmc"]
            /\ pending' = (pending \/ "recovery" \in asks) /\ UNCHANGED page

CpldVerdict ==
  IF "cpld" \notin asks THEN "none"
  ELSE IF pending \/ "pch" \in asks THEN "later"
  ELSE Verdict(page, staged["cpld"], "cpld", FALSE, 0)

\* act_on_bmc_update_intent, CPLD; "later" writes the intent back.
Cpld ==
  /\ Step("cpld", "auth") /\ CpldVerdict \in {"none", "later", "reject", "cancel"}
  /\ asks' = IF CpldVerdict = "later" THEN asks ELSE asks \ {"cpld"}
  /\ IF CpldVerdict = "cancel" THEN Cancel(staged["cpld"]) ELSE UNCHANGED page

\* A decommission capsule erases the page; it, and the start of a CPLD
\* update (module CpldUpdate), end in a reconfiguration.
CpldRestart ==
  /\ at = "cpld" /\ CpldVerdict \in {"decommission", "accept"}
  /\ page' = IF CpldVerdict = "decommission" THEN ErasedPage ELSE page
  /\ at' = "init" /\ mb' = FreshMailbox /\ local' = FreshLocal /\ host' = Idle

\* is_active_region_valid, of firmware whose protected regions are intact
ActiveValid == IsFirmware(active) /\ is_signature_valid(page, active.pc.pfm)

\* authenticate_and_recover_spi_flash: the recovery region ...
AuthRecovery ==
  /\ at = "auth"
  /\ \/ /\ is_capsule_valid(page, recovery)
        /\ at' = "authActive" /\ UNCHANGED <<recovery, local>>
     \/ /\ ~is_capsule_valid(page, recovery) /\ Promotable(~ActiveValid)
        /\ Promote("authActive")
     \/ /\ ~is_capsule_valid(page, recovery) /\ ~Promotable(~ActiveValid)
        /\ at' = IF ActiveValid THEN "authDone" ELSE "authFailed"
        /\ UNCHANGED <<recovery, local>>

\* ... then the active firmware
AuthActive ==
  /\ Step("authActive", "authDone")
  /\ active' = IF ActiveValid THEN active ELSE recovery

\* mb_write_pfm_info.  Without firmware for the BMC nothing is booted.
AuthDone ==
  /\ at \in {"authDone", "authFailed"}
  /\ \E n \in PfmSvns(recovery) :
       mb' = [mb EXCEPT !.svn = [f \in Flashes |-> IF f = "pch" THEN PchSvn ELSE n]]
  /\ at' = IF at = "authDone" THEN "pchIntent" ELSE "halt"

\* act_on_pch_update_intent, for what is no PCH firmware
PchIntent ==
  /\ at = "pchIntent" /\ at' = local.ret
  /\ asks' = asks \ {"pch"}
  /\ LET v == IF "pch" \in asks THEN Verdict(page, staged["pch"], "pch", TRUE, 0) ELSE "none"
     IN  IF v = "cancel" THEN Cancel(staged["pch"]) ELSE UNCHANGED page

(***************************************************************************)
(* T0: staging and the update intent; what starts the next T-1.            *)
(***************************************************************************)
Quiet == at = "t0" /\ host = Idle /\ ~mb.trigger

\* also while a promotion of what was staged before is pending
Stage(s) ==
  /\ Quiet
  /\ staged' = [staged EXCEPT ![s.slot] = s.payload]
  /\ asks' = asks \union s.ask
  /\ UNCHANGED <<provVars, active, recovery, pending>>

\* mb_update_intent_handler, and the boot that makes post_update_routine
\* start the promotion
StartUpdate ==
  /\ Quiet /\ Provisioned(page) /\ (asks # {} \/ pending)
  /\ Reset("t0") /\ UNCHANGED <<imageVars, updateVars>>

(***************************************************************************)
(* The specification.                                                      *)
(***************************************************************************)
Init ==
  /\ scenario \in Scenarios
  /\ page = scenario.page /\ mb = FreshMailbox /\ rfnvram = Blank
  /\ content = scenario.content /\ seal = NoContent
  /\ at = "off" /\ local = FreshLocal /\ host = Idle
  /\ active = Factory /\ recovery = Factory
  /\ staged = [s \in Slots |-> Factory]
  /\ asks = {} /\ pending = FALSE

Tmin1Step ==
  \/ Pend /\ UNCHANGED <<page, mb, active, staged, asks>>
  \/ Intent /\ UNCHANGED <<mb, local, recovery, staged>>
  \/ Cpld /\ UNCHANGED <<mb, local, imageVars, pending>>
  \/ AuthRecovery /\ UNCHANGED <<page, mb, active, staged, updateVars>>
  \/ AuthActive /\ UNCHANGED <<page, mb, local, recovery, staged, updateVars>>
  \/ AuthDone /\ UNCHANGED <<page, local, imageVars, updateVars>>
  \/ PchIntent /\ UNCHANGED <<mb, local, imageVars, pending>>

\* what a restart does to the variables of this module
Forget == asks' = {} /\ pending' = FALSE /\ UNCHANGED imageVars

Nios ==
  \/ NiosStep /\ UNCHANGED <<imageVars, updateVars>>
  \/ Tmin1Step /\ UNCHANGED <<pitVars, hostVars>>
  \/ CpldRestart /\ Forget /\ UNCHANGED <<pitVars, scenario>>
  \/ Reconfig /\ Forget

Next ==
  \/ Nios
  \/ (PowerLoss \/ PowerOn) /\ Forget
  \/ (HostStep \/ Transit) /\ UNCHANGED <<imageVars, updateVars>>
  \/ \E s \in scenario.stages : Stage(s)
  \/ StartUpdate

Spec == Init /\ [][Next]_vars

\* the firmware runs, and a host that waits polls the mailbox
FairSpec == Spec /\ WF_vars(Nios) /\ WF_vars(HostSees /\ UNCHANGED <<imageVars, updateVars>>)
(***************************************************************************)
(* Properties.                                                             *)
(***************************************************************************)
Words == Values \union {Blank, Part, Blend}
Tmin1Places == {"work", "pendDone", "intent", "cpld", "auth", "authActive", "authDone",
                "authFailed", "pchIntent", "halt"}

\* The variables hold what the code can put into them; an SVN policy has one
\* of the MaxSvn + 1 patterns that get_ufm_svn can read, in the middle of a
\* write as well.
TypeOK ==
  /\ page \in PageType(Contents)
  /\ mb \in [cmd : Commands, trigger : BOOLEAN, fifo : Words,
              status : SUBSET Status, svn : [Flashes -> Svns]]
  /\ rfnvram \in Words
  /\ content \in [Flashes -> Contents] /\ seal \in [Flashes -> Contents \union {Blank}]
  /\ at \in {"off"} \union Running \union PitPlaces \union Tmin1Places
  /\ local \in [cmd : Commands, buf : Words, todo : Seq(Policies \X Svns),
                next : {"t0", "clearBusy", "pendDone", "authActive"}, ret : {"t0", "clearBusy"}]
  /\ host \in (Commands \union {"none"}) \X Words /\ scenario \in Scenarios
  /\ {active, recovery} \subseteq Payloads \union {Factory}
  /\ staged \in [Slots -> Payloads \union {Factory}]
  /\ asks \subseteq Asks /\ pending \in BOOLEAN

\* No provisioned value is ever written over another one, however often the
\* power fails between a status bit and the words it stands for
\* (mb_process_ufm_cmd sets the status bit first).
WrittenOnce == \A f \in Fields : page.data[f] # Blend

\* When the UFM says that the hashes of the flashes are stored, no stored
\* hash is that of a flash whose content was another one when they were
\* stored; two attempts may have left a hash that matches nothing
\* (perform_pit_l2_check sets HASH_STORED last).
SealHonest ==
  "hashStored" \in page.status =>
    \A f \in Flashes : page.hash[f] \in {seal[f], Blend}

\* While no command is being processed, the status bits a host reads in the
\* mailbox are those of the UFM, after every command, power loss and T-1
\* (MB_UFM_PROV_CLEAR_ON_ERASE_CMD_MASK, initialize_mailbox).
StatusHonest ==
  at = "t0" =>
    /\ ("provisioned" \in mb.status) = Provisioned(page)
    /\ ("locked" \in mb.status) = Locked(page)
    /\ \A b \in {"l1", "passed"} : (b \in mb.status) = (b \in page.status)

\* A provisioned platform leaves T-1 only if the PIT ID of an enabled level 1
\* is that of the RFNVRAM and an enabled level 2 has passed; it passes only
\* with the flashes that were sealed (perform_pit_protection).
BootAdmitted ==
  [][/\ at = "pchIntent" /\ at' \notin {"pchIntent", "off"} =>
          /\ "l1" \in page'.status => rfnvram = page'.data["pitId"]
          /\ "l2" \in page'.status => "passed" \in page'.status
     /\ "passed" \in page'.status \ page.status => content = seal]_vars

\* what a host expects of a command that was not refused
Effect(c, v) ==
  CASE c \in Fields -> page.data[c] = v /\ c \in page.status
    [] c \in Reads  -> mb.fifo = page.data[FieldRead(c)]
    [] c = "erase"  -> page = ErasedPage
    [] c = "end"    -> Locked(page)
    [] c = "l1"     -> "l1" \in page.status /\ rfnvram = page.data["pitId"]
    [] c = "l2"     -> "l2" \in page.status
    [] OTHER        -> FALSE

\* A host that sees DONE without ERROR once its trigger is taken sees the
\* answer to its own command, and the command has had its effect
\* (mb_ufm_provisioning_handler clears the status before the trigger).
DoneIsMine ==
  [][HostSees /\ "error" \notin mb.status => Effect(host[1], host[2])]_vars

\* Once the UFM is locked, what was provisioned stays as it is: T-1 still adds
\* the results of Protect-in-Transit, and only a decommission capsule erases.
LockedIsFrozen ==
  [][Locked(page) =>
       \/ at = "cpld" /\ page' = ErasedPage
       \/ /\ page'.data = page.data /\ page.status \subseteq page'.status
          /\ page'.status \ page.status \subseteq {"hashStored", "passed"}]_vars

\* A write of an SVN policy never lowers it and never passes the SVN it is
\* for, not even between its two words, and ends at that SVN
\* (write_ufm_svn; an SVN beyond the maximum has no bit of its own).
FloorExact ==
  [][\A p \in Policies :
       page'.svn[p] # page.svn[p] /\ page' # ErasedPage =>
         LET n == Head(local.todo)[2]
         IN  /\ Svn(page.svn[p]) <= Svn(page'.svn[p])
             /\ Svn(page'.svn[p]) <= n
             /\ local'.todo = Tail(local.todo) /\ n <= MaxSvn
                  => Svn(page'.svn[p]) = n]_vars

\* An update the Nios accepts is not below the SVN policy, and one of the
\* active firmware alone has the SVN of the recovery image, although the
\* mailbox may still hold that of an earlier T-1 - or 0, when the platform was
\* provisioned since it was switched on (check_capsule_before_update).
UpdateAboveFloor ==
  [][at = "intent" /\ active' # active =>
       \A n \in PfmSvns(active') :
         /\ SvnAllowed(page, "bmc", n)
         /\ "recovery" \in asks \/ n \in PfmSvns(recovery) \/ n = 0]_vars

SignedByLiveKeys(payload) ==
  LET csk == payload.b1.csk
  IN  /\ payload.b1.root.key = page.data["rootKey"]
      /\ ~IsCert(payload.b0) => /\ KeyValid(page, payload.b0.type, csk.id)
                                /\ PermitsType(csk, payload.b0.type)

\* No capsule signed by a cancelled key, by one that may not sign it, or under
\* another root key, gets into the active or the recovery region; a key may be cancelled while a promotion
\* of its capsule waits (check_capsule_before_fw_recovery_update).
CancelledStaysOut ==
  [][/\ active' # active => SignedByLiveKeys(active')
     /\ recovery' # recovery => SignedByLiveKeys(recovery')]_vars

\* Every command is answered, or ended by a reset: refused ones as well.
CommandAnswered == host # Idle ~> host = Idle
=============================================================================
