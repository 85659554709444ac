--------------------------- MODULE Provisioning ---------------------------
(***************************************************************************)
(* UFM provisioning: the mailbox registers of the UFM commands, a host     *)
(* that sends them, mb_ufm_provisioning_handler in T0, the Protect-in-     *)
(* Transit checks at the start of T-1, and power losses between any two    *)
(* writes.  One action stands for what the Nios does between two writes    *)
(* that the host, or a power loss, can tell apart.                         *)
(*                                                                         *)
(* Module Ufm adds the T-1 operations that follow the checks.              *)
(***************************************************************************)
EXTENDS Authentication, Sequences
CONSTANTS Contents,  \* contents of a SPI flash; a content is its own digest
          Scenarios  \* what the hosts may do in one behaviour

ASSUME ContentAssumption == {Blank, Part, Blend} \intersect Contents = {}

VARIABLES
  page,      \* UFM_PFR_DATA
  mb,        \* mailbox: command, execute bit of the trigger, FIFO, status, recovery SVNs
  rfnvram,   \* the PIT ID in RFNVRAM
  content,   \* what each SPI flash holds, for Protect-in-Transit
  seal,      \* history: content when PIT L2 stored its hashes
  at,        \* the next step of the Nios
  local,     \* local variables and return addresses of the Nios
  host,      \* the command a host has sent and waits for
  scenario

hostVars == <<host, scenario>>
pitVars  == <<rfnvram, content, seal>>

Reads    == {"readRootKey", "readPch", "readBmc"}
Commands == Fields \union Reads \union {"erase", "end", "reconfig", "l1", "l2"}
FieldRead(c) == CASE c = "readRootKey" -> "rootKey" [] c = "readPch" -> "pch"
                  [] OTHER -> "bmc"

Idle      == <<"none", Blank>>
NoContent == [f \in Flashes |-> Blank]
CommandStatus == {"busy", "done", "error"}
ErasedStatus  == {"provisioned", "l1", "passed"}
Status        == CommandStatus \union ErasedStatus \union {"locked"}

FreshMailbox == [cmd |-> "erase", trigger |-> FALSE, fifo |-> Blank, status |-> {},
                 svn |-> [f \in Flashes |-> 0]]
FreshLocal   == [cmd |-> "erase", buf |-> Blank, todo |-> <<>>, next |-> "t0", ret |-> "t0"]

Step(from, to) == at = from /\ at' = to
Call(from, to, next) == Step(from, to) /\ local' = [local EXCEPT !.next = next]
SetMb(bits)    == mb' = [mb EXCEPT !.status = @ \union bits]
ClearMb(bits)  == mb' = [mb EXCEPT !.status = @ \ bits]
SetUfm(bits)   == page' = SetStatus(page, bits)

(***************************************************************************)
(* A host.  It starts a command when the one before is over, flushes the   *)
(* FIFO before it fills it, and takes a command for complete when the      *)
(* Nios has taken the trigger and reports DONE.                            *)
(***************************************************************************)
Handler == {"clearStatus", "clearTrigger", "setBusy", "process", "readFifo", "write1",
            "write2", "eraseMb", "report", "then", "l1Half", "l1Status", "lockMb", "svn1", "svn2",
            "clearBusy", "setDone"}
PitPlaces == {"init", "tmin1", "pit1", "pit2", "sealPch", "sealBmc", "sealed", "passed"}
\* where BMC and PCH may be out of reset
Running == Handler \union {"t0", "l2Done", "l2Sleep"}

\* while SVNs are written the host waits, or is held in reset
HostSend(c, v) ==
  /\ at \in (Handler \ {"svn1", "svn2"}) \union {"t0"} /\ host = Idle /\ ~mb.trigger
  /\ host' = <<c, v>>
  /\ mb' = [mb EXCEPT !.cmd = c, !.trigger = TRUE,
                      !.fifo = IF c \in Fields THEN v ELSE @]
  /\ UNCHANGED <<page, pitVars, at, local, scenario>>

Complete == host # Idle /\ ~mb.trigger /\ "done" \in mb.status

HostSees ==
  /\ at \in Running /\ Complete /\ host' = Idle
  /\ UNCHANGED <<page, mb, pitVars, at, local, scenario>>

(***************************************************************************)
(* mb_ufm_provisioning_handler.                                            *)
(***************************************************************************)
TakeTrigger  == mb' = [mb EXCEPT !.trigger = FALSE]
StartCommand == SetMb({"busy"}) /\ local' = [local EXCEPT !.cmd = mb.cmd]

\* mutant of TakeCommand: the trigger is cleared before the status of the
\* command before
TakeTriggerFirst ==
  \/ Step("t0", "clearStatus") /\ mb.trigger /\ UNCHANGED <<mb, local>>
  \/ Step("clearStatus", "clearTrigger") /\ TakeTrigger /\ UNCHANGED local
  \/ Step("clearTrigger", "setBusy") /\ ClearMb(CommandStatus) /\ UNCHANGED local
  \/ Step("setBusy", "process") /\ StartCommand

TakeCommand ==
  \/ Step("t0", "clearStatus") /\ mb.trigger /\ UNCHANGED <<mb, local>>
  \/ Step("clearStatus", "clearTrigger") /\ ClearMb(CommandStatus) /\ UNCHANGED local
  \/ Step("clearTrigger", "setBusy") /\ TakeTrigger /\ UNCHANGED local
  \/ Step("setBusy", "process") /\ StartCommand

\* mutant of EndCommand: DONE reports that a command succeeded
EndCommandIfOk ==
  /\ \/ Step("clearBusy", "setDone") /\ ClearMb({"busy"})
     \/ /\ Step("setDone", "t0")
        /\ IF "error" \in mb.status THEN UNCHANGED mb ELSE SetMb({"done"})
  /\ UNCHANGED <<page, local>>

EndCommand ==
  /\ \/ Step("clearBusy", "setDone") /\ ClearMb({"busy"})
     \/ Step("setDone", "t0") /\ SetMb({"done"})
  /\ UNCHANGED <<page, local>>

\* write_mb_fifo_from_ufm
ProcessRead ==
  /\ Step("process", "clearBusy") /\ local.cmd \in Reads
  /\ mb' = [mb EXCEPT !.fifo = page.data[FieldRead(local.cmd)]]
  /\ UNCHANGED <<page, local>>

\* mutant of Writable: the lock is only looked at for the first provisioning
WritableOnce == local.cmd \notin Reads /\ (Locked(page) => local.cmd \in Fields)

\* the commands that may change the UFM
Writable == local.cmd \notin Reads /\ ~Locked(page)

ProcessLocked ==
  /\ Step("process", "clearBusy") /\ local.cmd \notin Reads /\ ~Writable
  /\ SetMb({"error"})
  /\ UNCHANGED <<page, local>>

\* mutant of Erase: the mailbox status stays
EraseKeepsStatus ==
  /\ \/ /\ Step("process", "eraseMb") /\ Writable /\ local.cmd = "erase"
        /\ page' = ErasedPage
     \/ Step("eraseMb", "report") /\ UNCHANGED page
  /\ UNCHANGED <<mb, local>>

Erase ==
  /\ \/ /\ Step("process", "eraseMb") /\ Writable /\ local.cmd = "erase"
        /\ page' = ErasedPage /\ UNCHANGED mb
     \/ Step("eraseMb", "report") /\ ClearMb(ErasedStatus) /\ UNCHANGED page
  /\ UNCHANGED local

\* mutant of Provision: the status bit is set after the data
ProvisionDataFirst ==
  LET f == local.cmd IN
  /\ \/ /\ Step("process", "report") /\ Writable /\ f \in page.status
        /\ SetMb({"error"}) /\ UNCHANGED <<page, local>>
     \/ /\ Step("process", "readFifo") /\ Writable /\ f \notin page.status
        /\ UNCHANGED <<page, mb, local>>
     \/ /\ Step("readFifo", "write1")
        /\ local' = [local EXCEPT !.buf = mb.fifo]
        /\ mb' = [mb EXCEPT !.fifo = Blank] /\ UNCHANGED page
     \/ /\ Step("write1", "write2")
        /\ page' = [page EXCEPT !.data[f] = OverFirst(@)] /\ UNCHANGED <<mb, local>>
     \/ /\ Step("write2", "report")
        /\ page' = [page EXCEPT !.data[f] = OverLast(@, local.buf),
                                !.status = @ \union {f}]
        /\ UNCHANGED <<mb, local>>
  /\ f \in Fields

\* the four provisioning commands; write_ufm_from_mb_fifo fills a buffer,
\* flushes the FIFO and then writes word by word
Provision ==
  LET f == local.cmd IN
  /\ \/ /\ Step("process", "report") /\ Writable /\ f \in page.status
        /\ SetMb({"error"}) /\ UNCHANGED <<page, local>>
     \/ /\ Step("process", "readFifo") /\ Writable /\ f \notin page.status
        /\ SetUfm({f}) /\ UNCHANGED <<mb, local>>
     \/ /\ Step("readFifo", "write1")
        /\ local' = [local EXCEPT !.buf = mb.fifo]
        /\ mb' = [mb EXCEPT !.fifo = Blank] /\ UNCHANGED page
     \/ /\ Step("write1", "write2")
        /\ page' = [page EXCEPT !.data[f] = OverFirst(@)] /\ UNCHANGED <<mb, local>>
     \/ /\ Step("write2", "report")
        /\ page' = [page EXCEPT !.data[f] = OverLast(@, local.buf)]
        /\ UNCHANGED <<mb, local>>
  /\ f \in Fields

\* reconfig, PIT and lock commands change nothing up to here
ProcessOther ==
  /\ Step("process", "report") /\ Writable /\ local.cmd \notin Fields \union {"erase"}
  /\ UNCHANGED <<page, mb, local>>

Report ==
  /\ Step("report", "then")
  /\ IF Provisioned(page) THEN SetMb({"provisioned"}) ELSE UNCHANGED mb
  /\ UNCHANGED <<page, local>>

ThenNothing ==
  /\ Step("then", "clearBusy") /\ local.cmd \in Fields \union {"erase"}
  /\ UNCHANGED <<page, mb, local>>

Refuse == Step("then", "clearBusy") /\ SetMb({"error"}) /\ UNCHANGED <<page, local>>

\* mb_process_enable_pit_ufm_cmd, level 1: two writes to RFNVRAM, then the
\* status.  What it writes to the mailbox after the UFM is lost with it.
EnableL1 ==
  /\ local.cmd = "l1"
  /\ \/ "pitId" \notin page.status /\ Refuse /\ UNCHANGED rfnvram
     \/ /\ Step("then", "l1Half") /\ "pitId" \in page.status
        /\ rfnvram' = Part /\ UNCHANGED <<page, mb, local>>
     \/ /\ Step("l1Half", "l1Status")
        /\ rfnvram' = page.data["pitId"] /\ UNCHANGED <<page, mb, local>>
     \/ /\ Step("l1Status", "clearBusy")
        /\ SetUfm({"l1"}) /\ SetMb({"l1"}) /\ UNCHANGED <<local, rfnvram>>

L2Allowed == "l2" \notin page.status /\ "l1" \in page.status

\* level 2 reports DONE before it resets the platform
EnableL2 ==
  /\ local.cmd = "l2"
  /\ \/ ~L2Allowed /\ Refuse
     \/ Step("then", "l2Done") /\ L2Allowed /\ SetUfm({"l2"}) /\ UNCHANGED <<mb, local>>
     \/ /\ Step("l2Done", "l2Sleep")
        /\ mb' = [mb EXCEPT !.status = (@ \union {"done"}) \ {"busy"}]
        /\ UNCHANGED <<page, local>>

\* perform_platform_reset: BMC and PCH go into reset; ret is where the Nios
\* goes on in T0
Reset(ret) ==
  /\ at' = "tmin1" /\ host' = Idle /\ local' = [local EXCEPT !.ret = ret]
  /\ UNCHANGED <<page, mb, pitVars, scenario>>

ResetForL2 == at = "l2Sleep" /\ Reset("clearBusy")

\* mb_process_lock_ufm_cmd; the SVNs are those of the last T-1
LockedSvns ==
  LET Allowed(f) == IF mb.svn[f] <= MaxSvn THEN << <<f, mb.svn[f]>> >> ELSE <<>>
  IN  Allowed("pch") \o Allowed("bmc")

Lock ==
  /\ local.cmd = "end"
  /\ \/ ~Provisioned(page) /\ Refuse
     \/ /\ Step("then", "lockMb") /\ Provisioned(page)
        /\ SetUfm({"lock"}) /\ UNCHANGED <<mb, local>>
     \/ /\ Step("lockMb", "svn1") /\ SetMb({"locked"})
        /\ local' = [local EXCEPT !.todo = LockedSvns, !.next = "clearBusy"]
        /\ UNCHANGED page

\* write_ufm_svn for each SVN in local.todo
WriteSvn ==
  /\ at \in {"svn1", "svn2"}
  /\ IF local.todo = <<>>
       THEN at' = local.next /\ UNCHANGED <<page, local>>
       ELSE LET p == Head(local.todo)[1]
                n == Head(local.todo)[2]
                Done == at' = "svn1" /\ local' = [local EXCEPT !.todo = Tail(@)]
            IN  \/ /\ at = "svn1" /\ n <= Svn(page.svn[p])
                   /\ Done /\ UNCHANGED page
                \/ /\ at = "svn1" /\ n > Svn(page.svn[p])
                   /\ page' = [page EXCEPT !.svn[p] = WriteFirst(@, n)]
                   /\ IF n < WordBits THEN Done ELSE at' = "svn2" /\ UNCHANGED local
                \/ /\ at = "svn2"
                   /\ page' = [page EXCEPT !.svn[p] = WriteSecond(@, n)]
                   /\ Done
  /\ UNCHANGED mb

(***************************************************************************)
(* Power, reconfiguration and pfr_main up to T-1.                          *)
(***************************************************************************)
\* the registers of the CPLD are lost, the UFM and the RFNVRAM are not
Lose(to) ==
  /\ at' = to /\ mb' = FreshMailbox /\ local' = FreshLocal /\ host' = Idle
  /\ UNCHANGED <<page, pitVars, scenario>>

PowerLoss == at # "off" /\ Lose("off")
PowerOn   == at = "off" /\ Lose("init")
Reconfig  == at = "then" /\ local.cmd = "reconfig" /\ Lose("init")

\* initialize_mailbox
Initialize ==
  /\ Step("init", "tmin1")
  /\ SetMb({s \in ErasedStatus \union {"locked"} :
              CASE s = "provisioned" -> Provisioned(page)
                [] s = "locked"      -> Locked(page)
                [] OTHER             -> s \in page.status})
  /\ UNCHANGED <<page, local>>

\* on the way the contents of the flashes, or the RFNVRAM, may be replaced
Transit ==
  /\ at = "off" /\ scenario.transit
  /\ \/ \E f \in Flashes, c \in Contents :
          content' = [content EXCEPT ![f] = c] /\ UNCHANGED rfnvram
     \/ \E v \in Values : rfnvram' = v /\ UNCHANGED content
  /\ UNCHANGED <<page, mb, seal, at, local, hostVars>>

(***************************************************************************)
(* perform_pit_protection.  "halt" is never_exit_loop.                     *)
(***************************************************************************)
EnterTmin1 ==
  /\ at = "tmin1"
  /\ at' = IF Provisioned(page) THEN "pit1" ELSE local.ret
  /\ UNCHANGED <<page, seal>>

PitL1 ==
  /\ at = "pit1"
  /\ at' = IF "l1" \in page.status /\ rfnvram # page.data["pitId"] THEN "halt" ELSE "pit2"
  /\ UNCHANGED <<page, seal>>

\* mutant of Matches: only the PCH flash is looked at
MatchesPch == page.hash["pch"] = content["pch"]

Matches == \A f \in Flashes : page.hash[f] = content[f]

PitL2 ==
  /\ at = "pit2"
  /\ LET pending == "l2" \in page.status /\ "passed" \notin page.status
         stored  == "hashStored" \in page.status
     IN  \/ ~pending /\ at' = "work" /\ UNCHANGED page
         \/ pending /\ stored /\ ~Matches /\ at' = "halt" /\ UNCHANGED page
         \/ pending /\ stored /\ Matches /\ at' = "passed" /\ SetUfm({"passed"})
         \/ pending /\ ~stored /\ at' = "sealPch" /\ UNCHANGED page
  /\ UNCHANGED seal

\* mutant of Seal: the status bit comes before the hashes
SealStatusFirst ==
  LET Hash(f) == page' = [page EXCEPT !.hash[f] = Over(@, content[f])] IN
  \/ Step("sealPch", "sealBmc") /\ SetUfm({"hashStored"}) /\ seal' = content
  \/ Step("sealBmc", "sealed") /\ Hash("pch") /\ UNCHANGED seal
  \/ Step("sealed", "halt") /\ Hash("bmc") /\ UNCHANGED seal

Seal ==
  LET Hash(f) == page' = [page EXCEPT !.hash[f] = Over(@, content[f])] IN
  \/ Step("sealPch", "sealBmc") /\ Hash("pch") /\ UNCHANGED seal
  \/ Step("sealBmc", "sealed") /\ Hash("bmc") /\ UNCHANGED seal
  \/ Step("sealed", "halt") /\ SetUfm({"hashStored"}) /\ seal' = content

Passed == Step("passed", "work") /\ SetMb({"passed"}) /\ UNCHANGED <<page, local>>

(***************************************************************************)
(* All steps of this module.                                               *)
(***************************************************************************)
\* the Nios, by what it leaves alone
CommandSteps ==
  \/ TakeCommand /\ UNCHANGED page
  \/ \/ EndCommand \/ ProcessRead \/ ProcessLocked \/ Erase \/ Provision
     \/ ProcessOther \/ Report \/ ThenNothing \/ EnableL2 \/ Lock \/ WriteSvn
     \/ Initialize \/ Passed

NiosStep ==
  \/ CommandSteps /\ UNCHANGED <<pitVars, hostVars>>
  \/ EnableL1 /\ UNCHANGED <<content, seal, hostVars>>
  \/ (EnterTmin1 \/ PitL1 \/ PitL2 \/ Seal)
       /\ UNCHANGED <<mb, rfnvram, content, local, hostVars>>
  \/ ResetForL2

HostStep == HostSees \/ \E s \in scenario.sends : HostSend(s[1], s[2])
===========================================================================
