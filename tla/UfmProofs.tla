----------------------------- MODULE UfmProofs -----------------------------
(***************************************************************************)
(* What the life of a UFM page guarantees, for every word size, every set  *)
(* of keys, values, contents and payloads, every scenario, and power       *)
(* losses between any two writes.                                          *)
(*                                                                         *)
(* First the UFM page and the types of the variables.  Then each property, *)
(* from an invariant about the few places of the Nios where it could go    *)
(* wrong:                                                                  *)
(*   WriteInv   between a status bit and the words it stands for           *)
(*   LockInv    between the test of the lock and the last write            *)
(*   SealInv    between the hashes and their status bit                    *)
(*   AdmitInv   from the Protect-in-Transit checks to the boot             *)
(*   KeyInv     between a check of a recovery capsule and its use          *)
(*   RecoveryInv  between a new recovery capsule and its SVN in the mailbox*)
(*   StatusInv  between a change of the UFM and that of the mailbox status *)
(*   AnswerInv  from the trigger of a command to the DONE that answers it  *)
(***************************************************************************)
EXTENDS Ufm, TLAPS

(***************************************************************************)
(* The UFM page, for a word of any size.  The heart of it: an SVN policy   *)
(* is always a run of top bits, so that get_ufm_svn reads it as the one    *)
(* number it stands for, after each of the two words that write_ufm_svn    *)
(* writes.                                                                 *)
(***************************************************************************)

\* the policy that stands for SVN n
Pattern(n) == {i \in SvnBits : n <= i}

\* The SVN bits are numbered from 0 to MaxSvn - 1 over both words.
LEMMA SvnBitsRange == SvnBits = 0 .. MaxSvn - 1 /\ MaxSvn \in Nat /\ WordBits \in 1 .. MaxSvn
  BY UfmAssumption DEF SvnBits, FirstWord, SecondWord, MaxSvn

\* get_ufm_svn reads what the policy stands for.
LEMMA SvnOfPattern == \A n \in 0 .. MaxSvn : Svn(Pattern(n)) = n
<1> SUFFICES ASSUME NEW n \in 0 .. MaxSvn PROVE Svn(Pattern(n)) = n
  OBVIOUS
<1>1. CASE n = MaxSvn
  BY <1>1, SvnBitsRange DEF Pattern, Svn
<1>2. CASE n # MaxSvn
  <2>1. n \in Pattern(n) /\ \A j \in Pattern(n) : n <= j
    BY <1>2, SvnBitsRange DEF Pattern
  <2>2. \A i \in Pattern(n) : (\A j \in Pattern(n) : i <= j) => i = n
    BY <2>1, SvnBitsRange DEF Pattern
  <2> QED BY <2>1, <2>2 DEF Svn
<1> QED BY <1>1, <1>2

\* Every policy is the pattern of the SVN it is read as.
LEMMA PatternOfSvn ==
  \A bits \in SvnPatterns : Svn(bits) \in 0 .. MaxSvn /\ bits = Pattern(Svn(bits))
<1> SUFFICES ASSUME NEW bits \in SvnPatterns
             PROVE Svn(bits) \in 0 .. MaxSvn /\ bits = Pattern(Svn(bits))
  OBVIOUS
<1>1. PICK n \in 0 .. MaxSvn : bits = Pattern(n)
  BY DEF SvnPatterns, Pattern
<1> QED BY <1>1, SvnOfPattern

\* The first of the two writes takes the policy to the SVN it is for, or to
\* the end of the first word.
LEMMA FirstWrite ==
  ASSUME NEW m \in 0 .. MaxSvn, NEW n \in Nat, m < n
  PROVE  /\ n < WordBits => WriteFirst(Pattern(m), n) = Pattern(n)
         /\ n >= WordBits /\ m >= WordBits => WriteFirst(Pattern(m), n) = Pattern(m)
         /\ n >= WordBits /\ m < WordBits => WriteFirst(Pattern(m), n) = Pattern(WordBits)
  BY UfmAssumption DEF WriteFirst, Pattern, SvnBits, FirstWord, SecondWord, MaxSvn

\* The second write completes it; an SVN beyond the maximum changes nothing.
LEMMA SecondWrite ==
  ASSUME NEW m \in WordBits .. MaxSvn, NEW n \in Nat, m <= n
  PROVE  /\ n <= MaxSvn => WriteSecond(Pattern(m), n) = Pattern(n)
         /\ n > MaxSvn => WriteSecond(Pattern(m), n) = Pattern(m)
  BY UfmAssumption DEF WriteSecond, Pattern, SvnBits, FirstWord, SecondWord, MaxSvn

\* Every SVN has a pattern.
LEMMA PatternType == \A n \in 0 .. MaxSvn : Pattern(n) \in SvnPatterns
  BY DEF Pattern, SvnPatterns

\* A write of an SVN that is not below the policy moves the policy to that SVN
\* and never beyond, and after its first word the policy is somewhere between
\* (write_ufm_svn).
THEOREM SvnWrites ==
  ASSUME NEW bits \in SvnPatterns, NEW n \in Nat, Svn(bits) < n
  PROVE  /\ WriteFirst(bits, n) \in SvnPatterns
         /\ Svn(bits) <= Svn(WriteFirst(bits, n)) /\ Svn(WriteFirst(bits, n)) <= n
         /\ n < WordBits => Svn(WriteFirst(bits, n)) = n
         /\ n >= WordBits => Svn(WriteFirst(bits, n)) >= WordBits
<1> DEFINE m == Svn(bits)
<1>1. m \in 0 .. MaxSvn /\ bits = Pattern(m)
  BY PatternOfSvn
<1>2. m < n
  OBVIOUS
<1>3. \E k \in 0 .. MaxSvn : /\ WriteFirst(bits, n) = Pattern(k) /\ m <= k /\ k <= n
                             /\ n < WordBits => k = n
                             /\ n >= WordBits => k >= WordBits
  <2> HIDE DEF m
  <2> QED BY <1>1, <1>2, FirstWrite, SvnBitsRange
<1>4. PICK k \in 0 .. MaxSvn : /\ WriteFirst(bits, n) = Pattern(k) /\ m <= k /\ k <= n
                               /\ n < WordBits => k = n
                               /\ n >= WordBits => k >= WordBits
  BY <1>3
<1> QED BY <1>4, SvnOfPattern, PatternType

\* The second write: from the end of the first word to the SVN itself, or no
\* further when it has no bit of its own (write_ufm_svn).
THEOREM SecondSvnWrites ==
  ASSUME NEW bits \in SvnPatterns, NEW n \in Nat, WordBits <= Svn(bits), Svn(bits) <= n
  PROVE  /\ WriteSecond(bits, n) \in SvnPatterns
         /\ Svn(bits) <= Svn(WriteSecond(bits, n)) /\ Svn(WriteSecond(bits, n)) <= n
         /\ n <= MaxSvn => Svn(WriteSecond(bits, n)) = n
<1>1. PICK m \in WordBits .. MaxSvn : m = Svn(bits) /\ bits = Pattern(m)
  BY PatternOfSvn, SvnBitsRange
<1>2. m <= n
  BY <1>1
<1>3. WriteSecond(bits, n) = Pattern(IF n <= MaxSvn THEN n ELSE m)
  BY <1>1, <1>2, SecondWrite, SvnBitsRange
<1> QED BY <1>1, <1>2, <1>3, SvnOfPattern, PatternType, SvnBitsRange

(***************************************************************************)
(* The types.  That of an SVN policy is not inductive by itself: between   *)
(* the two writes of write_ufm_svn it takes HalfWritten to know that the   *)
(* first word is used up.                                                  *)
(***************************************************************************)
HalfWritten ==
  at = "svn2" =>
    /\ local.todo # <<>>
    /\ LET p == Head(local.todo)[1]
           n == Head(local.todo)[2]
       IN  WordBits <= Svn(page.svn[p]) /\ Svn(page.svn[p]) <= n

\* TypeOK in four parts
PageOK  == page \in PageType(Contents)
Places  == {"off"} \union Running \union PitPlaces \union Tmin1Places
Nexts   == {"t0", "clearBusy", "pendDone", "authActive"}
NiosOK  ==
  /\ at \in Places
  /\ local \in [cmd : Commands, buf : Words, todo : Seq(Policies \X Svns),
                next : Nexts, ret : {"t0", "clearBusy"}]
BusOK   ==
  /\ mb \in [cmd : Commands, trigger : BOOLEAN, fifo : Words,
              status : SUBSET Status, svn : [Flashes -> Svns]]
  /\ host \in (Commands \union {"none"}) \X Words
FlashOK ==
  /\ rfnvram \in Words
  /\ content \in [Flashes -> Contents] /\ seal \in [Flashes -> Contents \union {Blank}]
  /\ scenario \in Scenarios
  /\ {active, recovery} \subseteq Payloads \union {Factory}
  /\ staged \in [Slots -> Payloads \union {Factory}]
  /\ asks \subseteq Asks /\ pending \in BOOLEAN

\* TypeOK is the conjunction of its parts.
LEMMA TypeParts == TypeOK <=> PageOK /\ NiosOK /\ BusOK /\ FlashOK
  BY DEF TypeOK, PageOK, NiosOK, BusOK, FlashOK, Places, Nexts

TypeInv == TypeOK /\ HalfWritten

(***************************************************************************)
(* Which actions change what.                                              *)
(***************************************************************************)
PageSteps ==
  \/ Erase \/ Provision \/ (EnableL1 /\ at = "l1Status") \/ EnableL2 \/ Lock \/ WriteSvn
  \/ PitL2 \/ Seal \/ Intent \/ Cpld \/ CpldRestart \/ PchIntent

USE DEF vars, provVars, pitVars, hostVars, imageVars, updateVars

\* The actions that change the UFM.
LEMMA PageChanges == [Next]_vars => page' = page \/ PageSteps
<1> SUFFICES ASSUME [Next]_vars, ~PageSteps PROVE page' = page
  OBVIOUS
<1> USE DEF PageSteps
<1>1. CASE CommandSteps
  BY <1>1 DEF CommandSteps, TakeCommand, EndCommand, ProcessRead, ProcessLocked, ProcessOther,
     Report, ThenNothing, Initialize, Passed, SetMb, ClearMb, Refuse
<1>2. CASE EnableL1
  BY <1>2 DEF EnableL1, Refuse, Step
<1>3. CASE NiosStep
  BY <1>1, <1>2, <1>3 DEF NiosStep, EnterTmin1, PitL1, ResetForL2, Reset
<1>4. CASE Tmin1Step
  BY <1>4 DEF Tmin1Step
<1>5. CASE Nios
  BY <1>3, <1>4, <1>5 DEF Nios, Reconfig, Lose
<1>6. CASE ~Nios
  BY <1>6 DEF Next, PowerLoss, PowerOn, Lose, HostStep, HostSees, HostSend, Transit, Stage,
     StartUpdate, Reset
<1> QED BY <1>5, <1>6

\* The place between the two words is only come to by the first of the two writes.
LEMMA HalfWrittenEntered ==
  NiosOK /\ [Next]_vars /\ at' = "svn2" => WriteSvn \/ UNCHANGED <<at, local, page>>
<1> SUFFICES ASSUME NiosOK, [Next]_vars, at' = "svn2", ~WriteSvn
             PROVE  UNCHANGED <<at, local, page>>
  OBVIOUS
<1> USE DEF Step
<1>1. local.next # "svn2" /\ local.ret # "svn2"
  BY DEF NiosOK, Nexts
<1>2. CASE CommandSteps
  BY <1>2 DEF CommandSteps, TakeCommand, EndCommand, ProcessRead, ProcessLocked, Erase, Provision,
     ProcessOther, Report, ThenNothing, EnableL2, Lock, Initialize, Passed, Refuse
<1>3. CASE EnableL1
  BY <1>3 DEF EnableL1, Refuse
<1>4. CASE NiosStep
  BY <1>1, <1>2, <1>3, <1>4 DEF NiosStep, EnterTmin1, PitL1, PitL2, Seal, ResetForL2, Reset
<1>5. CASE Tmin1Step
  BY <1>1, <1>5 DEF Tmin1Step, Pend, Promote, Intent, Cpld, AuthRecovery, AuthActive, AuthDone,
     PchIntent
<1>6. CASE Nios
  BY <1>4, <1>5, <1>6 DEF Nios, CpldRestart, Reconfig, Lose
<1>7. CASE ~Nios
  BY <1>7 DEF Next, PowerLoss, PowerOn, Lose, HostStep, HostSees, HostSend, Transit, Stage,
     StartUpdate, Reset, Quiet
<1> QED BY <1>6, <1>7

(***************************************************************************)
(* The page.                                                               *)
(***************************************************************************)
LEMMA ErasedPageOK == ErasedPage \in PageType(Contents)
<1>1. SvnBits \in SvnPatterns
  <2>1. SvnBits = Pattern(0)
    BY SvnBitsRange DEF Pattern
  <2> QED BY <2>1, PatternType, SvnBitsRange
<1> QED BY <1>1 DEF ErasedPage, PageType

\* A status bit (set_ufm_status).
LEMMA StatusOK ==
  ASSUME PageOK, NEW b \in SUBSET Bits, page' = SetStatus(page, b)
  PROVE  PageOK'
  BY DEF PageOK, PageType, SetStatus

\* A cancelled key (cancel_key).
LEMMA CancelOK ==
  ASSUME PageOK, NEW type, NEW id, page' = CancelKey(page, type, id)
  PROVE  PageOK'
<1>1. Policy(type) \in PcTypes
  BY DEF Policy, PcTypes
<1> QED BY <1>1 DEF PageOK, PageType, CancelKey

\* A provisioned field.
LEMMA DataOK ==
  ASSUME PageOK, NEW f \in Fields, NEW w \in Words, page' = [page EXCEPT !.data[f] = w]
  PROVE  PageOK'
  BY DEF PageOK, PageType, Words

\* A stored hash of a flash.
LEMMA HashOK ==
  ASSUME PageOK, NEW f \in Flashes, NEW h \in Contents \union {Blank, Blend},
         page' = [page EXCEPT !.hash[f] = h]
  PROVE  PageOK'
  BY DEF PageOK, PageType

\* An SVN policy.
LEMMA SvnOK ==
  ASSUME PageOK, NEW p \in Policies, NEW s \in SvnPatterns, page' = [page EXCEPT !.svn[p] = s]
  PROVE  PageOK'
  BY DEF PageOK, PageType

\* The next SVN to write.
LEMMA TodoHead ==
  ASSUME PageOK, NiosOK, local.todo # <<>>
  PROVE  /\ Head(local.todo)[1] \in Policies
         /\ Head(local.todo)[2] \in Svns /\ Head(local.todo)[2] \in Nat
         /\ Tail(local.todo) \in Seq(Policies \X Svns)
         /\ page.svn[Head(local.todo)[1]] \in SvnPatterns
<1>1. local.todo \in Seq(Policies \X Svns)
  BY DEF NiosOK
<1>2. Head(local.todo) \in Policies \X Svns /\ Tail(local.todo) \in Seq(Policies \X Svns)
  BY <1>1
<1>3. Svns \subseteq Nat
  BY SvnBitsRange DEF Svns
<1>4. page.svn \in [Policies -> SvnPatterns]
  BY DEF PageOK, PageType
<1> QED BY <1>2, <1>3, <1>4

\* Both words of an SVN policy (write_ufm_svn).
LEMMA WriteSvnPage ==
  ASSUME PageOK, NiosOK, HalfWritten, WriteSvn
  PROVE  PageOK' /\ HalfWritten'
<1> DEFINE p == Head(local.todo)[1]
           n == Head(local.todo)[2]
<1>1. CASE local.todo = <<>>
  <2>1. page' = page /\ at' # "svn2"
    BY <1>1 DEF WriteSvn, NiosOK, Nexts
  <2> QED BY <2>1 DEF PageOK, HalfWritten
<1>2. ASSUME local.todo # <<>>, at = "svn1", n <= Svn(page.svn[p]) PROVE PageOK' /\ HalfWritten'
  <2>1. Svn(page.svn[p]) \in Nat /\ n \in Nat
    BY <1>2, TodoHead, PatternOfSvn, SvnBitsRange
  <2>2. page' = page /\ at' # "svn2"
    BY <1>2, <2>1 DEF WriteSvn
  <2> QED BY <2>2 DEF PageOK, HalfWritten
<1>3. ASSUME local.todo # <<>>, at = "svn1", n > Svn(page.svn[p]) PROVE PageOK' /\ HalfWritten'
  <2>1. Svn(page.svn[p]) \in Nat /\ n \in Nat /\ p \in Policies /\ page.svn[p] \in SvnPatterns
    BY <1>3, TodoHead, PatternOfSvn, SvnBitsRange
  <2>2. page' = [page EXCEPT !.svn[p] = WriteFirst(@, n)]
    BY <1>3, <2>1 DEF WriteSvn
  <2>3. WriteFirst(page.svn[p], n) \in SvnPatterns
    BY <1>3, <2>1, SvnWrites
  <2>4. PageOK'
    BY <2>1, <2>2, <2>3, SvnOK
  <2>5. CASE at' = "svn2"
    <3>1. n >= WordBits /\ local' = local
      BY <1>3, <2>1, <2>5, UfmAssumption DEF WriteSvn
    <3>2. page'.svn[p] = WriteFirst(page.svn[p], n)
      BY <2>1, <2>2 DEF PageOK, PageType
    <3>3. WordBits <= Svn(page'.svn[p]) /\ Svn(page'.svn[p]) <= n
      BY <1>3, <2>1, <3>1, <3>2, SvnWrites
    <3> QED BY <1>3, <2>4, <3>1, <3>3 DEF HalfWritten
  <2> QED BY <2>4, <2>5 DEF HalfWritten
<1>4. ASSUME local.todo # <<>>, at = "svn2" PROVE PageOK' /\ HalfWritten'
  <2>1. n \in Nat /\ p \in Policies /\ page.svn[p] \in SvnPatterns
    BY <1>4, TodoHead
  <2>2. page' = [page EXCEPT !.svn[p] = WriteSecond(@, n)] /\ at' = "svn1"
    BY <1>4 DEF WriteSvn
  <2>3. WriteSecond(page.svn[p], n) \in SvnPatterns
    BY <1>4, <2>1, SecondSvnWrites DEF HalfWritten
  <2> QED BY <2>1, <2>2, <2>3, SvnOK DEF HalfWritten
<1> QED
  <2>1. at \in {"svn1", "svn2"}
    BY DEF WriteSvn
  <2>2. local.todo # <<>> => Svn(page.svn[p]) \in Nat /\ n \in Nat
    BY TodoHead, PatternOfSvn, SvnBitsRange
  <2> QED BY <1>1, <1>2, <1>3, <1>4, <2>1, <2>2

\* The UFM keeps its type.
LEMMA PageStep == TypeOK /\ HalfWritten /\ [Next]_vars => PageOK'
<1> SUFFICES ASSUME PageOK, NiosOK, BusOK, FlashOK, HalfWritten, [Next]_vars PROVE PageOK'
  BY TypeParts
<1> USE DEF Step
<1>1. CASE page' = page
  BY <1>1 DEF PageOK
<1>2. CASE Erase
  BY <1>2, ErasedPageOK DEF Erase, PageOK
<1>3. CASE Provision
  <2>1. CASE page' = SetStatus(page, {local.cmd})
    BY <1>3, <2>1, StatusOK DEF Provision, Bits
  <2>2. CASE page' = [page EXCEPT !.data[local.cmd] = OverFirst(@)]
    BY <1>3, <2>2, DataOK DEF Provision, OverFirst, Words
  <2>3. CASE page' = [page EXCEPT !.data[local.cmd] = OverLast(@, local.buf)]
    BY <1>3, <2>3, DataOK DEF Provision, OverLast, NiosOK, Words
  <2> QED BY <1>3, <2>1, <2>2, <2>3, <1>1 DEF Provision, SetUfm
<1>4. CASE EnableL1 /\ at = "l1Status"
  BY <1>4, StatusOK, <1>1 DEF EnableL1, SetUfm, Refuse, Bits, PitBits
<1>5. CASE EnableL2
  BY <1>5, StatusOK, <1>1 DEF EnableL2, SetUfm, Refuse, Bits, PitBits
<1>6. CASE Lock
  BY <1>6, StatusOK, <1>1 DEF Lock, SetUfm, Refuse, Bits
<1>7. CASE WriteSvn
  BY <1>7, WriteSvnPage
<1>8. CASE PitL2
  BY <1>8, StatusOK, <1>1 DEF PitL2, SetUfm, Bits, PitBits
<1>9. CASE Seal
  <2>1. ASSUME NEW f \in Flashes, page' = [page EXCEPT !.hash[f] = Over(@, content[f])]
        PROVE  PageOK'
    BY <2>1, HashOK DEF Over, PageOK, PageType, FlashOK
  <2> QED BY <1>9, <2>1, StatusOK DEF Seal, SetUfm, Bits, PitBits, Flashes
<1>10. CASE Intent
  BY <1>10, CancelOK, <1>1 DEF Intent, Cancel
<1>11. CASE Cpld
  BY <1>11, CancelOK, <1>1 DEF Cpld, Cancel
<1>12. CASE CpldRestart
  BY <1>12, ErasedPageOK, <1>1 DEF CpldRestart, PageOK
<1>13. CASE PchIntent
  BY <1>13, CancelOK, <1>1 DEF PchIntent, Cancel
<1> QED BY <1>1, <1>2, <1>3, <1>4, <1>5, <1>6, <1>7, <1>8, <1>9, <1>10, <1>11, <1>12, <1>13,
           PageChanges DEF PageSteps

\* Between the two words the first one is fully written.
LEMMA HalfWrittenStep == TypeOK /\ HalfWritten /\ [Next]_vars => HalfWritten'
<1> SUFFICES ASSUME PageOK, NiosOK, HalfWritten, [Next]_vars, at' = "svn2" PROVE HalfWritten'
  BY TypeParts DEF HalfWritten
<1> QED BY HalfWrittenEntered, WriteSvnPage DEF HalfWritten

(***************************************************************************)
(* The Nios.                                                               *)
(***************************************************************************)
LEMMA LockedSvnsOK == BusOK => LockedSvns \in Seq(Policies \X Svns)
<1> DEFINE Allowed(f) == IF mb.svn[f] <= MaxSvn THEN << <<f, mb.svn[f]>> >> ELSE <<>>
<1>1. ASSUME BusOK, NEW f \in Flashes PROVE Allowed(f) \in Seq(Policies \X Svns)
  BY <1>1 DEF BusOK, Flashes, Policies
<1>2. LockedSvns = Allowed("pch") \o Allowed("bmc")
  BY DEF LockedSvns
<1> HIDE DEF Allowed
<1> QED BY <1>1, <1>2 DEF Flashes

\* RAM after a restart.
LEMMA FreshLocalOK ==
  FreshLocal \in [cmd : Commands, buf : Words, todo : Seq(Policies \X Svns),
                  next : Nexts, ret : {"t0", "clearBusy"}]
  BY DEF FreshLocal, Commands, Words, Nexts

\* What T-1 may promote has an SVN.
LEMMA PromoteOK ==
  ASSUME NiosOK, FlashOK, NEW x \in Nexts, Promote(x)
  PROVE  NiosOK'
<1>1. staged["bmc"] \in Payloads \union {Factory}
  BY DEF FlashOK, Slots
<1>2. PICK n \in PfmSvns(staged["bmc"]) :
        at' = "svn1" /\ local' = [local EXCEPT !.next = x, !.todo = << <<"bmc", n>> >>]
  BY DEF Promote
<1>3. n \in Svns
  BY <1>1, <1>2, PayloadAssumption
<1>4. << <<"bmc", n>> >> \in Seq(Policies \X Svns)
  BY <1>3 DEF Policies
<1> QED BY <1>2, <1>4 DEF NiosOK, Places, Running, Handler

\* The local variables of the Nios keep their types.
LEMMA NiosStepOK == PageOK /\ NiosOK /\ BusOK /\ FlashOK /\ [Next]_vars => NiosOK'
<1> SUFFICES ASSUME PageOK, NiosOK, BusOK, FlashOK, [Next]_vars PROVE NiosOK'
  OBVIOUS
<1> USE DEF Step, Places, Running, Handler, PitPlaces, Tmin1Places
<1>1. CASE TakeCommand
  BY <1>1 DEF TakeCommand, StartCommand, NiosOK, BusOK
<1>2. CASE Provision
  BY <1>2 DEF Provision, NiosOK, BusOK
<1>3. CASE Lock
  BY <1>3, LockedSvnsOK DEF Lock, Refuse, NiosOK, Nexts
<1>4. CASE WriteSvn
  BY <1>4, TodoHead DEF WriteSvn, NiosOK, Nexts
<1>5. CASE EnableL1
  BY <1>5 DEF EnableL1, Refuse, NiosOK
<1>6. CASE CommandSteps
  BY <1>1, <1>2, <1>3, <1>4, <1>6 DEF CommandSteps, EndCommand, ProcessRead, ProcessLocked, Erase,
     ProcessOther, Report, ThenNothing, EnableL2, Initialize, Passed, Refuse, NiosOK
<1>7. CASE NiosStep
  BY <1>5, <1>6, <1>7 DEF NiosStep, EnterTmin1, PitL1, PitL2, Seal, ResetForL2, Reset, NiosOK
<1>8. CASE Pend \/ AuthRecovery
  BY <1>8, PromoteOK DEF Pend, AuthRecovery, NiosOK, Nexts
<1>9. CASE Tmin1Step
  BY <1>8, <1>9 DEF Tmin1Step, Intent, Cpld, AuthActive, AuthDone, PchIntent, NiosOK
<1>10. CASE Nios
  BY <1>7, <1>9, <1>10, FreshLocalOK DEF Nios, CpldRestart, Reconfig, Lose, NiosOK
<1>11. CASE ~Nios
  BY <1>11, FreshLocalOK DEF Next, PowerLoss, PowerOn, Lose, HostStep, HostSees, HostSend, Transit,
     Stage, StartUpdate, Reset, NiosOK
<1> QED BY <1>10, <1>11

(***************************************************************************)
(* Mailbox, hosts and flashes.                                             *)
(***************************************************************************)
LEMMA FreshMailboxOK ==
  FreshMailbox \in [cmd : Commands, trigger : BOOLEAN, fifo : Words,
                    status : SUBSET Status, svn : [Flashes -> Svns]]
  BY SvnBitsRange DEF FreshMailbox, Commands, Words, Svns

\* Mailbox and host keep their types.
LEMMA BusStep == PageOK /\ NiosOK /\ BusOK /\ FlashOK /\ [Next]_vars => BusOK'
<1> SUFFICES ASSUME PageOK, NiosOK, BusOK, FlashOK, [Next]_vars PROVE BusOK'
  OBVIOUS
<1> USE DEF Status, CommandStatus, ErasedStatus, SetMb, ClearMb, Refuse
<1>1. Idle \in (Commands \union {"none"}) \X Words
  BY DEF Idle, Words
<1>2. CASE (EndCommand \/ Erase \/ Report) /\ host' = host
  BY <1>2 DEF EndCommand, Erase, Report, BusOK
<1>3. CASE ProcessRead /\ host' = host
  <2>1. FieldRead(local.cmd) \in Fields
    BY DEF FieldRead, Fields
  <2> QED BY <1>3, <2>1 DEF ProcessRead, BusOK, PageOK, PageType, Words
<1>4. CASE Provision /\ host' = host
  BY <1>4 DEF Provision, BusOK, Words
<1>5. CASE TakeCommand /\ host' = host
  <2>1. mb' = mb \/ ClearMb(CommandStatus) \/ TakeTrigger \/ SetMb({"busy"})
    BY <1>5 DEF TakeCommand, StartCommand
  <2>2. CASE mb' = mb \/ TakeTrigger
    BY <1>5, <2>2 DEF TakeTrigger, BusOK
  <2>3. CASE SetMb({"busy"})
    BY <1>5, <2>3 DEF BusOK
  <2>4. CASE ClearMb(CommandStatus)
    BY <1>5, <2>4 DEF BusOK
  <2> QED BY <2>1, <2>2, <2>3, <2>4
<1>6. CASE EnableL2 /\ host' = host
  BY <1>6 DEF EnableL2, BusOK
<1>7. CASE (ProcessLocked \/ Passed) /\ host' = host
  BY <1>7 DEF ProcessLocked, Passed, BusOK
<1>8. CASE Lock /\ host' = host
  <2>1. mb' = mb \/ SetMb({"error"}) \/ SetMb({"locked"})
    BY <1>8 DEF Lock
  <2> QED BY <1>8, <2>1 DEF BusOK
<1>9. CASE (ProcessOther \/ ThenNothing \/ WriteSvn) /\ host' = host
  BY <1>9 DEF ProcessOther, ThenNothing, WriteSvn, BusOK
<1>10. CASE Initialize /\ host' = host
  BY <1>10 DEF Initialize, BusOK
<1>11. CASE CommandSteps /\ host' = host
  BY <1>2, <1>3, <1>4, <1>5, <1>6, <1>7, <1>9, <1>10, <1>11, <1>8 DEF CommandSteps
<1>12. CASE EnableL1 /\ host' = host
  BY <1>12 DEF EnableL1, BusOK
<1>13. CASE NiosStep
  BY <1>1, <1>11, <1>12, <1>13 DEF NiosStep, ResetForL2, Reset, BusOK
<1>14. CASE AuthDone /\ host' = host
  <2>1. recovery \in Payloads \union {Factory}
    BY DEF FlashOK
  <2> QED BY <1>14, <2>1, PayloadAssumption DEF AuthDone, BusOK, Flashes
<1>15. CASE Tmin1Step /\ host' = host
  BY <1>14, <1>15 DEF Tmin1Step, BusOK
<1>16. CASE Nios
  BY <1>1, <1>13, <1>15, <1>16, FreshMailboxOK DEF Nios, CpldRestart, Reconfig, Lose, BusOK
<1>17. CASE HostStep
  <2>1. ASSUME NEW s \in scenario.sends, HostSend(s[1], s[2]) PROVE BusOK'
    <3>1. s \in Commands \X (Values \union {Blank})
      BY ScenarioAssumption DEF FlashOK
    <3> QED BY <2>1, <3>1 DEF HostSend, BusOK, Words
  <2> QED BY <1>1, <1>17, <2>1 DEF HostStep, HostSees, BusOK
<1>18. CASE ~Nios /\ ~HostStep
  BY <1>1, <1>18, FreshMailboxOK DEF Next, PowerLoss, PowerOn, Lose, Transit, Stage, StartUpdate,
     Reset, BusOK
<1> QED BY <1>16, <1>17, <1>18

\* RFNVRAM, flashes and capsules keep their types.
LEMMA FlashStep == PageOK /\ NiosOK /\ BusOK /\ FlashOK /\ [Next]_vars => FlashOK'
<1> SUFFICES ASSUME PageOK, NiosOK, BusOK, FlashOK, [Next]_vars PROVE FlashOK'
  OBVIOUS
<1>1. CASE NiosStep /\ UNCHANGED <<imageVars, updateVars>>
  <2>1. rfnvram' \in Words
    BY <1>1 DEF NiosStep, EnableL1, ResetForL2, Reset, PageOK, PageType, Words, Fields, FlashOK, Step,
       Refuse
  <2>2. content' = content /\ (seal' = seal \/ seal' = content) /\ scenario' = scenario
    BY <1>1 DEF NiosStep, EnterTmin1, PitL1, PitL2, Seal, ResetForL2, Reset
  <2> QED BY <1>1, <2>1, <2>2 DEF FlashOK
<1>2. CASE Tmin1Step /\ UNCHANGED <<pitVars, hostVars>>
  <2>1. staged["bmc"] \in Payloads \union {Factory}
    BY DEF FlashOK, Slots
  <2> QED BY <1>2, <2>1 DEF Tmin1Step, Pend, Promote, Intent, Cpld, AuthRecovery, AuthActive, AuthDone,
     PchIntent, FlashOK
<1>3. CASE Forget /\ UNCHANGED <<pitVars, scenario>>
  BY <1>3 DEF Forget, FlashOK
<1>4. CASE Nios
  BY <1>1, <1>2, <1>3, <1>4 DEF Nios, Reconfig, Lose
<1>5. CASE Transit /\ UNCHANGED <<imageVars, updateVars>>
  BY <1>5 DEF Transit, FlashOK, Words
<1>6. ASSUME NEW s \in scenario.stages, Stage(s) PROVE FlashOK'
  <2>1. s \in [slot : Slots, payload : Payloads, ask : SUBSET Asks]
    BY ScenarioAssumption DEF FlashOK
  <2> QED BY <1>6, <2>1 DEF Stage, FlashOK
<1>7. CASE ~Nios
  BY <1>3, <1>5, <1>6, <1>7 DEF Next, PowerLoss, PowerOn, Lose, HostStep, HostSees, HostSend,
     StartUpdate, Reset, FlashOK
<1> QED BY <1>4, <1>7

(***************************************************************************)
(* The theorem.                                                            *)
(***************************************************************************)
LEMMA TypeInvInit == Init => TypeInv
<1> SUFFICES ASSUME Init PROVE TypeInv
  OBVIOUS
<1>1. PageOK
  BY ScenarioAssumption DEF Init, PageOK
<1>2. NiosOK
  BY FreshLocalOK DEF Init, NiosOK, Places
<1>3. BusOK
  BY FreshMailboxOK DEF Init, BusOK, Idle, Words
<1>4. FlashOK
  BY ScenarioAssumption DEF Init, FlashOK, NoContent, Words
<1> QED BY <1>1, <1>2, <1>3, <1>4, TypeParts DEF TypeInv, HalfWritten, Init

\* Every step keeps the types.
LEMMA TypeInvNext == TypeInv /\ [Next]_vars => TypeInv'
<1> SUFFICES ASSUME TypeInv, [Next]_vars PROVE TypeInv'
  OBVIOUS
<1>1. PageOK /\ NiosOK /\ BusOK /\ FlashOK /\ TypeOK /\ HalfWritten
  BY TypeParts DEF TypeInv
<1>2. PageOK' /\ HalfWritten'
  BY <1>1, PageStep, HalfWrittenStep
<1>3. NiosOK' /\ BusOK' /\ FlashOK'
  BY <1>1, NiosStepOK, BusStep, FlashStep
<1>4. TypeOK'
  BY <1>2, <1>3 DEF TypeOK, PageOK, NiosOK, BusOK, FlashOK, Places, Nexts
<1> QED BY <1>2, <1>4 DEF TypeInv

\* All variables keep their types; an SVN policy is never anything but a run of
\* top bits, between the two writes of write_ufm_svn as well.
THEOREM UfmTypeCorrect == Spec => []TypeOK
<1>1. Init => TypeInv
  BY TypeInvInit
<1>2. TypeInv /\ [Next]_vars => TypeInv'
  BY TypeInvNext
<1>3. TypeInv => TypeOK
  BY DEF TypeInv
<1> QED BY <1>1, <1>2, <1>3, PTL DEF Spec

(***************************************************************************)
(* What the steps of the Nios and of the others leave alone.               *)
(***************************************************************************)
USE DEF Step, vars, provVars, pitVars, hostVars, imageVars, updateVars

\* What the lemmas on single actions use of TypeInv.
LEMMA TypeInvParts == TypeInv => PageOK /\ NiosOK /\ BusOK /\ FlashOK
  BY TypeParts DEF TypeInv

\* What happens outside the Nios: nothing to it, or a restart or reset.
LEMMA OutsideNios ==
  [Next]_vars /\ ~Nios =>
    \/ /\ UNCHANGED <<page, at, local>>
       /\ mb' = mb \/ \E s \in scenario.sends : HostSend(s[1], s[2])
    \/ /\ at' \in {"off", "init", "tmin1"} /\ page' = page
       /\ mb' = mb \/ (mb' = FreshMailbox /\ at' # "tmin1")
<1> SUFFICES ASSUME [Next]_vars, ~Nios
             PROVE  \/ /\ UNCHANGED <<page, at, local>>
                       /\ mb' = mb \/ \E s \in scenario.sends : HostSend(s[1], s[2])
                    \/ /\ at' \in {"off", "init", "tmin1"} /\ page' = page
                       /\ mb' = mb \/ (mb' = FreshMailbox /\ at' # "tmin1")
  OBVIOUS
<1>1. CASE PowerLoss \/ PowerOn
  BY <1>1 DEF PowerLoss, PowerOn, Lose
<1>2. CASE HostSees \/ Transit
  BY <1>2 DEF HostSees, Transit
<1>3. CASE \E s \in scenario.sends : HostSend(s[1], s[2])
  BY <1>3 DEF HostSend
<1>4. CASE \E s \in scenario.stages : Stage(s)
  BY <1>4 DEF Stage
<1>5. CASE StartUpdate
  BY <1>5 DEF StartUpdate, Reset
<1> QED BY <1>1, <1>2, <1>3, <1>4, <1>5 DEF Next, HostStep

(***************************************************************************)
(* A value is never written over another one.                              *)
(***************************************************************************)
Provisioning == {"readFifo", "write1", "write2"}

WriteInv ==
  /\ \A f \in Fields :
       page.data[f] # Blend /\ (f \notin page.status => page.data[f] = Blank)
  /\ at \in Provisioning => local.cmd \in Fields \intersect page.status
  /\ at \in {"readFifo", "write1"} => page.data[local.cmd] = Blank
  /\ at = "write2" => page.data[local.cmd] = Part
  /\ at \in {"write1", "write2"} => local.buf # Blend
  /\ mb.fifo # Blend

\* Between a status bit and its words nobody else touches page and local.
LEMMA ProvisioningEntered ==
  TypeInv /\ [Next]_vars /\ at' \in Provisioning => Provision \/ UNCHANGED <<at, local, page>>
<1> SUFFICES ASSUME NiosOK, [Next]_vars, at' \in Provisioning, ~Provision
             PROVE  UNCHANGED <<at, local, page>>
  BY TypeInvParts
<1> USE DEF Provisioning
<1>1. local.next \notin Provisioning /\ local.ret \notin Provisioning
  BY DEF NiosOK, Nexts
<1>2. CASE CommandSteps
  BY <1>1, <1>2 DEF CommandSteps, TakeCommand, EndCommand, ProcessRead, ProcessLocked, Erase,
     ProcessOther, Report, ThenNothing, EnableL2, Lock, WriteSvn, Initialize, Passed, Refuse
<1>3. CASE NiosStep
  BY <1>1, <1>2, <1>3 DEF NiosStep, EnableL1, Refuse, EnterTmin1, PitL1, PitL2, Seal, ResetForL2, Reset
<1>4. CASE Tmin1Step
  BY <1>1, <1>4 DEF Tmin1Step, Pend, Promote, Intent, Cpld, AuthRecovery, AuthActive, AuthDone,
     PchIntent
<1>5. CASE Nios
  BY <1>3, <1>4, <1>5 DEF Nios, CpldRestart, Reconfig, Lose
<1>6. CASE ~Nios
  BY <1>6, OutsideNios
<1> QED BY <1>5, <1>6

\* The data and the status of a field only change together with it.
LEMMA DataChanges ==
  TypeInv /\ [Next]_vars =>
    \/ Provision
    \/ page' = ErasedPage
    \/ page'.data = page.data /\ page.status \subseteq page'.status
<1> SUFFICES ASSUME PageOK, NiosOK, [Next]_vars, ~Provision, page' # ErasedPage
             PROVE  page'.data = page.data /\ page.status \subseteq page'.status
  BY TypeInvParts
<1>1. CASE page' = page
  BY <1>1
<1>2. CASE EnableL1 \/ EnableL2 \/ Lock \/ PitL2
  BY <1>1, <1>2 DEF EnableL1, EnableL2, Lock, PitL2, SetUfm, SetStatus, Refuse, PageOK, PageType
<1>3. CASE WriteSvn
  BY <1>1, <1>3 DEF WriteSvn, PageOK, PageType
<1>4. CASE Seal
  BY <1>4 DEF Seal, SetUfm, SetStatus, PageOK, PageType
<1>5. CASE Intent \/ Cpld \/ CpldRestart \/ PchIntent
  BY <1>1, <1>5 DEF Intent, Cpld, CpldRestart, PchIntent, Cancel, CancelKey, PageOK, PageType
<1>6. CASE Erase
  BY <1>1, <1>6 DEF Erase
<1> QED BY <1>1, <1>2, <1>3, <1>4, <1>5, <1>6, PageChanges DEF PageSteps

\* The FIFO never holds one value over another.
LEMMA FifoStep == TypeInv /\ WriteInv /\ [Next]_vars => mb'.fifo # Blend
<1> SUFFICES ASSUME PageOK, NiosOK, BusOK, FlashOK, WriteInv, [Next]_vars PROVE mb'.fifo # Blend
  BY TypeInvParts
<1> USE DEF WriteInv, BusOK, SetMb, ClearMb, Refuse
<1>1. Blank # Blend /\ FreshMailbox.fifo = Blank
  BY DEF Blank, Blend, FreshMailbox
<1>2. CASE ProcessRead
  BY <1>2 DEF ProcessRead, FieldRead, Fields
<1>3. CASE CommandSteps
  BY <1>1, <1>2, <1>3 DEF CommandSteps, TakeCommand, StartCommand, TakeTrigger, EndCommand,
     ProcessLocked, Erase, Provision, ProcessOther, Report, ThenNothing, EnableL2, Lock, WriteSvn,
     Initialize, Passed
<1>4. CASE Nios
  BY <1>1, <1>3, <1>4 DEF Nios, NiosStep, EnableL1, ResetForL2, Reset, Tmin1Step, AuthDone, CpldRestart,
     Reconfig, Lose
<1>5. ASSUME NEW s \in scenario.sends, HostSend(s[1], s[2]) PROVE mb'.fifo # Blend
  <2>1. s \in Commands \X (Values \union {Blank})
    BY ScenarioAssumption DEF FlashOK
  <2> QED BY <1>1, <1>5, <2>1, ValueAssumption DEF HostSend
<1>6. CASE ~Nios
  BY <1>1, <1>5, <1>6, OutsideNios
<1> QED BY <1>4, <1>6

\* Every step keeps the fields without a status bit erased.
LEMMA WriteInvNext == TypeInv /\ WriteInv /\ [Next]_vars => WriteInv'
<1> SUFFICES ASSUME TypeInv, WriteInv, [Next]_vars PROVE WriteInv'
  OBVIOUS
<1>1. PageOK /\ NiosOK /\ BusOK
  BY TypeInvParts
<1>2. mb'.fifo # Blend
  BY FifoStep
<1>3. CASE Provision
  <2>1. Blank # Blend /\ Part # Blend /\ Blank # Part
    BY DEF Blank, Part, Blend
  <2> USE <1>1, <1>2, <1>3 DEF Provision, WriteInv, Provisioning, PageOK, PageType, NiosOK
  <2>2. CASE page' = page /\ at' = "report"
    BY <2>2
  <2>3. CASE page' = page /\ at' = "write1"
    <3>1. local' = [local EXCEPT !.buf = mb.fifo] /\ at = "readFifo"
      BY <2>3
    <3>2. local'.cmd = local.cmd /\ local'.buf = mb.fifo
      BY <3>1
    <3> QED BY <2>3, <3>1, <3>2
  <2>4. CASE page' = SetStatus(page, {local.cmd}) /\ at' = "readFifo"
    BY <2>1, <2>4 DEF SetStatus
  <2>5. CASE page' = [page EXCEPT !.data[local.cmd] = OverFirst(@)] /\ at' = "write2"
    BY <2>1, <2>5 DEF OverFirst
  <2>6. CASE page' = [page EXCEPT !.data[local.cmd] = OverLast(@, local.buf)] /\ at' = "report"
    BY <2>1, <2>6 DEF OverLast
  <2> QED BY <2>2, <2>3, <2>4, <2>5, <2>6 DEF SetUfm
<1>4. CASE page' = ErasedPage
  <2>1. ErasedPage.data = [f \in Fields |-> Blank] /\ Blank # Blend
    BY DEF ErasedPage, Blank, Blend
  <2>2. CASE at' \in Provisioning /\ ~Provision
    BY <1>2, <1>4, <2>2, ProvisioningEntered DEF WriteInv, Provisioning
  <2>3. CASE at' \notin Provisioning
    BY <1>2, <1>4, <2>1, <2>3 DEF WriteInv, Provisioning
  <2> QED BY <1>3, <2>2, <2>3
<1>5. CASE page'.data = page.data /\ page.status \subseteq page'.status /\ ~Provision
  BY <1>2, <1>5, ProvisioningEntered DEF WriteInv, Provisioning
<1> QED BY <1>3, <1>4, <1>5, DataChanges

\* A scenario starts before any command is processed.
LEMMA WriteInvInit == Init => WriteInv
  BY ScenarioAssumption DEF Init, WriteInv, Provisioning, FreshMailbox, Blank, Blend

\* No provisioned value is ever written over another one (mb_process_ufm_cmd
\* sets the status bit first).
THEOREM NeverOverwritten == Spec => []WrittenOnce
<1>1. Init => TypeInv /\ WriteInv
  BY TypeInvInit, WriteInvInit
<1>2. TypeInv /\ WriteInv /\ [Next]_vars => (TypeInv /\ WriteInv)'
  BY TypeInvNext, WriteInvNext
<1>3. WriteInv => WrittenOnce
  BY DEF WriteInv, WrittenOnce
<1> QED BY <1>1, <1>2, <1>3, PTL DEF Spec

(***************************************************************************)
(* The lock.                                                               *)
(***************************************************************************)
Writing == Provisioning \union {"eraseMb", "report", "then", "l1Half", "l1Status"}

LockInv == at \in Writing => ~Locked(page)

\* A page found unlocked stays so until the command is done.
LEMMA LockInvNext == TypeInv /\ LockInv /\ [Next]_vars => LockInv'
<1> SUFFICES ASSUME PageOK, NiosOK, LockInv, [Next]_vars, at' \in Writing PROVE ~Locked(page')
  BY TypeInvParts DEF LockInv
<1> USE DEF LockInv, Writing, Provisioning, Locked, CheckStatus
<1>1. local.next \notin Writing /\ local.ret \notin Writing
  BY DEF NiosOK, Nexts
<1>2. CASE Provision
  BY <1>2 DEF Provision, Writable, SetUfm, SetStatus, Fields, PageOK, PageType
<1>3. CASE Erase
  BY <1>3 DEF Erase, Writable, ErasedPage
<1>4. CASE EnableL1
  BY <1>4 DEF EnableL1, Refuse
<1>5. CASE CommandSteps
  BY <1>1, <1>2, <1>3, <1>5 DEF CommandSteps, TakeCommand, EndCommand, ProcessRead, ProcessLocked,
     ProcessOther, Writable, Report, ThenNothing, EnableL2, Lock, WriteSvn, Initialize, Passed, Refuse
<1>6. CASE NiosStep
  BY <1>1, <1>4, <1>5, <1>6 DEF NiosStep, EnterTmin1, PitL1, PitL2, Seal, ResetForL2, Reset
<1>7. CASE Tmin1Step
  BY <1>1, <1>7 DEF Tmin1Step, Pend, Promote, Intent, Cpld, AuthRecovery, AuthActive, AuthDone,
     PchIntent
<1>8. CASE Nios
  BY <1>6, <1>7, <1>8 DEF Nios, CpldRestart, Reconfig, Lose
<1>9. CASE ~Nios
  BY <1>9, OutsideNios
<1> QED BY <1>8, <1>9

\* What may change on a locked page.
LEMMA LockKeeps ==
  ASSUME TypeInv, LockInv, [Next]_vars, Locked(page)
  PROVE  \/ at = "cpld" /\ page' = ErasedPage
         \/ /\ page'.data = page.data /\ page.status \subseteq page'.status
            /\ page'.status \ page.status \subseteq {"hashStored", "passed"}
<1>1. PageOK /\ NiosOK /\ at \notin Writing
  BY TypeInvParts DEF LockInv
<1> USE <1>1 DEF Writing, Provisioning, Locked, CheckStatus
<1>2. CASE page' = page
  BY <1>2
<1>3. CASE Erase \/ Provision \/ EnableL1 \/ EnableL2 \/ Lock
  BY <1>2, <1>3 DEF Erase, Provision, EnableL1, EnableL2, Lock, Writable, Refuse
<1>4. CASE PitL2
  BY <1>2, <1>4 DEF PitL2, SetUfm, SetStatus, PageOK, PageType
<1>5. CASE Seal
  BY <1>5 DEF Seal, SetUfm, SetStatus, PageOK, PageType
<1>6. CASE WriteSvn
  BY <1>2, <1>6 DEF WriteSvn, PageOK, PageType
<1>7. CASE Intent \/ Cpld \/ CpldRestart \/ PchIntent
  BY <1>2, <1>7 DEF Intent, Cpld, CpldRestart, PchIntent, Cancel, CancelKey, PageOK, PageType
<1> QED BY <1>2, <1>3, <1>4, <1>5, <1>6, <1>7, PageChanges DEF PageSteps

\* What was provisioned stays as it is once the UFM is locked, unless a
\* decommission capsule erases it (mb_process_ufm_cmd).
THEOREM LockHolds == Spec => LockedIsFrozen
<1>1. Init => TypeInv /\ LockInv
  BY TypeInvInit DEF Init, LockInv, Writing, Provisioning
<1>2. TypeInv /\ LockInv /\ [Next]_vars => (TypeInv /\ LockInv)'
  BY TypeInvNext, LockInvNext
<1>3. TypeInv /\ LockInv /\ [Next]_vars =>
        [Locked(page) =>
           \/ at = "cpld" /\ page' = ErasedPage
           \/ /\ page'.data = page.data /\ page.status \subseteq page'.status
              /\ page'.status \ page.status \subseteq {"hashStored", "passed"}]_vars
  BY LockKeeps
<1> QED BY <1>1, <1>2, <1>3, PTL DEF Spec, LockedIsFrozen

(***************************************************************************)
(* The hashes of Protect-in-Transit.                                       *)
(***************************************************************************)
Sealing == {"sealPch", "sealBmc", "sealed"}

SealInv ==
  /\ SealHonest
  /\ at \in Sealing => "hashStored" \notin page.status
  /\ at \in {"sealBmc", "sealed"} => page.hash["pch"] \in {content["pch"], Blend}
  /\ at = "sealed" => page.hash["bmc"] \in {content["bmc"], Blend}

\* Sealing only begins without stored hashes and goes on with the flashes it began with.
LEMMA SealingEntered ==
  TypeInv /\ [Next]_vars /\ at' \in Sealing =>
    \/ Seal
    \/ at' = "sealPch" /\ page' = page /\ "hashStored" \notin page.status
    \/ UNCHANGED <<at, page, content>>
<1> SUFFICES ASSUME NiosOK, [Next]_vars, at' \in Sealing, ~Seal
             PROVE  \/ at' = "sealPch" /\ page' = page /\ "hashStored" \notin page.status
                    \/ UNCHANGED <<at, page, content>>
  BY TypeInvParts
<1> USE DEF Sealing
<1>1. local.next \notin Sealing /\ local.ret \notin Sealing
  BY DEF NiosOK, Nexts
<1>2. CASE CommandSteps
  BY <1>1, <1>2 DEF CommandSteps, TakeCommand, EndCommand, ProcessRead, ProcessLocked, Erase,
     Provision, ProcessOther, Report, ThenNothing, EnableL2, Lock, WriteSvn, Initialize, Passed, Refuse
<1>3. CASE NiosStep
  BY <1>1, <1>2, <1>3 DEF NiosStep, EnableL1, Refuse, EnterTmin1, PitL1, PitL2, ResetForL2, Reset
<1>4. CASE Tmin1Step
  BY <1>1, <1>4 DEF Tmin1Step, Pend, Promote, Intent, Cpld, AuthRecovery, AuthActive, AuthDone,
     PchIntent
<1>5. CASE Nios
  BY <1>3, <1>4, <1>5 DEF Nios, CpldRestart, Reconfig, Lose
<1>6. CASE ~Nios
  <2>1. UNCHANGED <<page, at, local>>
    BY <1>6, OutsideNios
  <2> QED BY <1>6, <2>1 DEF Next, PowerLoss, PowerOn, Lose, HostStep, HostSees, HostSend, Transit,
        Stage, StartUpdate, Reset
<1> QED BY <1>5, <1>6

\* Hashes are only written while sealing, and only erased with the page.
LEMMA HashChanges ==
  TypeInv /\ [Next]_vars =>
    \/ Seal
    \/ page' = ErasedPage
    \/ /\ page'.hash = page.hash /\ seal' = seal
       /\ "hashStored" \in page'.status => "hashStored" \in page.status
<1> SUFFICES ASSUME PageOK, NiosOK, [Next]_vars, ~Seal, page' # ErasedPage
             PROVE  /\ page'.hash = page.hash /\ seal' = seal
                    /\ "hashStored" \in page'.status => "hashStored" \in page.status
  BY TypeInvParts
<1>1. seal' = seal
  <2>1. CASE NiosStep
    BY <2>1 DEF NiosStep, EnterTmin1, PitL1, PitL2, ResetForL2, Reset
  <2>2. CASE Nios
    BY <2>1, <2>2 DEF Nios, Reconfig, Lose
  <2>3. CASE ~Nios
    BY <2>3 DEF Next, PowerLoss, PowerOn, Lose, HostStep, HostSees, HostSend, Transit, Stage,
       StartUpdate, Reset
  <2> QED BY <2>2, <2>3
<1>2. CASE page' = page
  BY <1>1, <1>2
<1>3. CASE EnableL1 \/ EnableL2 \/ Lock \/ PitL2
  BY <1>1, <1>2, <1>3 DEF EnableL1, EnableL2, Lock, PitL2, SetUfm, SetStatus, Refuse, PageOK, PageType
<1>4. CASE Provision
  BY <1>1, <1>2, <1>4 DEF Provision, SetUfm, SetStatus, Fields, PageOK, PageType
<1>5. CASE WriteSvn
  BY <1>1, <1>2, <1>5 DEF WriteSvn, PageOK, PageType
<1>6. CASE Intent \/ Cpld \/ CpldRestart \/ PchIntent
  BY <1>1, <1>2, <1>6 DEF Intent, Cpld, CpldRestart, PchIntent, Cancel, CancelKey, PageOK, PageType
<1>7. CASE Erase
  BY <1>2, <1>7, <1>1 DEF Erase
<1> QED BY <1>2, <1>3, <1>4, <1>5, <1>6, <1>7, PageChanges DEF PageSteps

\* Each write of perform_pit_l2_check.
LEMMA SealStep ==
  ASSUME PageOK, FlashOK, SealInv, Seal, UNCHANGED content
  PROVE  SealInv'
<1> USE DEF SealInv, SealHonest, Sealing, Flashes, PageOK, PageType, FlashOK
<1>1. CASE at = "sealPch"
  BY <1>1 DEF Seal, Over
<1>2. CASE at = "sealBmc"
  BY <1>2 DEF Seal, Over
<1>3. CASE at = "sealed"
  BY <1>3 DEF Seal, SetUfm, SetStatus
<1> QED BY <1>1, <1>2, <1>3 DEF Seal

\* Every step keeps the hashes honest.
LEMMA SealInvNext == TypeInv /\ SealInv /\ [Next]_vars => SealInv'
<1> SUFFICES ASSUME TypeInv, SealInv, [Next]_vars PROVE SealInv'
  OBVIOUS
<1>1. PageOK /\ NiosOK /\ FlashOK
  BY TypeInvParts
<1>2. CASE Seal
  <2>1. content' = content
    BY <1>2 DEF Seal, Next, Nios, NiosStep, CommandSteps, EnableL1, ResetForL2, Reset, Tmin1Step,
       CpldRestart, Reconfig, Lose, PowerLoss, PowerOn, HostStep, HostSees, HostSend, Transit, Stage,
       StartUpdate
  <2> QED BY <1>1, <1>2, <2>1, SealStep
<1>3. CASE page' = ErasedPage /\ ~Seal
  <2>1. "hashStored" \notin page'.status
    BY <1>3 DEF ErasedPage
  <2> QED BY <1>3, <2>1, SealingEntered DEF SealInv, SealHonest, Sealing
<1>4. CASE /\ page'.hash = page.hash /\ seal' = seal /\ ~Seal
           /\ "hashStored" \in page'.status => "hashStored" \in page.status
  BY <1>4, SealingEntered DEF SealInv, SealHonest, Sealing
<1> QED BY <1>2, <1>3, <1>4, HashChanges

\* Nothing is sealed at the start of a scenario.
LEMMA SealInvInit == Init => SealInv
  BY ScenarioAssumption DEF Init, SealInv, SealHonest, Sealing

\* A stored hash is that of a sealed content, or matches nothing
\* (perform_pit_l2_check sets HASH_STORED last).
THEOREM SealIsHonest == Spec => []SealHonest
<1>1. Init => TypeInv /\ SealInv
  BY TypeInvInit, SealInvInit
<1>2. TypeInv /\ SealInv /\ [Next]_vars => (TypeInv /\ SealInv)'
  BY TypeInvNext, SealInvNext
<1>3. SealInv => SealHonest
  BY DEF SealInv
<1> QED BY <1>1, <1>2, <1>3, PTL DEF Spec

(***************************************************************************)
(* From the Protect-in-Transit checks to the boot.                         *)
(***************************************************************************)
Level1Admits == "l1" \in page.status => rfnvram = page.data["pitId"]
Admitted     == Level1Admits /\ ("l2" \in page.status => "passed" \in page.status)

\* T-1 after the checks, write_ufm_svn of a promotion included
AtWork ==
  \/ at \in {"work", "pendDone", "intent", "cpld", "auth", "authActive", "authDone", "authFailed",
             "pchIntent"}
  \/ at \in {"svn1", "svn2"} /\ local.next \in {"pendDone", "authActive"}

AdmitInv ==
  /\ at = "pit2" => Level1Admits
  /\ at = "passed" \/ AtWork => Admitted

\* The T-1 operations change neither what was provisioned nor the status.
LEMMA WorkKeeps == PageOK /\ Tmin1Step => page'.data = page.data /\ page'.status = page.status
  BY DEF Tmin1Step, Intent, Cpld, PchIntent, Cancel, CancelKey, PageOK, PageType

\* What was admitted by Protect-in-Transit stays so until T0.
LEMMA AdmitInvNext == TypeInv /\ AdmitInv /\ [Next]_vars => AdmitInv'
<1> SUFFICES ASSUME TypeInv, AdmitInv, [Next]_vars PROVE AdmitInv'
  OBVIOUS
<1> USE DEF AdmitInv, AtWork, Admitted, Level1Admits
<1>1. PageOK /\ NiosOK
  BY TypeInvParts
<1>2. local.next \in Nexts /\ local.ret \in {"t0", "clearBusy"}
  BY <1>1 DEF NiosOK
<1>3. CASE WriteSvn /\ UNCHANGED rfnvram
  <2>1. page'.data = page.data /\ page'.status = page.status /\ local'.next = local.next
    BY <1>1, <1>3 DEF WriteSvn, PageOK, PageType, NiosOK
  <2>2. at \in {"svn1", "svn2"} /\ at' \in {"svn1", "svn2", local.next}
    BY <1>3 DEF WriteSvn
  <2> QED BY <1>2, <1>3, <2>1, <2>2 DEF Nexts
<1>4. CASE Lock
  <2>1. at' \in {"clearBusy", "lockMb"} \/ (at' = "svn1" /\ local'.next = "clearBusy")
    BY <1>1, <1>4 DEF Lock, Refuse, NiosOK
  <2> QED BY <2>1
<1>5. CASE CommandSteps /\ UNCHANGED rfnvram
  BY <1>3, <1>4, <1>5 DEF CommandSteps, TakeCommand, EndCommand, ProcessRead, ProcessLocked, Erase,
     Provision, ProcessOther, Report, ThenNothing, EnableL2, Initialize, Passed, Refuse
<1>6. CASE PitL1 /\ UNCHANGED rfnvram
  BY <1>6 DEF PitL1
<1>7. CASE PitL2 /\ UNCHANGED rfnvram
  BY <1>1, <1>7 DEF PitL2, SetUfm, SetStatus, PageOK, PageType
<1>8. CASE NiosStep
  BY <1>2, <1>5, <1>6, <1>7, <1>8 DEF NiosStep, EnableL1, Refuse, EnterTmin1, Seal, ResetForL2, Reset
<1>9. CASE Tmin1Step /\ UNCHANGED rfnvram
  <2>1. page'.data = page.data /\ page'.status = page.status
    BY <1>1, <1>9, WorkKeeps
  <2>2. AtWork /\ at' # "pit2" /\ at' # "passed"
    BY <1>2, <1>9 DEF Tmin1Step, Pend, Promote, Intent, Cpld, AuthRecovery, AuthActive, AuthDone,
       PchIntent
  <2> QED BY <1>9, <2>1, <2>2
<1>10. CASE Nios
  BY <1>8, <1>9, <1>10 DEF Nios, CpldRestart, Reconfig, Lose
<1>11. CASE ~Nios
  <2>1. CASE at' \in {"off", "init", "tmin1"}
    BY <2>1
  <2>2. CASE UNCHANGED <<page, at, local>>
    <3>1. rfnvram' = rfnvram \/ at = "off"
      BY <1>11 DEF Next, PowerLoss, PowerOn, Lose, HostStep, HostSees, HostSend, Transit, Stage,
         StartUpdate, Reset
    <3> QED BY <2>2, <3>1
  <2> QED BY <1>11, <2>1, <2>2, OutsideNios
<1> QED BY <1>10, <1>11

\* A flash that matches its hash is the one that was sealed.
LEMMA PassedIsSealed ==
  ASSUME TypeInv, SealInv, [Next]_vars, "passed" \in page'.status \ page.status
  PROVE  content = seal
<1>1. PageOK /\ NiosOK /\ FlashOK
  BY TypeInvParts
<1>2. PitL2 /\ at' = "passed"
  <2>1. ~Erase /\ ~CpldRestart /\ page' # page
    BY DEF Erase, CpldRestart, ErasedPage
  <2>2. ~EnableL1 /\ ~EnableL2 /\ ~Lock
    BY <1>1, <2>1 DEF EnableL1, EnableL2, Lock, SetUfm, SetStatus, Refuse, PageOK, PageType
  <2>3. ~Provision
    BY <1>1, <2>1 DEF Provision, SetUfm, SetStatus, Fields, PageOK, PageType
  <2>4. ~WriteSvn /\ ~Seal
    BY <1>1, <2>1 DEF WriteSvn, Seal, SetUfm, SetStatus, PageOK, PageType
  <2>5. ~Intent /\ ~Cpld /\ ~PchIntent
    BY <1>1, <2>1 DEF Intent, Cpld, PchIntent, Cancel, CancelKey, PageOK, PageType
  <2> QED BY <2>1, <2>2, <2>3, <2>4, <2>5, PageChanges DEF PageSteps, PitL2
<1>3. "hashStored" \in page.status /\ Matches
  BY <1>2 DEF PitL2
<1>4. \A f \in Flashes : content[f] = seal[f]
  BY <1>1, <1>3, ContentAssumption DEF Matches, SealInv, SealHonest, FlashOK
<1> QED BY <1>1, <1>4 DEF FlashOK

\* T-1 is only left with what was admitted.
LEMMA AdmitKeeps ==
  ASSUME TypeInv, AdmitInv, [Next]_vars, at = "pchIntent", at' \notin {"pchIntent", "off"}
  PROVE  /\ "l1" \in page'.status => rfnvram = page'.data["pitId"]
         /\ "l2" \in page'.status => "passed" \in page'.status
<1>1. PageOK /\ Admitted
  BY TypeInvParts DEF AdmitInv, AtWork
<1>2. page'.data = page.data /\ page'.status = page.status
  <2>1. CASE Nios
    <3>1. ~NiosStep /\ ~CpldRestart /\ ~Reconfig
      BY DEF NiosStep, CommandSteps, TakeCommand, EndCommand, ProcessRead, ProcessLocked, Erase,
         Provision, ProcessOther, Report, ThenNothing, EnableL2, Lock, WriteSvn, Initialize, Passed,
         Refuse, EnableL1, EnterTmin1, PitL1, PitL2, Seal, ResetForL2, CpldRestart, Reconfig
    <3>2. Tmin1Step /\ UNCHANGED rfnvram
      BY <2>1, <3>1 DEF Nios
    <3> QED BY <1>1, <3>2, WorkKeeps
  <2>2. CASE ~Nios
    BY <2>2, OutsideNios
  <2> QED BY <2>1, <2>2
<1> QED BY <1>1, <1>2 DEF Admitted, Level1Admits

\* Nothing boots past Protect-in-Transit (perform_pit_protection).
THEOREM OnlyAdmittedBoots == Spec => BootAdmitted
<1>1. Init => TypeInv /\ SealInv /\ AdmitInv
  BY TypeInvInit, SealInvInit DEF Init, AdmitInv, AtWork
<1>2. TypeInv /\ SealInv /\ AdmitInv /\ [Next]_vars => (TypeInv /\ SealInv /\ AdmitInv)'
  BY TypeInvNext, SealInvNext, AdmitInvNext
<1>3. TypeInv /\ SealInv /\ AdmitInv /\ [Next]_vars =>
        [/\ at = "pchIntent" /\ at' \notin {"pchIntent", "off"} =>
              /\ "l1" \in page'.status => rfnvram = page'.data["pitId"]
              /\ "l2" \in page'.status => "passed" \in page'.status
         /\ "passed" \in page'.status \ page.status => content = seal]_vars
  BY PassedIsSealed, AdmitKeeps
<1> QED BY <1>1, <1>2, <1>3, PTL DEF Spec, BootAdmitted

(***************************************************************************)
(* SVN policies.                                                           *)
(***************************************************************************)
LEMMA SvnChanges ==
  TypeInv /\ [Next]_vars => WriteSvn \/ page' = ErasedPage \/ page'.svn = page.svn
<1> SUFFICES ASSUME PageOK, NiosOK, [Next]_vars, ~WriteSvn, page' # ErasedPage
             PROVE  page'.svn = page.svn
  BY TypeInvParts
<1>1. CASE page' = page
  BY <1>1
<1>2. CASE EnableL1 \/ EnableL2 \/ Lock \/ PitL2
  BY <1>1, <1>2 DEF EnableL1, EnableL2, Lock, PitL2, SetUfm, SetStatus, Refuse, PageOK, PageType
<1>3. CASE Provision
  BY <1>1, <1>3 DEF Provision, SetUfm, SetStatus, PageOK, PageType
<1>4. CASE Seal
  BY <1>4 DEF Seal, SetUfm, SetStatus, PageOK, PageType
<1>5. CASE Intent \/ Cpld \/ CpldRestart \/ PchIntent
  BY <1>1, <1>5 DEF Intent, Cpld, CpldRestart, PchIntent, Cancel, CancelKey, PageOK, PageType
<1>6. CASE Erase
  BY <1>1, <1>6 DEF Erase
<1> QED BY <1>1, <1>2, <1>3, <1>4, <1>5, <1>6, PageChanges DEF PageSteps

\* An SVN policy moves up, to the SVN being written at most.
LEMMA FloorStep ==
  ASSUME TypeInv, [Next]_vars, NEW p \in Policies,
         page'.svn[p] # page.svn[p], page' # ErasedPage
  PROVE  LET n == Head(local.todo)[2]
         IN  /\ Svn(page.svn[p]) <= Svn(page'.svn[p])
             /\ Svn(page'.svn[p]) <= n
             /\ local'.todo = Tail(local.todo) /\ n <= MaxSvn => Svn(page'.svn[p]) = n
<1> DEFINE q == Head(local.todo)[1]
           n == Head(local.todo)[2]
<1>1. PageOK /\ NiosOK /\ WriteSvn /\ HalfWritten
  BY TypeInvParts, SvnChanges DEF TypeInv
<1>2. local.todo # <<>>
  BY <1>1 DEF WriteSvn
<1>3. q \in Policies /\ n \in Nat /\ page.svn[q] \in SvnPatterns /\ Svn(page.svn[q]) \in Nat
  BY <1>1, <1>2, TodoHead, PatternOfSvn, SvnBitsRange
<1>4. page.svn \in [Policies -> SvnPatterns]
  BY <1>1 DEF PageOK, PageType
<1>5. CASE at = "svn1"
  <2>1. n > Svn(page.svn[q]) /\ page' = [page EXCEPT !.svn[q] = WriteFirst(@, n)]
    BY <1>1, <1>2, <1>3, <1>5 DEF WriteSvn
  <2>2. p = q /\ page'.svn[p] = WriteFirst(page.svn[p], n)
    BY <1>1, <1>3, <1>4, <2>1 DEF PageOK, PageType
  <2>3. n < WordBits \/ local' = local
    BY <1>1, <1>2, <1>3, <1>5, <2>1, UfmAssumption DEF WriteSvn
  <2>4. local' = local => local'.todo # Tail(local.todo)
    <3>1. local.todo \in Seq(Policies \X Svns)
      BY <1>1 DEF NiosOK
    <3>2. Len(Tail(local.todo)) = Len(local.todo) - 1 /\ Len(local.todo) \in Nat
      BY <1>2, <3>1
    <3>3. Tail(local.todo) # local.todo
      <4>1. \A k \in Nat : k - 1 # k
        OBVIOUS
      <4> QED BY <3>2, <4>1
    <3> QED BY <3>3
  <2> QED BY <1>3, <2>1, <2>2, <2>3, <2>4, SvnWrites
<1>6. CASE at = "svn2"
  <2>1. page' = [page EXCEPT !.svn[q] = WriteSecond(@, n)]
    BY <1>1, <1>2, <1>6 DEF WriteSvn
  <2>2. p = q /\ page'.svn[p] = WriteSecond(page.svn[p], n)
    BY <1>1, <1>3, <1>4, <2>1 DEF PageOK, PageType
  <2>3. WordBits <= Svn(page.svn[p]) /\ Svn(page.svn[p]) <= n
    BY <1>1, <1>6, <2>2 DEF HalfWritten
  <2> QED BY <1>3, <2>2, <2>3, SecondSvnWrites
<1> QED BY <1>1, <1>5, <1>6 DEF WriteSvn

\* A write of an SVN policy is monotonic, never passes the SVN it is for, and
\* ends there (write_ufm_svn).
THEOREM FloorIsExact == Spec => FloorExact
<1>1. Init => TypeInv
  BY TypeInvInit
<1>2. TypeInv /\ [Next]_vars => TypeInv'
  BY TypeInvNext
<1>3. TypeInv /\ [Next]_vars =>
        [\A p \in Policies :
           page'.svn[p] # page.svn[p] /\ page' # ErasedPage =>
             LET n == Head(local.todo)[2]
             IN  /\ Svn(page.svn[p]) <= Svn(page'.svn[p])
                 /\ Svn(page'.svn[p]) <= n
                 /\ local'.todo = Tail(local.todo) /\ n <= MaxSvn
                      => Svn(page'.svn[p]) = n]_vars
  BY FloorStep
<1> QED BY <1>1, <1>2, <1>3, PTL DEF Spec, FloorExact

(***************************************************************************)
(* Cancelled keys.                                                         *)
(***************************************************************************)
\* is_signature_valid follows the whole chain.
LEMMA SignatureLive ==
  \A x : is_signature_valid(page, x) => SignedByLiveKeys(x)
  BY DEF is_signature_valid, is_block1_valid, is_root_entry_valid, is_csk_entry_valid, SignedByLiveKeys

\* No capsule is accepted without its signature check.
LEMMA AcceptedIsSigned ==
  \A x, i, r, n : Verdict(page, x, i, r, n) = "accept" => is_signature_valid(page, x)
  BY DEF Verdict

\* A recovery capsule that is about to be decompressed was just checked.
KeyInv ==
  \/ at = "authActive"
  \/ at \in {"svn1", "svn2"} /\ local.next = "authActive"
  => SignedByLiveKeys(recovery)

\* No key is cancelled between the check of the recovery capsule and its use.
LEMMA KeyInvNext == TypeInv /\ KeyInv /\ [Next]_vars => KeyInv'
<1> SUFFICES ASSUME TypeInv, KeyInv, [Next]_vars PROVE KeyInv'
  OBVIOUS
<1> USE DEF KeyInv
<1>1. PageOK /\ NiosOK
  BY TypeInvParts
<1>2. local.next \in Nexts /\ local.ret \in {"t0", "clearBusy"}
  BY <1>1 DEF NiosOK
<1>3. CASE WriteSvn /\ UNCHANGED recovery
  <2>1. page'.data = page.data /\ page'.csk = page.csk /\ local'.next = local.next
    BY <1>1, <1>3 DEF WriteSvn, PageOK, PageType, NiosOK
  <2>2. at \in {"svn1", "svn2"} /\ at' \in {"svn1", "svn2", local.next}
    BY <1>3 DEF WriteSvn
  <2>3. SignedByLiveKeys(recovery) => SignedByLiveKeys(recovery)'
    BY <1>3, <2>1 DEF SignedByLiveKeys, KeyValid
  <2> QED BY <1>2, <2>1, <2>2, <2>3 DEF Nexts
<1>4. CASE Lock
  <2>1. at' \in {"clearBusy", "lockMb"} \/ (at' = "svn1" /\ local'.next = "clearBusy")
    BY <1>1, <1>4 DEF Lock, Refuse, NiosOK
  <2> QED BY <2>1
<1>5. CASE NiosStep /\ UNCHANGED recovery
  BY <1>2, <1>3, <1>4, <1>5 DEF NiosStep, CommandSteps, TakeCommand, EndCommand, ProcessRead,
     ProcessLocked, Erase, Provision, ProcessOther, Report, ThenNothing, EnableL2, Initialize, Passed,
     Refuse, EnableL1, EnterTmin1, PitL1, PitL2, Seal, ResetForL2, Reset
<1>6. CASE AuthRecovery /\ UNCHANGED page
  <2>1. CASE at' = "authActive"
    <3>1. is_capsule_valid(page, recovery) /\ recovery' = recovery
      BY <1>6, <2>1 DEF AuthRecovery, Promote
    <3>2. SignedByLiveKeys(recovery)
      BY <3>1, SignatureLive DEF is_capsule_valid
    <3> QED BY <1>6, <3>1, <3>2 DEF SignedByLiveKeys
  <2>2. CASE at' = "svn1"
    <3>1. is_signature_valid(page, staged["bmc"]) /\ recovery' = staged["bmc"]
      BY <1>6, <2>2 DEF AuthRecovery, Promote, Promotable
    <3>2. SignedByLiveKeys(staged["bmc"])
      BY <3>1, SignatureLive
    <3> QED BY <1>6, <3>1, <3>2 DEF SignedByLiveKeys
  <2>3. at' \in {"authActive", "svn1", "authDone", "authFailed"}
    BY <1>6 DEF AuthRecovery, Promote
  <2> QED BY <2>1, <2>2, <2>3
<1>7. CASE Pend
  <2>1. at' \in {"intent"} \/ (at' = "svn1" /\ local'.next = "pendDone")
    BY <1>1, <1>7 DEF Pend, Promote, NiosOK
  <2> QED BY <2>1
<1>8. CASE Tmin1Step
  BY <1>2, <1>6, <1>7, <1>8 DEF Tmin1Step, Intent, Cpld, AuthActive, AuthDone, PchIntent
<1>9. CASE Nios
  BY <1>5, <1>8, <1>9 DEF Nios, CpldRestart, Reconfig, Lose
<1>10. CASE ~Nios
  <2>1. recovery' = recovery
    BY <1>10 DEF Next, Forget, Stage, StartUpdate
  <2> QED BY <1>10, <2>1, OutsideNios DEF SignedByLiveKeys
<1> QED BY <1>9, <1>10

\* Active and recovery firmware are only replaced by what live keys have signed.
LEMMA LiveKeysOnly ==
  ASSUME TypeInv, KeyInv, [Next]_vars
  PROVE  /\ active' # active => SignedByLiveKeys(active')
         /\ recovery' # recovery => SignedByLiveKeys(recovery')
<1>1. ASSUME Tmin1Step
      PROVE  /\ active' # active => SignedByLiveKeys(active')
             /\ recovery' # recovery => SignedByLiveKeys(recovery')
  <2>1. CASE Intent /\ UNCHANGED recovery
    BY <2>1, SignatureLive, AcceptedIsSigned DEF Intent, FirmwareVerdict
  <2>2. CASE (Pend \/ AuthRecovery) /\ UNCHANGED active
    BY <2>2, SignatureLive DEF Pend, AuthRecovery, Promote, Promotable
  <2>3. CASE AuthActive /\ UNCHANGED recovery
    BY <2>3 DEF AuthActive, KeyInv
  <2> QED BY <1>1, <2>1, <2>2, <2>3 DEF Tmin1Step
<1>2. CASE ~Tmin1Step
  BY <1>2 DEF Next, Nios, Forget, Stage, StartUpdate
<1> QED BY <1>1, <1>2

\* No capsule signed by a cancelled key, or under another root key, gets into
\* flash (check_capsule_before_update, check_capsule_before_fw_recovery_update,
\* authenticate_and_recover_spi_flash).
THEOREM OnlyLiveKeys == Spec => CancelledStaysOut
<1>1. Init => TypeInv /\ KeyInv
  BY TypeInvInit DEF Init, KeyInv
<1>2. TypeInv /\ KeyInv /\ [Next]_vars => (TypeInv /\ KeyInv)'
  BY TypeInvNext, KeyInvNext
<1>3. TypeInv /\ KeyInv /\ [Next]_vars =>
        [/\ active' # active => SignedByLiveKeys(active')
         /\ recovery' # recovery => SignedByLiveKeys(recovery')]_vars
  BY LiveKeysOnly
<1> QED BY <1>1, <1>2, <1>3, PTL DEF Spec, CancelledStaysOut

(***************************************************************************)
(* The SVN of the recovery image in the mailbox.                           *)
(***************************************************************************)
\* T-1 from a promotion to mb_write_pfm_info
AtPromoted ==
  \/ at \in {"pendDone", "intent", "cpld", "auth", "authActive", "authDone", "authFailed"}
  \/ at \in {"svn1", "svn2"} /\ local.next \in {"pendDone", "authActive"}

\* The mailbox has the SVN of the recovery image, unless a promotion in this
\* T-1 replaced the image by what is staged.
RecoveryInv ==
  \/ mb.svn["bmc"] \in PfmSvns(recovery) \union {0}
  \/ AtPromoted /\ recovery = staged["bmc"]

\* The mailbox has the SVN 0 after a restart.
LEMMA FreshSvn == FreshMailbox.svn["bmc"] = 0
  BY DEF FreshMailbox, Flashes

\* No command changes the recovery SVN in the mailbox.
LEMMA SvnRegister ==
  TypeInv /\ NiosStep => mb'.svn = mb.svn
<1> SUFFICES ASSUME BusOK, NiosStep PROVE mb'.svn = mb.svn
  BY TypeInvParts
<1> USE DEF BusOK, SetMb, ClearMb, Refuse
<1>1. CASE CommandSteps
  BY <1>1 DEF CommandSteps, TakeCommand, StartCommand, TakeTrigger, EndCommand, ProcessRead,
     ProcessLocked, Erase, Provision, ProcessOther, Report, ThenNothing, EnableL2, Lock, WriteSvn,
     Initialize, Passed
<1>2. CASE EnableL1
  BY <1>2 DEF EnableL1
<1> QED BY <1>1, <1>2 DEF NiosStep, ResetForL2, Reset

\* Every step keeps the recovery SVN in the mailbox true.
LEMMA RecoveryInvNext == TypeInv /\ RecoveryInv /\ [Next]_vars => RecoveryInv'
<1> SUFFICES ASSUME TypeInv, RecoveryInv, [Next]_vars PROVE RecoveryInv'
  OBVIOUS
<1> USE DEF RecoveryInv, AtPromoted
<1>1. PageOK /\ NiosOK /\ BusOK
  BY TypeInvParts
<1>2. local.next \in Nexts /\ local.ret \in {"t0", "clearBusy"}
  BY <1>1 DEF NiosOK
<1>3. CASE mb'.svn = mb.svn /\ recovery' = recovery /\ ~AtPromoted
  <2>1. PfmSvns(recovery)' = PfmSvns(recovery)
    BY <1>3 DEF PfmSvns, IsFirmware
  <2> QED BY <1>3, <2>1
<1>4. CASE NiosStep /\ UNCHANGED <<imageVars, updateVars>>
  <2>1. mb'.svn = mb.svn
    BY <1>4, SvnRegister
  <2>2. CASE AtPromoted
    <3>1. WriteSvn
      BY <1>4, <2>2 DEF NiosStep, CommandSteps, TakeCommand, EndCommand, ProcessRead,
         ProcessLocked, Erase, Provision, ProcessOther, Report, ThenNothing, EnableL2, Lock, Initialize,
         Passed, Refuse, EnableL1, EnterTmin1, PitL1, PitL2, Seal, ResetForL2
    <3>2. AtPromoted'
      BY <1>1, <1>2, <2>2, <3>1 DEF WriteSvn, NiosOK, Nexts
    <3>3. PfmSvns(recovery)' = PfmSvns(recovery)
      BY <1>4 DEF PfmSvns, IsFirmware
    <3> QED BY <1>4, <2>1, <3>2, <3>3
  <2> QED BY <1>3, <1>4, <2>1, <2>2
<1>5. CASE Tmin1Step /\ UNCHANGED <<pitVars, hostVars>>
  <2>1. CASE AuthDone /\ UNCHANGED recovery
    <3>1. mb'.svn["bmc"] \in PfmSvns(recovery)
      BY <1>1, <2>1 DEF AuthDone, BusOK, Flashes
    <3> QED BY <2>1, <3>1 DEF PfmSvns, IsFirmware
  <2>2. CASE (Pend \/ AuthRecovery) /\ recovery' # recovery /\ UNCHANGED <<mb, staged>>
    <3>1. recovery' = staged["bmc"] /\ at' = "svn1" /\ local'.next \in {"pendDone", "authActive"}
      BY <1>1, <2>2 DEF Pend, AuthRecovery, Promote, NiosOK
    <3> QED BY <2>2, <3>1
  <2>3. CASE Pend /\ recovery' = recovery /\ UNCHANGED <<mb, staged>>
    <3>1. AtPromoted'
      BY <1>1, <2>3 DEF Pend, Promote, NiosOK
    <3> QED BY <2>3, <3>1 DEF PfmSvns, IsFirmware
  <2>4. CASE AuthRecovery /\ recovery' = recovery /\ UNCHANGED <<mb, staged>>
    <3>1. AtPromoted'
      BY <1>1, <2>4 DEF AuthRecovery, Promote, NiosOK
    <3> QED BY <2>4, <3>1 DEF PfmSvns, IsFirmware
  <2>5. CASE (Intent \/ Cpld \/ AuthActive) /\ UNCHANGED <<mb, recovery, staged>>
    <3>1. AtPromoted'
      BY <2>5 DEF Intent, Cpld, AuthActive
    <3> QED BY <2>5, <3>1 DEF PfmSvns, IsFirmware
  <2>6. CASE PchIntent /\ UNCHANGED <<mb, recovery, staged>>
    BY <1>3, <2>6 DEF PchIntent
  <2> QED BY <1>5, <2>1, <2>2, <2>3, <2>4, <2>5, <2>6 DEF Tmin1Step
<1>6. CASE mb' = FreshMailbox
  BY <1>6, FreshSvn
<1>7. CASE Nios
  BY <1>4, <1>5, <1>6, <1>7 DEF Nios, CpldRestart, Reconfig, Lose
<1>8. CASE ~Nios
  <2>1. CASE PowerLoss \/ PowerOn
    BY <1>6, <2>1 DEF PowerLoss, PowerOn, Lose
  <2>2. CASE HostStep /\ UNCHANGED <<imageVars, updateVars>>
    <3>1. mb'.svn = mb.svn /\ UNCHANGED <<at, local>>
      BY <1>1, <2>2 DEF HostStep, HostSees, HostSend, BusOK
    <3> QED BY <2>2, <3>1 DEF PfmSvns, IsFirmware
  <2>3. CASE Transit /\ UNCHANGED <<imageVars, updateVars>>
    BY <2>3 DEF Transit, PfmSvns, IsFirmware
  <2>4. CASE \E s \in scenario.stages : Stage(s)
    BY <1>3, <2>4 DEF Stage, Quiet
  <2>5. CASE StartUpdate
    BY <1>3, <2>5 DEF StartUpdate, Quiet, Reset
  <2>6. CASE UNCHANGED vars
    BY <2>6 DEF PfmSvns, IsFirmware
  <2> QED BY <1>8, <2>1, <2>2, <2>3, <2>4, <2>5, <2>6 DEF Next
<1> QED BY <1>7, <1>8

\* What an update of the active firmware may bring with it.
LEMMA AboveFloor ==
  ASSUME TypeInv, RecoveryInv, [Next]_vars, at = "intent", active' # active,
         NEW n \in PfmSvns(active')
  PROVE  /\ SvnAllowed(page, "bmc", n)
         /\ "recovery" \in asks \/ n \in PfmSvns(recovery) \/ n = 0
<1>1. Intent
  BY DEF Next, Nios, Tmin1Step, Forget, Stage, StartUpdate, AuthActive
<1>2. active' = staged["bmc"] /\ FirmwareVerdict = "accept"
  BY <1>1 DEF Intent
<1>3. FirmwareAccepted(page, staged["bmc"], "bmc", "recovery" \in asks, mb.svn["bmc"])
  BY <1>2 DEF FirmwareVerdict, Verdict
<1>4. SvnAllowed(page, "bmc", n) /\ ("recovery" \in asks \/ mb.svn["bmc"] = n)
  BY <1>2, <1>3 DEF FirmwareAccepted
<1> QED BY <1>2, <1>4 DEF RecoveryInv

\* An update that is accepted is not below the SVN policy, and one of the active
\* firmware alone has the SVN of the recovery image, or 0 before the first T-1
\* (check_capsule_before_update).
THEOREM NoneBelowFloor == Spec => UpdateAboveFloor
<1>1. Init => TypeInv /\ RecoveryInv
  BY TypeInvInit, FreshSvn DEF Init, RecoveryInv
<1>2. TypeInv /\ RecoveryInv /\ [Next]_vars => (TypeInv /\ RecoveryInv)'
  BY TypeInvNext, RecoveryInvNext
<1>3. TypeInv /\ RecoveryInv /\ [Next]_vars =>
        [at = "intent" /\ active' # active =>
           \A n \in PfmSvns(active') :
             /\ SvnAllowed(page, "bmc", n)
             /\ "recovery" \in asks \/ n \in PfmSvns(recovery) \/ n = 0]_vars
  BY AboveFloor
<1> QED BY <1>1, <1>2, <1>3, PTL DEF Spec, UpdateAboveFloor

(***************************************************************************)
(* The status in the mailbox.                                              *)
(***************************************************************************)
\* Where the mailbox is right about each bit, and that it is never right
\* too early: what the Nios still has to tell the mailbox at the other places.
StatusInv ==
  /\ at \in {"off", "init"} => mb.status = {}
  /\ at = "lockMb" => Locked(page)
  /\ at = "passed" => "passed" \in page.status
  /\ at = "eraseMb" => page.status = {}
  /\ at \notin {"off", "init", "lockMb"} => (("locked" \in mb.status) = Locked(page))
  /\ at \in Provisioning \union {"report"} => ("provisioned" \in mb.status => Provisioned(page))
  /\ at \notin Provisioning \union {"off", "init", "eraseMb", "report"} =>
       (("provisioned" \in mb.status) = Provisioned(page))
  /\ at \notin {"off", "init", "eraseMb"} => (("l1" \in mb.status) = ("l1" \in page.status))
  /\ at \notin {"off", "init", "eraseMb", "passed"} =>
       (("passed" \in mb.status) = ("passed" \in page.status))

\* what these bits depend on
SameStatus ==
  /\ page'.status \intersect (Fields \union {"lock", "l1", "passed"})
       = page.status \intersect (Fields \union {"lock", "l1", "passed"})
  /\ mb'.status \ CommandStatus = mb.status \ CommandStatus

Quietly == Provisioning \union {"off", "init", "lockMb", "report", "eraseMb", "passed"}

\* Neither page nor mailbox change, away from the places where they differ.
LEMMA SameStatusKeeps ==
  ASSUME StatusInv, SameStatus, at \notin Quietly, at' \notin Quietly
  PROVE  StatusInv'
<1>1. /\ ("locked" \in mb'.status) = ("locked" \in mb.status)
      /\ ("provisioned" \in mb'.status) = ("provisioned" \in mb.status)
      /\ ("l1" \in mb'.status) = ("l1" \in mb.status)
      /\ ("passed" \in mb'.status) = ("passed" \in mb.status)
  BY DEF SameStatus, CommandStatus
<1>2. /\ \A b \in Fields \union {"lock", "l1", "passed"} : (b \in page'.status) = (b \in page.status)
  BY DEF SameStatus
<1> QED BY <1>1, <1>2 DEF StatusInv, Quietly, Locked, Provisioned, CheckStatus, Fields

\* Nothing moves.
LEMMA NothingKeeps ==
  ASSUME StatusInv, at' = at, page'.status = page.status, mb'.status = mb.status
  PROVE  StatusInv'
  BY DEF StatusInv, Quietly, Locked, Provisioned, CheckStatus

\* commands that change neither
LEMMA QuietCommands ==
  ASSUME TypeInv, StatusInv, UNCHANGED <<pitVars, hostVars>>,
         \/ TakeCommand /\ UNCHANGED page
         \/ EndCommand \/ ProcessRead \/ ProcessLocked \/ ThenNothing \/ EnableL2 \/ WriteSvn
  PROVE  StatusInv'
<1>1. PageOK /\ NiosOK /\ BusOK
  BY TypeInvParts
<1>2. mb'.status \ CommandStatus = mb.status \ CommandStatus
  BY <1>1 DEF TakeCommand, StartCommand, TakeTrigger, EndCommand, ProcessRead, ProcessLocked, ThenNothing,
     EnableL2, WriteSvn, SetMb, ClearMb, Refuse, CommandStatus, BusOK
<1>3. \/ page'.status = page.status
      \/ page'.status = page.status \union {"l2"}
  BY <1>1 DEF EndCommand, ProcessRead, ProcessLocked, ThenNothing, EnableL2, WriteSvn, SetUfm, SetStatus,
     Refuse, PageOK, PageType
<1>4. SameStatus
  BY <1>2, <1>3 DEF SameStatus, Fields
<1>5. at \notin Quietly /\ at' \notin Quietly
  <2>1. local.next \notin Quietly
    BY <1>1 DEF NiosOK, Nexts, Quietly, Provisioning
  <2> QED BY <2>1 DEF TakeCommand, EndCommand, ProcessRead, ProcessLocked, ThenNothing, EnableL2,
        WriteSvn, Refuse, Quietly, Provisioning
<1> QED BY <1>4, <1>5, SameStatusKeeps

\* commands that do
LEMMA LoudCommands ==
  ASSUME TypeInv, StatusInv,
         Erase \/ Provision \/ ProcessOther \/ Report \/ Lock \/ EnableL1
  PROVE  StatusInv'
<1>1. PageOK /\ NiosOK /\ BusOK
  BY TypeInvParts
<1> USE <1>1 DEF StatusInv, Provisioning, Locked, Provisioned, CheckStatus, SetMb, ClearMb, Writable
<1>2. CASE Erase
  <2>1. CASE at = "process"
    BY <1>2, <2>1 DEF Erase, ErasedPage
  <2>2. CASE at = "eraseMb"
    <3>1. mb'.status = mb.status \ ErasedStatus /\ page' = page /\ at' = "report"
      BY <1>2, <2>2 DEF Erase, BusOK
    <3> QED BY <2>2, <3>1 DEF ErasedStatus
  <2> QED BY <1>2, <2>1, <2>2 DEF Erase
<1>3. CASE Provision
  <2>1. mb'.status \ {"error"} = mb.status \ {"error"}
    BY <1>3 DEF Provision, BusOK
  <2>2. page'.status = page.status \/ page'.status = page.status \union {local.cmd}
    BY <1>3 DEF Provision, SetUfm, SetStatus, PageOK, PageType
  <2>3. local.cmd \in Fields /\ at \in {"process", "readFifo", "write1", "write2"}
        /\ at' \in {"readFifo", "write1", "write2", "report"}
    BY <1>3 DEF Provision
  <2> QED BY <2>1, <2>2, <2>3 DEF Fields
<1>4. CASE ProcessOther
  BY <1>4 DEF ProcessOther
<1>5. CASE Report
  <2>1. /\ at = "report" /\ at' = "then" /\ page' = page
        /\ mb'.status = IF Provisioned(page) THEN mb.status \union {"provisioned"} ELSE mb.status
    BY <1>5 DEF Report, BusOK
  <2> QED BY <2>1
<1>6. CASE Lock
  <2>1. CASE at = "then"
    BY <1>6, <2>1 DEF Lock, Refuse, SetUfm, SetStatus, BusOK, PageOK, PageType
  <2>2. CASE at = "lockMb"
    BY <1>6, <2>2 DEF Lock, Refuse, BusOK
  <2> QED BY <1>6, <2>1, <2>2 DEF Lock, Refuse
<1>7. CASE EnableL1
  BY <1>7 DEF EnableL1, Refuse, SetUfm, SetStatus, BusOK, PageOK, PageType
<1> QED BY <1>2, <1>3, <1>4, <1>5, <1>6, <1>7

\* Protect-in-Transit and the mailbox it starts with.
LEMMA StatusPit ==
  ASSUME TypeInv, StatusInv,
         \/ Initialize \/ Passed
         \/ (EnterTmin1 \/ PitL1 \/ PitL2 \/ Seal) /\ UNCHANGED mb
  PROVE  StatusInv'
<1>1. PageOK /\ NiosOK /\ BusOK
  BY TypeInvParts
<1>2. local.ret \in {"t0", "clearBusy"}
  BY <1>1 DEF NiosOK
<1> USE <1>1, <1>2 DEF StatusInv, Provisioning, Locked, Provisioned, CheckStatus, SetMb
<1>3. CASE Initialize
  <2>1. /\ at = "init" /\ at' = "tmin1" /\ page' = page
        /\ mb'.status = {s \in ErasedStatus \union {"locked"} :
                           CASE s = "provisioned" -> Provisioned(page)
                             [] s = "locked"      -> Locked(page)
                             [] OTHER             -> s \in page.status}
    BY <1>3 DEF Initialize, BusOK
  <2> QED BY <2>1 DEF ErasedStatus
<1>4. CASE Passed
  <2>1. at = "passed" /\ at' = "work" /\ page' = page /\ mb'.status = mb.status \union {"passed"}
    BY <1>4 DEF Passed, BusOK
  <2>2. "passed" \in page.status
    BY <2>1
  <2> QED BY <2>1, <2>2
<1>5. CASE EnterTmin1 /\ UNCHANGED mb
  BY <1>5 DEF EnterTmin1
<1>6. CASE PitL1 /\ UNCHANGED mb
  BY <1>6 DEF PitL1
<1>7. CASE PitL2 /\ UNCHANGED mb
  BY <1>7 DEF PitL2, SetUfm, SetStatus, PageOK, PageType
<1>8. CASE Seal /\ UNCHANGED mb
  BY <1>8 DEF Seal, SetUfm, SetStatus, PageOK, PageType
<1> QED BY <1>3, <1>4, <1>5, <1>6, <1>7, <1>8

\* Every step of the Nios.
LEMMA StatusNios ==
  ASSUME TypeInv, StatusInv, Nios
  PROVE  StatusInv'
<1>1. PageOK /\ NiosOK /\ BusOK
  BY TypeInvParts
<1>2. CASE CommandSteps /\ UNCHANGED <<pitVars, hostVars>>
  BY <1>2, QuietCommands, LoudCommands, StatusPit DEF CommandSteps
<1>3. CASE ResetForL2
  BY <1>3, SameStatusKeeps DEF ResetForL2, Reset, SameStatus, Quietly, Provisioning
<1>4. CASE NiosStep
  BY <1>2, <1>3, <1>4, LoudCommands, StatusPit DEF NiosStep
<1>5. CASE Tmin1Step
  <2>1. page'.status = page.status
    BY <1>1, <1>5, WorkKeeps
  <2>2. mb'.status = mb.status
    BY <1>1, <1>5 DEF Tmin1Step, AuthDone, BusOK
  <2>3. at \notin Quietly /\ at' \notin Quietly
    <3>1. local.ret \notin Quietly
      BY <1>1 DEF NiosOK, Quietly, Provisioning
    <3> QED BY <1>5, <3>1 DEF Tmin1Step, Pend, Promote, Intent, Cpld, AuthRecovery, AuthActive, AuthDone,
          PchIntent, Quietly, Provisioning
  <2> QED BY <2>1, <2>2, <2>3, SameStatusKeeps DEF SameStatus
<1>6. CASE mb' = FreshMailbox /\ at' = "init"
  BY <1>6 DEF FreshMailbox, StatusInv, Provisioning
<1> QED BY <1>4, <1>5, <1>6 DEF Nios, CpldRestart, Reconfig, Lose

\* Every step keeps what the mailbox shows of the UFM.
LEMMA StatusInvNext == TypeInv /\ StatusInv /\ [Next]_vars => StatusInv'
<1> SUFFICES ASSUME TypeInv, StatusInv, [Next]_vars, ~Nios PROVE StatusInv'
  BY StatusNios
<1>1. BusOK
  BY TypeInvParts
<1>2. CASE PowerLoss \/ PowerOn
  BY <1>2 DEF PowerLoss, PowerOn, Lose, FreshMailbox, StatusInv, Provisioning
<1>3. CASE StartUpdate
  BY <1>3, SameStatusKeeps DEF StartUpdate, Quiet, Reset, SameStatus, Quietly, Provisioning
<1>4. CASE HostStep \/ Transit \/ (\E s \in scenario.stages : Stage(s)) \/ UNCHANGED vars
  <2>1. at' = at /\ page' = page /\ mb'.status = mb.status
    BY <1>1, <1>4 DEF HostStep, HostSees, HostSend, Transit, Stage, BusOK
  <2> QED BY <2>1, NothingKeeps
<1> QED BY <1>2, <1>3, <1>4 DEF Next

\* The mailbox shows nothing before it is set up.
LEMMA StatusInvInit == Init => StatusInv
  BY DEF Init, FreshMailbox, StatusInv, Provisioning

\* While no command is processed the mailbox tells the truth about the UFM
\* (initialize_mailbox, mb_process_ufm_cmd, perform_pit_l2_check).
THEOREM StatusIsHonest == Spec => []StatusHonest
<1>1. Init => TypeInv /\ StatusInv
  BY TypeInvInit, StatusInvInit
<1>2. TypeInv /\ StatusInv /\ [Next]_vars => (TypeInv /\ StatusInv)'
  BY TypeInvNext, StatusInvNext
<1>3. StatusInv => StatusHonest
  BY DEF StatusInv, StatusHonest, Provisioning
<1> QED BY <1>1, <1>2, <1>3, PTL DEF Spec

(***************************************************************************)
(* The answer to a command.  A host that sees DONE without ERROR sees the  *)
(* answer to its own command, and the command has had its effect.  AnswerInv *)
(* follows a command from the trigger to DONE: what it is, what it has done so *)
(* far, and that DONE is not in the mailbox on the way.                    *)
(***************************************************************************)
\* its trigger was taken, and it has not seen the answer
Waits == host # Idle /\ ~mb.trigger

\* the SVNs are those of the lock, or of a promotion in T-1
LockSvns == at \in {"svn1", "svn2"} /\ local.next = "clearBusy"
WorkSvns == at \in {"svn1", "svn2"} /\ local.next # "clearBusy"

Executing ==
  \/ at \in Provisioning \union {"process", "eraseMb", "report", "then", "l1Half", "l1Status",
                                  "lockMb", "l2Done"}
  \/ LockSvns

\* the platform is in reset or switched off
InReset == at \in {"off"} \union PitPlaces \union Tmin1Places \/ WorkSvns

HostInv ==
  /\ mb.trigger =>
       /\ host # Idle /\ mb.cmd = host[1]
       /\ at \in {"t0", "clearStatus", "clearTrigger", "clearBusy", "setDone"}
       /\ host[1] \in Fields => mb.fifo = host[2]
  /\ at \in {"clearStatus", "clearTrigger"} => mb.trigger
  /\ Executing \/ at = "setBusy" => Waits
  /\ InReset => host = Idle

CommandInv ==
  /\ at \in {"clearTrigger", "setBusy"} => mb.status \intersect {"done", "error"} = {}
  /\ at = "setBusy" => mb.cmd = host[1]
  /\ Executing => local.cmd = host[1] /\ "done" \notin mb.status
  /\ at \in {"setBusy", "process", "readFifo"} /\ host[1] \in Fields => mb.fifo = host[2]

ProgressInv ==
  /\ at \in {"write1", "write2"} => local.buf = host[2]
  /\ at \in {"report", "then"} /\ "error" \notin mb.status =>
       /\ host[1] \in Fields =>
            page.data[host[1]] = host[2] /\ host[1] \in page.status
       /\ host[1] = "erase" => page = ErasedPage
  /\ at = "eraseMb" => host[1] = "erase" /\ page = ErasedPage
  /\ at \in {"l1Half", "l1Status"} => host[1] = "l1"
  /\ at = "l1Status" => rfnvram = page.data["pitId"]
  /\ at = "l2Done" \/ (at = "l2Sleep" /\ Waits) => host[1] = "l2" /\ "l2" \in page.status
  /\ at = "lockMb" \/ LockSvns => host[1] = "end" /\ Locked(page)

EffectInv ==
  /\ at \in {"clearBusy", "setDone"} /\ Waits => "done" \notin mb.status
  /\ at \in {"clearBusy", "setDone", "t0"} /\ Waits /\ "error" \notin mb.status =>
       Effect(host[1], host[2])

AnswerInv == HostInv /\ CommandInv /\ ProgressInv /\ EffectInv

\* No host waits at the start.
LEMMA AnswerInvInit == Init => AnswerInv
  BY DEF Init, AnswerInv, HostInv, CommandInv, ProgressInv, EffectInv, FreshMailbox, FreshLocal, Idle,
     Waits, LockSvns, WorkSvns, Executing, InReset, Provisioning

(***************************************************************************)
(* What the places have in common.                                         *)
(***************************************************************************)
LEMMA ExecutingIsAlone ==
  HostInv /\ Executing => host # Idle /\ ~mb.trigger
  BY DEF HostInv, Waits

\* In reset no host waits.
LEMMA ResetIsAlone ==
  HostInv /\ InReset => host = Idle /\ ~mb.trigger
  BY DEF HostInv

\* In reset nothing has to hold but that nobody waits.
LEMMA InResetIsEnough ==
  ASSUME host' = Idle, ~mb'.trigger, InReset'
  PROVE  AnswerInv'
  BY DEF AnswerInv, HostInv, CommandInv, ProgressInv, EffectInv, Waits, LockSvns, WorkSvns, Executing,
     InReset, Provisioning, PitPlaces, Tmin1Places

\* Nobody waits when T-1 returns.
LEMMA ReturnIsEnough ==
  ASSUME host' = Idle, ~mb'.trigger, at' \in {"t0", "clearBusy"}
  PROVE  AnswerInv'
  BY DEF AnswerInv, HostInv, CommandInv, ProgressInv, EffectInv, Waits, LockSvns, WorkSvns, Executing,
     InReset, Provisioning, PitPlaces, Tmin1Places

(***************************************************************************)
(* Taking a command, and the end of it.                                    *)
(***************************************************************************)
LEMMA AnswerTake ==
  ASSUME TypeInv, AnswerInv, TakeCommand, UNCHANGED <<page, rfnvram, host>>
  PROVE  AnswerInv'
<1>1. BusOK /\ NiosOK
  BY TypeInvParts
<1> USE <1>1 DEF AnswerInv, HostInv, CommandInv, ProgressInv, EffectInv, Waits, LockSvns, WorkSvns,
        Executing, InReset, Provisioning, PitPlaces, Tmin1Places
<1>2. CASE at = "t0"
  BY <1>2 DEF TakeCommand
<1>3. CASE at = "clearStatus"
  <2>1. /\ mb'.trigger = mb.trigger /\ mb'.cmd = mb.cmd /\ mb'.fifo = mb.fifo
        /\ mb'.status = mb.status \ CommandStatus /\ local' = local /\ at' = "clearTrigger"
    BY <1>3 DEF TakeCommand, ClearMb, BusOK
  <2> QED BY <1>3, <2>1 DEF CommandStatus
<1>4. CASE at = "clearTrigger"
  <2>1. /\ mb'.trigger = FALSE /\ mb'.cmd = mb.cmd /\ mb'.fifo = mb.fifo
        /\ mb'.status = mb.status /\ local' = local /\ at' = "setBusy"
    BY <1>4 DEF TakeCommand, TakeTrigger, BusOK
  <2> QED BY <1>4, <2>1
<1>5. CASE at = "setBusy"
  <2>1. /\ mb'.trigger = mb.trigger /\ mb'.fifo = mb.fifo
        /\ mb'.status = mb.status \union {"busy"} /\ at' = "process" /\ local'.cmd = mb.cmd
    BY <1>5 DEF TakeCommand, StartCommand, SetMb, BusOK, NiosOK
  <2> QED BY <1>5, <2>1
<1> QED BY <1>2, <1>3, <1>4, <1>5 DEF TakeCommand

\* The end of a command: BUSY is taken back, DONE set.
LEMMA AnswerEnd ==
  ASSUME TypeInv, AnswerInv, EndCommand, UNCHANGED <<rfnvram, host>>
  PROVE  AnswerInv'
<1>1. BusOK /\ NiosOK
  BY TypeInvParts
<1>2. /\ mb'.trigger = mb.trigger /\ mb'.cmd = mb.cmd /\ mb'.fifo = mb.fifo
      /\ mb'.status \ {"busy", "done"} = mb.status \ {"busy", "done"}
      /\ page' = page /\ local' = local
  BY <1>1 DEF EndCommand, SetMb, ClearMb, BusOK
<1>3. \/ at = "clearBusy" /\ at' = "setDone" /\ ("done" \in mb'.status => "done" \in mb.status)
      \/ at = "setDone" /\ at' = "t0"
  BY <1>1 DEF EndCommand, ClearMb, BusOK
<1>4. Effect(host[1], host[2])' = Effect(host[1], host[2])
  BY <1>2 DEF Effect
<1> QED BY <1>1, <1>2, <1>3, <1>4 DEF AnswerInv, HostInv, CommandInv, ProgressInv, EffectInv, Waits,
     LockSvns, WorkSvns, Executing, InReset, Provisioning, PitPlaces, Tmin1Places

(***************************************************************************)
(* Executing a command.                                                    *)
(***************************************************************************)
\* the parts of the invariant that only speak of the host and the mailbox
LEMMA StillExecuting ==
  ASSUME HostInv, CommandInv, Executing, Executing', UNCHANGED host,
         mb'.trigger = mb.trigger, "done" \notin mb'.status, local'.cmd = local.cmd,
         at' \notin {"setBusy", "process", "readFifo"}
  PROVE  HostInv' /\ CommandInv'
  BY DEF HostInv, CommandInv, Waits, LockSvns, WorkSvns, Executing, InReset, Provisioning, PitPlaces,
     Tmin1Places

\* ... and all of it at the end of a command
LEMMA Executed ==
  ASSUME HostInv, CommandInv, Executing, at' = "clearBusy", UNCHANGED host,
         mb'.trigger = mb.trigger, "done" \notin mb'.status,
         "error" \in mb'.status \/ Effect(host[1], host[2])'
  PROVE  AnswerInv'
  BY DEF AnswerInv, HostInv, CommandInv, ProgressInv, EffectInv, Waits, LockSvns, WorkSvns, Executing,
     InReset, Provisioning, PitPlaces, Tmin1Places

\* Read commands and the refusal of commands on a locked page.
LEMMA AnswerShort ==
  ASSUME TypeInv, AnswerInv, ProcessRead \/ ProcessLocked, UNCHANGED <<rfnvram, host>>
  PROVE  AnswerInv'
<1>1. BusOK /\ NiosOK /\ Executing /\ at = "process" /\ at' = "clearBusy" /\ page' = page
  BY TypeInvParts DEF ProcessRead, ProcessLocked, Executing
<1>2. "done" \notin mb.status /\ local.cmd = host[1] /\ HostInv /\ CommandInv
  BY <1>1 DEF AnswerInv, CommandInv
<1>3. CASE ProcessRead
  <2>1. mb'.trigger = mb.trigger /\ mb'.status = mb.status /\ mb'.fifo = page.data[FieldRead(host[1])]
    BY <1>1, <1>2, <1>3 DEF ProcessRead, BusOK
  <2>2. host[1] \in Reads
    BY <1>2, <1>3 DEF ProcessRead
  <2>3. Effect(host[1], host[2])'
    BY <1>1, <1>3, <2>1, <2>2 DEF Effect, Reads, Fields, FieldRead
  <2> QED BY <1>1, <1>2, <2>1, <2>3, Executed
<1>4. CASE ProcessLocked
  <2>1. mb'.trigger = mb.trigger /\ mb'.status = mb.status \union {"error"}
    BY <1>1, <1>4 DEF ProcessLocked, SetMb, BusOK
  <2> QED BY <1>1, <1>2, <2>1, Executed
<1> QED BY <1>3, <1>4

\* The erase of the page, and commands that are not known.
LEMMA AnswerErase ==
  ASSUME TypeInv, AnswerInv, Erase \/ ProcessOther \/ Report, UNCHANGED <<rfnvram, host>>
  PROVE  AnswerInv'
<1>1. BusOK /\ NiosOK /\ Executing /\ local' = local
  BY TypeInvParts DEF Erase, ProcessOther, Report, Executing
<1>2. "done" \notin mb.status /\ local.cmd = host[1] /\ HostInv /\ CommandInv /\ ProgressInv
  BY <1>1 DEF AnswerInv, CommandInv
<1>3. mb'.trigger = mb.trigger /\ "done" \notin mb'.status /\ ("error" \in mb.status => "error" \in mb'.status)
  BY <1>1, <1>2 DEF Erase, ProcessOther, Report, SetMb, ClearMb, ErasedStatus, BusOK
<1>4. Executing' /\ at' \in {"eraseMb", "report", "then"}
  BY DEF Erase, ProcessOther, Report, Executing
<1>5. HostInv' /\ CommandInv'
  BY <1>1, <1>2, <1>3, <1>4, StillExecuting
<1>6. ProgressInv'
  <2>1. CASE Erase
    BY <1>2, <1>3, <2>1 DEF Erase, ProgressInv, LockSvns, Fields
  <2>2. CASE ProcessOther
    BY <1>2, <2>2 DEF ProcessOther, ProgressInv, LockSvns
  <2>3. CASE Report
    BY <1>2, <1>3, <2>3 DEF Report, ProgressInv, LockSvns
  <2> QED BY <2>1, <2>2, <2>3
<1> QED BY <1>4, <1>5, <1>6 DEF AnswerInv, EffectInv

\* A field that is provisioned, word by word.
LEMMA AnswerProvision ==
  ASSUME TypeInv, WriteInv, AnswerInv, Provision, UNCHANGED <<rfnvram, host>>
  PROVE  AnswerInv'
<1>1. BusOK /\ NiosOK /\ PageOK /\ Executing
  BY TypeInvParts DEF Provision, Executing, Provisioning
<1>2. /\ "done" \notin mb.status /\ local.cmd = host[1] /\ HostInv /\ CommandInv /\ ProgressInv
      /\ host[1] \in Fields
  BY <1>1 DEF AnswerInv, CommandInv, Provision
<1>3. mb'.trigger = mb.trigger /\ "done" \notin mb'.status /\ local'.cmd = local.cmd
  BY <1>1, <1>2 DEF Provision, SetMb, BusOK, NiosOK
<1>4. Executing'
  BY DEF Provision, Executing, Provisioning
<1>5. CASE at = "process" /\ at' = "report"
  <2>1. "error" \in mb'.status
    BY <1>1, <1>5 DEF Provision, SetMb, BusOK
  <2>2. HostInv' /\ CommandInv'
    BY <1>1, <1>2, <1>3, <1>4, <1>5, StillExecuting
  <2> QED BY <1>5, <2>1, <2>2 DEF AnswerInv, EffectInv, ProgressInv, LockSvns
<1>6. CASE at = "process" /\ at' = "readFifo"
  <2>1. mb' = mb /\ local' = local
    BY <1>6 DEF Provision
  <2>2. mb.fifo = host[2]
    BY <1>2, <1>6 DEF CommandInv
  <2> QED BY <1>2, <1>6, <2>1, <2>2 DEF AnswerInv, EffectInv, ProgressInv, LockSvns, WorkSvns, HostInv,
        CommandInv, Executing, Waits, InReset, Provisioning, PitPlaces, Tmin1Places
<1>7. CASE at = "readFifo"
  <2>1. local'.buf = mb.fifo /\ mb.fifo = host[2] /\ at' = "write1"
    BY <1>1, <1>2, <1>7 DEF Provision, CommandInv, NiosOK
  <2>2. HostInv' /\ CommandInv'
    BY <1>1, <1>2, <1>3, <1>4, <2>1, StillExecuting
  <2> QED BY <2>1, <2>2 DEF AnswerInv, EffectInv, ProgressInv, LockSvns
<1>8. CASE at = "write1"
  <2>1. local' = local /\ at' = "write2" /\ local.buf = host[2]
    BY <1>2, <1>8 DEF Provision, ProgressInv
  <2>2. HostInv' /\ CommandInv'
    BY <1>1, <1>2, <1>3, <1>4, <2>1, StillExecuting
  <2> QED BY <2>1, <2>2 DEF AnswerInv, EffectInv, ProgressInv, LockSvns
<1>9. CASE at = "write2"
  <2>1. local' = local /\ at' = "report" /\ local.buf = host[2]
    BY <1>2, <1>9 DEF Provision, ProgressInv
  <2>2. page.data[host[1]] = Part /\ host[1] \in page.status
    BY <1>2, <1>9 DEF WriteInv, Provisioning
  <2>3. page'.data[host[1]] = host[2] /\ page'.status = page.status
    BY <1>1, <1>2, <1>9, <2>1, <2>2 DEF Provision, OverLast, PageOK, PageType
  <2>4. HostInv' /\ CommandInv'
    BY <1>1, <1>2, <1>3, <1>4, <2>1, StillExecuting
  <2> QED BY <1>2, <2>1, <2>2, <2>3, <2>4 DEF AnswerInv, EffectInv, ProgressInv, LockSvns, Fields
<1> QED BY <1>5, <1>6, <1>7, <1>8, <1>9 DEF Provision

\* The end of a provisioning command, and one that is refused.
LEMMA AnswerThen ==
  ASSUME TypeInv, AnswerInv, ThenNothing \/ (Refuse /\ ~WorkSvns), UNCHANGED <<rfnvram, host>>
  PROVE  AnswerInv'
<1>1. BusOK /\ NiosOK /\ Executing /\ at = "then" /\ at' = "clearBusy" /\ page' = page
  BY TypeInvParts DEF ThenNothing, Refuse, Executing
<1>2. "done" \notin mb.status /\ local.cmd = host[1] /\ HostInv /\ CommandInv /\ ProgressInv
  BY <1>1 DEF AnswerInv, CommandInv
<1>3. CASE ThenNothing
  <2>1. mb' = mb /\ host[1] \in Fields \union {"erase"}
    BY <1>2, <1>3 DEF ThenNothing
  <2>2. "error" \in mb'.status \/ Effect(host[1], host[2])'
    BY <1>1, <1>2, <2>1 DEF ProgressInv, Effect, Fields, Reads
  <2> QED BY <1>1, <1>2, <2>1, <2>2, Executed
<1>4. CASE Refuse
  <2>1. mb'.trigger = mb.trigger /\ mb'.status = mb.status \union {"error"}
    BY <1>1, <1>4 DEF Refuse, SetMb, BusOK
  <2> QED BY <1>1, <1>2, <2>1, Executed
<1> QED BY <1>3, <1>4

\* ENABLE_PIT_L1
LEMMA AnswerEnableL1 ==
  ASSUME TypeInv, AnswerInv, EnableL1, UNCHANGED host
  PROVE  AnswerInv'
<1>1. BusOK /\ NiosOK /\ PageOK /\ Executing
  BY TypeInvParts DEF EnableL1, Refuse, Executing
<1>2. "done" \notin mb.status /\ local.cmd = host[1] /\ HostInv /\ CommandInv /\ ProgressInv
  BY <1>1 DEF AnswerInv, CommandInv
<1>3. CASE Refuse /\ UNCHANGED rfnvram
  BY <1>3, AnswerThen DEF Refuse, WorkSvns
<1>4. CASE at' \in {"l1Half", "l1Status"} /\ ~Refuse
  <2>1. /\ mb' = mb /\ local' = local /\ page' = page
        /\ at' = "l1Status" => rfnvram' = page.data["pitId"]
    BY <1>4 DEF EnableL1
  <2>2. host[1] = "l1"
    BY <1>2 DEF EnableL1
  <2>3. HostInv' /\ CommandInv'
    BY <1>1, <1>2, <1>4, <2>1, StillExecuting DEF Executing
  <2> QED BY <1>4, <2>1, <2>2, <2>3 DEF AnswerInv, EffectInv, ProgressInv, LockSvns
<1>5. CASE at = "l1Status" /\ ~Refuse
  <2>1. /\ rfnvram' = rfnvram /\ page' = SetStatus(page, {"l1"}) /\ at' = "clearBusy"
        /\ mb' = [mb EXCEPT !.status = @ \union {"l1"}]
    BY <1>5 DEF EnableL1, SetUfm, SetMb
  <2>2. mb'.trigger = mb.trigger /\ "done" \notin mb'.status
    BY <1>1, <1>2, <2>1 DEF BusOK
  <2>3. page'.data = page.data /\ "l1" \in page'.status
    BY <1>1, <2>1 DEF SetStatus, PageOK, PageType
  <2>4. host[1] = "l1" /\ rfnvram = page.data["pitId"]
    BY <1>2, <1>5 DEF ProgressInv
  <2>5. Effect(host[1], host[2])'
    BY <2>1, <2>3, <2>4 DEF Effect, Fields, Reads
  <2> QED BY <1>1, <1>2, <2>1, <2>2, <2>5, Executed
<1> QED BY <1>3, <1>4, <1>5 DEF EnableL1, Refuse

\* ENABLE_PIT_L2
LEMMA AnswerEnableL2 ==
  ASSUME TypeInv, AnswerInv, EnableL2, UNCHANGED <<rfnvram, host>>
  PROVE  AnswerInv'
<1>1. BusOK /\ NiosOK /\ PageOK /\ Executing
  BY TypeInvParts DEF EnableL2, Refuse, Executing
<1>2. /\ "done" \notin mb.status /\ local.cmd = host[1] /\ host[1] = "l2"
      /\ HostInv /\ CommandInv /\ ProgressInv
  BY <1>1 DEF AnswerInv, CommandInv, EnableL2
<1>3. CASE Refuse
  BY <1>3, AnswerThen DEF Refuse, WorkSvns
<1>4. CASE at = "then" /\ at' = "l2Done" /\ ~Refuse
  <2>1. mb' = mb /\ local' = local /\ page' = SetStatus(page, {"l2"})
    BY <1>4 DEF EnableL2, SetUfm
  <2>2. "l2" \in page'.status
    BY <1>1, <2>1 DEF SetStatus, PageOK, PageType
  <2>3. HostInv' /\ CommandInv'
    BY <1>1, <1>2, <1>4, <2>1, StillExecuting DEF Executing
  <2> QED BY <1>2, <1>4, <2>1, <2>2, <2>3 DEF AnswerInv, EffectInv, ProgressInv, LockSvns
<1>5. CASE at = "l2Done"
  <2>1. page' = page /\ local' = local /\ at' = "l2Sleep" /\ mb'.trigger = mb.trigger
    BY <1>1, <1>5 DEF EnableL2, Refuse, BusOK
  <2>2. "l2" \in page.status /\ ~mb.trigger
    BY <1>1, <1>2, <1>5, ExecutingIsAlone DEF ProgressInv
  <2> QED BY <1>2, <2>1, <2>2 DEF AnswerInv, HostInv, CommandInv, ProgressInv, EffectInv, Waits, LockSvns,
        WorkSvns, Executing, InReset, Provisioning, PitPlaces, Tmin1Places
<1> QED BY <1>3, <1>4, <1>5 DEF EnableL2

\* END, up to the SVN policies.
LEMMA AnswerLock ==
  ASSUME TypeInv, AnswerInv, Lock, UNCHANGED <<rfnvram, host>>
  PROVE  AnswerInv'
<1>1. BusOK /\ NiosOK /\ PageOK /\ Executing
  BY TypeInvParts DEF Lock, Refuse, Executing
<1>2. /\ "done" \notin mb.status /\ local.cmd = host[1] /\ host[1] = "end"
      /\ HostInv /\ CommandInv /\ ProgressInv
  BY <1>1 DEF AnswerInv, CommandInv, Lock
<1>3. CASE Refuse
  BY <1>3, AnswerThen DEF Refuse, WorkSvns
<1>4. CASE at = "then" /\ at' = "lockMb" /\ ~Refuse
  <2>1. mb' = mb /\ local' = local /\ page' = SetStatus(page, {"lock"})
    BY <1>4 DEF Lock, SetUfm
  <2>2. Locked(page')
    BY <1>1, <2>1 DEF SetStatus, Locked, CheckStatus, PageOK, PageType
  <2>3. HostInv' /\ CommandInv'
    BY <1>1, <1>2, <1>4, <2>1, StillExecuting DEF Executing
  <2> QED BY <1>2, <1>4, <2>1, <2>2, <2>3 DEF AnswerInv, EffectInv, ProgressInv, LockSvns
<1>5. CASE at = "lockMb"
  <2>1. /\ page' = page /\ at' = "svn1" /\ mb'.trigger = mb.trigger
        /\ mb'.status = mb.status \union {"locked"}
        /\ local'.cmd = local.cmd /\ local'.next = "clearBusy"
    BY <1>1, <1>5 DEF Lock, Refuse, SetMb, BusOK, NiosOK
  <2>2. HostInv' /\ CommandInv'
    BY <1>1, <1>2, <2>1, StillExecuting DEF Executing, LockSvns
  <2>3. Locked(page')
    BY <1>2, <1>5, <2>1 DEF ProgressInv
  <2> QED BY <1>2, <2>1, <2>2, <2>3 DEF AnswerInv, EffectInv, ProgressInv, LockSvns
<1> QED BY <1>3, <1>4, <1>5 DEF Lock

\* An SVN policy, of END or of T-1.
LEMMA AnswerSvn ==
  ASSUME TypeInv, AnswerInv, WriteSvn, UNCHANGED <<rfnvram, host>>
  PROVE  AnswerInv'
<1>1. BusOK /\ NiosOK /\ PageOK
  BY TypeInvParts
<1>2. /\ mb' = mb /\ local'.next = local.next /\ local'.cmd = local.cmd /\ page'.status = page.status
      /\ at' \in {"svn1", "svn2"} \/ at' = local.next
  BY <1>1 DEF WriteSvn, PageOK, PageType, NiosOK
<1>3. CASE WorkSvns
  <2>1. host' = Idle /\ ~mb'.trigger
    BY <1>2, <1>3, ResetIsAlone DEF InReset, AnswerInv
  <2>2. local.next \in Nexts \ {"clearBusy"}
    BY <1>1, <1>3 DEF NiosOK, WorkSvns
  <2>3. CASE InReset'
    BY <2>1, <2>3, InResetIsEnough
  <2>4. CASE at' = "t0"
    BY <2>1, <2>4, ReturnIsEnough
  <2> QED BY <1>2, <2>2, <2>3, <2>4 DEF InReset, WorkSvns, Nexts, Tmin1Places
<1>4. CASE LockSvns
  <2>1. Executing /\ HostInv /\ CommandInv /\ ProgressInv /\ "done" \notin mb'.status
    BY <1>2, <1>4 DEF AnswerInv, Executing, CommandInv
  <2>2. host[1] = "end" /\ Locked(page')
    BY <1>2, <1>4, <2>1 DEF ProgressInv, Locked, CheckStatus
  <2>3. CASE at' = "clearBusy"
    BY <1>2, <2>1, <2>2, <2>3, Executed DEF Effect, Fields, Reads
  <2>4. CASE at' \in {"svn1", "svn2"}
    <3>1. HostInv' /\ CommandInv'
      BY <1>2, <1>4, <2>1, <2>4, StillExecuting DEF Executing, LockSvns
    <3> QED BY <2>2, <2>4, <3>1 DEF AnswerInv, EffectInv, ProgressInv
  <2> QED BY <1>2, <1>4, <2>3, <2>4 DEF LockSvns
<1> QED BY <1>3, <1>4 DEF WriteSvn, WorkSvns, LockSvns

(***************************************************************************)
(* Reset, T-1, power and the host.                                         *)
(***************************************************************************)
LEMMA AnswerReset ==
  ASSUME TypeInv, AnswerInv, UNCHANGED host,
         \/ Initialize \/ Passed
         \/ (EnterTmin1 \/ PitL1 \/ PitL2 \/ Seal) /\ UNCHANGED <<mb, local>>
  PROVE  AnswerInv'
<1>1. BusOK /\ NiosOK /\ local.ret \in {"t0", "clearBusy"}
  BY TypeInvParts DEF NiosOK
<1>2. InReset /\ mb'.trigger = mb.trigger
  BY <1>1 DEF Initialize, Passed, EnterTmin1, PitL1, PitL2, Seal, InReset, PitPlaces, Tmin1Places, SetMb,
     BusOK
<1>3. host' = Idle /\ ~mb'.trigger
  BY <1>2, ResetIsAlone DEF AnswerInv
<1>4. InReset' \/ at' \in {"t0", "clearBusy"}
  BY <1>1 DEF Initialize, Passed, EnterTmin1, PitL1, PitL2, Seal, InReset, PitPlaces, Tmin1Places
<1> QED BY <1>3, <1>4, InResetIsEnough, ReturnIsEnough

\* T-1, while no host waits.
LEMMA AnswerTmin1 ==
  ASSUME TypeInv, AnswerInv, Tmin1Step, UNCHANGED host
  PROVE  AnswerInv'
<1>1. BusOK /\ NiosOK /\ local.ret \in {"t0", "clearBusy"}
  BY TypeInvParts DEF NiosOK
<1>2. InReset
  BY DEF Tmin1Step, Pend, Intent, Cpld, AuthRecovery, AuthActive, AuthDone, PchIntent, InReset,
     Tmin1Places
<1>3. mb'.trigger = mb.trigger
  BY <1>1 DEF Tmin1Step, AuthDone, BusOK
<1>4. host' = Idle /\ ~mb'.trigger
  BY <1>2, <1>3, ResetIsAlone DEF AnswerInv
<1>5. \/ at' \in Tmin1Places
      \/ at' \in {"t0", "clearBusy"}
      \/ at' = "svn1" /\ local'.next \in {"pendDone", "authActive"}
  BY <1>1 DEF Tmin1Step, Pend, Promote, Intent, Cpld, AuthRecovery, AuthActive, AuthDone, PchIntent,
     Tmin1Places, NiosOK
<1>6. InReset' \/ at' \in {"t0", "clearBusy"}
  BY <1>5 DEF InReset, WorkSvns
<1> QED BY <1>4, <1>6, InResetIsEnough, ReturnIsEnough

\* Whatever takes the platform into reset.
LEMMA AnswerRestart ==
  ASSUME AnswerInv,
         PowerLoss \/ PowerOn \/ Reconfig \/ ResetForL2 \/ StartUpdate
           \/ CpldRestart
  PROVE  AnswerInv'
<1>1. at' \in {"off", "init", "tmin1"} /\ host' = Idle
  BY DEF PowerLoss, PowerOn, Reconfig, Lose, ResetForL2, StartUpdate, Reset, CpldRestart
<1>2. InReset'
  BY <1>1 DEF InReset, PitPlaces
<1>3. ~mb'.trigger
  <2>1. CASE mb' = FreshMailbox
    BY <2>1 DEF FreshMailbox
  <2>2. CASE StartUpdate
    BY <2>2 DEF StartUpdate, Quiet, Reset
  <2>3. CASE ResetForL2
    BY <2>3 DEF ResetForL2, Reset, AnswerInv, HostInv
  <2> QED BY <2>1, <2>2, <2>3 DEF PowerLoss, PowerOn, Reconfig, Lose, CpldRestart
<1> QED BY <1>1, <1>2, <1>3, InResetIsEnough

\* A host sends a command.
LEMMA AnswerSend ==
  ASSUME TypeInv, AnswerInv, NEW s \in scenario.sends, HostSend(s[1], s[2])
  PROVE  AnswerInv'
<1>1. BusOK /\ scenario \in Scenarios
  BY TypeInvParts DEF FlashOK
<1>2. s[1] \in Commands
  BY <1>1, ScenarioAssumption
<1>3. host'[1] = s[1] /\ host'[2] = s[2] /\ host' # Idle
  BY <1>2 DEF HostSend, Idle, Commands, Fields, Reads
<1>4. /\ mb'.trigger /\ mb'.cmd = s[1] /\ mb'.status = mb.status
      /\ s[1] \in Fields => mb'.fifo = s[2]
  BY <1>1 DEF HostSend, BusOK
<1>5. at \in {"t0", "clearBusy", "setDone"} /\ at' = at /\ local' = local
  BY DEF HostSend, Handler, AnswerInv, HostInv, Waits, Executing, Provisioning
<1> QED BY <1>3, <1>4, <1>5 DEF AnswerInv, HostInv, CommandInv, ProgressInv, EffectInv, Waits, LockSvns,
        WorkSvns, Executing, InReset, Provisioning, PitPlaces, Tmin1Places

\* A host reads its answer.
LEMMA AnswerSees ==
  ASSUME AnswerInv, HostSees
  PROVE  AnswerInv'
<1>1. host' = Idle /\ mb' = mb /\ at' = at /\ local' = local /\ page' = page /\ rfnvram' = rfnvram
  BY DEF HostSees
<1>2. ~mb.trigger /\ "done" \in mb.status
  BY DEF HostSees, Complete
<1>3. ~Executing /\ at \notin {"clearStatus", "clearTrigger", "setBusy"}
  BY <1>2 DEF AnswerInv, HostInv, CommandInv
<1> QED BY <1>1, <1>2, <1>3 DEF AnswerInv, HostInv, CommandInv, ProgressInv, EffectInv, Waits, LockSvns,
        WorkSvns, Executing, InReset, Provisioning, PitPlaces, Tmin1Places

\* Every step of the Nios.
LEMMA AnswerNios ==
  ASSUME TypeInv, WriteInv, AnswerInv, Nios
  PROVE  AnswerInv'
<1>1. CASE CommandSteps /\ UNCHANGED <<pitVars, hostVars>>
  <2>1. UNCHANGED <<rfnvram, host>>
    BY <1>1
  <2>2. CASE TakeCommand /\ UNCHANGED page
    BY <2>1, <2>2, AnswerTake
  <2>3. CASE EndCommand \/ ProcessRead \/ ProcessLocked \/ Erase \/ ProcessOther \/ Report
    BY <2>1, <2>3, AnswerEnd, AnswerShort, AnswerErase
  <2>4. CASE Provision
    BY <2>1, <2>4, AnswerProvision
  <2>5. CASE ThenNothing \/ EnableL2
    BY <2>1, <2>5, AnswerThen, AnswerEnableL2
  <2>6. CASE Lock \/ WriteSvn
    BY <2>1, <2>6, AnswerLock, AnswerSvn
  <2>7. CASE Initialize \/ Passed
    BY <2>1, <2>7, AnswerReset
  <2> QED BY <1>1, <2>2, <2>3, <2>4, <2>5, <2>6, <2>7 DEF CommandSteps
<1>2. CASE EnableL1 /\ UNCHANGED <<content, seal, hostVars>>
  BY <1>2, AnswerEnableL1
<1>3. CASE /\ EnterTmin1 \/ PitL1 \/ PitL2 \/ Seal
           /\ UNCHANGED <<mb, rfnvram, content, local, hostVars>>
  BY <1>3, AnswerReset
<1>4. CASE ResetForL2 \/ CpldRestart \/ Reconfig
  BY <1>4, AnswerRestart
<1>5. CASE Tmin1Step /\ UNCHANGED <<pitVars, hostVars>>
  BY <1>5, AnswerTmin1
<1> QED BY <1>1, <1>2, <1>3, <1>4, <1>5 DEF Nios, NiosStep

\* Every step.
LEMMA AnswerInvNext == TypeInv /\ WriteInv /\ AnswerInv /\ [Next]_vars => AnswerInv'
<1> SUFFICES ASSUME TypeInv, WriteInv, AnswerInv, [Next]_vars PROVE AnswerInv'
  OBVIOUS
<1>1. CASE UNCHANGED provVars
  BY <1>1 DEF AnswerInv, HostInv, CommandInv, ProgressInv, EffectInv, Waits, LockSvns, WorkSvns,
     Executing, InReset, Effect
<1>2. CASE Transit
  <2>1. host' = Idle /\ ~mb'.trigger /\ InReset'
    BY <1>2, ResetIsAlone DEF Transit, InReset, AnswerInv
  <2> QED BY <2>1, InResetIsEnough
<1>3. CASE \E s \in scenario.sends : HostSend(s[1], s[2])
  BY <1>3, AnswerSend
<1>4. CASE \E s \in scenario.stages : Stage(s)
  BY <1>1, <1>4 DEF Stage
<1> QED BY <1>1, <1>2, <1>3, <1>4, AnswerNios, AnswerRestart, AnswerSees DEF Next, HostStep

\* An answer without ERROR means that the command took effect.
LEMMA AnswerIsEffective ==
  ASSUME AnswerInv, HostSees, "error" \notin mb.status
  PROVE  Effect(host[1], host[2])
<1>1. at \in Running /\ Waits /\ "done" \in mb.status
  BY DEF HostSees, Complete, Waits
<1>2. ~Executing /\ at \notin {"clearStatus", "clearTrigger", "setBusy"}
  BY <1>1 DEF AnswerInv, HostInv, CommandInv, Waits
<1>3. ~InReset
  BY <1>1 DEF AnswerInv, HostInv, Waits
<1>4. at \in {"t0", "l2Sleep"}
  BY <1>1, <1>2, <1>3 DEF Running, Handler, Executing, Provisioning, InReset, LockSvns, WorkSvns,
     AnswerInv, EffectInv
<1>5. CASE at = "l2Sleep"
  BY <1>1, <1>5 DEF AnswerInv, ProgressInv, Effect, Fields, Reads
<1> QED BY <1>1, <1>4, <1>5 DEF AnswerInv, EffectInv

\* A host that sees DONE without ERROR sees the answer to its own command,
\* and the command has had its effect (mb_ufm_provisioning_handler).
THEOREM AnswerIsMine == Spec => DoneIsMine
<1>1. Init => TypeInv /\ WriteInv /\ AnswerInv
  BY TypeInvInit, WriteInvInit, AnswerInvInit
<1>2. TypeInv /\ WriteInv /\ AnswerInv /\ [Next]_vars => (TypeInv /\ WriteInv /\ AnswerInv)'
  BY TypeInvNext, WriteInvNext, AnswerInvNext
<1>3. AnswerInv /\ [Next]_vars =>
        [HostSees /\ "error" \notin mb.status => Effect(host[1], host[2])]_vars
  BY AnswerIsEffective
<1> QED BY <1>1, <1>2, <1>3, PTL DEF Spec, DoneIsMine

=============================================================================
