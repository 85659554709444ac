----------------------------- MODULE FlashPages -----------------------------
(***************************************************************************)
(* The BMC flash page by page.  PfrFlow sees a region of a flash as one    *)
(* value that is erased in one step and written in the next; here each     *)
(* step is one command of the Nios to the flash, and power may fail in the *)
(* middle of any of them.  Between two T-1 passes the BMC drives the flash *)
(* through the SPI filter, whose write enable memory the Nios fills from   *)
(* the PFM.  Which update is admitted is decided in PfrFlow and Ufm: here  *)
(* a staged capsule may be refused for any reason.                         *)
(***************************************************************************)
EXTENDS Naturals, Sequences, FiniteSets, SequencesExt

CONSTANTS
  Pages,          \* number of 4 kB pages of the flash
  PagesPerChunk,  \* 16 kB: what one write enable bit stands for
  PagesPerSector, \* 64 kB: what a sector erase erases
  ChunksPerWord,  \* write enable bits in a word of the memory
  PfmStart,       \* bmc_active_pfm
  PfmPages,       \* SIGNED_PFM_MAX_SIZE
  RecoveryStart,  \* bmc_recovery_region
  StagingStart,   \* bmc_staging_region
  CpldStaging,    \* word of the CPLD capsule in the staging region
  CpldRecovery,   \* BMC_CPLD_RECOVERY_LOCATION_IN_WE_MEM
  Images,         \* BMC firmware
  Updates,        \* those a BMC stages
  Layout(_),      \* of an image: defs, the PFM body; active, comp, the bitmaps
  Scenarios,      \* an image in service and a budget of events each
  HostPages       \* pages a BMC writes to outside of an update

Words == Pages \div (PagesPerChunk * ChunksPerWord)
Bits  == 0..ChunksPerWord - 1
Page  == 0..Pages - 1
Span(d) == d.from..d.to - 1
\* a set of pages in ascending order
Sorted(pages) ==
  [n \in 1..Cardinality(pages) |->
     CHOOSE p \in pages : Cardinality({q \in pages : q < p}) = n - 1]

(***************************************************************************)
(* The requirements on PFM and compression structure that decompression.h  *)
(* (189), pfm_utils.h (107) and spi_filter.sv (118) rely on and leave to   *)
(* whoever builds the firmware.                                            *)
(***************************************************************************)
Writable(d) == "write" \in d.mask
Static(d)   == "read" \in d.mask /\ ~Writable(d)
Dynamic(d)  == "read" \in d.mask /\ Writable(d)
UnionOf(defs, Kind(_)) ==
  UNION {Span(defs[n]) : n \in {m \in DOMAIN defs : Kind(defs[m])}}
Sector(p) == LET first == p - (p % PagesPerSector) IN first..first + PagesPerSector - 1

Masks == SUBSET {"read", "write", "first", "second", "third"}
Events == {"power", "write", "stage", "intent", "timeout", "other", "force", "decay"}
ASSUME SizesAssumption ==
  /\ {PagesPerChunk, PagesPerSector, ChunksPerWord} \subseteq Nat \ {0}
  /\ Pages \in Nat /\ Pages = Words * ChunksPerWord * PagesPerChunk
  /\ (PagesPerChunk * ChunksPerWord) % PagesPerSector = 0
  /\ Updates \subseteq Images /\ HostPages \subseteq Page
  /\ \A s \in Scenarios :
       /\ s.budget \in [Events -> Nat]
       /\ s.image \in IF s.budget["write"] > 0 THEN Updates ELSE Images

ASSUME LayoutAssumption ==
  \A i \in Images : LET defs == Layout(i).defs IN
    /\ Layout(i).comp \subseteq Layout(i).active /\ Layout(i).active \subseteq Page
    /\ defs \in Seq([from : Nat, to : Nat, mask : Masks, hashed : BOOLEAN]) \ {<<>>}
    /\ \A n \in DOMAIN defs : defs[n].from <= defs[n].to
    /\ defs[1].from = 0 /\ defs[Len(defs)].to = Pages
    /\ \A n \in 1..Len(defs) - 1 : defs[n].to = defs[n + 1].from
    \* a region that opens a chunk starts with it
    /\ \A n \in 2..Len(defs) :
         Writable(defs[n]) /\ ~Writable(defs[n - 1]) => defs[n].from % PagesPerChunk = 0
    \* a hash over a region covers no page that its capsule leaves as it is
    /\ \A n \in DOMAIN defs :
         Static(defs[n]) /\ defs[n].hashed => Span(defs[n]) \subseteq Layout(i).active
    \* and where a BMC erases sectors, all of a sector is open or none of it
    /\ i \in Updates => \A p \in UnionOf(defs, Writable) :
                           Sector(p) \subseteq UnionOf(defs, Writable)

VARIABLES
  page,     \* the content of each page
  rules,    \* write enable memory of the SPI filter
  fourByte, \* 4-byte address mode, of the flash and as the filter has it
  ram,      \* pending update, watchdog recovery, recovery level, flash state
  intent,   \* BMC update intent in the mailbox
  reset,    \* the reset in progress: platform or bmc
  cpldBusy, \* is_cpld_rc_update_in_progress at the last T-1 pass
  pc,       \* the next T-1 handler; the BMC runs in "t0"
  plan,     \* commands to the flash the handler before it has still to give
  goal,     \* history: what the flash should look like after them
  vetting,  \* history: whether T0 has let in the intent; "raced" once T-1 has
            \* carried out one it has not, with no recovery capsule to go back to
  budget    \* events left

vars == <<page, rules, fourByte, ram, intent, reset, cpldBusy, pc, plan, goal,
          vetting, budget>>

(***************************************************************************)
(* Content.                                                                *)
(***************************************************************************)
Erased    == <<"erased">>
Junk      == <<"junk">>              \* half erased, half programmed, or data
Fw(i, p)  == <<"fw", i, p>>          \* page p of firmware i
Pfm(i)    == <<"pfm", i>>            \* its signed PFM
Header(i) == <<"header", i>>         \* signature, signed PFM, bitmaps of its capsule

\* payload pages that come before page p in the capsule of i
Rank(i, p) == Cardinality({q \in Layout(i).comp : q < p})
CapsulePages(i) == 1 + Cardinality(Layout(i).comp)
CapsuleRegion(i, base) == base..base + CapsulePages(i) - 1
PfmRegion == PfmStart..PfmStart + PfmPages - 1

\* decompression.h (183): no region that is copied to or that a BMC writes holds
\* the recovery capsule or the PFM, and the staged one is in a region of its own
ASSUME PlacesAssumption ==
  /\ {PfmStart, RecoveryStart, StagingStart} \subseteq Page /\ PfmPages \in Nat \ {0}
  /\ PfmRegion \subseteq Page
  /\ \A i, j \in Images :
       LET recovery == CapsuleRegion(i, RecoveryStart)
           staged   == CapsuleRegion(i, StagingStart)
       IN  /\ recovery \union staged \subseteq Page
           /\ PfmRegion \intersect (recovery \union staged) = {}
           /\ recovery \intersect CapsuleRegion(j, StagingStart) = {}
           /\ \A n \in DOMAIN Layout(j).defs : LET d == Layout(j).defs[n] IN
                /\ Static(d) \/ Writable(d) => Span(d) \intersect recovery = {}
                /\ Static(d) \/ (Dynamic(d) /\ d.from # StagingStart) =>
                     Span(d) \intersect staged = {}
                /\ j \in Updates /\ Writable(d) => Span(d) \intersect PfmRegion = {}
                \* its signed PFM cannot hold the hash of itself
                /\ Static(d) /\ d.hashed => Span(d) \intersect PfmRegion = {}

\* the capsule of i in the pages from base on
Capsule(i, base) ==
  [p \in CapsuleRegion(i, base) |->
     IF p = base THEN Header(i)
     ELSE Fw(i, CHOOSE q \in Layout(i).comp : Rank(i, q) = p - base - 1)]

\* firmware i in the pages its active bitmap names
Body(i, p) == IF p \in Layout(i).comp THEN Fw(i, p) ELSE Erased
Image(i)   == [p \in Layout(i).active |-> Body(i, p)]

Over(content)  == [p \in Page |-> IF p \in DOMAIN content THEN content[p] ELSE page[p]]

\* the firmware a page says it is of
Named(p) == IF Len(page[p]) = 1 THEN {} ELSE {page[p][2]}

\* is_capsule_valid: the hash over the whole capsule
CapsulesAt(base) ==
  {i \in Named(base) :
     /\ page[base] = Header(i)
     /\ \A p \in Layout(i).comp : page[base + 1 + Rank(i, p)] = Fw(i, p)}
CapsuleAt(base)  == CHOOSE i \in CapsulesAt(base) : TRUE

\* is_active_region_valid: the signed PFM, then the hashes in its body
Authentic(i) ==
  /\ page[PfmStart] = Pfm(i)
  /\ \A n \in DOMAIN Layout(i).defs : LET d == Layout(i).defs[n] IN
       Static(d) /\ d.hashed => \A p \in Span(d) : page[p] = Body(i, p)
ActiveValid == \E i \in Named(PfmStart) : Authentic(i)

\* what is read as PFM body; there is no definition in erased pages
ActiveBody == IF page[PfmStart][1] = "pfm" THEN Layout(page[PfmStart][2]).defs ELSE <<>>

\* check_capsule_before_fw_recovery_update
Promotable(skipHash) ==
  \E i \in CapsulesAt(StagingStart) : skipHash \/ page[PfmStart] = Pfm(i)

(***************************************************************************)
(* Commands: what the Nios sends, and what an operation is made of.        *)
(***************************************************************************)
Command(op, at, from) == [op |-> op, at |-> at, from |-> from]

\* mutant of ErasePlan: a sector is erased wherever one starts
ErasePlanWhole(from, to) ==
  LET rest[p \in from..to + PagesPerSector] ==
        IF p >= to THEN <<>>
        ELSE IF p % PagesPerSector = 0
          THEN <<Command("erase64", p, p)>> \o rest[p + PagesPerSector]
          ELSE <<Command("erase4", p, p)>> \o rest[p + 1]
  IN  rest[from]

\* erase_spi_region
ErasePlan(from, to) ==
  LET rest[p \in from..to] ==
        IF p = to THEN <<>>
        ELSE IF to - p >= PagesPerSector /\ p % PagesPerSector = 0
          THEN <<Command("erase64", p, p)>> \o rest[p + PagesPerSector]
          ELSE <<Command("erase4", p, p)>> \o rest[p + 1]
  IN  rest[from]

\* the longest runs of pages in a set, in order
Runs(pages) ==
  LET starts == {p \in pages : p - 1 \notin pages \/ p = 0}
      EndOf(p) == CHOOSE e \in p + 1..Pages :
                    e \notin pages /\ p..e - 1 \subseteq pages
  IN  [n \in 1..Cardinality(starts) |->
         LET start == Sorted(starts)[n] IN <<start, EndOf(start)>>]

\* mutant of CopyPlan: payload pages of earlier regions are not skipped
CopyPlanUnskipped(base, i, pages) ==
  LET copied == Sorted(pages \intersect Layout(i).comp)
  IN  [n \in 1..Len(copied) |-> Command("copy", copied[n], base + n)]

\* the copy loop of decompress_spi_region_from_capsule
CopyPlan(base, i, pages) ==
  LET copied == Sorted(pages \intersect Layout(i).comp)
  IN  [n \in 1..Len(copied) |-> Command("copy", copied[n], base + 1 + Rank(i, copied[n]))]

\* decompress_spi_region_from_capsule
RegionPlan(base, i, d) ==
  FlattenSeq([n \in DOMAIN Runs(Span(d) \intersect Layout(i).active) |->
                ErasePlan(Runs(Span(d) \intersect Layout(i).active)[n][1],
                          Runs(Span(d) \intersect Layout(i).active)[n][2])])
    \o CopyPlan(base, i, Span(d))

RegionsPlan(base, i, defs, chosen) ==
  FlattenSeq([n \in DOMAIN defs |->
                IF n \in chosen THEN RegionPlan(base, i, defs[n]) ELSE <<>>])

\* decompress_capsule; the PFM comes last
Decompressed(d, kinds) ==
  \/ Static(d) /\ "static" \in kinds
  \/ Dynamic(d) /\ d.from # StagingStart /\ "dynamic" \in kinds
DecompressPlan(base, i, kinds) ==
  RegionsPlan(base, i, Layout(i).defs,
              {n \in DOMAIN Layout(i).defs : Decompressed(Layout(i).defs[n], kinds)})
    \o IF "static" \in kinds
         THEN ErasePlan(PfmStart, PfmStart + PfmPages)
                \o <<Command("pfm", PfmStart, base)>>
         ELSE <<>>

\* memcpy_signed_payload, staging to recovery
PromotePlan(i) ==
  ErasePlan(RecoveryStart, RecoveryStart + CapsulePages(i))
    \o [n \in 1..CapsulePages(i) |->
          Command("copy", RecoveryStart + n - 1, StagingStart + n - 1)]

(***************************************************************************)
(* The same, by what it is for.                                            *)
(***************************************************************************)
NewPfm(i) == [p \in PfmRegion |-> IF p = PfmStart THEN Pfm(i) ELSE Erased]
Restored(i, pages, withPfm) ==
  [p \in Page |-> IF withPfm /\ p \in DOMAIN NewPfm(i) THEN NewPfm(i)[p]
                  ELSE IF p \in pages \intersect Layout(i).active THEN Image(i)[p]
                  ELSE page[p]]
DecompressGoal(i, kinds) ==
  Restored(i, UnionOf(Layout(i).defs, LAMBDA d : Decompressed(d, kinds)),
           "static" \in kinds)
NoGoal == <<>>

(***************************************************************************)
(* apply_spi_write_protection_and_smbus_rules: one pass of its inner loop, *)
(* the word being collected and its position carried over from region to   *)
(* region; then the loops.                                                 *)
(***************************************************************************)
ChunkOf(p) == p \div PagesPerChunk
FirstWord(d) == ChunkOf(d.from) \div ChunksPerWord
LastWord(d)  == ChunkOf(d.to) \div ChunksPerWord

\* mutant of CollectWord: the word of the region before is not reset
CollectWordKept(we, d) ==
  LET between  == we.pos # FirstWord(d) /\ we.pos # LastWord(d)
      firstBit == IF we.pos = FirstWord(d) THEN ChunkOf(d.from) % ChunksPerWord ELSE 0
      endBit   == IF we.pos = LastWord(d) THEN ChunkOf(d.to) % ChunksPerWord
                                          ELSE ChunksPerWord
      word     == IF between THEN IF Writable(d) THEN Bits ELSE {}
                  ELSE we.word \union IF Writable(d) THEN firstBit..endBit - 1 ELSE {}
      commit   == between \/ endBit = ChunksPerWord
  IN  [pos |-> IF commit THEN we.pos + 1 ELSE we.pos, word |-> word,
       mem |-> IF commit THEN [we.mem EXCEPT ![we.pos] = word] ELSE we.mem]

CollectWord(we, d) ==
  LET between  == we.pos # FirstWord(d) /\ we.pos # LastWord(d)
      firstBit == IF we.pos = FirstWord(d) THEN ChunkOf(d.from) % ChunksPerWord ELSE 0
      endBit   == IF we.pos = LastWord(d) THEN ChunkOf(d.to) % ChunksPerWord
                                          ELSE ChunksPerWord
      shared   == IF we.pos = FirstWord(d) THEN we.word ELSE {}
      word     == IF between THEN IF Writable(d) THEN Bits ELSE {}
                  ELSE shared \union IF Writable(d) THEN firstBit..endBit - 1 ELSE {}
      commit   == between \/ endBit = ChunksPerWord
  IN  [pos |-> IF commit THEN we.pos + 1 ELSE we.pos, word |-> word,
       mem |-> IF commit THEN [we.mem EXCEPT ![we.pos] = word] ELSE we.mem]

CollectRegion(we, d) ==
  LET words == LastWord(d) - FirstWord(d) + 1
      after[n \in 0..words] == IF n = 0 THEN we ELSE CollectWord(after[n - 1], d)
  IN  after[words]

Rules(defs) ==
  LET after[n \in 0..Len(defs)] ==
        IF n = 0 THEN [pos |-> 0, word |-> {}, mem |-> rules]
                 ELSE CollectRegion(after[n - 1], defs[n])
  IN  after[Len(defs)].mem

\* write_protect_cpld_recovery_region, write_protect_cpld_staging_region
ClosedWords(busy) ==
  {CpldRecovery, CpldRecovery + 1}
    \union IF busy THEN {CpldStaging, CpldStaging + 1} ELSE {}
Closed(mem, busy) == [w \in DOMAIN mem |-> IF w \in ClosedWords(busy) THEN {} ELSE mem[w]]

(***************************************************************************)
(* T-1.  A handler starts once the commands of the one before are given.   *)
(***************************************************************************)
At(handler) == pc = handler /\ plan = <<>>
Spend(event) == budget[event] > 0 /\ budget' = [budget EXCEPT ![event] = @ - 1]
NoPlan == plan' = <<>> /\ goal' = NoGoal
Give(commands, aim) == plan' = commands /\ goal' = aim
Vet(verdict) == vetting' = IF vetting = "raced" THEN "raced" ELSE verdict
Boot == [pending |-> FALSE, wdt |-> FALSE, level |-> 1, state |-> "ok"]

\* perform_platform_reset, perform_bmc_only_reset: the flash is reset and
\* sent ENTER_4B_ADDR_MODE
StartReset(kind) ==
  /\ reset' = kind
  /\ pc' = IF kind = "platform" THEN "pend" ELSE "wdt"
  /\ fourByte' = [fourByte EXCEPT !.flash = TRUE]

\* process_pending_recovery_update
Pend ==
  /\ At("pend") /\ pc' = "wdt"
  /\ ram' = [ram EXCEPT !.pending = FALSE]
  /\ IF ram.pending /\ Promotable(FALSE)
       THEN LET i == CapsuleAt(StagingStart)
            IN  Give(PromotePlan(i), Over(Capsule(i, RecoveryStart)))
       ELSE NoPlan
  /\ UNCHANGED <<page, rules, fourByte, intent, reset, cpldBusy, vetting, budget>>

\* perform_wdt_recovery: the regions of the active PFM, out of the recovery
\* capsule; any static region with a recovery bit brings all of them
RecoveryBit(level) == <<"first", "second", "third">>[level]
Wdt ==
  /\ At("wdt") /\ pc' = "intent"
  /\ IF ram.wdt /\ CapsulesAt(RecoveryStart) # {}
       THEN LET i == CapsuleAt(RecoveryStart)
                Again(d) == Dynamic(d) /\ RecoveryBit(ram.level) \in d.mask
                again == {n \in DOMAIN ActiveBody : Again(ActiveBody[n])}
                static == \E n \in DOMAIN ActiveBody, level \in 1..3 :
                            Static(ActiveBody[n]) /\ RecoveryBit(level) \in ActiveBody[n].mask
                kinds == IF static THEN {"static"} ELSE {}
                pages == UnionOf(ActiveBody, Again)
                           \union UnionOf(Layout(i).defs, LAMBDA d : Decompressed(d, kinds))
            IN  /\ Give(RegionsPlan(RecoveryStart, i, ActiveBody, again)
                          \o DecompressPlan(RecoveryStart, i, kinds),
                        Restored(i, pages, static))
                /\ ram' = [ram EXCEPT !.wdt = FALSE, !.level = @ + 1]
       ELSE NoPlan /\ UNCHANGED ram
  /\ UNCHANGED <<page, rules, fourByte, intent, reset, cpldBusy, vetting, budget>>

\* act_on_bmc_update_intent and perform_active_firmware_update
Intent ==
  /\ At("intent") /\ pc' = "auth"
  /\ intent' = {}
  /\ \/ NoPlan /\ UNCHANGED ram /\ Vet("none")
     \/ /\ intent # {} /\ CapsulesAt(StagingStart) # {}
        /\ LET i == CapsuleAt(StagingStart)
               kinds == IF intent \intersect {"BR", "dynamic"} # {}
                          THEN {"static", "dynamic"} ELSE {"static"}
           IN  Give(DecompressPlan(StagingStart, i, kinds), DecompressGoal(i, kinds))
        /\ ram' = [ram EXCEPT !.pending = @ \/ "BR" \in intent]
        /\ Vet(IF vetting = "none" /\ CapsulesAt(RecoveryStart) = {} THEN "raced" ELSE "none")
  /\ UNCHANGED <<page, rules, fourByte, reset, cpldBusy, budget>>

\* the recovery capsule no longer reads as it was written: the fault that the
\* recovery matrix is for, with the active region whole
Decay ==
  /\ At("auth") /\ Spend("decay")
  /\ ActiveValid /\ CapsulesAt(RecoveryStart) # {}
  /\ page' = [page EXCEPT ![RecoveryStart] = Junk] /\ NoPlan
  /\ UNCHANGED <<rules, fourByte, ram, intent, reset, cpldBusy, pc, vetting>>

\* authenticate_and_recover_spi_flash: the recovery capsule
Auth ==
  /\ At("auth")
  /\ \/ /\ CapsulesAt(RecoveryStart) # {}
        /\ ram' = [ram EXCEPT !.state = "ok"] /\ NoPlan /\ pc' = "authAct"
     \/ /\ CapsulesAt(RecoveryStart) = {} /\ Promotable(~ActiveValid)
        /\ ram' = [ram EXCEPT !.state = "ok"] /\ pc' = "authAct"
        /\ LET i == CapsuleAt(StagingStart)
           IN  Give(PromotePlan(i), Over(Capsule(i, RecoveryStart)))
     \/ /\ CapsulesAt(RecoveryStart) = {} /\ ~Promotable(~ActiveValid)
        /\ ram' = [ram EXCEPT !.state = IF ActiveValid THEN "recFailed" ELSE "allFailed"]
        /\ NoPlan /\ pc' = "apply"
  /\ UNCHANGED <<page, rules, fourByte, intent, reset, cpldBusy, vetting, budget>>

\* ... and the active region
AuthAct ==
  /\ At("authAct") /\ pc' = "apply"
  /\ LET i == CapsuleAt(RecoveryStart)
         both == {"static", "dynamic"}
         restore == Give(DecompressPlan(RecoveryStart, i, both), DecompressGoal(i, both))
     IN  \/ ActiveValid /\ NoPlan /\ UNCHANGED budget
         \/ ~ActiveValid /\ restore /\ UNCHANGED budget
         \/ restore /\ Spend("force")
  /\ UNCHANGED <<page, rules, fourByte, ram, intent, reset, cpldBusy, vetting>>

\* ... whose PFM is applied, then the words of the CPLD capsules are closed
Apply ==
  /\ At("apply") /\ pc' = "entry"
  /\ \E busy \in BOOLEAN :
       /\ cpldBusy' = busy
       /\ rules' = Closed(IF ram.state = "allFailed" THEN rules ELSE Rules(ActiveBody), busy)
  /\ NoPlan
  /\ UNCHANGED <<page, fourByte, ram, intent, reset, vetting, budget>>

\* mutant of Entry: the filter is not told of the 3-byte mode
EntryUntold ==
  /\ At("entry")
  /\ pc' = IF ram.state = "allFailed" THEN "held" ELSE "t0"
  /\ fourByte' = IF reset = "platform" /\ ram.state # "allFailed"
                   THEN [fourByte EXCEPT !.flash = FALSE] ELSE fourByte
  /\ UNCHANGED <<page, rules, ram, intent, reset, cpldBusy, plan, goal, vetting, budget>>

\* tmin1_boot_bmc, perform_entry_to_t0_bmc_only
Entry ==
  /\ At("entry")
  /\ pc' = IF ram.state = "allFailed" THEN "held" ELSE "t0"
  /\ fourByte' = IF reset = "platform" /\ ram.state # "allFailed"
                   THEN [flash |-> FALSE, filter |-> FALSE] ELSE fourByte
  /\ UNCHANGED <<page, rules, ram, intent, reset, cpldBusy, plan, goal, vetting, budget>>

(***************************************************************************)
(* One command to the flash.                                               *)
(***************************************************************************)
Targets(c) == IF c.op = "erase64" THEN Sector(c.at) ELSE {c.at}
Fresh(flash, c) == IF c.op = "pfm" THEN Pfm(flash[c.from][2]) ELSE flash[c.from]
\* programming what is not erased leaves a mixture
Result(flash, c) ==
  IF c.op \in {"erase4", "erase64"} THEN Erased
  ELSE IF flash[c.at] # Erased \/ (c.op = "pfm" /\ flash[c.from][1] # "header") THEN Junk
  ELSE Fresh(flash, c)
Commanded(flash, c) ==
  [p \in Page |-> IF p \in Targets(c) THEN Result(flash, c) ELSE flash[p]]

Exec ==
  /\ plan # <<>>
  /\ page' = Commanded(page, Head(plan))
  /\ plan' = Tail(plan)
  /\ UNCHANGED <<rules, fourByte, ram, intent, reset, cpldBusy, pc, goal, vetting, budget>>

(***************************************************************************)
(* T0: the BMC behind the SPI filter, and what ends T0.                    *)
(***************************************************************************)
InT0 == pc = "t0"
Open(p) == ChunkOf(p) % ChunksPerWord \in rules[ChunkOf(p) \div ChunksPerWord]
Passes(p) == fourByte.filter /\ Open(p)

\* ENTER_4B_ADDR_MODE, which the filter follows
EnterFourByte ==
  /\ InT0 /\ fourByte' = [flash |-> TRUE, filter |-> TRUE]
  /\ UNCHANGED <<page, rules, ram, intent, reset, cpldBusy, pc, plan, goal, vetting, budget>>

\* PAGE_PROGRAM, ERASE_4K and SECTOR_ERASE.  A flash in 3-byte mode reads
\* other bits as the address than the filter does.
HostWrite(op, p) ==
  /\ InT0 /\ Passes(p) /\ Spend("write")
  /\ \E q \in IF fourByte.flash THEN {p} ELSE HostPages :
       page' = [r \in Page |->
                  IF r \in (IF op = "sector" THEN Sector(q) ELSE {q})
                    THEN IF op = "program" THEN Junk ELSE Erased
                    ELSE page[r]]
  /\ UNCHANGED <<rules, fourByte, ram, intent, reset, cpldBusy, pc, plan, goal, vetting>>

\* the BMC stages a capsule, its many commands in one step
Stage(i) ==
  /\ InT0 /\ fourByte.flash /\ Spend("stage")
  /\ \A p \in DOMAIN Capsule(i, StagingStart) : Passes(p)
  /\ page' = Over(Capsule(i, StagingStart))
  /\ UNCHANGED <<rules, fourByte, ram, intent, reset, cpldBusy, pc, plan, goal, vetting>>

\* the BMC asks for an update, now or at the next reset
PostIntent(bits) ==
  /\ InT0 /\ Spend("intent") /\ intent' = bits
  /\ UNCHANGED <<page, rules, fourByte, ram, reset, cpldBusy, pc, plan, goal, vetting>>

\* mutant of UpdateIntent: an active update is let in without a recovery image
UpdateIntentUnchecked ==
  /\ InT0 /\ intent # {} /\ "atReset" \notin intent
  /\ UNCHANGED <<intent, ram>> /\ Vet("vetted")
  /\ StartReset(IF "BR" \in intent THEN "platform" ELSE "bmc")
  /\ UNCHANGED <<page, rules, cpldBusy, plan, goal, budget>>

\* mb_update_intent_handler_for_bmc; until it comes to an intent, another
\* reset may, and T-1 does not look again
UpdateIntent ==
  /\ InT0 /\ intent # {} /\ "atReset" \notin intent
  /\ \/ \* too many failed attempts, or no recovery image
        /\ intent' = {} /\ UNCHANGED <<fourByte, ram, reset, pc, vetting>>
     \/ /\ ram.state = "recFailed" /\ "BR" \in intent
        /\ intent' = {} /\ ram' = [ram EXCEPT !.pending = TRUE]
        /\ StartReset("platform") /\ UNCHANGED vetting
     \/ /\ ram.state # "recFailed"
        /\ UNCHANGED <<intent, ram>> /\ Vet("vetted")
        /\ StartReset(IF "BR" \in intent THEN "platform" ELSE "bmc")
  /\ UNCHANGED <<page, rules, cpldBusy, plan, goal, budget>>

\* post_update_routine, once the boot is recorded
PostUpdate ==
  /\ InT0 /\ ram.pending /\ StartReset("platform")
  /\ UNCHANGED <<page, rules, ram, intent, cpldBusy, plan, goal, vetting, budget>>

\* the BMC has booted: bmc_boot_complete_actions
BootDone ==
  /\ InT0 /\ ram.level # 1 /\ ram' = [ram EXCEPT !.level = 1]
  /\ UNCHANGED <<page, rules, fourByte, intent, reset, cpldBusy, pc, plan, goal, vetting, budget>>

\* trigger_bmc_wdt_recovery
Timeout ==
  /\ InT0 /\ ram.level <= 3 /\ Spend("timeout")
  /\ ram' = [ram EXCEPT !.pending = FALSE, !.wdt = TRUE, !.state = "ok"]
  /\ StartReset("platform")
  /\ UNCHANGED <<page, rules, intent, cpldBusy, plan, goal, vetting>>

\* a platform reset for the PCH, or the BMC restarting by itself
OtherReset ==
  /\ InT0 /\ Spend("other")
  /\ \E kind \in {"platform", "bmc"} : StartReset(kind)
  /\ UNCHANGED <<page, rules, ram, intent, cpldBusy, plan, goal, vetting>>

\* power fails, maybe in the middle of a command; pfr_main then starts with
\* RAM, mailbox and write enable memory as after configuration
PowerLoss ==
  /\ Spend("power")
  /\ LET torn == IF plan = <<>> THEN {} ELSE Targets(Head(plan))
     IN  page' \in {page, [p \in Page |-> IF p \in torn THEN Junk ELSE page[p]]}
  /\ rules' = [w \in 0..Words - 1 |-> {}]
  /\ fourByte' = [flash |-> TRUE, filter |-> FALSE]
  /\ ram' = Boot /\ intent' = {} /\ reset' = "platform" /\ pc' = "pend"
  /\ Vet("none") /\ NoPlan /\ UNCHANGED cpldBusy

(***************************************************************************)
(* A platform provisioned with firmware in both regions, staging blank.    *)
(***************************************************************************)
Programmed(i) ==
  [p \in Page |-> IF p = PfmStart THEN Pfm(i)
                  ELSE IF p \in DOMAIN Capsule(i, RecoveryStart)
                    THEN Capsule(i, RecoveryStart)[p]
                  ELSE IF p \in DOMAIN Image(i) THEN Image(i)[p] ELSE Erased]

Init ==
  /\ \E s \in Scenarios : page = Programmed(s.image) /\ budget = s.budget
  /\ rules = [w \in 0..Words - 1 |-> {}]
  /\ fourByte = [flash |-> TRUE, filter |-> FALSE]
  /\ ram = Boot /\ intent = {} /\ reset = "platform" /\ pc = "pend"
  /\ plan = <<>> /\ goal = NoGoal /\ cpldBusy = FALSE
  /\ vetting = "none"

Host ==
  \/ EnterFourByte
  \/ \E op \in {"program", "erase4", "sector"}, p \in HostPages : HostWrite(op, p)
  \/ \E i \in Updates : Stage(i)

Next ==
  \/ Pend \/ Wdt \/ Intent \/ Decay \/ Auth \/ AuthAct \/ Apply \/ Entry \/ Exec
  \/ Host
  \/ \E bits \in {{"BA"}, {"BA", "dynamic"}, {"BR"}, {"BA", "atReset"}} : PostIntent(bits)
  \/ UpdateIntent \/ PostUpdate \/ BootDone \/ Timeout \/ OtherReset \/ PowerLoss

Spec == Init /\ [][Next]_vars

(***************************************************************************)
(* Properties.                                                             *)
(***************************************************************************)
Content(is) == IF is = {} THEN Junk ELSE CHOOSE i \in is : TRUE
ActiveImage   == Content({i \in Named(PfmStart) : Authentic(i)})
RecoveryImage == Content(CapsulesAt(RecoveryStart))

Store == INSTANCE FailsafeStore WITH
  Svn <- [i \in Images |-> 0], Bad <- Junk, floor <- 0,
  active <- ActiveImage, recovery <- RecoveryImage

\* Page by page, with power failing in the middle of an erase or a program, the
\* flash keeps what FailsafeStore promises: the active region is only taken
\* apart while the recovery capsule is whole, and a capsule is only promoted
\* over it while the active region authenticates (decompression.h,
\* memcpy_signed_payload of spi_rw_utils.h).  It does until T-1 first carries
\* out an update intent that T0 has not let in, one deferred to the reset or
\* one that another reset came before, while there is no recovery capsule:
\* act_on_bmc_update_intent relies on T0 for that check and does not make it.
FailsafePages == Store!Init /\ [][vetting' = "raced" \/ Store!Next]_(Store!store)

\* The commands of decompress_capsule, perform_wdt_recovery and
\* memcpy_signed_payload, given without a power loss, leave exactly the pages
\* they are for changed, to what the capsule holds for them: the payload pointer
\* skips the right pages, no erase reaches beyond a region, the source is intact.
CopiesExact == plan = <<>> /\ goal # NoGoal => page = goal

\* BMC out of reset: the active region authenticates, although
\* authenticate_and_recover_spi_flash does not look again after a recovery.
BootsComplete == InT0 => ActiveImage \in Images

\* BMC out of reset: the write enable memory opens a chunk exactly when all its
\* pages are in regions that the PFM in service makes writable, except for the
\* CPLD recovery capsule and, during an update of it, the staged CPLD capsule;
\* for a PFM whose openings start on a write enable bit (LayoutAssumption).
OpenedByPfm ==
  UnionOf(ActiveBody, Writable) \
    {p \in Page : ChunkOf(p) \div ChunksPerWord \in ClosedWords(cpldBusy)}
RulesExact ==
  InT0 => LET opened == OpenedByPfm
          IN  \A p \in Page :
                Open(p) <=> {q \in Page : ChunkOf(q) = ChunkOf(p)} \subseteq opened

\* Whatever the BMC sends through the SPI filter, in whichever address mode the
\* flash is, it changes only pages its PFM lets it write, and never the CPLD
\* recovery capsule.
OnlyOpened ==
  [][Host => \A p \in Page : page'[p] # page[p] => p \in OpenedByPfm]_vars

=============================================================================
