-------------------------- MODULE FlashStoreProofs --------------------------
(***************************************************************************)
(* FlashPages implements FailsafeStore: PagesAreFailsafe, for a flash of   *)
(* any size and any layouts, with the power failing in any command.        *)
(*                                                                         *)
(* SafePlan says which copy the commands still to give leave alone.  With  *)
(* the recovery capsule whole they stay out of the pages where one may be  *)
(* (Aside), so each of them is a step of the active image only.  With the  *)
(* firmware in service staged and being promoted (Promotions) they stay in *)
(* those pages, the header is erased first, and can only come back from    *)
(* that capsule: each of them is a step of the recovery image only.        *)
(* RepairInv is what the handlers of T-1 rely on to start either plan: a   *)
(* promotion pends only while the active region authenticates, T0 lets in  *)
(* an update intent only with a whole recovery capsule.  Of an intent that *)
(* T0 has not let in, T-1 only knows what it finds: all of this holds for  *)
(* as long as that does not find the recovery capsule missing.             *)
(***************************************************************************)
EXTENDS FlashPagesProofs

(***************************************************************************)
(* Where the commands of a plan are.                                       *)
(***************************************************************************)
Erases(c) == c.op \in {"erase4", "erase64"}
Erasures(S) == {c \in Orders : Erases(c) /\ Targets(c) \subseteq S}
RecoverySpace == UNION {CapsuleRegion(i, RecoveryStart) : i \in Images}

\* Commands that leave the recovery capsule alone, whichever it is.
Aside == {c \in Orders : Targets(c) \intersect RecoverySpace = {}}

\* Commands that write the staged capsule of i over it, header from header.
Promotions(i) ==
  {c \in Orders : /\ Targets(c) \subseteq CapsuleRegion(i, RecoveryStart)
                  /\ \/ Erases(c)
                     \/ c.op = "copy" /\ (c.at = RecoveryStart => c.from = StagingStart)}

\* Sequences of commands of one kind.
LEMMA SeqFacts ==
  ASSUME NEW A
  PROVE  /\ <<>> \in Seq(A)
         /\ \A c \in A : <<c>> \in Seq(A)
         /\ \A s, t \in Seq(A) : s \o t \in Seq(A)
         /\ \A s \in Seq(A) : s # <<>> => Head(s) \in A /\ Tail(s) \in Seq(A)
         /\ \A B : A \subseteq B => Seq(A) \subseteq Seq(B)
<1>1. \A B : A \subseteq B => \A s \in Seq(A) : s \in Seq(B)
  OBVIOUS
<1> QED
  BY <1>1

\* erase_spi_region erases nothing but the pages it is given, the first one first.
LEMMA EraseIn ==
  ASSUME NEW from \in Nat, NEW to \in Nat, from <= to, to <= Pages
  PROVE  /\ ErasePlan(from, to) \in Seq(Erasures(from..to - 1))
         /\ from < to => /\ ErasePlan(from, to) # <<>>
                         /\ Erases(Head(ErasePlan(from, to)))
                         /\ from \in Targets(Head(ErasePlan(from, to)))
<1> DEFINE rest == CHOOSE f : Erasing(f, from, to)
           A == Erasures(from..to - 1)
<1>1. Erasing(rest, from, to)
  BY ErasingExists
<1>2. ErasePlan(from, to) = rest[from]
  BY DEF ErasePlan, Erasing, ErasingFrom
<1> HIDE DEF rest, A
<1> DEFINE S == {n \in 0..to - from : \A m \in 0..n : rest[to - m] \in Seq(A)}
<1>3. \A p \in from..to : rest[p] = ErasingFrom(rest, p, to)
  BY <1>1 DEF Erasing
<1>4. rest[to] \in Seq(A)
  <2>1. to \in from..to
    OBVIOUS
  <2>2. rest[to] = ErasingFrom(rest, to, to)
    BY <1>3, <2>1
  <2>3. rest[to] = <<>>
    BY <2>2 DEF ErasingFrom
  <2> QED
    BY <2>3, SeqFacts
<1>5. ASSUME NEW p \in from..to - 1
      PROVE  LET one == Command("erase4", p, p)
                 all == Command("erase64", p, p)
             IN  /\ one \in A /\ Erases(one) /\ p \in Targets(one)
                 /\ to - p >= PagesPerSector /\ p % PagesPerSector = 0 =>
                      all \in A /\ Erases(all) /\ p \in Targets(all)
  <2> DEFINE one == Command("erase4", p, p)
             all == Command("erase64", p, p)
  <2>1. p \in Page /\ p \in Nat
    BY PageNumbers DEF Page
  <2>2. one.op = "erase4" /\ one.at = p /\ all.op = "erase64" /\ all.at = p
    BY DEF Command
  <2>3. one \in Orders /\ all \in Orders
    BY <2>1 DEF Command, Orders
  <2> HIDE DEF one, all
  <2>4. Erases(one) /\ Erases(all) /\ Targets(one) = {p} /\ Targets(all) = Sector(p)
    BY <2>2 DEF Erases, Targets
  <2>5. ASSUME to - p >= PagesPerSector, p % PagesPerSector = 0
        PROVE  p \in Sector(p) /\ Sector(p) \subseteq from..to - 1
    <3>1. PagesPerSector \in Nat /\ PagesPerSector > 0
      BY Sizes
    <3>2. Sector(p) = p..p + PagesPerSector - 1
      BY <2>1, <2>5, <3>1 DEF Sector
    <3> QED
      BY <2>1, <2>5, <3>1, <3>2
  <2> QED
    BY <2>3, <2>4, <2>5 DEF A, Erasures, one, all
<1>6. ASSUME NEW n \in 0..to - from - 1, n \in S PROVE n + 1 \in S
  <2> DEFINE p == to - (n + 1)
  <2>1. p \in from..to - 1 /\ p \in from..to /\ p # to
    OBVIOUS
  <2>2. rest[p + 1] \in Seq(A)
    <3>1. p + 1 = to - n /\ n \in 0..n
      OBVIOUS
    <3> QED
      BY <1>6, <3>1
  <2>3. to - p >= PagesPerSector => rest[p + PagesPerSector] \in Seq(A)
    <3>1. ASSUME to - p >= PagesPerSector
          PROVE  /\ p + PagesPerSector = to - (n + 1 - PagesPerSector)
                 /\ n + 1 - PagesPerSector \in 0..n
      BY <3>1, Sizes
    <3> QED
      BY <1>6, <3>1
  <2>4. rest[p] \in Seq(A)
    <3> HIDE DEF p
    <3>1. CASE to - p >= PagesPerSector /\ p % PagesPerSector = 0
      <4>1. rest[p] = <<Command("erase64", p, p)>> \o rest[p + PagesPerSector]
        BY <1>3, <2>1, <3>1 DEF ErasingFrom
      <4> QED
        BY <1>5, <2>1, <2>3, <3>1, <4>1, SeqFacts
    <3>2. CASE ~(to - p >= PagesPerSector /\ p % PagesPerSector = 0)
      <4>1. rest[p] = <<Command("erase4", p, p)>> \o rest[p + 1]
        BY <1>3, <2>1, <3>2 DEF ErasingFrom
      <4> QED
        BY <1>5, <2>1, <2>2, <4>1, SeqFacts
    <3> QED
      BY <3>1, <3>2
  <2> QED
    BY <1>6, <2>4
<1>7. 0 \in S
  BY <1>4
<1>8. to - from \in S
  <2> HIDE DEF S
  <2> QED
    BY <1>6, <1>7, SetInduction
<1>9. rest[from] \in Seq(A)
  <2>1. to - from \in 0..to - from /\ to - (to - from) = from
    OBVIOUS
  <2> QED
    BY <1>8, <2>1 DEF S
<1>10. ASSUME from < to
       PROVE  rest[from] # <<>> /\ Erases(Head(rest[from])) /\ from \in Targets(Head(rest[from]))
  <2>1. from \in from..to - 1 /\ from \in from..to /\ from # to
    BY <1>10
  <2>2. /\ rest[from + 1] \in Seq(A)
        /\ to - from >= PagesPerSector => rest[from + PagesPerSector] \in Seq(A)
    <3>1. from + 1 = to - (to - from - 1) /\ to - from - 1 \in 0..to - from
      BY <1>10
    <3>2. ASSUME to - from >= PagesPerSector
          PROVE  /\ from + PagesPerSector = to - (to - from - PagesPerSector)
                 /\ to - from - PagesPerSector \in 0..to - from
      BY <3>2, Sizes
    <3> QED
      BY <1>8, <3>1, <3>2 DEF S
  <2>3. ASSUME NEW c, NEW s \in Seq(A), rest[from] = <<c>> \o s
        PROVE  rest[from] # <<>> /\ Head(rest[from]) = c
    BY <2>3
  <2>4. CASE to - from >= PagesPerSector /\ from % PagesPerSector = 0
    <3>1. rest[from] = <<Command("erase64", from, from)>> \o rest[from + PagesPerSector]
      BY <1>3, <2>1, <2>4 DEF ErasingFrom
    <3> QED
      BY <1>5, <2>1, <2>2, <2>3, <2>4, <3>1
  <2>5. CASE ~(to - from >= PagesPerSector /\ from % PagesPerSector = 0)
    <3>1. rest[from] = <<Command("erase4", from, from)>> \o rest[from + 1]
      BY <1>3, <2>1, <2>5 DEF ErasingFrom
    <3> QED
      BY <1>5, <2>1, <2>2, <2>3, <3>1
  <2> QED
    BY <2>4, <2>5
<1> QED
  BY <1>2, <1>9, <1>10 DEF A

\* Plans of one kind, one after another.
LEMMA FlattenedIn ==
  ASSUME NEW A, NEW seqs \in Seq(Seq(A))
  PROVE  FlattenSeq(seqs) \in Seq(A)
<1> DEFINE N == Len(seqs)
           f == CHOOSE g : Flattened(g, N, seqs)
<1>1. N \in Nat /\ \A n \in 1..N : seqs[n] \in Seq(A)
  OBVIOUS
<1>2. Flattened(f, N, seqs)
  BY <1>1, FlattenedExists
<1>3. CASE N = 0
  <2>1. seqs = <<>> /\ FlattenSeq(seqs) = seqs
    BY <1>3 DEF FlattenSeq
  <2> QED
    BY <2>1, SeqFacts
<1>4. CASE N # 0
  <2>1. FlattenSeq(seqs) = f[N]
    BY <1>4 DEF FlattenSeq, Flattened
  <2> HIDE DEF f, N
  <2> DEFINE S == {n \in 0..N : n = 0 \/ f[n] \in Seq(A)}
  <2>2. ASSUME NEW n \in 0..N - 1, n \in S PROVE n + 1 \in S
    <3>1. n + 1 \in 1..N /\ (n + 1) - 1 = n /\ seqs[n + 1] \in Seq(A) /\ (n + 1 = 1 <=> n = 0)
      BY <1>1
    <3>2. f[n + 1] = IF n + 1 = 1 THEN seqs[n + 1] ELSE f[n] \o seqs[n + 1]
      BY <1>2, <3>1 DEF Flattened
    <3>3. n # 0 => f[n] \in Seq(A)
      BY <2>2
    <3>4. f[n + 1] \in Seq(A)
      BY <3>1, <3>2, <3>3, SeqFacts
    <3> QED
      BY <3>1, <3>4
  <2>3. 0 \in S
    BY <1>1
  <2> HIDE DEF S
  <2>4. 0..N \subseteq S
    BY <1>1, <2>2, <2>3, SetInduction
  <2>5. N \in 0..N
    BY <1>1
  <2> QED
    BY <1>4, <2>1, <2>4, <2>5 DEF S
<1> QED
  BY <1>3, <1>4

(***************************************************************************)
(* Plans that leave the recovery capsule alone.                            *)
(***************************************************************************)
\* Where the recovery capsule may be: not in what is copied, not in the PFM, and
\* nowhere a BMC may write.
LEMMA RecoveryApart ==
  /\ RecoverySpace \subseteq Page
  /\ PfmRegion \intersect RecoverySpace = {} /\ PfmStart \notin RecoverySpace
  /\ \A i \in Images :
       /\ CapsuleRegion(i, RecoveryStart) \subseteq RecoverySpace
       /\ CapsuleRegion(i, StagingStart) \intersect RecoverySpace = {}
       /\ \A n \in DOMAIN Layout(i).defs : LET d == Layout(i).defs[n] IN
            Static(d) \/ Writable(d) => Span(d) \intersect RecoverySpace = {}
<1>1. /\ RecoverySpace \subseteq Page /\ PfmRegion \intersect RecoverySpace = {}
      /\ \A i \in Images : CapsuleRegion(i, StagingStart) \intersect RecoverySpace = {}
  BY PlacesAssumption DEF RecoverySpace
<1>2. ASSUME NEW i \in Images, NEW n \in DOMAIN Layout(i).defs,
             Static(Layout(i).defs[n]) \/ Writable(Layout(i).defs[n])
      PROVE  Span(Layout(i).defs[n]) \intersect RecoverySpace = {}
  <2>1. \A j \in Images :
          Span(Layout(i).defs[n]) \intersect CapsuleRegion(j, RecoveryStart) = {}
    BY <1>2, PlacesOf
  <2> QED
    BY <2>1 DEF RecoverySpace
<1>3. PfmStart \in PfmRegion
  BY Starts
<1> QED
  BY <1>1, <1>2, <1>3 DEF RecoverySpace

\* What erase_spi_region erases outside of the recovery space.
LEMMA ErasuresAside ==
  ASSUME NEW S, S \intersect RecoverySpace = {}
  PROVE  Seq(Erasures(S)) \subseteq Seq(Aside)
<1>1. Erasures(S) \subseteq Aside
  BY DEF Erasures, Aside
<1> QED
  BY <1>1, SeqFacts

\* A region copied out of a capsule.
LEMMA RegionAside ==
  ASSUME NEW i \in Images, NEW base \in Nat, CapsuleRegion(i, base) \subseteq Page,
         NEW d, Span(d) \intersect RecoverySpace = {}
  PROVE  RegionPlan(base, i, d) \in Seq(Aside)
<1> DEFINE A == Span(d) \intersect Layout(i).active
           T == Span(d) \intersect Layout(i).comp
           k == Cardinality(T)
           copies == CopyPlan(base, i, Span(d))
<1>1. A \in SUBSET Page /\ T \in SUBSET A /\ T \in SUBSET Layout(i).comp
  BY LayoutAssumption
<1>2. A \intersect RecoverySpace = {}
  OBVIOUS
<1>3. RegionPlan(base, i, d) = EraseRuns(A) \o copies
  BY DEF RegionPlan, EraseRuns
<1>4. copies = [n \in 1..Len(Sorted(T)) |->
                  Command("copy", Sorted(T)[n], base + 1 + Rank(i, Sorted(T)[n]))]
  BY DEF CopyPlan
<1> HIDE DEF A, T, copies
<1>5. EraseRuns(A) \in Seq(Aside)
  <2>1. PICK n \in Nat : \E a, b \in [1..n -> Nat] :
           /\ Runs(A) = [m \in 1..n |-> <<a[m], b[m]>>]
           /\ \A m \in 1..n : a[m] <= b[m] /\ b[m] <= Pages
           /\ \A p \in Page : p \in A <=> \E m \in 1..n : p \in a[m]..b[m] - 1
    BY <1>1, RunsAre
  <2>2. PICK a \in [1..n -> Nat], b \in [1..n -> Nat] :
           /\ Runs(A) = [m \in 1..n |-> <<a[m], b[m]>>]
           /\ \A m \in 1..n : a[m] <= b[m] /\ b[m] <= Pages
           /\ \A p \in Page : p \in A <=> \E m \in 1..n : p \in a[m]..b[m] - 1
    BY <2>1
  <2> DEFINE seqs == [m \in 1..n |-> ErasePlan(a[m], b[m])]
  <2>3. EraseRuns(A) = FlattenSeq(seqs)
    <3>1. DOMAIN Runs(A) = 1..n /\ \A m \in 1..n : Runs(A)[m][1] = a[m] /\ Runs(A)[m][2] = b[m]
      BY <2>2
    <3> QED
      BY <3>1 DEF EraseRuns
  <2>4. ASSUME NEW m \in 1..n PROVE seqs[m] \in Seq(Aside)
    <3> DEFINE run == a[m]..b[m] - 1
    <3>1. a[m] \in Nat /\ b[m] \in Nat /\ a[m] <= b[m] /\ b[m] <= Pages
      BY <2>2
    <3>2. run \subseteq A
      <4>1. run \subseteq Page
        BY <3>1, PageNumbers DEF Page
      <4> QED
        BY <2>2, <4>1
    <3>3. ErasePlan(a[m], b[m]) \in Seq(Erasures(run))
      BY <3>1, EraseIn
    <3> HIDE DEF run
    <3>4. Seq(Erasures(run)) \subseteq Seq(Aside)
      BY <1>2, <3>2, ErasuresAside
    <3> QED
      BY <3>3, <3>4
  <2>5. seqs \in Seq(Seq(Aside))
    <3>1. DOMAIN seqs = 1..n
      OBVIOUS
    <3>2. seqs \in [1..n -> Seq(Aside)]
      BY <2>4
    <3> HIDE DEF seqs
    <3> QED
      BY <3>2
  <2> HIDE DEF seqs
  <2> QED
    BY <2>3, <2>5, FlattenedIn
<1>6. copies \in Seq(Aside)
  <2>1. /\ k \in Nat /\ Len(Sorted(T)) = k
        /\ \A n \in 1..k : Sorted(T)[n] \in T
    <3>1. T \in SUBSET Nat /\ IsFiniteSet(T)
      <4>1. T \in SUBSET Page
        BY <1>1
      <4> QED
        BY <4>1, PageNumbers
    <3>2. k \in Nat
      BY <3>1, FS_CardinalityType
    <3>3. Len(Sorted(T)) = k
      BY <3>2 DEF Sorted
    <3> QED
      BY <3>1, <3>2, <3>3, SortedIs
  <2>2. ASSUME NEW p \in T PROVE Command("copy", p, base + 1 + Rank(i, p)) \in Aside
    <3> DEFINE c == Command("copy", p, base + 1 + Rank(i, p))
    <3>1. base + 1 + Rank(i, p) \in Page
      BY <1>1, CapsuleLayout
    <3>2. p \in Page /\ p \notin RecoverySpace
      BY <1>1, <1>2
    <3>3. c \in Orders /\ c.op = "copy" /\ c.at = p
      BY <3>1, <3>2 DEF Orders, Command
    <3> HIDE DEF c
    <3>4. Targets(c) = {p}
      BY <3>3 DEF Targets
    <3> QED
      BY <3>2, <3>3, <3>4 DEF Aside, c
  <2> HIDE DEF k
  <2>3. \A n \in 1..k : copies[n] \in Aside
    BY <1>4, <2>1, <2>2
  <2>4. copies \in [1..k -> Aside]
    BY <1>4, <2>1, <2>3
  <2> QED
    BY <2>1, <2>4
<1> QED
  BY <1>3, <1>5, <1>6, SeqFacts

\* Regions of a PFM copied out of a capsule.
LEMMA RegionsAside ==
  ASSUME NEW i \in Images, NEW base \in Nat, CapsuleRegion(i, base) \subseteq Page,
         NEW defs, NEW N \in Nat, DOMAIN defs = 1..N, NEW chosen \in SUBSET (1..N),
         \A n \in chosen : Span(defs[n]) \intersect RecoverySpace = {}
  PROVE  RegionsPlan(base, i, defs, chosen) \in Seq(Aside)
<1> DEFINE seqs == [n \in 1..N |-> IF n \in chosen THEN RegionPlan(base, i, defs[n]) ELSE <<>>]
<1>1. RegionsPlan(base, i, defs, chosen) = FlattenSeq(seqs)
  BY DEF RegionsPlan
<1>2. ASSUME NEW n \in 1..N PROVE seqs[n] \in Seq(Aside)
  <2>1. CASE n \in chosen
    <3>1. RegionPlan(base, i, defs[n]) \in Seq(Aside)
      BY <2>1, RegionAside
    <3> QED
      BY <2>1, <3>1
  <2>2. CASE n \notin chosen
    BY <2>2, SeqFacts
  <2> QED
    BY <2>1, <2>2
<1>3. seqs \in [1..N -> Seq(Aside)]
  BY <1>2
<1> HIDE DEF seqs
<1>4. seqs \in Seq(Seq(Aside))
  BY <1>3
<1> QED
  BY <1>1, <1>4, FlattenedIn

\* decompress_capsule, PFM included.
LEMMA DecompressAside ==
  ASSUME NEW i \in Images, NEW base \in {RecoveryStart, StagingStart}, NEW kinds
  PROVE  DecompressPlan(base, i, kinds) \in Seq(Aside)
<1> DEFINE defs == Layout(i).defs
           N == Len(defs)
           chosen == {n \in DOMAIN defs : Decompressed(defs[n], kinds)}
           regions == RegionsPlan(base, i, defs, chosen)
           pfm == IF "static" \in kinds THEN PfmPlan(base) ELSE <<>>
<1>1. N \in Nat /\ DOMAIN defs = 1..N
  BY DefsInOrder
<1>2. base \in Nat /\ base \in Page /\ CapsuleRegion(i, base) \subseteq Page
  BY PlacesApart, Starts
<1>3. \A n \in chosen : Span(defs[n]) \intersect RecoverySpace = {}
  BY RecoveryApart DEF Decompressed, Dynamic
<1>4. regions \in Seq(Aside)
  <2>1. chosen \in SUBSET (1..N)
    BY <1>1
  <2> HIDE DEF defs, N, chosen
  <2> QED
    BY <1>1, <1>2, <1>3, <2>1, RegionsAside
<1>5. PfmPlan(base) \in Seq(Aside)
  <2> DEFINE c == Command("pfm", PfmStart, base)
  <2>1. /\ PfmStart \in Nat /\ PfmPages \in Nat \ {0} /\ PfmStart \in Page /\ PfmStart \notin RecoverySpace
        /\ PfmRegion = PfmStart..(PfmStart + PfmPages) - 1 /\ PfmStart + PfmPages <= Pages
    BY Starts, RegionEnd, RecoveryApart DEF PfmRegion
  <2>2. ErasePlan(PfmStart, PfmStart + PfmPages) \in Seq(Aside)
    <3>1. ErasePlan(PfmStart, PfmStart + PfmPages) \in Seq(Erasures(PfmRegion))
      BY <2>1, EraseIn
    <3> QED
      BY <3>1, RecoveryApart, ErasuresAside
  <2>3. c \in Orders /\ c.op = "pfm" /\ c.at = PfmStart
    BY <1>2, <2>1 DEF Orders, Command
  <2>4. PfmPlan(base) = ErasePlan(PfmStart, PfmStart + PfmPages) \o <<c>>
    BY DEF PfmPlan
  <2> HIDE DEF c
  <2>5. c \in Aside
    BY <2>1, <2>3 DEF Aside, Targets
  <2> QED
    BY <2>2, <2>4, <2>5, SeqFacts
<1>6. DecompressPlan(base, i, kinds) = regions \o pfm
  BY DEF DecompressPlan, PfmPlan
<1> HIDE DEF regions
<1> QED
  BY <1>4, <1>5, <1>6, SeqFacts

\* What a decompression is for leaves the recovery space as it was.
LEMMA AimAside ==
  ASSUME NEW flash, NEW i, NEW pages, pages \intersect RecoverySpace = {}, NEW withPfm
  PROVE  \A p \in RecoverySpace : RestoredFrom(flash, i, pages, withPfm)[p] = flash[p]
  BY RecoveryApart DEF RestoredFrom

\* Nor does decompress_capsule copy to it.
LEMMA DecompressedAside ==
  ASSUME NEW i \in Images, NEW kinds
  PROVE  DecompressedPages(i, kinds) \intersect RecoverySpace = {}
  BY RecoveryApart DEF DecompressedPages, UnionOf, Decompressed, Dynamic

\* memcpy_signed_payload: the header is erased first.
LEMMA PromoteIn ==
  ASSUME NEW i \in Images
  PROVE  /\ PromotePlan(i) \in Seq(Promotions(i)) /\ PromotePlan(i) # <<>>
         /\ Erases(Head(PromotePlan(i))) /\ RecoveryStart \in Targets(Head(PromotePlan(i)))
<1> DEFINE k == CapsulePages(i)
           erase == ErasePlan(RecoveryStart, RecoveryStart + k)
           copies == [n \in 1..k |-> Command("copy", RecoveryStart + n - 1, StagingStart + n - 1)]
<1>1. /\ RecoveryStart \in Nat /\ StagingStart \in Nat /\ k \in Nat \ {0}
      /\ CapsuleRegion(i, RecoveryStart) = RecoveryStart..RecoveryStart + k - 1
      /\ CapsuleRegion(i, StagingStart) = StagingStart..StagingStart + k - 1
      /\ CapsuleRegion(i, RecoveryStart) \subseteq Page /\ CapsuleRegion(i, StagingStart) \subseteq Page
  BY PlacesApart, CapsuleLayout DEF CapsuleRegion
<1>2. PromotePlan(i) = erase \o copies
  BY DEF PromotePlan
<1> HIDE DEF k
<1>3. /\ RecoveryStart + k \in Nat /\ RecoveryStart < RecoveryStart + k /\ RecoveryStart + k <= Pages
  <2>1. RecoveryStart..RecoveryStart + k - 1 \subseteq Page
    BY <1>1
  <2>2. RecoveryStart + k <= Pages
    BY <1>1, <2>1, RegionEnd
  <2> QED
    BY <1>1, <2>2
<1>4. /\ erase \in Seq(Erasures(CapsuleRegion(i, RecoveryStart))) /\ erase # <<>>
      /\ Erases(Head(erase)) /\ RecoveryStart \in Targets(Head(erase))
  BY <1>1, <1>3, EraseIn
<1>5. erase \in Seq(Promotions(i))
  <2>1. Erasures(CapsuleRegion(i, RecoveryStart)) \subseteq Promotions(i)
    BY DEF Erasures, Promotions
  <2> QED
    BY <1>4, <2>1, SeqFacts
<1>6. ASSUME NEW n \in 1..k
      PROVE  Command("copy", RecoveryStart + n - 1, StagingStart + n - 1) \in Promotions(i)
  <2> DEFINE c == Command("copy", RecoveryStart + n - 1, StagingStart + n - 1)
  <2>1. /\ RecoveryStart + n - 1 \in CapsuleRegion(i, RecoveryStart)
        /\ StagingStart + n - 1 \in CapsuleRegion(i, StagingStart)
        /\ RecoveryStart + n - 1 = RecoveryStart => StagingStart + n - 1 = StagingStart
    BY <1>1
  <2>2. /\ c.op = "copy" /\ c.at = RecoveryStart + n - 1 /\ c.from = StagingStart + n - 1
    BY DEF Command
  <2>3. c \in Orders
    BY <1>1, <2>1 DEF Orders, Command
  <2> HIDE DEF c
  <2>4. Targets(c) = {c.at}
    BY <2>2 DEF Targets
  <2> QED
    BY <2>1, <2>2, <2>3, <2>4 DEF Promotions, c
<1>7. copies \in [1..k -> Promotions(i)]
  BY <1>6
<1> HIDE DEF copies, erase
<1>8. copies \in Seq(Promotions(i))
  BY <1>1, <1>7
<1>9. PromotePlan(i) \in Seq(Promotions(i))
  BY <1>2, <1>5, <1>8, SeqFacts
<1>10. erase \o copies # <<>> /\ Head(erase \o copies) = Head(erase)
  BY <1>4, <1>5, <1>8
<1> QED
  BY <1>2, <1>4, <1>9, <1>10

(***************************************************************************)
(* One copy or the other.                                                  *)
(***************************************************************************)
\* The active region authenticates; the recovery region holds a whole capsule.
Serving(flash) == \E i \in Images : AuthenticIn(flash, i)
Whole(flash)   == \E i \in Images : CapsuleIn(flash, i, RecoveryStart)

\* Promotion under way: of the firmware in service, header from header.
Promoting(i, flash, cmds) ==
  /\ AuthenticIn(flash, i) /\ CapsuleIn(flash, i, StagingStart)
  /\ cmds \in Seq(Promotions(i))
  /\ \/ flash[RecoveryStart] \in {Erased, Junk, Header(i)}
     \/ cmds # <<>> /\ Erases(Head(cmds)) /\ RecoveryStart \in Targets(Head(cmds))

\* Which copy the commands still to give leave alone.
SafePlan(flash, cmds) ==
  \/ cmds = <<>> /\ Serving(flash)
  \/ cmds \in Seq(Aside) /\ Whole(flash)
  \/ \E i \in Images : Promoting(i, flash, cmds)
PlanSafe == SafePlan(page, plan)

\* A page only comes to hold firmware when it was erased.
Stepped(was, is) == is \in {was, Erased, Junk} \/ was = Erased

\* The two images of a flash.
ActiveAt(flash) ==
  Content({i \in IF Len(flash[PfmStart]) = 1 THEN {} ELSE {flash[PfmStart][2]} :
             AuthenticIn(flash, i)})
RecoveryAt(flash) ==
  Content({i \in IF Len(flash[RecoveryStart]) = 1 THEN {} ELSE {flash[RecoveryStart][2]} :
             CapsuleIn(flash, i, RecoveryStart)})

\* Headers and PFMs are of one firmware, and no blank page.
LEMMA NamesTell ==
  ASSUME NEW i, NEW j
  PROVE  /\ (Header(i) = Header(j) => i = j) /\ (Pfm(i) = Pfm(j) => i = j)
         /\ Header(i) \notin {Erased, Junk} /\ Pfm(i) \notin {Erased, Junk}
  BY DEF Header, Pfm, Erased, Junk

\* ActiveImage and RecoveryImage, before and after a step.
LEMMA ImagesAt ==
  /\ ActiveImage = ActiveAt(page) /\ RecoveryImage = RecoveryAt(page)
  /\ ActiveImage' = ActiveAt(page') /\ RecoveryImage' = RecoveryAt(page')
  BY DEF ActiveImage, RecoveryImage, ActiveAt, RecoveryAt, Named, Authentic, AuthenticIn,
         CapsulesAt, CapsuleIn, Content

\* What they are.
LEMMA ImagesAre ==
  ASSUME NEW flash \in [Page -> Contents(Images)]
  PROVE  /\ \A i \in Images : AuthenticIn(flash, i) => ActiveAt(flash) = i
         /\ ~Serving(flash) => ActiveAt(flash) = Junk
         /\ \A i \in Images : CapsuleIn(flash, i, RecoveryStart) => RecoveryAt(flash) = i
         /\ ~Whole(flash) => RecoveryAt(flash) = Junk
<1> DEFINE pfm == flash[PfmStart]
           named == IF Len(pfm) = 1 THEN {} ELSE {pfm[2]}
           A == {i \in named : AuthenticIn(flash, i)}
           head == flash[RecoveryStart]
           headed == IF Len(head) = 1 THEN {} ELSE {head[2]}
           R == {i \in headed : CapsuleIn(flash, i, RecoveryStart)}
<1>1. pfm \in Contents(Images) /\ head \in Contents(Images)
  BY Starts
<1>2. ASSUME NEW i, AuthenticIn(flash, i) PROVE pfm = Pfm(i) /\ i \in Images /\ A = {i}
  <2>1. pfm = Pfm(i)
    BY <1>2 DEF AuthenticIn
  <2>2. i \in Images
    BY <1>1, <2>1, ContentsTell
  <2>3. named = {i}
    BY <2>1, Headers
  <2> HIDE DEF named
  <2> QED
    BY <1>2, <2>1, <2>2, <2>3
<1>3. ASSUME NEW i, CapsuleIn(flash, i, RecoveryStart)
      PROVE  head = Header(i) /\ i \in Images /\ R = {i}
  <2>1. head = Header(i)
    BY <1>3 DEF CapsuleIn
  <2>2. i \in Images
    BY <1>1, <2>1, ContentsTell
  <2>3. headed = {i}
    BY <2>1, Headers
  <2> HIDE DEF headed
  <2> QED
    BY <1>3, <2>1, <2>2, <2>3
<1>4. ActiveAt(flash) = Content(A) /\ RecoveryAt(flash) = Content(R)
  BY DEF ActiveAt, RecoveryAt
<1>5. \A i : Content({i}) = i
  BY DEF Content
<1>6. Content({}) = Junk
  BY DEF Content
<1>7. ~Serving(flash) => A = {}
  BY <1>2 DEF Serving
<1>8. ~Whole(flash) => R = {}
  BY <1>3 DEF Whole
<1> HIDE DEF A, R
<1> QED
  BY <1>2, <1>3, <1>4, <1>5, <1>6, <1>7, <1>8

\* A step that leaves the flash alone.
LEMMA StoreSame ==
  ASSUME page' = page
  PROVE  UNCHANGED Store!store
  BY ImagesAt DEF Store!store

\* A step that leaves a whole recovery capsule alone.
LEMMA ActiveStep ==
  ASSUME page \in [Page -> Contents(Images)], page' \in [Page -> Contents(Images)],
         Whole(page), Stepped(page[PfmStart], page'[PfmStart]),
         \A i \in Images : CapsuleIn(page', i, RecoveryStart) <=> CapsuleIn(page, i, RecoveryStart)
  PROVE  [Store!Next]_(Store!store) /\ Whole(page')
<1>1. PICK k \in Images : CapsuleIn(page, k, RecoveryStart) /\ CapsuleIn(page', k, RecoveryStart)
  BY DEF Whole
<1>2. RecoveryImage = k /\ RecoveryImage' = k
  BY <1>1, ImagesAt, ImagesAre
<1>3. CASE ~Serving(page')
  <2>1. ActiveImage' = Junk
    BY <1>3, ImagesAt, ImagesAre
  <2> QED
    BY <1>1, <1>2, <2>1 DEF Store!Next, Store!TakeApart, Whole
<1>4. CASE ~Serving(page) /\ Serving(page')
  <2>1. ActiveImage = Junk /\ ActiveImage' \in Images
    BY <1>4, ImagesAt, ImagesAre DEF Serving
  <2>2. ActiveImage' \in {i \in Images : [j \in Images |-> 0][i] >= 0}
    BY <2>1
  <2> QED
    BY <1>1, <1>2, <2>1, <2>2 DEF Store!Next, Store!Install, Store!Allowed, Whole
<1>5. CASE Serving(page) /\ Serving(page')
  <2>1. PICK i \in Images, j \in Images : AuthenticIn(page, i) /\ AuthenticIn(page', j)
    BY <1>5 DEF Serving
  <2>2. page[PfmStart] = Pfm(i) /\ page'[PfmStart] = Pfm(j)
    BY <2>1 DEF AuthenticIn
  <2>3. i = j
    BY <2>2, NamesTell DEF Stepped
  <2>4. ActiveImage = i /\ ActiveImage' = i
    BY <2>1, <2>3, ImagesAt, ImagesAre
  <2> QED
    BY <1>1, <1>2, <2>4 DEF Store!store, Whole
<1> QED
  BY <1>3, <1>4, <1>5

\* A step that leaves an active region that authenticates alone, and brings no
\* other capsule about than its own.
LEMMA RecoveryStep ==
  ASSUME page \in [Page -> Contents(Images)], page' \in [Page -> Contents(Images)],
         NEW i \in Images, AuthenticIn(page, i), AuthenticIn(page', i),
         Stepped(page[RecoveryStart], page'[RecoveryStart]),
         \A j \in Images : CapsuleIn(page', j, RecoveryStart) =>
           j = i \/ CapsuleIn(page, j, RecoveryStart)
  PROVE  [Store!Next]_(Store!store)
<1>1. ActiveImage = i /\ ActiveImage' = i
  BY ImagesAt, ImagesAre
<1>2. CASE ~Whole(page')
  <2>1. RecoveryImage' = Junk
    BY <1>2, ImagesAt, ImagesAre
  <2> QED
    BY <1>1, <2>1 DEF Store!Next, Store!Discard
<1>3. CASE Whole(page) /\ Whole(page')
  <2>1. PICK j \in Images, k \in Images :
          CapsuleIn(page, j, RecoveryStart) /\ CapsuleIn(page', k, RecoveryStart)
    BY <1>3 DEF Whole
  <2>2. page[RecoveryStart] = Header(j) /\ page'[RecoveryStart] = Header(k)
    BY <2>1 DEF CapsuleIn
  <2>3. j = k
    BY <2>2, NamesTell DEF Stepped
  <2>4. RecoveryImage = j /\ RecoveryImage' = j
    BY <2>1, <2>3, ImagesAt, ImagesAre
  <2> QED
    BY <1>1, <2>4 DEF Store!store
<1>4. CASE ~Whole(page) /\ Whole(page')
  <2>1. RecoveryImage = Junk
    BY <1>4, ImagesAt, ImagesAre
  <2>2. PICK j \in Images : CapsuleIn(page', j, RecoveryStart)
    BY <1>4 DEF Whole
  <2>3. j = i
    BY <1>4, <2>2 DEF Whole
  <2>4. RecoveryImage' = i
    BY <2>2, <2>3, ImagesAt, ImagesAre
  <2> QED
    BY <1>1, <2>1, <2>4 DEF Store!Next, Store!Promote
<1> QED
  BY <1>2, <1>3, <1>4

(***************************************************************************)
(* Commands and the two copies.                                            *)
(***************************************************************************)
\* Flashes that agree on the recovery space hold the same recovery capsule.
LEMMA SameCapsules ==
  ASSUME NEW f, NEW g, \A p \in RecoverySpace : g[p] = f[p], NEW i \in Images
  PROVE  CapsuleIn(g, i, RecoveryStart) <=> CapsuleIn(f, i, RecoveryStart)
<1>1. RecoveryStart \in RecoverySpace
  BY Starts, CapsuleLayout, RecoveryApart
<1>2. \A p \in Layout(i).comp : RecoveryStart + 1 + Rank(i, p) \in RecoverySpace
  BY Starts, CapsuleLayout, RecoveryApart
<1> QED
  BY <1>1, <1>2 DEF CapsuleIn

\* Flashes that agree outside of it are the same active region and staged capsule.
LEMMA SameActive ==
  ASSUME NEW f, NEW g, \A p \in Page \ RecoverySpace : g[p] = f[p], NEW i \in Images
  PROVE  /\ AuthenticIn(f, i) => AuthenticIn(g, i)
         /\ CapsuleIn(f, i, StagingStart) => CapsuleIn(g, i, StagingStart)
<1>1. PfmStart \in Page \ RecoverySpace
  BY Starts, RecoveryApart
<1>2. ASSUME NEW n \in DOMAIN Layout(i).defs, Static(Layout(i).defs[n]),
             Layout(i).defs[n].hashed, NEW p \in Span(Layout(i).defs[n])
      PROVE  p \in Page \ RecoverySpace
  BY <1>2, LayoutAssumption, PlacesOf, RecoveryApart
<1>3. AuthenticIn(f, i) => AuthenticIn(g, i)
  BY <1>1, <1>2 DEF AuthenticIn
<1>4. CapsuleRegion(i, StagingStart) \subseteq Page \ RecoverySpace
  BY PlacesApart, RecoveryApart
<1>5. StagingStart \in Page \ RecoverySpace
  BY <1>4, Starts, CapsuleLayout
<1>6. \A p \in Layout(i).comp : StagingStart + 1 + Rank(i, p) \in Page \ RecoverySpace
  BY <1>4, Starts, CapsuleLayout
<1> QED
  BY <1>3, <1>5, <1>6 DEF CapsuleIn

\* A command, whether it is carried out or torn, programs only what was erased.
LEMMA CommandSteps ==
  ASSUME NEW flash, NEW c \in Orders, NEW p \in Page
  PROVE  Stepped(flash[p], Commanded(flash, c)[p])
<1>1. CASE p \notin Targets(c)
  BY <1>1 DEF Commanded, Stepped
<1>2. CASE p \in Targets(c) /\ Erases(c)
  BY <1>2 DEF Commanded, Stepped, Erases, Result
<1>3. CASE p \in Targets(c) /\ ~Erases(c)
  <2>1. p = c.at
    BY <1>3 DEF Targets, Erases
  <2>2. Commanded(flash, c)[p] = Result(flash, c)
    BY <1>3 DEF Commanded
  <2>3. Result(flash, c) = Junk \/ flash[c.at] = Erased
    BY <1>3 DEF Result, Erases
  <2> QED
    BY <2>1, <2>2, <2>3 DEF Stepped
<1> QED
  BY <1>1, <1>2, <1>3

\* A command that leaves the recovery space alone.
LEMMA AsideKeeps ==
  ASSUME NEW flash, NEW c \in Aside
  PROVE  \A p \in RecoverySpace : Commanded(flash, c)[p] = flash[p]
<1>1. RecoverySpace \subseteq Page /\ Targets(c) \intersect RecoverySpace = {}
  BY RecoveryApart DEF Aside
<1> QED
  BY <1>1 DEF Commanded

\* A command of a promotion: the active region and the staged capsule stay, and
\* the header is at most that of the firmware in service.
LEMMA PromotionStep ==
  ASSUME NEW flash, NEW i \in Images, NEW cmds, cmds # <<>>, Promoting(i, flash, cmds)
  PROVE  LET new == Commanded(flash, Head(cmds))
         IN  /\ Head(cmds) \in Orders /\ Targets(Head(cmds)) \subseteq RecoverySpace
             /\ Promoting(i, new, Tail(cmds))
             /\ new[RecoveryStart] \in {Erased, Junk, Header(i)}
<1> DEFINE c == Head(cmds)
           new == Commanded(flash, c)
<1>1. /\ c \in Promotions(i) /\ Tail(cmds) \in Seq(Promotions(i))
  BY SeqFacts DEF Promoting
<1>2. /\ c \in Orders /\ Targets(c) \subseteq RecoverySpace
      /\ Erases(c) \/ (c.op = "copy" /\ (c.at = RecoveryStart => c.from = StagingStart))
  BY <1>1, RecoveryApart DEF Promotions
<1>3. /\ flash[StagingStart] = Header(i)
      /\ \/ flash[RecoveryStart] \in {Erased, Junk, Header(i)}
         \/ Erases(c) /\ RecoveryStart \in Targets(c)
  BY DEF Promoting, CapsuleIn
<1> HIDE DEF c
<1>4. \A p \in Page \ RecoverySpace : new[p] = flash[p]
  BY <1>2 DEF Commanded
<1>5. new[RecoveryStart] \in {Erased, Junk, Header(i)}
  <2>1. RecoveryStart \in Page
    BY Starts
  <2>2. CASE RecoveryStart \notin Targets(c)
    BY <1>3, <2>1, <2>2 DEF Commanded
  <2>3. CASE RecoveryStart \in Targets(c) /\ Erases(c)
    BY <2>1, <2>3 DEF Commanded, Result, Erases
  <2>4. CASE RecoveryStart \in Targets(c) /\ ~Erases(c)
    <3>1. c.op = "copy" /\ c.at = RecoveryStart /\ c.from = StagingStart
      BY <1>2, <2>4 DEF Targets
    <3>2. Result(flash, c) \in {Junk, Header(i)}
      BY <1>3, <3>1 DEF Result, Fresh
    <3> QED
      BY <2>1, <2>4, <3>2 DEF Commanded
  <2> QED
    BY <2>2, <2>3, <2>4
<1> HIDE DEF new
<1>6. AuthenticIn(new, i) /\ CapsuleIn(new, i, StagingStart)
  BY <1>4, SameActive DEF Promoting
<1>7. Promoting(i, new, Tail(cmds))
  BY <1>1, <1>5, <1>6 DEF Promoting
<1> QED
  BY <1>2, <1>5, <1>7 DEF c, new

\* Plans that are empty.
LEMMA NoCommands ==
  ASSUME NEW flash
  PROVE  SafePlan(flash, <<>>) <=> Serving(flash) \/ Whole(flash)
<1>1. ASSUME NEW i \in Images, Promoting(i, flash, <<>>) PROVE Serving(flash)
  BY <1>1 DEF Promoting, Serving
<1> QED
  BY <1>1, SeqFacts DEF SafePlan

\* A capsule is only found where there is one.
LEMMA CapsuleFound ==
  ASSUME TypeInv, NEW base \in {RecoveryStart, StagingStart}
  PROVE  /\ CapsulesAt(base) # {} => CapsuleIn(page, CapsuleAt(base), base)
         /\ \A i \in CapsulesAt(base) : i = CapsuleAt(base)
<1>1. \A i \in CapsulesAt(base) : page[base] = Header(i)
  BY DEF CapsulesAt
<1>2. CapsulesAt(base) # {} => CapsuleAt(base) \in CapsulesAt(base)
  BY DEF CapsuleAt
<1>3. \A i \in CapsulesAt(base) : i = CapsuleAt(base)
  BY <1>1, <1>2, NamesTell
<1> QED
  BY <1>2, <1>3 DEF CapsulesAt, CapsuleIn

\* check_capsule_before_fw_recovery_update admits the firmware in service, and
\* nothing else.
LEMMA PromotesInService ==
  ASSUME TypeInv, Serving(page), Promotable(FALSE)
  PROVE  LET i == CapsuleAt(StagingStart)
         IN  i \in Images /\ i \in Live /\ Readable(page, i, StagingStart)
             /\ Promoting(i, page, PromotePlan(i))
<1> DEFINE i == CapsuleAt(StagingStart)
<1>1. PICK j \in CapsulesAt(StagingStart) : page[PfmStart] = Pfm(j)
  BY DEF Promotable
<1>2. j = i /\ i \in Live /\ Readable(page, i, StagingStart)
  BY <1>1, CapsuleFound, CapsulesFound
<1> HIDE DEF i
<1>3. PICK k \in Images : AuthenticIn(page, k)
  BY DEF Serving
<1>4. k = i
  BY <1>1, <1>2, <1>3, NamesTell DEF AuthenticIn
<1>5. PromotePlan(i) \in Seq(Promotions(i)) /\ PromotePlan(i) # <<>>
      /\ Erases(Head(PromotePlan(i))) /\ RecoveryStart \in Targets(Head(PromotePlan(i)))
  BY <1>3, <1>4, PromoteIn
<1>6. Promoting(i, page, PromotePlan(i))
  BY <1>2, <1>3, <1>4, <1>5 DEF Promoting, Readable
<1> QED
  BY <1>2, <1>3, <1>4, <1>6 DEF i

(***************************************************************************)
(* The invariant of the two copies.                                        *)
(***************************************************************************)
\* What tells the handlers that the copy they do without is not the last one.
RepairInv ==
  /\ pc = "pend" => goal = NoGoal /\ (ram.pending => Serving(page))
  /\ vetting \in {"none", "vetted"}
  /\ vetting = "vetted" => pc \in {"pend", "wdt", "intent"} /\ Whole(Final)
  /\ pc \in {"authAct", "apply", "entry", "t0"} /\ ram.state = "ok" => Whole(Final)
  /\ pc = "t0" => ram.state # "allFailed"

SafeInv == FlashInv /\ RepairInv /\ PlanSafe

\* SafePlan and RepairInv after a step.
LEMMA SafeNext ==
  /\ SafePlan(page', plan') => PlanSafe'
  /\ /\ pc' = "pend" => goal' = NoGoal /\ (ram'.pending => Serving(page'))
     /\ vetting' \in {"none", "vetted"}
     /\ vetting' = "vetted" => pc' \in {"pend", "wdt", "intent"} /\ Whole(Final')
     /\ pc' \in {"authAct", "apply", "entry", "t0"} /\ ram'.state = "ok" => Whole(Final')
     /\ pc' = "t0" => ram'.state # "allFailed"
     => RepairInv'
<1>1. SafePlan(page', plan') => PlanSafe'
  BY DEF PlanSafe, SafePlan, Serving, Whole, Promoting, AuthenticIn, CapsuleIn
<1>2. (Serving(page)' <=> Serving(page')) /\ (Whole(Final)' <=> Whole(Final'))
  BY DEF Serving, Whole, AuthenticIn, CapsuleIn
<1> QED
  BY <1>1, <1>2 DEF RepairInv

\* The flash holds firmware on the list.
LEMMA SafeTypes ==
  ASSUME FlashInv
  PROVE  /\ page \in [Page -> Contents(Images)] /\ Live \subseteq Images
         /\ Serving(page) <=> ActiveValid
         /\ Whole(page) <=> CapsulesAt(RecoveryStart) # {}
<1>1. Live \subseteq Images /\ page \in [Page -> Contents(Live)]
  BY ActiveIs DEF FlashInv, TypeInv
<1>2. page \in [Page -> Contents(Images)]
  BY <1>1, ContentsGrow
<1>3. Serving(page) <=> ActiveValid
  <2>1. ASSUME NEW i \in Images, AuthenticIn(page, i) PROVE i \in Live
    <3>1. page[PfmStart] = Pfm(i) /\ page[PfmStart] \in Contents(Live)
      BY <1>1, <2>1, Starts DEF AuthenticIn
    <3> QED
      BY <3>1, ContentsTell
  <2> QED
    BY <1>1, <2>1, ActiveIs DEF Serving, FlashInv
<1>4. Whole(page) <=> CapsulesAt(RecoveryStart) # {}
  BY <1>1, CapsulesFound DEF Whole, FlashInv, Readable
<1> QED
  BY <1>1, <1>2, <1>3, <1>4

\* A handler that gives no commands and leaves the flash alone.
LEMMA IdleStep ==
  ASSUME SafeInv, plan = <<>>, plan' = <<>>, page' = page
  PROVE  PlanSafe' /\ [Store!Next]_(Store!store)
<1>1. SafePlan(page', plan')
  BY DEF SafeInv, PlanSafe
<1> QED
  BY <1>1, SafeNext, StoreSame

\* Power may fail in the middle of any command, or a command is given.
LEMMA CommandSafe ==
  ASSUME SafeInv, plan # <<>>, NEW c, c = Head(plan), page' \in [Page -> Contents(Images)],
         \/ page' = Commanded(page, c) /\ plan' = Tail(plan)
         \/ /\ page' = [p \in Page |-> IF p \in Targets(c) THEN Junk ELSE page[p]]
            /\ plan' = <<>>
  PROVE  PlanSafe' /\ [Store!Next]_(Store!store)
<1>1. page \in [Page -> Contents(Images)] /\ plan \in Plans /\ c \in Orders
  BY SafeTypes, SeqFacts DEF SafeInv, FlashInv, TypeInv, Plans
<1>2. \A p \in Page : Stepped(page[p], page'[p])
  BY <1>1, CommandSteps DEF Stepped
<1>3. \A p \in Page : p \notin Targets(c) => page'[p] = page[p]
  BY DEF Commanded
<1>4. RecoverySpace \subseteq Page /\ PfmStart \in Page /\ RecoveryStart \in Page
  BY RecoveryApart, Starts
<1>5. CASE plan \in Seq(Aside) /\ Whole(page)
  <2>1. c \in Aside /\ Tail(plan) \in Seq(Aside)
    BY <1>5, SeqFacts
  <2>2. \A p \in RecoverySpace : page'[p] = page[p]
    BY <1>3, <1>4, <2>1 DEF Aside
  <2>3. \A i \in Images :
          CapsuleIn(page', i, RecoveryStart) <=> CapsuleIn(page, i, RecoveryStart)
    BY <2>2, SameCapsules
  <2>4. [Store!Next]_(Store!store) /\ Whole(page')
    BY <1>1, <1>2, <1>4, <1>5, <2>3, ActiveStep
  <2>5. plan' \in Seq(Aside)
    BY <2>1, SeqFacts
  <2> QED
    BY <2>4, <2>5, SafeNext DEF SafePlan
<1>6. ASSUME NEW i \in Images, Promoting(i, page, plan)
      PROVE  PlanSafe' /\ [Store!Next]_(Store!store)
  <2>1. /\ Targets(c) \subseteq RecoverySpace
        /\ Promoting(i, Commanded(page, c), Tail(plan))
        /\ Commanded(page, c)[RecoveryStart] \in {Erased, Junk, Header(i)}
    BY <1>6, PromotionStep
  <2>2. \A p \in Page \ RecoverySpace : page'[p] = page[p]
    BY <1>3, <2>1
  <2>3. AuthenticIn(page, i) /\ AuthenticIn(page', i)
    BY <1>6, <2>2, SameActive DEF Promoting
  <2>4. page'[RecoveryStart] \in {Erased, Junk, Header(i)}
    BY <1>4, <2>1 DEF Commanded
  <2>5. \A j \in Images : CapsuleIn(page', j, RecoveryStart) => j = i
    BY <2>4, NamesTell DEF CapsuleIn
  <2>6. [Store!Next]_(Store!store)
    BY <1>1, <1>2, <1>4, <2>3, <2>5, RecoveryStep
  <2>7. SafePlan(page', plan')
    <3>1. CASE page' = Commanded(page, c) /\ plan' = Tail(plan)
      BY <2>1, <3>1 DEF SafePlan
    <3>2. CASE plan' = <<>>
      BY <2>3, <3>2 DEF SafePlan, Serving
    <3> QED
      BY <3>1, <3>2
  <2> QED
    BY <2>6, <2>7, SafeNext
<1> QED
  BY <1>5, <1>6 DEF SafeInv, PlanSafe, SafePlan

(***************************************************************************)
(* Every step keeps it, and is one of FailsafeStore.                       *)
(***************************************************************************)
\* process_pending_recovery_update
LEMMA PendSafe == SafeInv /\ Pend => RepairInv' /\ PlanSafe' /\ [Store!Next]_(Store!store)
<1> SUFFICES ASSUME SafeInv, Pend
             PROVE  RepairInv' /\ PlanSafe' /\ [Store!Next]_(Store!store)
  OBVIOUS
<1>1. /\ pc = "pend" /\ plan = <<>> /\ pc' = "wdt" /\ page' = page /\ vetting' = vetting
      /\ TypeInv /\ PlanInv /\ RepairInv /\ vetting \in {"none", "vetted"}
  BY DEF Pend, At, SafeInv, FlashInv, RepairInv
<1>2. Final = page
  BY <1>1, AtHandler
<1>3. CASE ram.pending /\ Promotable(FALSE)
  <2> DEFINE i == CapsuleAt(StagingStart)
             aim == Over(Capsule(i, RecoveryStart))
  <2>1. Serving(page)
    BY <1>1, <1>3 DEF RepairInv
  <2>2. /\ i \in Images /\ i \in Live /\ Readable(page, i, StagingStart)
        /\ Promoting(i, page, PromotePlan(i))
    BY <1>1, <1>3, <2>1, PromotesInService
  <2>3. Give(PromotePlan(i), aim)
    BY <1>3 DEF Pend
  <2> HIDE DEF i
  <2>4. SafePlan(page', plan')
    BY <1>1, <2>2, <2>3 DEF Give, SafePlan
  <2>5. Whole(aim)
    BY <2>2, AimsAre, CapsuleThere, PlacesApart DEF Whole
  <2>6. aim \in [Page -> Contents(Live)] /\ PromotePlan(i) \in Plans /\ Leads(PromotePlan(i), page, aim)
    BY <1>1, <2>2, PromoteLeads, AimsAre, AimTypes DEF TypeInv
  <2> DEFINE cmds == PromotePlan(i)
  <2>7. cmds \in Plans /\ Leads(cmds, page, aim) /\ Give(cmds, aim) /\ UNCHANGED page
    BY <1>1, <2>3, <2>6
  <2> HIDE DEF aim, cmds
  <2>8. Final' = aim
    BY <2>6, <2>7, GiveStep
  <2> QED
    BY <1>1, <2>4, <2>5, <2>8, SafeNext, StoreSame
<1>4. CASE ~(ram.pending /\ Promotable(FALSE))
  <2>1. NoPlan
    BY <1>4 DEF Pend
  <2>2. Final' = page /\ plan' = <<>>
    BY <1>1, <2>1, NoPlanStep DEF NoPlan
  <2> QED
    BY <1>1, <1>2, <2>2, IdleStep, SafeNext DEF RepairInv
<1> QED
  BY <1>3, <1>4

\* A handler that restores from a capsule, with the recovery capsule whole.
LEMMA RestoreStep ==
  ASSUME SafeInv, plan = <<>>, page' = page, Whole(page),
         NEW cmds \in Plans, cmds \in Seq(Aside), NEW i \in Images, NEW pages, NEW withPfm,
         pages \intersect RecoverySpace = {}, NEW aim \in [Page -> Contents(Images)],
         aim = RestoredFrom(page, i, pages, withPfm),
         Leads(cmds, page, aim), Give(cmds, aim)
  PROVE  PlanSafe' /\ [Store!Next]_(Store!store) /\ Whole(Final')
<1>1. Final' = aim
  <2>1. DOMAIN aim # {} /\ goal' = aim
    BY Starts DEF Give
  <2>2. aim # NoGoal
    BY <2>1 DEF NoGoal
  <2> QED
    BY <2>1, <2>2 DEF Final
<1>2. \A p \in RecoverySpace : aim[p] = page[p]
  BY AimAside
<1>3. Whole(aim)
  BY <1>2, SameCapsules DEF Whole
<1>4. SafePlan(page', plan')
  BY DEF Give, SafePlan
<1> QED
  BY <1>1, <1>3, <1>4, SafeNext, StoreSame

\* perform_wdt_recovery
LEMMA WdtSafe == SafeInv /\ Wdt => RepairInv' /\ PlanSafe' /\ [Store!Next]_(Store!store)
<1> SUFFICES ASSUME SafeInv, Wdt
             PROVE  RepairInv' /\ PlanSafe' /\ [Store!Next]_(Store!store)
  OBVIOUS
<1>1. /\ pc = "wdt" /\ plan = <<>> /\ pc' = "intent" /\ page' = page /\ vetting' = vetting
      /\ FlashInv /\ TypeInv /\ PlanInv /\ RepairInv /\ vetting \in {"none", "vetted"}
  BY DEF Wdt, At, SafeInv, FlashInv, RepairInv
<1>2. Final = page
  BY <1>1, AtHandler
<1>3. CASE ram.wdt /\ CapsulesAt(RecoveryStart) # {}
  <2> DEFINE i == CapsuleAt(RecoveryStart)
             Again(d) == Dynamic(d) /\ RecoveryBit(ram.level) \in d.mask
             again == {n \in DOMAIN ActiveBody : Again(ActiveBody[n])}
             static == \E n \in DOMAIN ActiveBody, level \in 1..3 :
                         Static(ActiveBody[n]) /\ RecoveryBit(level) \in ActiveBody[n].mask
             kinds == IF static THEN {"static"} ELSE {}
             pages == UnionOf(ActiveBody, Again) \union DecompressedPages(i, kinds)
             regions == RegionsPlan(RecoveryStart, i, ActiveBody, again)
             cmds == regions \o DecompressPlan(RecoveryStart, i, kinds)
             aim == RestoredFrom(page, i, pages, "static" \in kinds)
  <2>1. i \in Live /\ i \in Images /\ Readable(page, i, RecoveryStart) /\ Whole(page)
    BY <1>1, <1>3, CapsulesFound, SafeTypes
  <2>2. static <=> "static" \in kinds
    OBVIOUS
  <2>3. Give(cmds, Restored(i, pages, static))
    BY <1>3 DEF Wdt, DecompressedPages
  <2>4. /\ again \in SUBSET DOMAIN ActiveBody /\ \A n \in again : Dynamic(ActiveBody[n])
        /\ SpansOf(ActiveBody, again) = UnionOf(ActiveBody, Again)
    BY DEF SpansOf, UnionOf
  <2>5. cmds \in Plans /\ Leads(cmds, page, aim)
    <3> HIDE DEF i, kinds, again
    <3> QED
      BY <1>1, <2>1, <2>4, WdtLeads
  <2>6. \A n \in again : Span(ActiveBody[n]) \intersect RecoverySpace = {}
    <3> SUFFICES ASSUME NEW n \in again PROVE Span(ActiveBody[n]) \intersect RecoverySpace = {}
      OBVIOUS
    <3>1. Writable(ActiveBody[n]) /\ n \in DOMAIN ActiveBody /\ ActiveBody # <<>>
      BY <2>4 DEF Dynamic
    <3>2. PICK j \in Live : ActiveBody = Layout(j).defs
      BY <1>1, <3>1, ActiveIs
    <3> QED
      BY <1>1, <3>1, <3>2, ActiveIs, RecoveryApart
  <2>7. regions \in Seq(Aside)
    <3>1. PICK N \in Nat : DOMAIN ActiveBody = 1..N
      <4>1. CASE ActiveBody = <<>>
        <5>1. DOMAIN ActiveBody = 1..0
          BY <4>1
        <5> QED
          BY <5>1
      <4>2. ASSUME NEW j \in Live, ActiveBody = Layout(j).defs
            PROVE  DOMAIN ActiveBody = 1..Len(Layout(j).defs) /\ Len(Layout(j).defs) \in Nat
        BY <1>1, <4>2, ActiveIs, DefsInOrder
      <4> QED
        BY <1>1, <4>1, <4>2, ActiveIs
    <3>2. CapsuleRegion(i, RecoveryStart) \subseteq Page /\ RecoveryStart \in Nat
      BY <2>1, PlacesApart
    <3> HIDE DEF i, again
    <3> QED
      BY <2>1, <2>4, <2>6, <3>1, <3>2, RegionsAside
  <2>8. pages \intersect RecoverySpace = {}
    <3>1. UnionOf(ActiveBody, Again) \intersect RecoverySpace = {}
      BY <2>4, <2>6 DEF SpansOf
    <3>2. DecompressedPages(i, kinds) \intersect RecoverySpace = {}
      <4> HIDE DEF i, kinds
      <4> QED
        BY <2>1, DecompressedAside
    <3> HIDE DEF Again, i, kinds
    <3> QED
      BY <3>1, <3>2
  <2> HIDE DEF i, static, kinds, pages, regions, Again, again
  <2>9. cmds \in Seq(Aside)
    BY <2>1, <2>7, DecompressAside, SeqFacts
  <2>10. Restored(i, pages, static) = aim
    <3>1. Restored(i, pages, static) = RestoredFrom(page, i, pages, static)
      BY AimsAre
    <3>2. RestoredFrom(page, i, pages, static) = aim
      BY <2>2 DEF RestoredFrom
    <3> QED
      BY <3>1, <3>2
  <2>11. aim \in [Page -> Contents(Images)]
    BY <1>1, <2>1, SafeTypes, AimTypes
  <2>12. aim = RestoredFrom(page, i, pages, "static" \in kinds)
    OBVIOUS
  <2> HIDE DEF aim, cmds
  <2>13. PlanSafe' /\ [Store!Next]_(Store!store) /\ Whole(Final')
    BY <1>1, <2>1, <2>3, <2>5, <2>8, <2>9, <2>10, <2>11, <2>12, RestoreStep
  <2> QED
    BY <1>1, <2>13, SafeNext
<1>4. CASE ~(ram.wdt /\ CapsulesAt(RecoveryStart) # {})
  <2>1. NoPlan
    BY <1>4 DEF Wdt
  <2>2. Final' = page /\ plan' = <<>>
    BY <1>1, <2>1, NoPlanStep DEF NoPlan
  <2> QED
    BY <1>1, <1>2, <2>2, IdleStep, SafeNext DEF RepairInv
<1> QED
  BY <1>3, <1>4

\* act_on_bmc_update_intent: there is a copy to go back to, seen by T0 or there.
LEMMA IntentSafe ==
  SafeInv /\ Intent /\ vetting' # "raced" => RepairInv' /\ PlanSafe' /\ [Store!Next]_(Store!store)
<1> SUFFICES ASSUME SafeInv, Intent, vetting' # "raced"
             PROVE  RepairInv' /\ PlanSafe' /\ [Store!Next]_(Store!store)
  OBVIOUS
<1>1. /\ pc = "intent" /\ plan = <<>> /\ pc' = "auth" /\ page' = page /\ vetting' = "none"
      /\ FlashInv /\ TypeInv /\ PlanInv /\ RepairInv
  BY DEF Intent, At, SafeInv, FlashInv, RepairInv, Vet
<1>2. Final = page
  BY <1>1, AtHandler
<1>3. RepairInv'
  BY <1>1, SafeNext
<1>4. CASE NoPlan /\ UNCHANGED ram
  BY <1>1, <1>3, <1>4, IdleStep DEF NoPlan
<1>5. CASE ~(NoPlan /\ UNCHANGED ram)
  <2> DEFINE i == CapsuleAt(StagingStart)
             kinds == IF intent \intersect {"BR", "dynamic"} # {}
                        THEN {"static", "dynamic"} ELSE {"static"}
             cmds == DecompressPlan(StagingStart, i, kinds)
             pages == DecompressedPages(i, kinds)
             aim == RestoredFrom(page, i, pages, "static" \in kinds)
  <2>1. /\ CapsulesAt(StagingStart) # {} /\ Give(cmds, DecompressGoal(i, kinds))
        /\ vetting = "none" => CapsulesAt(RecoveryStart) # {}
    BY <1>5 DEF Intent, SafeInv, RepairInv, Vet
  <2>2. i \in Live /\ i \in Images /\ Readable(page, i, StagingStart) /\ Whole(page)
    BY <1>1, <1>2, <2>1, CapsulesFound, SafeTypes DEF RepairInv
  <2> HIDE DEF i, kinds
  <2>3. cmds \in Plans /\ Leads(cmds, page, aim) /\ DecompressGoal(i, kinds) = aim
    BY <2>2, DecompressLeads, AimsAre
  <2>4. aim \in [Page -> Contents(Images)] /\ cmds \in Seq(Aside)
        /\ pages \intersect RecoverySpace = {}
    BY <1>1, <2>2, SafeTypes, AimTypes, DecompressAside, DecompressedAside
  <2>5. aim = RestoredFrom(page, i, pages, "static" \in kinds)
    OBVIOUS
  <2> HIDE DEF cmds, pages, aim
  <2> QED
    BY <1>1, <1>3, <2>1, <2>2, <2>3, <2>4, <2>5, RestoreStep
<1> QED
  BY <1>4, <1>5

\* A capsule that decays is not the last copy.
LEMMA DecaySafe == SafeInv /\ Decay => RepairInv' /\ PlanSafe' /\ [Store!Next]_(Store!store)
<1> SUFFICES ASSUME SafeInv, Decay
             PROVE  RepairInv' /\ PlanSafe' /\ [Store!Next]_(Store!store)
  OBVIOUS
<1>1. /\ pc = "auth" /\ pc' = "auth" /\ NoPlan /\ vetting' = vetting /\ ActiveValid
      /\ page' = [page EXCEPT ![RecoveryStart] = Junk]
      /\ FlashInv /\ RepairInv
  BY DEF Decay, At, SafeInv
<1>2. page \in [Page -> Contents(Images)]
  BY <1>1, SafeTypes
<1>3. page' \in [Page -> Contents(Images)] /\ page'[RecoveryStart] = Junk
      /\ \A p \in Page : p # RecoveryStart => page'[p] = page[p]
  BY <1>1, <1>2, Starts DEF Contents
<1>4. PICK i \in Images : AuthenticIn(page, i)
  BY <1>1, SafeTypes DEF Serving
<1>5. RecoveryStart \in RecoverySpace
  BY <1>4, Starts, CapsuleLayout, RecoveryApart
<1>6. AuthenticIn(page', i)
  BY <1>3, <1>4, <1>5, SameActive
<1>7. \A j \in Images : ~CapsuleIn(page', j, RecoveryStart)
  BY <1>3, NamesTell DEF CapsuleIn
<1>8. [Store!Next]_(Store!store)
  BY <1>2, <1>3, <1>4, <1>6, <1>7, RecoveryStep DEF Stepped
<1>9. SafePlan(page', plan')
  BY <1>1, <1>6 DEF NoPlan, SafePlan, Serving
<1>10. RepairInv'
  BY <1>1, SafeNext DEF RepairInv
<1> QED
  BY <1>8, <1>9, <1>10, SafeNext

\* authenticate_and_recover_spi_flash, the recovery capsule: where there is none,
\* the active region is the copy, and only its own capsule takes the place.
LEMMA AuthSafe == SafeInv /\ Auth => RepairInv' /\ PlanSafe' /\ [Store!Next]_(Store!store)
<1> SUFFICES ASSUME SafeInv, Auth
             PROVE  RepairInv' /\ PlanSafe' /\ [Store!Next]_(Store!store)
  OBVIOUS
<1>1. /\ pc = "auth" /\ plan = <<>> /\ page' = page /\ vetting' = vetting
      /\ FlashInv /\ TypeInv /\ PlanInv /\ RepairInv /\ ram \in RamTypes
      /\ Final = page /\ vetting = "none"
  BY AtHandler DEF Auth, At, SafeInv, FlashInv, RepairInv, TypeInv
<1>2. CASE /\ CapsulesAt(RecoveryStart) # {} /\ NoPlan /\ pc' = "authAct"
  <2>1. Whole(page) /\ Final' = page /\ plan' = <<>>
    BY <1>1, <1>2, SafeTypes, NoPlanStep DEF NoPlan
  <2> QED
    BY <1>1, <1>2, <2>1, IdleStep, SafeNext
<1>3. CASE /\ CapsulesAt(RecoveryStart) = {} /\ Promotable(~ActiveValid) /\ pc' = "authAct"
           /\ LET i == CapsuleAt(StagingStart)
              IN  Give(PromotePlan(i), Over(Capsule(i, RecoveryStart)))
  <2> DEFINE i == CapsuleAt(StagingStart)
             aim == Over(Capsule(i, RecoveryStart))
  <2>1. Serving(page) /\ Promotable(FALSE)
    <3>1. ~Whole(page) /\ SafePlan(page, <<>>)
      BY <1>1, <1>3, SafeTypes DEF SafeInv, PlanSafe
    <3>2. Serving(page) /\ ActiveValid
      BY <1>1, <3>1, NoCommands, SafeTypes
    <3> QED
      BY <1>3, <3>2 DEF Promotable
  <2>2. /\ i \in Images /\ i \in Live /\ Readable(page, i, StagingStart)
        /\ Promoting(i, page, PromotePlan(i))
    BY <1>1, <2>1, PromotesInService
  <2>3. Give(PromotePlan(i), aim)
    BY <1>3
  <2> HIDE DEF i
  <2>4. SafePlan(page', plan')
    BY <1>1, <2>2, <2>3 DEF Give, SafePlan
  <2>5. Whole(aim)
    BY <2>2, AimsAre, CapsuleThere, PlacesApart DEF Whole
  <2>6. aim \in [Page -> Contents(Live)] /\ PromotePlan(i) \in Plans /\ Leads(PromotePlan(i), page, aim)
    BY <1>1, <2>2, PromoteLeads, AimsAre, AimTypes DEF TypeInv
  <2> DEFINE cmds == PromotePlan(i)
  <2>7. cmds \in Plans /\ Leads(cmds, page, aim) /\ Give(cmds, aim) /\ UNCHANGED page
    BY <1>1, <2>3, <2>6
  <2> HIDE DEF aim, cmds
  <2>8. Final' = aim
    BY <2>6, <2>7, GiveStep
  <2> QED
    BY <1>1, <1>3, <2>4, <2>5, <2>8, SafeNext, StoreSame
<1>4. CASE /\ ram' = [ram EXCEPT !.state = IF ActiveValid THEN "recFailed" ELSE "allFailed"]
           /\ NoPlan /\ pc' = "apply"
  <2>1. ram'.state # "ok" /\ plan' = <<>>
    BY <1>1, <1>4 DEF RamTypes, NoPlan
  <2> QED
    BY <1>1, <1>4, <2>1, IdleStep, SafeNext
<1> QED
  BY <1>2, <1>3, <1>4 DEF Auth

\* ... and the active region, with the capsule it is restored from.
LEMMA AuthActSafe == SafeInv /\ AuthAct => RepairInv' /\ PlanSafe' /\ [Store!Next]_(Store!store)
<1> SUFFICES ASSUME SafeInv, AuthAct
             PROVE  RepairInv' /\ PlanSafe' /\ [Store!Next]_(Store!store)
  OBVIOUS
<1>1. /\ pc = "authAct" /\ plan = <<>> /\ pc' = "apply" /\ page' = page /\ vetting' = vetting
      /\ ram' = ram /\ FlashInv /\ TypeInv /\ PlanInv /\ RepairInv
      /\ Final = page /\ vetting = "none"
  BY AtHandler DEF AuthAct, At, SafeInv, FlashInv, RepairInv
<1> DEFINE i == CapsuleAt(RecoveryStart)
           both == {"static", "dynamic"}
           cmds == DecompressPlan(RecoveryStart, i, both)
           pages == DecompressedPages(i, both)
           aim == RestoredFrom(page, i, pages, "static" \in both)
<1>2. i \in Live /\ i \in Images /\ Readable(page, i, RecoveryStart) /\ Whole(page)
  <2>1. \E j \in Live : CapsuleIn(page, j, RecoveryStart)
    BY <1>1 DEF FlashInv, PhaseInv
  <2> QED
    BY <1>1, <2>1, CapsulesFound, SafeTypes DEF Whole
<1>3. NoPlan \/ Give(cmds, DecompressGoal(i, both))
  BY DEF AuthAct
<1> HIDE DEF i, both
<1>4. CASE NoPlan
  <2>1. Final' = page /\ plan' = <<>>
    BY <1>1, <1>4, NoPlanStep DEF NoPlan
  <2> QED
    BY <1>1, <1>2, <2>1, IdleStep, SafeNext
<1>5. CASE Give(cmds, DecompressGoal(i, both))
  <2>3. cmds \in Plans /\ Leads(cmds, page, aim) /\ DecompressGoal(i, both) = aim
    BY <1>2, DecompressLeads, AimsAre
  <2>4. aim \in [Page -> Contents(Images)] /\ cmds \in Seq(Aside)
        /\ pages \intersect RecoverySpace = {}
    BY <1>1, <1>2, SafeTypes, AimTypes, DecompressAside, DecompressedAside
  <2>5. aim = RestoredFrom(page, i, pages, "static" \in both)
    OBVIOUS
  <2> HIDE DEF cmds, pages, aim
  <2>6. PlanSafe' /\ [Store!Next]_(Store!store) /\ Whole(Final')
    BY <1>1, <1>2, <1>5, <2>3, <2>4, <2>5, RestoreStep
  <2> QED
    BY <1>1, <2>6, SafeNext
<1> QED
  BY <1>3, <1>4, <1>5

\* apply_spi_write_protection_and_smbus_rules, tmin1_boot_bmc and
\* perform_entry_to_t0_bmc_only leave the flash alone.
LEMMA EntrySafe ==
  SafeInv /\ (Apply \/ Entry) => RepairInv' /\ PlanSafe' /\ [Store!Next]_(Store!store)
<1> SUFFICES ASSUME SafeInv, Apply \/ Entry
             PROVE  RepairInv' /\ PlanSafe' /\ [Store!Next]_(Store!store)
  OBVIOUS
<1>1. /\ plan = <<>> /\ page' = page /\ vetting' = vetting /\ ram' = ram
      /\ FlashInv /\ PlanInv /\ PhaseInv /\ RepairInv /\ Final = page
  BY AtHandler DEF Apply, Entry, At, SafeInv, FlashInv
<1>2. CASE Apply
  <2>1. pc = "apply" /\ pc' = "entry" /\ NoPlan
    BY <1>2 DEF Apply, At
  <2>2. Final' = page /\ plan' = <<>>
    BY <1>1, <2>1, NoPlanStep DEF NoPlan
  <2> QED
    BY <1>1, <2>1, <2>2, IdleStep, SafeNext DEF RepairInv
<1>3. CASE Entry
  <2>1. /\ pc = "entry" /\ pc' \in {"held", "t0"} /\ (pc' = "t0" => ram.state # "allFailed")
        /\ plan' = plan /\ goal' = goal
    BY <1>3 DEF Entry, At
  <2>2. Final' = Final
    BY <1>1, <2>1 DEF Final
  <2> QED
    BY <1>1, <2>1, <2>2, IdleStep, SafeNext DEF RepairInv
<1> QED
  BY <1>2, <1>3

\* One command of a plan.
LEMMA ExecSafe == SafeInv /\ Exec => RepairInv' /\ PlanSafe' /\ [Store!Next]_(Store!store)
<1> SUFFICES ASSUME SafeInv, Exec
             PROVE  RepairInv' /\ PlanSafe' /\ [Store!Next]_(Store!store)
  OBVIOUS
<1>1. /\ plan # <<>> /\ page' = Commanded(page, Head(plan)) /\ plan' = Tail(plan)
      /\ UNCHANGED <<ram, vetting, pc, goal>> /\ plan \in Plans
      /\ FlashInv /\ PlanInv /\ RepairInv
  BY DEF Exec, SafeInv, FlashInv, TypeInv
<1>2. goal # NoGoal /\ Final' = Final
  BY <1>1 DEF PlanInv, Final
<1>3. page' \in [Page -> Contents(Images)]
  <2>1. Head(plan) \in Orders
    BY <1>1, SeqFacts DEF Plans
  <2> QED
    BY <1>1, <2>1, SafeTypes, CommandTypes
<1>4. PlanSafe' /\ [Store!Next]_(Store!store)
  BY <1>1, <1>3, CommandSafe
<1>5. RepairInv'
  BY <1>1, <1>2, SafeNext DEF RepairInv
<1> QED
  BY <1>4, <1>5

\* While the BMC runs, there is a plan for nothing, and firmware in service.
LEMMA RunningIs ==
  ASSUME SafeInv, InT0
  PROVE  /\ plan = <<>> /\ goal = NoGoal /\ Final = page /\ vetting = "none"
         /\ Serving(page) /\ ram.state # "allFailed" /\ (ram.state = "ok" => Whole(page))
         /\ FlashInv /\ PlanInv /\ RepairInv /\ pc = "t0" /\ ram \in RamTypes
<1>1. /\ FlashInv /\ PlanInv /\ PhaseInv /\ RepairInv /\ pc = "t0" /\ goal = NoGoal
      /\ InService /\ ram \in RamTypes
  BY DEF SafeInv, FlashInv, PhaseInv, InT0, TypeInv
<1>2. Serving(page)
  BY <1>1, SafeTypes DEF InService, Serving
<1> QED
  BY <1>1, <1>2 DEF PlanInv, Final, RepairInv

\* What the BMC may write is neither its PFM nor the recovery capsule.
LEMMA HostSafe == SafeInv /\ FlashInv' /\ Host => RepairInv' /\ PlanSafe' /\ [Store!Next]_(Store!store)
<1> SUFFICES ASSUME SafeInv, FlashInv', Host
             PROVE  RepairInv' /\ PlanSafe' /\ [Store!Next]_(Store!store)
  OBVIOUS
<1>1. CASE EnterFourByte
  <2>1. InT0 /\ UNCHANGED <<page, ram, vetting, pc, plan, goal>>
    BY <1>1 DEF EnterFourByte
  <2>2. Final' = Final
    BY <2>1 DEF Final
  <2> QED
    BY <2>1, <2>2, RunningIs, IdleStep, SafeNext
<1>2. CASE \/ \E op \in {"program", "erase4", "sector"}, p \in HostPages : HostWrite(op, p)
           \/ \E i \in Updates : Stage(i)
  <2>1. /\ InT0 /\ UNCHANGED <<ram, vetting, pc, plan, goal>>
        /\ page' \in [Page -> Contents(Live')] /\ FlashInv /\ Live \subseteq Live'
        /\ UNCHANGED <<rules, cpldBusy>>
    BY <1>2, HostChanges DEF SafeInv, HostWrite, Stage
  <2>2. PICK S \in SUBSET Page : /\ S \intersect PfmRegion = {} /\ S \subseteq OpenedByPfm
                                 /\ \A p \in Page : p \notin S => page'[p] = page[p]
    BY <1>2, HostChanges DEF SafeInv
  <2>3. /\ plan = <<>> /\ goal = NoGoal /\ vetting = "none" /\ ram.state # "allFailed"
        /\ ram.state = "ok" => Whole(page)
    BY <2>1, RunningIs
  <2>4. PICK i \in Live : AuthenticIn(page, i)
    BY <2>1 DEF FlashInv, PhaseInv, InT0, InService
  <2>5. i \in Images /\ ActiveBody = Layout(i).defs
    BY <2>1, <2>4, ActiveIs DEF AuthenticIn, FlashInv
  <2>6. S \intersect RecoverySpace = {}
    <3>1. UnionOf(Layout(i).defs, Writable) \intersect RecoverySpace = {}
      BY <2>5, RecoveryApart DEF UnionOf
    <3> QED
      BY <2>2, <2>5, <3>1 DEF OpenedByPfm
  <2>7. \A p \in RecoverySpace : page'[p] = page[p]
    BY <2>2, <2>6, RecoveryApart
  <2>8. \A j \in Images :
          CapsuleIn(page', j, RecoveryStart) <=> CapsuleIn(page, j, RecoveryStart)
    BY <2>7, SameCapsules
  <2>9. page'[PfmStart] = page[PfmStart]
    BY <2>2, Starts
  <2>10. AuthenticIn(page', i)
    <3>1. InService'
      BY <2>1 DEF FlashInv, PhaseInv, InT0
    <3>2. PICK j : AuthenticIn(page', j)
      BY <3>1 DEF InService, AuthenticIn
    <3>3. j = i
      BY <2>4, <2>9, <3>2, NamesTell DEF AuthenticIn
    <3> QED
      BY <3>2, <3>3
  <2>11. page \in [Page -> Contents(Images)] /\ page' \in [Page -> Contents(Images)]
    <3>1. Live' \subseteq Images
      BY SizesAssumption DEF Live
    <3> QED
      BY <2>1, <3>1, SafeTypes, ContentsGrow
  <2>12. page'[RecoveryStart] = page[RecoveryStart]
    BY <2>5, <2>7, Starts, CapsuleLayout, RecoveryApart
  <2>13. [Store!Next]_(Store!store)
    BY <2>4, <2>5, <2>8, <2>10, <2>11, <2>12, RecoveryStep DEF Stepped
  <2>14. SafePlan(page', plan')
    BY <2>1, <2>3, <2>5, <2>10 DEF SafePlan, Serving
  <2>15. Whole(page) => Whole(page')
    BY <2>8 DEF Whole
  <2>16. Final' = page' /\ pc' = "t0" /\ vetting' = "none" /\ ram' = ram
    BY <2>1, <2>3 DEF Final, InT0
  <2> QED
    BY <2>3, <2>13, <2>14, <2>15, <2>16, SafeNext
<1> QED
  BY <1>1, <1>2 DEF Host

\* The ends of T0: only firmware in service is promoted, and an update is only
\* let in with a copy to go back to.
LEMMA ResetSafe ==
  ASSUME SafeInv,
         \/ \E bits : PostIntent(bits)
         \/ UpdateIntent \/ PostUpdate \/ Timeout \/ OtherReset
  PROVE  RepairInv' /\ PlanSafe' /\ [Store!Next]_(Store!store)
<1>1. InT0 /\ UNCHANGED <<page, plan, goal>>
  BY DEF PostIntent, UpdateIntent, PostUpdate, Timeout, OtherReset
<1>2. /\ plan = <<>> /\ goal = NoGoal /\ Final = page /\ vetting = "none" /\ pc = "t0"
      /\ Serving(page) /\ ram.state # "allFailed" /\ (ram.state = "ok" => Whole(page))
      /\ ram \in RamTypes
  BY <1>1, RunningIs
<1>3. CASE UNCHANGED <<pc, ram, vetting>>
  <2>1. Final' = page /\ page' = page /\ plan' = <<>> /\ goal' = NoGoal
    BY <1>1, <1>2 DEF Final
  <2> QED
    BY <1>1, <1>2, <1>3, <2>1, IdleStep, SafeNext
<1>4. CASE ~UNCHANGED <<pc, ram, vetting>>
  <2>1. pc' \in {"pend", "wdt"}
    BY <1>4 DEF PostIntent, UpdateIntent, PostUpdate, Timeout, OtherReset, StartReset
  <2>2. vetting' \in {"none", "vetted"} /\ (vetting' = "vetted" => Whole(page))
    <3>1. ram.state \in {"ok", "recFailed", "allFailed"}
      BY <1>2 DEF RamTypes
    <3>2. vetting' = "none" \/ (vetting' = "vetted" /\ ram.state # "recFailed")
      BY <1>2, <1>4 DEF PostIntent, UpdateIntent, PostUpdate, Timeout, OtherReset, Vet
    <3> QED
      BY <1>2, <3>1, <3>2
  <2>3. Final' = page /\ page' = page /\ plan' = <<>> /\ goal' = NoGoal
    BY <1>1, <1>2 DEF Final
  <2> QED
    BY <1>1, <1>2, <2>1, <2>2, <2>3, IdleStep, SafeNext
<1> QED
  BY <1>3, <1>4

\* bmc_boot_complete_actions
LEMMA BootDoneSafe ==
  SafeInv /\ BootDone => RepairInv' /\ PlanSafe' /\ [Store!Next]_(Store!store)
<1> SUFFICES ASSUME SafeInv, BootDone
             PROVE  RepairInv' /\ PlanSafe' /\ [Store!Next]_(Store!store)
  OBVIOUS
<1>1. /\ InT0 /\ ram' = [ram EXCEPT !.level = 1]
      /\ UNCHANGED <<page, vetting, pc, plan, goal>>
  BY DEF BootDone
<1>2. /\ plan = <<>> /\ Final = page /\ vetting = "none" /\ pc = "t0" /\ ram \in RamTypes
      /\ ram.state # "allFailed" /\ (ram.state = "ok" => Whole(page))
  BY <1>1, RunningIs
<1>3. ram'.state = ram.state
  BY <1>1, <1>2 DEF RamTypes
<1>4. Final' = page
  BY <1>1, <1>2 DEF Final
<1> QED
  BY <1>1, <1>2, <1>3, <1>4, IdleStep, SafeNext

\* Power fails.
LEMMA PowerSafe == SafeInv /\ PowerLoss => RepairInv' /\ PlanSafe' /\ [Store!Next]_(Store!store)
<1> SUFFICES ASSUME SafeInv, PowerLoss
             PROVE  RepairInv' /\ PlanSafe' /\ [Store!Next]_(Store!store)
  OBVIOUS
<1>1. NoPlan /\ pc' = "pend" /\ ram' = Boot /\ vetting' = "none" /\ FlashInv
  BY DEF PowerLoss, SafeInv, RepairInv, Vet
<1>2. plan' = <<>> /\ goal' = NoGoal
  BY <1>1 DEF NoPlan
<1>3. ~ram'.pending
  BY <1>1, Zenon DEF Boot
<1>4. RepairInv'
  BY <1>1, <1>2, <1>3, SafeNext
<1>5. page \in [Page -> Contents(Images)] /\ Junk \in Contents(Images)
  BY <1>1, SafeTypes DEF Contents
<1>6. CASE page' = page
  <2>1. SafePlan(page', plan')
    <3>1. plan \in Seq(Aside) /\ Whole(page) => SafePlan(page, <<>>)
      BY SeqFacts DEF SafePlan
    <3>2. ASSUME NEW i \in Images, Promoting(i, page, plan) PROVE SafePlan(page, <<>>)
      BY <3>2 DEF SafePlan, Promoting, Serving
    <3>3. plan = <<>> /\ Serving(page) => SafePlan(page, <<>>)
      BY DEF SafePlan
    <3> QED
      BY <1>2, <1>6, <3>1, <3>2, <3>3 DEF SafeInv, PlanSafe, SafePlan
  <2> QED
    BY <1>4, <1>6, <2>1, SafeNext, StoreSame
<1>7. CASE page' # page
  <2> DEFINE c == Head(plan)
  <2>1. plan # <<>> /\ page' = [p \in Page |-> IF p \in Targets(c) THEN Junk ELSE page[p]]
    <3>1. plan # <<>>
      <4>1. CASE plan = <<>>
        <5>1. page' \in {page, [p \in Page |-> page[p]]}
          BY <4>1 DEF PowerLoss
        <5> QED
          BY <1>5, <1>7, <5>1
      <4> QED
        BY <4>1
    <3> QED
      BY <1>7, <3>1 DEF PowerLoss
  <2>2. page' \in [Page -> Contents(Images)]
    BY <1>5, <2>1
  <2> HIDE DEF c
  <2> QED
    BY <1>2, <1>4, <2>1, <2>2, CommandSafe DEF c
<1> QED
  BY <1>6, <1>7

\* Every step.
LEMMA NextSafe ==
  SafeInv /\ FlashInv' /\ [Next]_vars /\ vetting' # "raced" =>
    SafeInv' /\ [Store!Next]_(Store!store)
<1> SUFFICES ASSUME SafeInv, FlashInv', [Next]_vars, vetting' # "raced"
             PROVE  RepairInv' /\ PlanSafe' /\ [Store!Next]_(Store!store)
  BY DEF SafeInv
<1>1. CASE Pend
  BY <1>1, PendSafe
<1>2. CASE Wdt
  BY <1>2, WdtSafe
<1>3. CASE Intent
  BY <1>3, IntentSafe
<1>4. CASE Decay
  BY <1>4, DecaySafe
<1>5. CASE Auth
  BY <1>5, AuthSafe
<1>6. CASE AuthAct
  BY <1>6, AuthActSafe
<1>7. CASE Apply \/ Entry
  BY <1>7, EntrySafe
<1>8. CASE Exec
  BY <1>8, ExecSafe
<1>9. CASE Host
  BY <1>9, HostSafe
<1>10. CASE \/ \E bits : PostIntent(bits)
            \/ UpdateIntent \/ PostUpdate \/ Timeout \/ OtherReset
  BY <1>10, ResetSafe
<1>11. CASE BootDone
  BY <1>11, BootDoneSafe
<1>12. CASE PowerLoss
  BY <1>12, PowerSafe
<1>13. CASE UNCHANGED vars
  <2>1. UNCHANGED <<page, ram, vetting, pc, plan, goal>>
    BY <1>13 DEF vars
  <2>2. Final' = Final
    BY <2>1 DEF Final
  <2>3. SafePlan(page', plan')
    BY <2>1 DEF SafeInv, PlanSafe
  <2>4. RepairInv'
    BY <2>1, <2>2, SafeNext DEF SafeInv, RepairInv
  <2> QED
    BY <2>1, <2>3, <2>4, SafeNext, StoreSame
<1> QED
  BY <1>1, <1>2, <1>3, <1>4, <1>5, <1>6, <1>7, <1>8, <1>9, <1>10, <1>11, <1>12, <1>13
     DEF Next

\* A provisioned platform has both copies.
LEMMA InitSafe == Init => SafeInv /\ Store!Init
<1> SUFFICES ASSUME Init PROVE SafeInv /\ Store!Init
  OBVIOUS
<1>1. FlashInv
  BY InitInv
<1>2. PICK s \in Scenarios : page = Programmed(s.image) /\ budget = s.budget
  BY DEF Init
<1> DEFINE i == s.image
<1>3. i \in Images
  BY <1>2, SizesAssumption
<1> HIDE DEF i
<1>4. /\ DOMAIN Capsule(i, RecoveryStart) = CapsuleRegion(i, RecoveryStart)
      /\ DOMAIN Image(i) = Layout(i).active /\ page = Programmed(i)
  BY <1>2 DEF Capsule, Image, i
<1>5. /\ PfmStart \in Page /\ PfmStart \notin CapsuleRegion(i, RecoveryStart)
      /\ CapsuleRegion(i, RecoveryStart) \subseteq Page
  BY <1>3, Starts, PlacesApart
<1>6. AuthenticIn(page, i)
  <2>1. page[PfmStart] = Pfm(i)
    BY <1>4, <1>5 DEF Programmed
  <2>2. ASSUME NEW n \in DOMAIN Layout(i).defs,
               Static(Layout(i).defs[n]), Layout(i).defs[n].hashed,
               NEW p \in Span(Layout(i).defs[n])
        PROVE  page[p] = Body(i, p)
    <3>1. /\ p \in Page /\ p # PfmStart /\ p \notin CapsuleRegion(i, RecoveryStart)
          /\ p \in Layout(i).active
      <4>1. p \in Page /\ p \in Layout(i).active
        BY <1>3, <2>2, LayoutAssumption, PlacesOf
      <4>2. p \notin PfmRegion /\ p \notin CapsuleRegion(i, RecoveryStart)
        BY <1>3, <2>2, PlacesOf
      <4> QED
        BY <4>1, <4>2, Starts
    <3>2. Image(i)[p] = Body(i, p)
      BY <3>1 DEF Image
    <3> QED
      BY <1>4, <3>1, <3>2 DEF Programmed
  <2> QED
    BY <2>1, <2>2 DEF AuthenticIn
<1>7. CapsuleIn(page, i, RecoveryStart)
  <2> DEFINE there == Put(page, CapsuleRegion(i, RecoveryStart), Capsule(i, RecoveryStart))
  <2>1. page = there
    <3>1. \A p \in CapsuleRegion(i, RecoveryStart) : page[p] = Capsule(i, RecoveryStart)[p]
      BY <1>4, <1>5 DEF Programmed
    <3>2. page = [p \in Page |-> page[p]]
      BY <1>4 DEF Programmed
    <3> QED
      BY <3>1, <3>2 DEF Put
  <2>2. CapsuleIn(there, i, RecoveryStart)
    BY <1>3, <1>5, Starts, CapsuleThere
  <2> HIDE DEF there
  <2> QED
    BY <2>1, <2>2
<1>8. ActiveImage = i /\ RecoveryImage = i
  BY <1>1, <1>3, <1>6, <1>7, SafeTypes, ImagesAt, ImagesAre
<1>9. Store!Init
  BY <1>3, <1>8 DEF Store!Init
<1>10. PlanSafe
  BY <1>3, <1>6 DEF Init, PlanSafe, SafePlan, Serving
<1>11. ~ram.pending
  BY Zenon DEF Init, Boot
<1>12. RepairInv
  BY <1>11 DEF Init, RepairInv
<1> QED
  BY <1>1, <1>9, <1>10, <1>12 DEF SafeInv

\* What T-1 has once done on an intent T0 has not let in stays on record.
LEMMA RacedStays == [Next]_vars /\ vetting = "raced" => vetting' = "raced"
<1> SUFFICES ASSUME [Next]_vars, vetting = "raced" PROVE vetting' = "raced"
  OBVIOUS
<1>1. ASSUME NEW verdict, Vet(verdict) PROVE vetting' = "raced"
  BY <1>1 DEF Vet
<1>2. CASE UNCHANGED vars
  BY <1>2 DEF vars
<1>3. CASE Pend \/ Wdt \/ Intent \/ Decay \/ Auth \/ AuthAct \/ Apply \/ Entry \/ Exec
  BY <1>1, <1>3 DEF Pend, Wdt, Intent, Decay, Auth, AuthAct, Apply, Entry, Exec
<1>4. CASE Host
  BY <1>4 DEF Host, EnterFourByte, HostWrite, Stage
<1>5. CASE \/ \E bits : PostIntent(bits)
           \/ UpdateIntent \/ PostUpdate \/ BootDone \/ Timeout \/ OtherReset \/ PowerLoss
  BY <1>1, <1>5
     DEF PostIntent, UpdateIntent, PostUpdate, BootDone, Timeout, OtherReset, PowerLoss
<1> QED
  BY <1>2, <1>3, <1>4, <1>5 DEF Next

\* Page by page, with the power failing in any command, the flash does what
\* FailsafeStore promises: the active region is only taken apart while the
\* recovery capsule is whole, and the recovery capsule is only taken apart, or
\* replaced by that of the firmware in service, while the active region
\* authenticates.  The promise ends where T-1 carries out an update intent that
\* T0 has not let in while there is no recovery capsule: one deferred to the
\* reset, or one that another reset came before.
THEOREM PagesAreFailsafe == Spec => FailsafePages
<1> DEFINE Kept == vetting = "raced" \/ SafeInv
<1>1. Init => Kept /\ Store!Init
  BY InitSafe
<1>2. Kept /\ FlashInv' /\ [Next]_vars =>
        Kept' /\ [vetting' = "raced" \/ Store!Next]_(Store!store)
  BY NextSafe, RacedStays
<1> QED
  BY <1>1, <1>2, FlashInductive, PTL DEF Spec, FailsafePages
=============================================================================
