-------------------------- MODULE FlashPagesProofs --------------------------
(***************************************************************************)
(* What FlashPages guarantees, for a flash of any size, any firmware       *)
(* layouts that keep to the requirements of decompression.h, and however   *)
(* often the power fails and the BMC resets, updates and writes:           *)
(*   CopiesAreExact    commands leave the pages they are for as they should*)
(*   BootsAuthentic    the BMC only runs an active region that             *)
(*                     authenticates                                       *)
(*   RulesAreExact     its write enable memory is the one for its PFM      *)
(*   WritesOnlyOpened  it changes no page that this PFM does not open.     *)
(*                                                                         *)
(* Leads(plan, before, after) says what the commands of a plan make of a   *)
(* flash.  A lemma for each level of decompress_capsule, erase_spi_region  *)
(* at the bottom, says what its plan leads to; they need of a flash only   *)
(* that the capsule to copy from is whole and stays out of the way of what *)
(* is copied.  The invariant FlashInv then carries, from handler to        *)
(* handler, what the flash is going to be once the commands are given: the *)
(* capsule that AuthAct restores from, the active region that Apply takes  *)
(* its rules from, and the rules that keep it so while the BMC runs.       *)
(***************************************************************************)
EXTENDS FlashFilterProofs, FiniteSetTheorems

(***************************************************************************)
(* Plans: what a sequence of commands makes of a flash.                    *)
(***************************************************************************)
Orders == [op : {"erase4", "erase64", "copy", "pfm"}, at : Page, from : Page]
Plans  == Seq(Orders)

\* The commands of a plan take the flash from one content to another.
Leads(cmds, before, after) ==
  \E f : /\ f[0] = before /\ f[Len(cmds)] = after
         /\ \A n \in 1..Len(cmds) : f[n] = Commanded(f[n - 1], cmds[n])

\* No command, no change.
LEMMA LeadsNothing ==
  /\ <<>> \in Plans
  /\ \A flash : Leads(<<>>, flash, flash)
  /\ \A before, after : Leads(<<>>, before, after) => before = after
<1>1. ASSUME NEW flash PROVE Leads(<<>>, flash, flash)
  <2> DEFINE f == [n \in {0} |-> flash]
  <2>1. f[0] = flash
    OBVIOUS
  <2> HIDE DEF f
  <2> QED
    BY <2>1 DEF Leads
<1> QED
  BY <1>1 DEF Leads, Plans

\* One command.
LEMMA LeadsOne ==
  ASSUME NEW c \in Orders, NEW flash
  PROVE  <<c>> \in Plans /\ Leads(<<c>>, flash, Commanded(flash, c))
<1> DEFINE f == [n \in 0..1 |-> IF n = 0 THEN flash ELSE Commanded(flash, c)]
<1>1. f[0] = flash /\ f[1] = Commanded(flash, c)
  OBVIOUS
<1> HIDE DEF f
<1>2. Len(<<c>>) = 1 /\ <<c>>[1] = c
  OBVIOUS
<1>3. \A n \in 1..1 : n = 1
  OBVIOUS
<1>4. Leads(<<c>>, flash, Commanded(flash, c))
  BY <1>1, <1>2, <1>3 DEF Leads
<1> QED
  BY <1>4 DEF Plans

\* One plan after another.
LEMMA LeadsOn ==
  ASSUME NEW a \in Plans, NEW b \in Plans, NEW p, NEW q, NEW r,
         Leads(a, p, q), Leads(b, q, r)
  PROVE  a \o b \in Plans /\ Leads(a \o b, p, r)
<1> USE DEF Plans
<1>1. PICK f : /\ f[0] = p /\ f[Len(a)] = q
               /\ \A n \in 1..Len(a) : f[n] = Commanded(f[n - 1], a[n])
  BY DEF Leads
<1>2. PICK g : /\ g[0] = q /\ g[Len(b)] = r
               /\ \A n \in 1..Len(b) : g[n] = Commanded(g[n - 1], b[n])
  BY DEF Leads
<1> DEFINE k == Len(a)
           h == [n \in 0..k + Len(b) |-> IF n <= k THEN f[n] ELSE g[n - k]]
<1>3. /\ k \in Nat /\ Len(b) \in Nat /\ Len(a \o b) = k + Len(b)
      /\ \A n \in 1..k : (a \o b)[n] = a[n]
      /\ \A n \in k + 1..k + Len(b) : (a \o b)[n] = b[n - k]
      /\ a \o b \in Plans
  OBVIOUS
<1> HIDE DEF k
<1>4. \A n \in 0..k : h[n] = f[n]
  BY <1>3
<1>5. \A n \in k..k + Len(b) : h[n] = g[n - k]
  BY <1>1, <1>2, <1>3 DEF k
<1> HIDE DEF h
<1>6. h[0] = p /\ h[k + Len(b)] = r
  <2>1. k + Len(b) \in k..k + Len(b) /\ (k + Len(b)) - k = Len(b)
    BY <1>3
  <2> QED
    BY <1>1, <1>2, <1>3, <1>4, <1>5, <2>1
<1>7. ASSUME NEW n \in 1..k + Len(b)
      PROVE  h[n] = Commanded(h[n - 1], (a \o b)[n])
  <2>1. CASE n <= k
    <3>1. n \in 1..k /\ n \in 0..k /\ n - 1 \in 0..k
      BY <1>3, <2>1
    <3> QED
      BY <1>1, <1>3, <1>4, <3>1 DEF k
  <2>2. CASE n > k
    <3>1. /\ n \in k + 1..k + Len(b) /\ n \in k..k + Len(b) /\ n - 1 \in k..k + Len(b)
          /\ n - k \in 1..Len(b) /\ (n - 1) - k = (n - k) - 1
      BY <1>3, <2>2
    <3> QED
      BY <1>2, <1>3, <1>5, <3>1
  <2> QED
    BY <1>3, <2>1, <2>2
<1> QED
  BY <1>3, <1>6, <1>7 DEF Leads

\* The first command of a plan leaves the rest of it.
LEMMA LeadsTail ==
  ASSUME NEW a \in Plans, a # <<>>, NEW p, NEW q, Leads(a, p, q)
  PROVE  Head(a) \in Orders /\ Tail(a) \in Plans /\ Leads(Tail(a), Commanded(p, Head(a)), q)
<1> USE DEF Plans
<1>1. PICK f : /\ f[0] = p /\ f[Len(a)] = q
               /\ \A n \in 1..Len(a) : f[n] = Commanded(f[n - 1], a[n])
  BY DEF Leads
<1>2. /\ Len(a) \in Nat \ {0} /\ Head(a) = a[1] /\ Head(a) \in Orders /\ Tail(a) \in Plans
      /\ Len(Tail(a)) = Len(a) - 1
      /\ \A n \in 1..Len(a) - 1 : Tail(a)[n] = a[n + 1]
  OBVIOUS
<1> DEFINE g == [n \in 0..Len(a) - 1 |-> f[n + 1]]
<1>3. g[0] = Commanded(p, Head(a)) /\ g[Len(a) - 1] = q
  BY <1>1, <1>2
<1>4. ASSUME NEW n \in 1..Len(a) - 1 PROVE g[n] = Commanded(g[n - 1], Tail(a)[n])
  <2>1. n + 1 \in 1..Len(a) /\ (n + 1) - 1 = n /\ (n - 1) + 1 = n /\ n - 1 \in 0..Len(a) - 1
    BY <1>2
  <2> QED
    BY <1>1, <1>2, <2>1
<1> HIDE DEF g
<1> QED
  BY <1>2, <1>3, <1>4 DEF Leads

\* Pages are numbers below the number of pages.
LEMMA PageNumbers ==
  /\ Pages \in Nat \ {0} /\ \A p \in Page : p \in Nat /\ p < Pages
  /\ IsFiniteSet(Page)
  /\ \A S \in SUBSET Page : S \in SUBSET Nat /\ IsFiniteSet(S) /\ Cardinality(S) \in Nat
<1>1. Pages \in Nat
  BY SizesAssumption
<1>2. Page \subseteq Nat /\ IsFiniteSet(Page)
  BY <1>1, FS_Interval DEF Page
<1>3. PfmStart \in Page
  BY PlacesAssumption DEF PfmRegion
<1>4. Pages \in Nat \ {0} /\ \A p \in Page : p \in Nat /\ p < Pages
  BY <1>1, <1>3 DEF Page
<1>5. \A S \in SUBSET Page : S \in SUBSET Nat /\ IsFiniteSet(S) /\ Cardinality(S) \in Nat
  BY <1>2, FS_Subset, FS_CardinalityType
<1> QED
  BY <1>2, <1>4, <1>5

\* Where a region of the flash ends.
LEMMA RegionEnd ==
  ASSUME NEW from \in Nat, NEW k \in Nat \ {0}, from..from + k - 1 \subseteq Page
  PROVE  from + k <= Pages
<1>1. from + k - 1 \in Page
  OBVIOUS
<1> DEFINE last == from + k - 1
<1>2. last < Pages
  BY <1>1, PageNumbers
<1> QED
  BY <1>2, PageNumbers

\* PlacesAssumption and the hashes, for one region of one layout.
LEMMA PlacesOf ==
  ASSUME NEW i \in Images, NEW j \in Images, NEW n \in DOMAIN Layout(j).defs,
         NEW d, d = Layout(j).defs[n]
  PROVE  /\ Static(d) \/ Writable(d) => Span(d) \intersect CapsuleRegion(i, RecoveryStart) = {}
         /\ Static(d) \/ (Dynamic(d) /\ d.from # StagingStart) =>
              Span(d) \intersect CapsuleRegion(i, StagingStart) = {}
         /\ j \in Updates /\ Writable(d) => Span(d) \intersect PfmRegion = {}
         /\ Static(d) /\ d.hashed => /\ Span(d) \subseteq Layout(j).active
                                     /\ Span(d) \intersect PfmRegion = {}
<1>1. Static(d) /\ d.hashed => Span(d) \subseteq Layout(j).active
  BY LayoutAssumption
<1> QED
  BY <1>1, PlacesAssumption

\* The regions with a name start at pages.
LEMMA Starts ==
  /\ {PfmStart, RecoveryStart, StagingStart} \subseteq Page
  /\ {PfmStart, RecoveryStart, StagingStart} \subseteq Nat
  /\ PfmPages \in Nat \ {0} /\ PfmRegion \subseteq Page /\ PfmStart \in PfmRegion
<1>1. /\ {PfmStart, RecoveryStart, StagingStart} \subseteq Page
      /\ PfmPages \in Nat \ {0} /\ PfmRegion \subseteq Page
  BY PlacesAssumption
<1>2. PfmStart \in Nat /\ RecoveryStart \in Nat /\ StagingStart \in Nat
  BY <1>1, PageNumbers
<1>3. PfmStart \in PfmRegion
  BY <1>1, <1>2 DEF PfmRegion
<1> QED
  BY <1>1, <1>2, <1>3

(***************************************************************************)
(* Erasing.                                                                *)
(***************************************************************************)
Blank(flash, pages) == [p \in Page |-> IF p \in pages THEN Erased ELSE flash[p]]

\* A function from pages.
IsFlash(flash) == flash = [p \in Page |-> flash[p]]

\* Erased twice.
LEMMA BlankTwice ==
  ASSUME NEW flash, NEW S, NEW T
  PROVE  Blank(Blank(flash, S), T) = Blank(flash, S \union T)
  BY DEF Blank

\* The two erase commands; a sector is erased from its start.
LEMMA EraseCommands ==
  ASSUME NEW flash, NEW p \in Page
  PROVE  LET one == Command("erase4", p, p)
             all == Command("erase64", p, p)
         IN  /\ one \in Orders /\ Commanded(flash, one) = Blank(flash, p..p)
             /\ p % PagesPerSector = 0 =>
                  /\ all \in Orders
                  /\ Commanded(flash, all) = Blank(flash, p..p + PagesPerSector - 1)
<1> DEFINE one == Command("erase4", p, p)
           all == Command("erase64", p, p)
<1>1. one \in Orders /\ all \in Orders
  BY DEF Command, Orders
<1>2. one.op = "erase4" /\ one.at = p /\ all.op = "erase64" /\ all.at = p
  BY DEF Command
<1> HIDE DEF one, all
<1>3. Commanded(flash, one) = Blank(flash, p..p)
  <2>1. Targets(one) = {p} /\ p..p = {p}
    BY <1>2 DEF Targets
  <2>2. Result(flash, one) = Erased
    <3>1. one.op \in {"erase4", "erase64"}
      BY <1>2
    <3> QED
      BY <3>1, Zenon DEF Result
  <2> QED
    BY <2>1, <2>2 DEF Commanded, Blank
<1>4. ASSUME p % PagesPerSector = 0
      PROVE  Commanded(flash, all) = Blank(flash, p..p + PagesPerSector - 1)
  <2>1. Sector(p) = p..p + PagesPerSector - 1
    BY <1>4, Sizes, PageNumbers DEF Sector
  <2>2. Targets(all) = Sector(p)
    BY <1>2 DEF Targets
  <2>3. Result(flash, all) = Erased
    BY <1>2 DEF Result
  <2> QED
    BY <2>1, <2>2, <2>3 DEF Commanded, Blank
<1> QED
  BY <1>1, <1>3, <1>4 DEF one, all

\* What is left to erase from each page on, up to a page to.
ErasingFrom(rest, p, to) ==
  IF p = to THEN <<>>
  ELSE IF to - p >= PagesPerSector /\ p % PagesPerSector = 0
    THEN <<Command("erase64", p, p)>> \o rest[p + PagesPerSector]
    ELSE <<Command("erase4", p, p)>> \o rest[p + 1]
Erasing(rest, from, to) == rest = [p \in from..to |-> ErasingFrom(rest, p, to)]

\* There are such commands, from the last page down.
LEMMA ErasingExists ==
  ASSUME NEW from \in Nat, NEW to \in Nat, from <= to
  PROVE  \E rest : Erasing(rest, from, to)
<1> DEFINE S == {n \in 0..to - from : \E rest : Erasing(rest, to - n, to)}
<1>1. 0 \in S
  <2>1. Erasing([p \in to..to |-> <<>>], to, to)
    BY DEF Erasing, ErasingFrom
  <2> QED
    BY <2>1
<1>2. ASSUME NEW n \in 0..to - from - 1, n \in S PROVE n + 1 \in S
  <2> DEFINE first == to - (n + 1)
  <2>1. first \in Nat /\ first + 1 = to - n /\ first < to /\ first \in from..to
    OBVIOUS
  <2>2. PICK rest : Erasing(rest, first + 1, to)
    BY <1>2, <2>1
  <2> HIDE DEF first
  <2> DEFINE more == [p \in first..to |->
                        IF p = first THEN ErasingFrom(rest, first, to) ELSE rest[p]]
  <2>3. \A p \in first + 1..to : more[p] = rest[p]
    BY <2>1
  <2>4. ASSUME NEW p \in first..to PROVE more[p] = ErasingFrom(more, p, to)
    <3>1. ErasingFrom(more, p, to) = ErasingFrom(rest, p, to)
      <4>1. p # to => p + 1 \in first + 1..to
        BY <2>1
      <4>2. to - p >= PagesPerSector => p + PagesPerSector \in first + 1..to
        BY <2>1, Sizes
      <4> QED
        BY <2>3, <4>1, <4>2 DEF ErasingFrom
    <3>2. CASE p = first
      BY <3>1, <3>2
    <3>3. CASE p \in first + 1..to
      BY <3>1, <3>3, <2>2, <2>3 DEF Erasing
    <3> QED
      BY <3>2, <3>3, <2>1
  <2>5. Erasing(more, first, to)
    BY <2>4 DEF Erasing
  <2> QED
    BY <2>5 DEF first
<1> HIDE DEF S
<1>3. to - from \in S
  BY <1>1, <1>2, SetInduction
<1> QED
  BY <1>3 DEF S

\* erase_spi_region erases the pages it is given, and no other.
LEMMA EraseLeads ==
  ASSUME NEW from \in Nat, NEW to \in Nat, from <= to, to <= Pages
  PROVE  /\ ErasePlan(from, to) \in Plans
         /\ \A flash : IsFlash(flash) =>
              Leads(ErasePlan(from, to), flash, Blank(flash, from..to - 1))
<1> DEFINE rest == CHOOSE f : Erasing(f, from, to)
<1>1. Erasing(rest, from, to)
  BY ErasingExists
<1>2. ErasePlan(from, to) = rest[from]
  BY DEF ErasePlan, Erasing, ErasingFrom
<1> HIDE DEF rest
<1> DEFINE Good(p) == /\ rest[p] \in Plans
                      /\ \A flash : IsFlash(flash) =>
                           Leads(rest[p], flash, Blank(flash, p..to - 1))
           S == {n \in 0..to - from : \A m \in 0..n : Good(to - m)}
<1>3. Good(to)
  <2>1. rest[to] = <<>>
    BY <1>1 DEF Erasing, ErasingFrom
  <2>2. ASSUME NEW flash, IsFlash(flash) PROVE flash = Blank(flash, to..to - 1)
    BY <2>2 DEF IsFlash, Blank
  <2> QED
    BY <2>1, <2>2, LeadsNothing
<1>4. ASSUME NEW p \in Nat, NEW c \in Orders, NEW k \in Nat, p + k <= to, k > 0,
             \A flash : Commanded(flash, c) = Blank(flash, p..p + k - 1),
             rest[p] = <<c>> \o rest[p + k], Good(p + k)
      PROVE  Good(p)
  <2>1. ASSUME NEW flash, IsFlash(flash)
        PROVE  rest[p] \in Plans /\ Leads(rest[p], flash, Blank(flash, p..to - 1))
    <3> DEFINE mid == Blank(flash, p..p + k - 1)
    <3>1. <<c>> \in Plans /\ Leads(<<c>>, flash, mid)
      BY <1>4, LeadsOne
    <3>2. IsFlash(mid)
      BY DEF IsFlash, Blank
    <3>3. Leads(rest[p + k], mid, Blank(mid, p + k..to - 1)) /\ rest[p + k] \in Plans
      BY <1>4, <3>2
    <3>4. (p..p + k - 1) \union (p + k..to - 1) = p..to - 1
      BY <1>4
    <3>5. Blank(mid, p + k..to - 1) = Blank(flash, p..to - 1)
      <4> DEFINE first == p..p + k - 1
                 others == p + k..to - 1
      <4>1. Blank(Blank(flash, first), others) = Blank(flash, first \union others)
        <5> HIDE DEF first, others
        <5> QED
          BY BlankTwice
      <4> QED
        BY <3>4, <4>1
    <3> HIDE DEF mid
    <3> QED
      BY <1>4, <3>1, <3>3, <3>5, LeadsOn
  <2>2. rest[p] \in Plans
    <3>1. IsFlash(Blank([q \in Page |-> Erased], {}))
      BY DEF IsFlash, Blank
    <3> QED
      BY <3>1, <2>1
  <2> QED
    BY <2>1, <2>2
<1>5. ASSUME NEW n \in 0..to - from - 1, n \in S PROVE n + 1 \in S
  <2> DEFINE p == to - (n + 1)
  <2>1. p \in Nat /\ p \in from..to /\ p # to /\ p <= to
    OBVIOUS
  <2>2. rest[p] = ErasingFrom(rest, p, to)
    BY <1>1, <2>1 DEF Erasing
  <2>5. p \in Page
    BY <2>1, PageNumbers DEF Page
  <2>3. Good(p + 1)
    <3>1. p + 1 = to - n /\ n \in 0..n
      OBVIOUS
    <3> QED
      BY <1>5, <3>1
  <2>4. Good(p)
    <3>1. CASE to - p >= PagesPerSector /\ p % PagesPerSector = 0
      <4>1. Good(p + PagesPerSector)
        <5>1. p + PagesPerSector = to - (n + 1 - PagesPerSector) /\ n + 1 - PagesPerSector \in 0..n
          BY <3>1, Sizes
        <5> QED
          BY <1>5, <5>1
      <4> HIDE DEF p, Good
      <4>2. rest[p] = <<Command("erase64", p, p)>> \o rest[p + PagesPerSector]
        BY <2>1, <2>2, <3>1 DEF ErasingFrom
      <4>3. PagesPerSector \in Nat /\ PagesPerSector > 0 /\ p + PagesPerSector <= to
        BY <2>1, <3>1, Sizes
      <4> QED
        BY <1>4, <2>1, <2>5, <3>1, <4>1, <4>2, <4>3, EraseCommands
    <3>2. CASE ~(to - p >= PagesPerSector /\ p % PagesPerSector = 0)
      <4> HIDE DEF p, Good
      <4>1. rest[p] = <<Command("erase4", p, p)>> \o rest[p + 1]
        BY <2>1, <2>2, <3>2 DEF ErasingFrom
      <4> DEFINE c == Command("erase4", p, p)
      <4>2. p \in Nat /\ p + 1 <= to /\ p + 1 - 1 = p /\ 1 \in Nat /\ 1 > 0
        BY <2>1
      <4>3. c \in Orders /\ \A flash : Commanded(flash, c) = Blank(flash, p..p + 1 - 1)
        BY <2>5, <4>2, EraseCommands
      <4> HIDE DEF c
      <4> QED
        BY <1>4, <2>3, <4>1, <4>2, <4>3 DEF c
    <3> QED
      BY <3>1, <3>2
  <2> HIDE DEF Good
  <2> QED
    BY <1>5, <2>4
<1>6. 0 \in S
  BY <1>3
<1> HIDE DEF S
<1>7. to - from \in S
  BY <1>5, <1>6, SetInduction
<1>8. Good(from)
  <2>1. to - from \in 0..to - from /\ to - (to - from) = from
    OBVIOUS
  <2> HIDE DEF Good
  <2> QED
    BY <1>7, <2>1 DEF S
<1> QED
  BY <1>2, <1>8

(***************************************************************************)
(* A finite set of numbers in ascending order.                             *)
(***************************************************************************)
Below(S, p) == Cardinality({q \in S : q < p})

\* How many members are below a member tells the member, and takes every value.
LEMMA BelowCounts ==
  ASSUME NEW S \in SUBSET Nat, IsFiniteSet(S)
  PROVE  /\ Cardinality(S) \in Nat
         /\ \A p \in S : Below(S, p) \in 0..Cardinality(S) - 1
         /\ \A p, q \in S : p < q => Below(S, p) < Below(S, q)
         /\ \A n \in 0..Cardinality(S) - 1 : \E p \in S : Below(S, p) = n
<1> DEFINE N == Cardinality(S)
           Under(p) == {q \in S : q < p}
<1>1. N \in Nat
  BY FS_CardinalityType
<1>2. ASSUME NEW p \in S
      PROVE  IsFiniteSet(Under(p)) /\ Cardinality(Under(p)) \in 0..N - 1
  <2>1. Under(p) \in SUBSET (S \ {p}) /\ IsFiniteSet(S \ {p}) /\ Cardinality(S \ {p}) = N - 1
    BY FS_RemoveElement
  <2>2. IsFiniteSet(Under(p)) /\ Cardinality(Under(p)) <= N - 1
    BY <2>1, FS_Subset
  <2>3. Cardinality(Under(p)) \in Nat
    BY <2>2, FS_CardinalityType
  <2> HIDE DEF Under, N
  <2> QED
    BY <1>1, <2>2, <2>3
<1>3. ASSUME NEW p \in S, NEW q \in S, p < q
      PROVE  Cardinality(Under(p)) < Cardinality(Under(q))
  <2>1. Under(p) \in SUBSET Under(q) /\ p \in Under(q) /\ p \notin Under(p)
    <3>1. \A x \in S : x \in Nat
      OBVIOUS
    <3>2. \A x \in S : x < p => x < q
      BY <1>3, <3>1
    <3>3. \A x \in Under(p) : x \in Under(q)
      BY <3>2
    <3>4. p \in Under(q) /\ p \notin Under(p)
      BY <1>3, <3>1
    <3> QED
      BY <3>3, <3>4
  <2>2. IsFiniteSet(Under(p)) /\ IsFiniteSet(Under(q))
    BY <1>2
  <2> HIDE DEF Under
  <2>3. /\ Cardinality(Under(p)) <= Cardinality(Under(q))
        /\ Cardinality(Under(p)) # Cardinality(Under(q))
    BY <2>1, <2>2, FS_Subset
  <2>4. Cardinality(Under(p)) \in Nat /\ Cardinality(Under(q)) \in Nat
    BY <2>2, FS_CardinalityType
  <2> QED
    BY <2>3, <2>4
<1> DEFINE f == [p \in S |-> Cardinality(Under(p))]
<1> HIDE DEF N, Under
<1>4. f \in Injection(S, 0..N - 1)
  <2>1. \A p, q \in S : f[p] = f[q] => p = q
    BY <1>2, <1>3
  <2>2. f \in [S -> 0..N - 1]
    BY <1>2
  <2> HIDE DEF f
  <2> QED
    BY <2>1, <2>2 DEF Injection, IsInjective
<1>5. IsFiniteSet(0..N - 1) /\ Cardinality(0..N - 1) = N
  BY <1>1, FS_Interval
<1>6. f \in Surjection(S, 0..N - 1)
  BY <1>4, <1>5, FS_Injection DEF N
<1>7. \A n \in 0..N - 1 : \E p \in S : f[p] = n
  BY <1>6 DEF Surjection
<1>8. \A p \in S : Below(S, p) = Cardinality(Under(p))
  BY DEF Below, Under
<1> QED
  BY <1>1, <1>2, <1>3, <1>7, <1>8 DEF N

\* Sorted enumerates the set.
LEMMA SortedIs ==
  ASSUME NEW S \in SUBSET Nat, IsFiniteSet(S)
  PROVE  /\ Cardinality(S) \in Nat
         /\ \A n \in 1..Cardinality(S) : Sorted(S)[n] \in S
         /\ \A p \in S : \E n \in 1..Cardinality(S) : Sorted(S)[n] = p
         /\ \A m, n \in 1..Cardinality(S) : Sorted(S)[m] = Sorted(S)[n] => m = n
<1> DEFINE N == Cardinality(S)
<1>1. /\ N \in Nat
      /\ \A p \in S : Below(S, p) \in 0..N - 1
      /\ \A p, q \in S : p < q => Below(S, p) < Below(S, q)
      /\ \A n \in 0..N - 1 : \E p \in S : Below(S, p) = n
  BY BelowCounts
<1>2. \A n \in 1..N : Sorted(S)[n] = CHOOSE p \in S : Below(S, p) = n - 1
  BY DEF Sorted, Below
<1> HIDE DEF N
<1>3. \A n \in 1..N : Sorted(S)[n] \in S /\ Below(S, Sorted(S)[n]) = n - 1
  <2> SUFFICES ASSUME NEW n \in 1..N
               PROVE  Sorted(S)[n] \in S /\ Below(S, Sorted(S)[n]) = n - 1
    OBVIOUS
  <2>1. n - 1 \in 0..N - 1
    BY <1>1
  <2>2. \E p \in S : Below(S, p) = n - 1
    BY <1>1, <2>1
  <2> QED
    BY <1>2, <2>2
<1>4. ASSUME NEW p \in S PROVE \E n \in 1..N : Sorted(S)[n] = p
  <2> DEFINE n == Below(S, p) + 1
  <2>1. n \in 1..N /\ n - 1 = Below(S, p)
    BY <1>1
  <2> HIDE DEF n
  <2>2. Sorted(S)[n] \in S /\ Below(S, Sorted(S)[n]) = Below(S, p)
    BY <1>3, <2>1
  <2>3. ~(Sorted(S)[n] < p) /\ ~(p < Sorted(S)[n])
    <3>1. PICK q \in S : q = Sorted(S)[n] /\ Below(S, q) = Below(S, p)
      BY <2>2
    <3>2. Below(S, p) \in Int /\ ~(Below(S, p) < Below(S, p))
      BY <1>1
    <3>3. ~(q < p) /\ ~(p < q)
      BY <1>1, <3>1, <3>2
    <3> QED
      BY <3>1, <3>3
  <2>4. Sorted(S)[n] \in Nat /\ p \in Nat
    BY <2>2
  <2>5. Sorted(S)[n] = p
    BY <2>3, <2>4
  <2> QED
    BY <2>1, <2>5
<1>5. ASSUME NEW m \in 1..N, NEW n \in 1..N, Sorted(S)[m] = Sorted(S)[n] PROVE m = n
  <2>1. m - 1 = n - 1
    BY <1>3, <1>5
  <2> QED
    BY <1>1, <2>1
<1> QED
  BY <1>1, <1>3, <1>4, <1>5 DEF N

(***************************************************************************)
(* A sequence of plans, one after another.                                 *)
(***************************************************************************)
Flattened(f, k, seqs) ==
  f = [n \in 1..k |-> IF n = 1 THEN seqs[n] ELSE f[n - 1] \o seqs[n]]

\* There are such concatenations.
LEMMA FlattenedExists ==
  ASSUME NEW k \in Nat, NEW seqs
  PROVE  \E f : Flattened(f, k, seqs)
<1> DEFINE S == {n \in 0..k : \E f : Flattened(f, n, seqs)}
<1>1. 0 \in S
  <2>1. Flattened([n \in 1..0 |-> <<>>], 0, seqs)
    BY DEF Flattened
  <2> QED
    BY <2>1
<1>2. ASSUME NEW n \in 0..k - 1, n \in S PROVE n + 1 \in S
  <2>1. PICK f : Flattened(f, n, seqs)
    BY <1>2
  <2> DEFINE last == IF n = 0 THEN seqs[n + 1] ELSE f[n] \o seqs[n + 1]
             g == [m \in 1..n + 1 |-> IF m = n + 1 THEN last ELSE f[m]]
  <2> HIDE DEF last
  <2>2. g[n + 1] = last /\ \A m \in 1..n : g[m] = f[m]
    OBVIOUS
  <2> USE DEF last
  <2>3. ASSUME NEW m \in 1..n + 1
        PROVE  g[m] = IF m = 1 THEN seqs[m] ELSE g[m - 1] \o seqs[m]
    <3> HIDE DEF g
    <3>1. CASE m = n + 1
      <4>1. m - 1 = n /\ (m = 1 <=> n = 0) /\ (n # 0 => n \in 1..n)
        BY <3>1
      <4> QED
        BY <2>2, <3>1, <4>1
    <3>2. CASE m \in 1..n
      <4>1. m # 1 => m - 1 \in 1..n
        BY <3>2
      <4>2. f[m] = IF m = 1 THEN seqs[m] ELSE f[m - 1] \o seqs[m]
        BY <2>1, <3>2 DEF Flattened
      <4> QED
        BY <2>2, <3>2, <4>1, <4>2
    <3> QED
      BY <3>1, <3>2
  <2>4. Flattened(g, n + 1, seqs)
    BY <2>3 DEF Flattened
  <2> QED
    BY <2>4
<1> HIDE DEF S
<1>3. k \in S
  BY <1>1, <1>2, SetInduction
<1> QED
  BY <1>3 DEF S

\* Plans that lead from each content to the next lead from the first to the last.
LEMMA FlattenLeads ==
  ASSUME NEW seqs \in Seq(Plans), NEW h,
         \A n \in 1..Len(seqs) : Leads(seqs[n], h[n - 1], h[n])
  PROVE  FlattenSeq(seqs) \in Plans /\ Leads(FlattenSeq(seqs), h[0], h[Len(seqs)])
<1> DEFINE N == Len(seqs)
           f == CHOOSE g : Flattened(g, N, seqs)
<1>1. N \in Nat /\ \A n \in 1..N : seqs[n] \in Plans
  OBVIOUS
<1>2. Flattened(f, N, seqs)
  BY <1>1, FlattenedExists
<1>3. CASE N = 0
  <2>1. seqs = <<>> /\ FlattenSeq(seqs) = seqs
    BY <1>3 DEF FlattenSeq
  <2> QED
    BY <1>3, <2>1, LeadsNothing
<1>4. CASE N # 0
  <2>1. FlattenSeq(seqs) = f[N]
    BY <1>4 DEF FlattenSeq, Flattened
  <2> HIDE DEF f, N
  <2> DEFINE S == {n \in 0..N : n = 0 \/ (f[n] \in Plans /\ Leads(f[n], h[0], h[n]))}
  <2>2. ASSUME NEW n \in 0..N - 1, n \in S PROVE n + 1 \in S
    <3>1. /\ n + 1 \in 1..N /\ (n + 1) - 1 = n
          /\ seqs[n + 1] \in Plans /\ Leads(seqs[n + 1], h[n], h[n + 1])
      BY <1>1 DEF N
    <3>2. f[n + 1] = IF n + 1 = 1 THEN seqs[n + 1] ELSE f[n] \o seqs[n + 1]
      BY <1>2, <3>1 DEF Flattened
    <3>3. CASE n = 0
      BY <3>1, <3>2, <3>3
    <3>4. CASE n # 0
      <4>1. f[n] \in Plans /\ Leads(f[n], h[0], h[n]) /\ f[n + 1] = f[n] \o seqs[n + 1]
        <5>1. n = 0 \/ (f[n] \in Plans /\ Leads(f[n], h[0], h[n]))
          BY <2>2
        <5>2. f[n + 1] = f[n] \o seqs[n + 1]
          <6>1. n + 1 # 1
            BY <1>1, <3>4
          <6> QED
            BY <3>2, <6>1
        <5>3. f[n] \in Plans /\ Leads(f[n], h[0], h[n])
          BY <5>1, <3>4, Zenon
        <5> QED
          BY <5>2, <5>3
      <4>2. f[n + 1] \in Plans /\ Leads(f[n + 1], h[0], h[n + 1])
        BY <3>1, <4>1, LeadsOn
      <4> QED
        BY <3>1, <4>2
    <3> QED
      BY <3>3, <3>4
  <2>3. 0 \in S
    BY <1>1
  <2> HIDE DEF S
  <2>4. N \in Nat
    BY <1>1
  <2>5. N \in S
    <3>1. \A n \in 0..N - 1 : n \in S => n + 1 \in S
      BY <2>2
    <3>2. 0..N \subseteq S
      BY <2>3, <2>4, <3>1, SetInduction
    <3> QED
      BY <2>4, <3>2
  <2> QED
    BY <1>4, <2>1, <2>5 DEF S, N
<1> QED
  BY <1>3, <1>4

(***************************************************************************)
(* The pages of a set, run by run.                                         *)
(***************************************************************************)
RunStarts(pages) == {p \in pages : p - 1 \notin pages \/ p = 0}
IsRunEnd(e, p, pages) == e \notin pages /\ p..e - 1 \subseteq pages
RunEnd(p, pages) == CHOOSE e \in p + 1..Pages : IsRunEnd(e, p, pages)

\* Every run has an end.
LEMMA RunEnds ==
  ASSUME NEW A \in SUBSET Page, NEW p \in A
  PROVE  RunEnd(p, A) \in p + 1..Pages /\ IsRunEnd(RunEnd(p, A), p, A)
<1>1. p \in Nat /\ p < Pages /\ Pages \in Nat /\ Pages \notin A
  BY PageNumbers
<1>2. \E e \in p + 1..Pages : IsRunEnd(e, p, A)
  <2> SUFFICES ASSUME \A e \in p + 1..Pages : ~IsRunEnd(e, p, A) PROVE FALSE
    OBVIOUS
  <2> DEFINE k == Pages - 1 - p
             S == {n \in 0..k : p..p + n \subseteq A}
  <2>1. k \in Nat
    BY <1>1
  <2>2. 0 \in S
    <3>1. p..p + 0 = {p}
      BY <1>1
    <3> QED
      BY <2>1, <3>1
  <2>3. ASSUME NEW n \in 0..k - 1, n \in S PROVE n + 1 \in S
    <3>1. p + (n + 1) \in p + 1..Pages /\ (p + (n + 1)) - 1 = p + n
      BY <1>1
    <3>2. p + (n + 1) \in A
      BY <2>3, <3>1 DEF IsRunEnd
    <3>3. p..p + (n + 1) = (p..p + n) \union {p + (n + 1)}
      BY <1>1
    <3>4. n + 1 \in 0..k
      BY <1>1
    <3> HIDE DEF k
    <3> QED
      BY <2>3, <3>2, <3>3, <3>4
  <2> HIDE DEF S, k
  <2>4. k \in S
    BY <2>1, <2>2, <2>3, SetInduction
  <2>5. p..Pages - 1 \subseteq A
    <3>1. p + k = Pages - 1
      BY <1>1 DEF k
    <3> QED
      BY <2>4, <3>1 DEF S
  <2>6. Pages \in p + 1..Pages
    BY <1>1
  <2> QED
    BY <1>1, <2>5, <2>6 DEF IsRunEnd
<1> QED
  BY <1>2 DEF RunEnd

\* Every page is in a run that has a start.
LEMMA RunHasStart ==
  ASSUME NEW A \in SUBSET Page, NEW p \in A
  PROVE  \E s \in RunStarts(A) : s <= p /\ s..p \subseteq A
<1> SUFFICES ASSUME \A s \in RunStarts(A) : ~(s <= p /\ s..p \subseteq A) PROVE FALSE
  OBVIOUS
<1>1. p \in Nat
  BY PageNumbers
<1> DEFINE S == {n \in 0..p : p - n..p \subseteq A}
<1>2. 0 \in S
  <2>1. p - 0..p = {p}
    BY <1>1
  <2> QED
    BY <1>1, <2>1
<1>3. ASSUME NEW n \in 0..p - 1, n \in S PROVE n + 1 \in S
  <2>1. p - n \in A /\ p - n <= p
    BY <1>1, <1>3
  <2>2. p - n \notin RunStarts(A)
    BY <1>3, <2>1
  <2>3. (p - n) - 1 \in A
    BY <2>1, <2>2 DEF RunStarts
  <2>4. p - (n + 1)..p = (p - n..p) \union {(p - n) - 1}
    BY <1>1
  <2> QED
    BY <1>1, <1>3, <2>3, <2>4
<1> HIDE DEF S
<1>4. p \in S
  BY <1>1, <1>2, <1>3, SetInduction
<1>5. 0..p \subseteq A
  BY <1>1, <1>4 DEF S
<1>6. 0 \in RunStarts(A)
  BY <1>1, <1>5 DEF RunStarts
<1> QED
  BY <1>1, <1>5, <1>6

\* The runs of a set are intervals that hold its pages and no others.
LEMMA RunsAre ==
  ASSUME NEW A \in SUBSET Page
  PROVE  \E k \in Nat : \E a, b \in [1..k -> Nat] :
           /\ Runs(A) = [n \in 1..k |-> <<a[n], b[n]>>]
           /\ \A n \in 1..k : a[n] <= b[n] /\ b[n] <= Pages
           /\ \A p \in Page : p \in A <=> \E n \in 1..k : p \in a[n]..b[n] - 1
<1> DEFINE starts == RunStarts(A)
           k == Cardinality(starts)
           a == [n \in 1..k |-> Sorted(starts)[n]]
           b == [n \in 1..k |-> RunEnd(Sorted(starts)[n], A)]
<1>1. starts \in SUBSET A /\ starts \in SUBSET Nat /\ IsFiniteSet(starts) /\ k \in Nat
  <2>1. starts \in SUBSET A
    BY DEF RunStarts
  <2> HIDE DEF starts
  <2> QED
    BY <2>1, PageNumbers
<1>2. Runs(A) = [n \in 1..k |-> <<Sorted(starts)[n], RunEnd(Sorted(starts)[n], A)>>]
  BY DEF Runs, RunStarts, RunEnd, IsRunEnd
<1> HIDE DEF starts, k
<1>3. /\ \A n \in 1..k : Sorted(starts)[n] \in starts
      /\ \A s \in starts : \E n \in 1..k : Sorted(starts)[n] = s
  BY <1>1, SortedIs DEF k
<1>4. \A s \in starts : /\ s \in A /\ s \in Nat /\ RunEnd(s, A) \in Nat /\ s < RunEnd(s, A) /\ RunEnd(s, A) <= Pages
                        /\ IsRunEnd(RunEnd(s, A), s, A)
  <2> SUFFICES ASSUME NEW s \in starts
               PROVE  /\ s \in A /\ s \in Nat /\ RunEnd(s, A) \in Nat /\ s < RunEnd(s, A) /\ RunEnd(s, A) <= Pages
                      /\ IsRunEnd(RunEnd(s, A), s, A)
    OBVIOUS
  <2>1. s \in A /\ s \in Nat /\ Pages \in Nat
    BY <1>1, PageNumbers
  <2>2. RunEnd(s, A) \in s + 1..Pages /\ IsRunEnd(RunEnd(s, A), s, A)
    BY <2>1, RunEnds
  <2> QED
    BY <2>1, <2>2
<1>5. a \in [1..k -> Nat] /\ b \in [1..k -> Nat]
  BY <1>3, <1>4
<1>6. Runs(A) = [n \in 1..k |-> <<a[n], b[n]>>]
  BY <1>2
<1>7. ASSUME NEW n \in 1..k
      PROVE  a[n] \in starts /\ b[n] = RunEnd(a[n], A) /\ a[n] <= b[n] /\ b[n] <= Pages
  BY <1>3, <1>4
<1>8. ASSUME NEW p \in Page, NEW n \in 1..k, p \in a[n]..b[n] - 1 PROVE p \in A
  BY <1>4, <1>7, <1>8 DEF IsRunEnd
<1>9. ASSUME NEW p \in A PROVE \E n \in 1..k : p \in a[n]..b[n] - 1
  <2>1. PICK s \in starts : s <= p /\ s..p \subseteq A
    BY RunHasStart DEF starts
  <2>2. PICK n \in 1..k : Sorted(starts)[n] = s
    BY <1>3, <2>1
  <2>3. a[n] = s /\ b[n] = RunEnd(s, A)
    BY <2>2
  <2> DEFINE e == RunEnd(s, A)
  <2>4. e \in Nat /\ s \in Nat /\ p \in Nat /\ s < e /\ e \notin A
    BY <1>4, PageNumbers DEF IsRunEnd
  <2> HIDE DEF e
  <2>5. ~(e <= p)
    BY <2>1, <2>4
  <2>6. p \in s..e - 1
    BY <2>1, <2>4, <2>5
  <2> HIDE DEF a, b
  <2> QED
    BY <2>3, <2>6 DEF e
<1> HIDE DEF a, b
<1>10. \A p \in Page : p \in A <=> \E n \in 1..k : p \in a[n]..b[n] - 1
  BY <1>8, <1>9
<1> QED
  BY <1>1, <1>5, <1>6, <1>7, <1>10 DEF k

\* The runs of a set, erased one after the other, are the set erased.
EraseRuns(pages) ==
  FlattenSeq([n \in DOMAIN Runs(pages) |-> ErasePlan(Runs(pages)[n][1], Runs(pages)[n][2])])

\* That is what its commands lead to.
LEMMA EraseRunsLeads ==
  ASSUME NEW A \in SUBSET Page
  PROVE  /\ EraseRuns(A) \in Plans
         /\ \A flash : IsFlash(flash) => Leads(EraseRuns(A), flash, Blank(flash, A))
<1>1. PICK k \in Nat : \E a, b \in [1..k -> Nat] :
           /\ Runs(A) = [n \in 1..k |-> <<a[n], b[n]>>]
           /\ \A n \in 1..k : a[n] <= b[n] /\ b[n] <= Pages
           /\ \A p \in Page : p \in A <=> \E n \in 1..k : p \in a[n]..b[n] - 1
  BY RunsAre
<1>2. PICK a \in [1..k -> Nat], b \in [1..k -> Nat] :
           /\ Runs(A) = [n \in 1..k |-> <<a[n], b[n]>>]
           /\ \A n \in 1..k : a[n] <= b[n] /\ b[n] <= Pages
           /\ \A p \in Page : p \in A <=> \E n \in 1..k : p \in a[n]..b[n] - 1
  BY <1>1
<1> DEFINE seqs == [n \in 1..k |-> ErasePlan(a[n], b[n])]
<1>3. EraseRuns(A) = FlattenSeq(seqs)
  <2>1. DOMAIN Runs(A) = 1..k /\ \A n \in 1..k : Runs(A)[n][1] = a[n] /\ Runs(A)[n][2] = b[n]
    BY <1>2
  <2> QED
    BY <2>1 DEF EraseRuns
<1>4. \A n \in 1..k : seqs[n] \in Plans
  BY <1>2, EraseLeads
<1>5. seqs \in Seq(Plans) /\ Len(seqs) = k
  BY <1>4
<1>6. ASSUME NEW n \in 1..k, NEW flash, IsFlash(flash)
      PROVE  Leads(seqs[n], flash, Blank(flash, a[n]..b[n] - 1))
  BY <1>2, <1>6, EraseLeads
<1> HIDE DEF seqs
<1>7. ASSUME NEW flash, IsFlash(flash)
      PROVE  FlattenSeq(seqs) \in Plans /\ Leads(FlattenSeq(seqs), flash, Blank(flash, A))
  <2> DEFINE run(n) == a[n]..b[n] - 1
             upTo(n) == {p \in Page : \E m \in 1..n : p \in run(m)}
             h == [n \in 0..k |-> Blank(flash, upTo(n))]
  <2>1. h[0] = flash
    BY <1>7 DEF Blank, IsFlash
  <2>2. h[k] = Blank(flash, A)
    BY <1>2 DEF Blank
  <2>3. ASSUME NEW n \in 1..k PROVE Leads(seqs[n], h[n - 1], h[n])
    <3>1. n - 1 \in 0..k /\ n \in 0..k /\ \A m \in 1..n : m = n \/ m \in 1..n - 1
      OBVIOUS
    <3>2. h[n - 1] = Blank(flash, upTo(n - 1)) /\ h[n] = Blank(flash, upTo(n))
      BY <3>1
    <3> HIDE DEF run
    <3>3. \A p \in Page : p \in upTo(n) <=> p \in upTo(n - 1) \/ p \in run(n)
      <4>1. \A m \in 1..n - 1 : m \in 1..n
        OBVIOUS
      <4> QED
        BY <3>1, <4>1
    <3> HIDE DEF upTo, h
    <3>4. h[n] = Blank(h[n - 1], run(n))
      BY <3>2, <3>3 DEF Blank
    <3>5. IsFlash(h[n - 1])
      BY <3>2 DEF IsFlash, Blank
    <3> QED
      BY <1>6, <3>4, <3>5 DEF run
  <2> HIDE DEF h
  <2> QED
    BY <1>5, <2>1, <2>2, <2>3, FlattenLeads
<1>8. FlattenSeq(seqs) \in Plans
  <2>1. IsFlash([q \in Page |-> Erased])
    BY DEF IsFlash
  <2> QED
    BY <1>7, <2>1
<1> QED
  BY <1>3, <1>7, <1>8

(***************************************************************************)
(* Copying.                                                                *)
(***************************************************************************)
\* Flash with the content v in some pages.
Put(flash, pages, v) == [p \in Page |-> IF p \in pages THEN v[p] ELSE flash[p]]

\* k pages can be copied, from pages that stay as they are into erased ones.
Copyable(k, to, from, flash, v) ==
  /\ k \in Nat /\ to \in [1..k -> Page] /\ from \in [1..k -> Page] /\ IsFlash(flash)
  /\ \A m, n \in 1..k : (to[m] = to[n] => m = n) /\ to[m] # from[n]
  /\ \A n \in 1..k : flash[to[n]] = Erased /\ flash[from[n]] = v[to[n]]
Copies(k, to, from) == [n \in 1..k |-> Command("copy", to[n], from[n])]

\* Then copying them one after the other makes them what is wanted.
LEMMA CopiesLead ==
  ASSUME NEW k, NEW to, NEW from, NEW flash, NEW v, Copyable(k, to, from, flash, v)
  PROVE  /\ Copies(k, to, from) \in Plans
         /\ Leads(Copies(k, to, from), flash, Put(flash, {to[n] : n \in 1..k}, v))
<1> USE DEF Copyable
<1> DEFINE cmds == Copies(k, to, from)
           done(n) == {to[m] : m \in 1..n}
           f == [n \in 0..k |-> Put(flash, done(n), v)]
<1>1. cmds \in Plans /\ Len(cmds) = k
  <2>1. \A n \in 1..k : to[n] \in Page /\ from[n] \in Page
    OBVIOUS
  <2>2. \A n \in 1..k : cmds[n] \in Orders
    BY <2>1 DEF Orders, Command, Copies
  <2> QED
    BY <2>2 DEF Plans, Copies
<1>2. f[0] = flash /\ f[k] = Put(flash, {to[n] : n \in 1..k}, v)
  BY DEF Put, IsFlash
<1>3. ASSUME NEW n \in 1..k PROVE f[n] = Commanded(f[n - 1], cmds[n])
  <2> DEFINE c == cmds[n]
             old == f[n - 1]
  <2>1. c.op = "copy" /\ c.at = to[n] /\ c.from = from[n]
    BY DEF Command, Copies
  <2>2. n - 1 \in 0..k /\ n \in 0..k /\ \A m \in 1..n : m = n \/ m \in 1..n - 1
    OBVIOUS
  <2>3. old = Put(flash, done(n - 1), v) /\ f[n] = Put(flash, done(n), v)
    BY <2>2
  <2>4. /\ done(n) = done(n - 1) \union {to[n]} /\ to[n] \notin done(n - 1)
        /\ from[n] \notin done(n - 1)
    BY <2>2
  <2> HIDE DEF c, old, done, f, cmds
  <2>5. old[to[n]] = Erased /\ old[from[n]] = v[to[n]]
    BY <2>3, <2>4 DEF Put
  <2>6. Targets(c) = {to[n]}
    BY <2>1 DEF Targets
  <2>7. Result(old, c) = v[to[n]]
    BY <2>1, <2>5 DEF Result, Fresh
  <2>8. Commanded(old, c) = [p \in Page |-> IF p \in {to[n]} THEN v[to[n]] ELSE old[p]]
    BY <2>6, <2>7 DEF Commanded
  <2>9. \A p \in Page : (IF p \in {to[n]} THEN v[to[n]] ELSE old[p])
                         = IF p \in done(n) THEN v[p] ELSE flash[p]
    BY <2>3, <2>4 DEF Put
  <2> QED
    BY <2>3, <2>8, <2>9 DEF Put, c, old
<1> HIDE DEF cmds, f
<1> QED
  BY <1>1, <1>2, <1>3 DEF Leads, cmds

(***************************************************************************)
(* Regions out of a capsule.                                               *)
(***************************************************************************)
\* The capsule of i is in the pages from base on, as is_capsule_valid has it.
CapsuleIn(flash, i, base) ==
  /\ flash[base] = Header(i)
  /\ \A p \in Layout(i).comp : flash[base + 1 + Rank(i, p)] = Fw(i, p)

\* Where a capsule keeps its pages.
LEMMA CapsuleLayout ==
  ASSUME NEW i \in Images, NEW base \in Nat
  PROVE  /\ CapsulePages(i) \in Nat \ {0} /\ base \in CapsuleRegion(i, base)
         /\ Layout(i).comp \in SUBSET Page
         /\ \A p \in Layout(i).comp : base + 1 + Rank(i, p) \in CapsuleRegion(i, base) \ {base}
         /\ \A p, q \in Layout(i).comp : Rank(i, p) = Rank(i, q) => p = q
         /\ \A x \in CapsuleRegion(i, base) \ {base} :
              \E p \in Layout(i).comp : x = base + 1 + Rank(i, p)
<1> DEFINE comp == Layout(i).comp
           N == Cardinality(comp)
<1>1. comp \in SUBSET Page
  BY LayoutAssumption
<1> HIDE DEF comp
<1>2. comp \in SUBSET Nat /\ IsFiniteSet(comp)
  BY <1>1, PageNumbers
<1>3. /\ N \in Nat
      /\ \A p \in comp : Below(comp, p) \in 0..N - 1
      /\ \A p, q \in comp : p < q => Below(comp, p) < Below(comp, q)
      /\ \A n \in 0..N - 1 : \E p \in comp : Below(comp, p) = n
  BY <1>2, BelowCounts
<1>4. \A p : Rank(i, p) = Below(comp, p)
  BY DEF Rank, Below, comp
<1>5. CapsulePages(i) = 1 + N
  BY DEF CapsulePages, comp
<1> HIDE DEF N
<1>6. CapsuleRegion(i, base) = base..base + N
  BY <1>3, <1>5 DEF CapsuleRegion
<1>7. \A p \in comp : base + 1 + Rank(i, p) \in CapsuleRegion(i, base) \ {base}
  BY <1>3, <1>4, <1>6
<1>8. ASSUME NEW p \in comp, NEW q \in comp, Rank(i, p) = Rank(i, q) PROVE p = q
  <2>1. p \in Nat /\ q \in Nat
    BY <1>2
  <2>2. Below(comp, p) \in Int /\ Below(comp, p) = Below(comp, q)
    BY <1>3, <1>4, <1>8
  <2>3. ~(p < q) /\ ~(q < p)
    BY <1>3, <2>2
  <2> QED
    BY <2>1, <2>3
<1>9. ASSUME NEW x \in CapsuleRegion(i, base) \ {base}
      PROVE  \E p \in comp : x = base + 1 + Rank(i, p)
  <2>1. x - base - 1 \in 0..N - 1 /\ x \in Int
    BY <1>3, <1>6
  <2>2. PICK p \in comp : Below(comp, p) = x - base - 1
    BY <1>3, <2>1
  <2>3. Rank(i, p) = x - base - 1
    BY <1>4, <2>2
  <2>4. x = base + 1 + Rank(i, p)
    BY <2>1, <2>3
  <2> QED
    BY <2>4
<1>10. base \in base..base + N /\ 1 + N \in Nat \ {0}
  BY <1>3
<1> QED
  BY <1>1, <1>5, <1>6, <1>7, <1>8, <1>9, <1>10 DEF comp

\* What a region copied out of a capsule reads as afterwards, page by page.
LEMMA RegionLeads ==
  ASSUME NEW i \in Images, NEW base \in Nat, NEW d, NEW flash, IsFlash(flash),
         CapsuleIn(flash, i, base), CapsuleRegion(i, base) \subseteq Page,
         Span(d) \intersect CapsuleRegion(i, base) = {}
  PROVE  LET restored == Span(d) \intersect Layout(i).active
         IN  /\ RegionPlan(base, i, d) \in Plans
             /\ Leads(RegionPlan(base, i, d), flash, Put(flash, restored, Image(i)))
<1> DEFINE A == Span(d) \intersect Layout(i).active
           T == Span(d) \intersect Layout(i).comp
           k == Cardinality(T)
           to == [n \in 1..k |-> Sorted(T)[n]]
           from == [n \in 1..k |-> base + 1 + Rank(i, Sorted(T)[n])]
           cmds == Copies(k, to, from)
           mid == Blank(flash, A)
<1>1. A \in SUBSET Page /\ T \in SUBSET A
  BY LayoutAssumption
<1>2. CopyPlan(base, i, Span(d)) = cmds
  <2>1. \A n \in 1..k : cmds[n] = Command("copy", Sorted(T)[n], base + 1 + Rank(i, Sorted(T)[n]))
    BY DEF Copies
  <2>2. Len(Sorted(T)) = k /\ k \in Nat
    <3>1. k \in Nat
      <4>1. T \in SUBSET Page
        BY <1>1
      <4> HIDE DEF T
      <4> QED
        BY <4>1, PageNumbers
    <3> HIDE DEF k, T
    <3> QED
      BY <3>1 DEF Sorted, k
  <2> QED
    BY <2>1, <2>2 DEF CopyPlan, Copies
<1>3. RegionPlan(base, i, d) = EraseRuns(A) \o cmds
  BY <1>2 DEF RegionPlan, EraseRuns
<1>4. EraseRuns(A) \in Plans /\ Leads(EraseRuns(A), flash, mid)
  <2> HIDE DEF A
  <2> QED
    BY <1>1, EraseRunsLeads
<1>5. /\ k \in Nat
      /\ \A n \in 1..k : Sorted(T)[n] \in T
      /\ \A p \in T : \E n \in 1..k : Sorted(T)[n] = p
      /\ \A m, n \in 1..k : Sorted(T)[m] = Sorted(T)[n] => m = n
  <2>1. T \in SUBSET Nat /\ IsFiniteSet(T)
    <3>1. T \in SUBSET Page
      BY <1>1
    <3> HIDE DEF T
    <3> QED
      BY <3>1, PageNumbers
  <2> HIDE DEF T
  <2> QED
    BY <2>1, SortedIs
<1>6. \A p \in T : /\ p \in A /\ p \in Page /\ Image(i)[p] = Fw(i, p)
                   /\ base + 1 + Rank(i, p) \in Page \ A
                   /\ flash[base + 1 + Rank(i, p)] = Fw(i, p)
  <2> SUFFICES ASSUME NEW p \in T
               PROVE  /\ p \in A /\ p \in Page /\ Image(i)[p] = Fw(i, p)
                      /\ base + 1 + Rank(i, p) \in Page \ A
                      /\ flash[base + 1 + Rank(i, p)] = Fw(i, p)
    OBVIOUS
  <2>1. base + 1 + Rank(i, p) \in CapsuleRegion(i, base)
    BY CapsuleLayout
  <2>2. base + 1 + Rank(i, p) \in Page \ A
    BY <2>1
  <2>3. Image(i)[p] = Fw(i, p)
    BY LayoutAssumption DEF Image, Body
  <2> QED
    BY <1>1, <2>2, <2>3 DEF CapsuleIn
<1> HIDE DEF A, T, k
<1>7. cmds \in Plans /\ Leads(cmds, mid, Put(mid, {to[n] : n \in 1..k}, Image(i)))
  <2>1. \A n \in 1..k : to[n] = Sorted(T)[n] /\ from[n] = base + 1 + Rank(i, to[n]) /\ to[n] \in T
    BY <1>5
  <2>2. IsFlash(mid)
    BY DEF IsFlash, Blank
  <2>3. to \in [1..k -> Page] /\ from \in [1..k -> Page]
    BY <1>5, <1>6
  <2>4. \A m, n \in 1..k : to[m] = to[n] => m = n
    BY <1>5
  <2> HIDE DEF to, from
  <2>5. \A m, n \in 1..k : to[m] # from[n]
    BY <1>6, <2>1
  <2>6. \A n \in 1..k : mid[to[n]] = Erased /\ mid[from[n]] = Image(i)[to[n]]
    BY <1>6, <2>1 DEF Blank
  <2> HIDE DEF mid
  <2>7. Copyable(k, to, from, mid, Image(i))
    BY <1>5, <2>2, <2>3, <2>4, <2>5, <2>6 DEF Copyable
  <2> QED
    BY <2>7, CopiesLead
<1>8. {to[n] : n \in 1..k} = T
  BY <1>5
<1>9. Put(mid, T, Image(i)) = Put(flash, A, Image(i))
  <2> SUFFICES ASSUME NEW p \in Page
               PROVE  (IF p \in T THEN Image(i)[p] ELSE mid[p])
                        = IF p \in A THEN Image(i)[p] ELSE flash[p]
    BY DEF Put
  <2>1. ASSUME p \in A, p \notin T PROVE Image(i)[p] = Erased
    BY <2>1 DEF Image, Body, A, T
  <2> QED
    BY <1>1, <2>1 DEF Blank
<1>10. Leads(cmds, mid, Put(flash, A, Image(i)))
  BY <1>7, <1>8, <1>9
<1> HIDE DEF cmds, mid
<1>11. RegionPlan(base, i, d) \in Plans /\ Leads(RegionPlan(base, i, d), flash, Put(flash, A, Image(i)))
  BY <1>3, <1>4, <1>7, <1>10, LeadsOn
<1> QED
  BY <1>11 DEF A

\* A flash with a whole capsule to copy from.
Readable(flash, i, base) ==
  /\ IsFlash(flash) /\ i \in Images /\ base \in Nat
  /\ CapsuleIn(flash, i, base) /\ CapsuleRegion(i, base) \subseteq Page

\* It stays one when other pages change.
LEMMA StillReadable ==
  ASSUME NEW flash, NEW i, NEW base, Readable(flash, i, base),
         NEW S, S \intersect CapsuleRegion(i, base) = {}, NEW v
  PROVE  Readable(Put(flash, S, v), i, base)
<1> USE DEF Readable
<1>1. \A p \in CapsuleRegion(i, base) : Put(flash, S, v)[p] = flash[p]
  BY DEF Put
<1>2. IsFlash(Put(flash, S, v))
  BY DEF IsFlash, Put
<1>3. base \in CapsuleRegion(i, base)
  BY CapsuleLayout
<1>4. \A p \in Layout(i).comp : base + 1 + Rank(i, p) \in CapsuleRegion(i, base)
  BY CapsuleLayout
<1> QED
  BY <1>1, <1>2, <1>3, <1>4 DEF CapsuleIn

\* The regions copied out of a capsule, one after the other.
SpansOf(defs, chosen) == UNION {Span(defs[n]) : n \in chosen}

\* Each is restored, and the capsule stays whole for the next.
LEMMA RegionsLead ==
  ASSUME NEW flash, NEW i, NEW base, Readable(flash, i, base),
         NEW defs, NEW N \in Nat, DOMAIN defs = 1..N, NEW chosen \in SUBSET (1..N),
         \A n \in chosen : Span(defs[n]) \intersect CapsuleRegion(i, base) = {}
  PROVE  LET restored == SpansOf(defs, chosen) \intersect Layout(i).active
         IN  /\ RegionsPlan(base, i, defs, chosen) \in Plans
             /\ Leads(RegionsPlan(base, i, defs, chosen), flash, Put(flash, restored, Image(i)))
<1> DEFINE seqs == [n \in 1..N |-> IF n \in chosen THEN RegionPlan(base, i, defs[n]) ELSE <<>>]
           pages(n) == SpansOf(defs, {m \in chosen : m <= n}) \intersect Layout(i).active
           h == [n \in 0..N |-> Put(flash, pages(n), Image(i))]
<1>1. RegionsPlan(base, i, defs, chosen) = FlattenSeq(seqs)
  BY DEF RegionsPlan
<1>2. \A n \in 0..N : pages(n) \intersect CapsuleRegion(i, base) = {}
  BY DEF SpansOf
<1>3. \A n \in 0..N : Readable(h[n], i, base)
  <2> SUFFICES ASSUME NEW n \in 0..N PROVE Readable(h[n], i, base)
    OBVIOUS
  <2>1. pages(n) \intersect CapsuleRegion(i, base) = {}
    BY <1>2
  <2>2. h[n] = Put(flash, pages(n), Image(i))
    OBVIOUS
  <2> HIDE DEF pages, h
  <2> QED
    BY <2>1, <2>2, StillReadable
<1>4. ASSUME NEW n \in 1..N PROVE seqs[n] \in Plans /\ Leads(seqs[n], h[n - 1], h[n])
  <2>1. n - 1 \in 0..N /\ n \in 0..N /\ \A m \in 1..N : m <= n <=> m <= n - 1 \/ m = n
    OBVIOUS
  <2>2. Readable(h[n - 1], i, base)
    BY <1>3, <2>1
  <2>3. h[n - 1] = Put(flash, pages(n - 1), Image(i)) /\ h[n] = Put(flash, pages(n), Image(i))
    BY <2>1
  <2>4. CASE n \in chosen
    <3> DEFINE own == Span(defs[n]) \intersect Layout(i).active
    <3>1. seqs[n] \in Plans /\ Leads(seqs[n], h[n - 1], Put(h[n - 1], own, Image(i)))
      BY <2>2, <2>4, RegionLeads DEF Readable
    <3>2. pages(n) = pages(n - 1) \union own
      <4>1. {m \in chosen : m <= n} = {m \in chosen : m <= n - 1} \union {n}
        BY <2>1, <2>4
      <4>2. SpansOf(defs, {m \in chosen : m <= n})
              = SpansOf(defs, {m \in chosen : m <= n - 1}) \union Span(defs[n])
        BY <4>1 DEF SpansOf
      <4> QED
        BY <4>2
    <3> HIDE DEF pages, own, h, seqs
    <3>3. Put(h[n - 1], own, Image(i)) = h[n]
      BY <2>3, <3>2 DEF Put
    <3> QED
      BY <3>1, <3>3
  <2>5. CASE n \notin chosen
    <3>1. {m \in chosen : m <= n} = {m \in chosen : m <= n - 1}
      BY <2>1, <2>5
    <3>2. h[n] = h[n - 1]
      BY <2>3, <3>1
    <3> QED
      BY <2>5, <3>2, LeadsNothing
  <2> QED
    BY <2>4, <2>5
<1>5. \A m \in chosen : m <= N /\ ~(m <= 0)
  <2>1. \A m \in 1..N : m <= N /\ ~(m <= 0)
    OBVIOUS
  <2> QED
    BY <2>1
<1>6. h[0] = flash /\ h[N] = Put(flash, SpansOf(defs, chosen) \intersect Layout(i).active, Image(i))
  <2>1. h[0] = flash
    <3>1. {m \in chosen : m <= 0} = {}
      BY <1>5
    <3>2. pages(0) = {}
      BY <3>1 DEF SpansOf
    <3>3. h[0] = Put(flash, pages(0), Image(i)) /\ IsFlash(flash)
      BY DEF Readable
    <3> HIDE DEF pages, h
    <3> QED
      BY <3>2, <3>3 DEF Put, IsFlash
  <2>2. {m \in chosen : m <= N} = chosen
    BY <1>5
  <2> QED
    BY <2>1, <2>2
<1>7. seqs \in Seq(Plans) /\ Len(seqs) = N
  <2>1. \A n \in 1..N : seqs[n] \in Plans
    BY <1>4
  <2> QED
    BY <2>1
<1> HIDE DEF seqs, h
<1>8. FlattenSeq(seqs) \in Plans /\ Leads(FlattenSeq(seqs), h[0], h[N])
  BY <1>4, <1>7, FlattenLeads
<1> QED
  BY <1>1, <1>6, <1>8

\* The plans of decompress_capsule and memcpy_signed_payload.
PfmPlan(base) ==
  ErasePlan(PfmStart, PfmStart + PfmPages) \o <<Command("pfm", PfmStart, base)>>

\* What the code leaves to the firmware builder keeps the source of a copy out of
\* its target.
LEMMA PlacesApart ==
  ASSUME NEW i \in Images, NEW base \in {RecoveryStart, StagingStart}
  PROVE  /\ base \in Nat /\ CapsuleRegion(i, base) \subseteq Page
         /\ PfmRegion \subseteq Page /\ PfmRegion \intersect CapsuleRegion(i, base) = {}
         /\ CapsuleRegion(i, RecoveryStart) \intersect CapsuleRegion(i, StagingStart) = {}
         /\ \A kinds : \A n \in DOMAIN Layout(i).defs :
              Decompressed(Layout(i).defs[n], kinds) =>
                Span(Layout(i).defs[n]) \intersect CapsuleRegion(i, base) = {}
<1>1. RecoveryStart \in Nat /\ StagingStart \in Nat /\ PfmRegion \subseteq Page
  BY Starts
<1> DEFINE recovery == CapsuleRegion(i, RecoveryStart)
           staged   == CapsuleRegion(i, StagingStart)
<1>2. /\ recovery \subseteq Page /\ staged \subseteq Page
      /\ PfmRegion \intersect recovery = {} /\ PfmRegion \intersect staged = {}
      /\ recovery \intersect staged = {}
  BY PlacesAssumption
<1>3. ASSUME NEW n \in DOMAIN Layout(i).defs, NEW kinds, Decompressed(Layout(i).defs[n], kinds)
      PROVE  /\ Span(Layout(i).defs[n]) \intersect recovery = {}
             /\ Span(Layout(i).defs[n]) \intersect staged = {}
  <2> DEFINE d == Layout(i).defs[n]
  <2>1. Static(d) \/ (Dynamic(d) /\ d.from # StagingStart)
    BY <1>3 DEF Decompressed
  <2> QED
    <3>1. Static(d) \/ Writable(d)
      BY <2>1 DEF Dynamic
    <3> QED
      BY <2>1, <3>1, PlacesOf
<1> QED
  BY <1>1, <1>2, <1>3

\* Writing the signed PFM, last.
LEMMA PfmLeads ==
  ASSUME NEW flash, NEW i, NEW base \in {RecoveryStart, StagingStart}, Readable(flash, i, base)
  PROVE  /\ PfmPlan(base) \in Plans
         /\ Leads(PfmPlan(base), flash, Put(flash, PfmRegion, NewPfm(i)))
<1> DEFINE erase == ErasePlan(PfmStart, PfmStart + PfmPages)
           c == Command("pfm", PfmStart, base)
           mid == Blank(flash, PfmRegion)
<1>1. /\ PfmStart \in Nat /\ PfmPages \in Nat \ {0} /\ base \in Nat /\ i \in Images
      /\ PfmStart \in PfmRegion /\ PfmStart \in Page
      /\ base \in Page /\ base \notin PfmRegion /\ flash[base] = Header(i)
  <2>1. i \in Images /\ flash[base] = Header(i)
    BY DEF Readable, CapsuleIn
  <2>2. base \in CapsuleRegion(i, base) /\ base \in Nat
    BY <2>1, PlacesApart, CapsuleLayout
  <2>3. base \in Page /\ base \notin PfmRegion
    BY <2>1, <2>2, PlacesApart
  <2> QED
    BY <2>1, <2>2, <2>3, Starts
<1>2. erase \in Plans /\ Leads(erase, flash, mid)
  <2>1. /\ PfmStart + PfmPages \in Nat /\ PfmStart <= PfmStart + PfmPages
        /\ PfmRegion = PfmStart..(PfmStart + PfmPages) - 1
    BY <1>1 DEF PfmRegion
  <2>2. PfmStart + PfmPages <= Pages
    BY <1>1, Starts, RegionEnd DEF PfmRegion
  <2> QED
    BY <1>1, <2>1, <2>2, EraseLeads DEF Readable
<1>3. c.op = "pfm" /\ c.at = PfmStart /\ c.from = base /\ c \in Orders
  BY <1>1 DEF Command, Orders
<1>4. mid[PfmStart] = Erased /\ mid[base] = Header(i)
  BY <1>1 DEF Blank
<1>5. Header(i)[1] = "header" /\ Header(i)[2] = i
  BY DEF Header
<1> HIDE DEF c, mid, erase
<1>6. Targets(c) = {PfmStart} /\ Result(mid, c) = Pfm(i)
  BY <1>3, <1>4, <1>5 DEF Targets, Result, Fresh
<1>7. Commanded(mid, c) = Put(flash, PfmRegion, NewPfm(i))
  BY <1>1, <1>6 DEF Commanded, Put, NewPfm, mid, Blank
<1>8. <<c>> \in Plans /\ Leads(<<c>>, mid, Put(flash, PfmRegion, NewPfm(i)))
  BY <1>3, <1>7, LeadsOne
<1>9. PfmPlan(base) = erase \o <<c>>
  BY DEF PfmPlan, erase, c
<1> QED
  BY <1>2, <1>8, <1>9, LeadsOn

\* The flash after decompress_capsule.
RestoredFrom(flash, i, pages, withPfm) ==
  [p \in Page |-> IF withPfm /\ p \in PfmRegion THEN NewPfm(i)[p]
                  ELSE IF p \in pages \intersect Layout(i).active THEN Image(i)[p]
                  ELSE flash[p]]
DecompressedPages(i, kinds) == UnionOf(Layout(i).defs, LAMBDA d : Decompressed(d, kinds))

\* decompress_capsule restores the regions it is told to, from a whole capsule.
LEMMA DecompressLeads ==
  ASSUME NEW flash, NEW i, NEW base \in {RecoveryStart, StagingStart}, Readable(flash, i, base),
         NEW kinds
  PROVE  /\ DecompressPlan(base, i, kinds) \in Plans
         /\ Leads(DecompressPlan(base, i, kinds), flash,
                  RestoredFrom(flash, i, DecompressedPages(i, kinds), "static" \in kinds))
<1> DEFINE defs == Layout(i).defs
           N == Len(defs)
           chosen == {n \in DOMAIN defs : Decompressed(defs[n], kinds)}
           pages == DecompressedPages(i, kinds) \intersect Layout(i).active
           regions == RegionsPlan(base, i, defs, chosen)
           mid == Put(flash, pages, Image(i))
<1>1. i \in Images
  BY DEF Readable
<1>2. N \in Nat /\ DOMAIN defs = 1..N
  BY <1>1, DefsInOrder
<1>3. SpansOf(defs, chosen) = DecompressedPages(i, kinds)
  BY DEF SpansOf, DecompressedPages, UnionOf
<1>4. \A n \in chosen : Span(defs[n]) \intersect CapsuleRegion(i, base) = {}
  BY <1>1, PlacesApart
<1>5. regions \in Plans /\ Leads(regions, flash, mid)
  <2>1. chosen \in SUBSET (1..N)
    BY <1>2
  <2> HIDE DEF chosen, defs, N
  <2> QED
    BY <1>2, <1>3, <1>4, <2>1, RegionsLead
<1>6. Readable(mid, i, base)
  <2>1. pages \intersect CapsuleRegion(i, base) = {}
    BY <1>3, <1>4 DEF SpansOf
  <2> HIDE DEF pages
  <2> QED
    BY <2>1, StillReadable
<1>7. DecompressPlan(base, i, kinds)
        = regions \o IF "static" \in kinds THEN PfmPlan(base) ELSE <<>>
  BY DEF DecompressPlan, PfmPlan
<1> HIDE DEF regions, mid, pages
<1>8. CASE "static" \in kinds
  <2>1. /\ PfmPlan(base) \in Plans
        /\ Leads(PfmPlan(base), mid, Put(mid, PfmRegion, NewPfm(i)))
    BY <1>6, PfmLeads
  <2>2. Put(mid, PfmRegion, NewPfm(i))
          = RestoredFrom(flash, i, DecompressedPages(i, kinds), "static" \in kinds)
    BY <1>8 DEF Put, RestoredFrom, mid, pages
  <2>3. DecompressPlan(base, i, kinds) = regions \o PfmPlan(base)
    BY <1>7, <1>8
  <2> QED
    BY <1>5, <2>1, <2>2, <2>3, LeadsOn
<1>9. CASE "static" \notin kinds
  <2>1. mid = RestoredFrom(flash, i, DecompressedPages(i, kinds), "static" \in kinds)
    BY <1>9 DEF Put, RestoredFrom, mid, pages
  <2>2. DecompressPlan(base, i, kinds) = regions \o <<>>
    BY <1>7, <1>9
  <2>3. <<>> \in Plans /\ Leads(<<>>, mid, mid)
    BY LeadsNothing
  <2> QED
    BY <1>5, <2>1, <2>2, <2>3, LeadsOn
<1> QED
  BY <1>8, <1>9

\* A capsule reads the same wherever it is, page by page.
LEMMA CapsuleContent ==
  ASSUME NEW flash, NEW i \in Images, NEW base \in Nat, CapsuleIn(flash, i, base),
         NEW other \in Nat, NEW x \in 0..CapsulePages(i) - 1
  PROVE  flash[base + x] = Capsule(i, other)[other + x]
<1>1. CapsulePages(i) \in Nat \ {0}
  BY CapsuleLayout
<1>2. /\ other + x \in CapsuleRegion(i, other) /\ base + x \in CapsuleRegion(i, base)
      /\ x = 0 <=> other + x = other
      /\ x # 0 => base + x # base
      /\ base + x - base = x /\ other + x - other = x
  BY <1>1 DEF CapsuleRegion
<1>3. CASE x = 0
  <2>1. Capsule(i, other)[other + x] = Header(i)
    BY <1>2, <1>3 DEF Capsule
  <2> QED
    BY <1>3, <2>1 DEF CapsuleIn
<1>4. CASE x # 0
  <2>1. PICK p \in Layout(i).comp : base + x = base + 1 + Rank(i, p)
    <3> DEFINE y == base + x
    <3>1. y \in CapsuleRegion(i, base) \ {base}
      BY <1>2, <1>4
    <3> HIDE DEF y
    <3>2. \E p \in Layout(i).comp : y = base + 1 + Rank(i, p)
      BY <3>1, CapsuleLayout
    <3> QED
      BY <3>2 DEF y
  <2>2. Rank(i, p) \in Int
    <3>1. Layout(i).comp \in SUBSET Nat /\ IsFiniteSet(Layout(i).comp)
      BY CapsuleLayout, PageNumbers
    <3>2. Below(Layout(i).comp, p) \in Int
      BY <3>1, BelowCounts
    <3> QED
      BY <3>2 DEF Rank, Below
  <2>3. Rank(i, p) = x - 1 /\ other + x - other - 1 = x - 1
    BY <2>1, <2>2
  <2>4. (CHOOSE q \in Layout(i).comp : Rank(i, q) = x - 1) = p
    <3>1. \A q \in Layout(i).comp : Rank(i, q) = Rank(i, p) <=> q = p
      BY CapsuleLayout
    <3> QED
      BY <2>3, <3>1
  <2>5. Capsule(i, other)[other + x] = Fw(i, p)
    <3> DEFINE y == other + x
    <3>1. y \in CapsuleRegion(i, other) /\ y # other /\ y - other - 1 = x - 1
      BY <1>2, <1>4, <2>3
    <3> HIDE DEF y
    <3> QED
      BY <2>4, <3>1 DEF Capsule, y
  <2> QED
    BY <2>1, <2>5 DEF CapsuleIn
<1> QED
  BY <1>3, <1>4

\* A capsule written somewhere is there.
LEMMA CapsuleThere ==
  ASSUME NEW flash, NEW i \in Images, NEW base \in Nat, CapsuleRegion(i, base) \subseteq Page
  PROVE  CapsuleIn(Put(flash, CapsuleRegion(i, base), Capsule(i, base)), i, base)
<1> DEFINE new == Put(flash, CapsuleRegion(i, base), Capsule(i, base))
<1>1. \A x \in CapsuleRegion(i, base) : new[x] = Capsule(i, base)[x]
  BY DEF Put
<1>2. base \in CapsuleRegion(i, base) /\ Capsule(i, base)[base] = Header(i)
  BY CapsuleLayout DEF Capsule
<1>3. ASSUME NEW p \in Layout(i).comp
      PROVE  /\ base + 1 + Rank(i, p) \in CapsuleRegion(i, base)
             /\ Capsule(i, base)[base + 1 + Rank(i, p)] = Fw(i, p)
  <2> DEFINE x == base + 1 + Rank(i, p)
  <2>1. x \in CapsuleRegion(i, base) /\ x # base
    BY CapsuleLayout
  <2>2. Rank(i, p) \in Int
    <3>1. Layout(i).comp \in SUBSET Nat /\ IsFiniteSet(Layout(i).comp)
      BY CapsuleLayout, PageNumbers
    <3>2. Below(Layout(i).comp, p) \in Int
      BY <3>1, BelowCounts
    <3> QED
      BY <3>2 DEF Rank, Below
  <2>3. x - base - 1 = Rank(i, p)
    BY <2>2
  <2>4. (CHOOSE q \in Layout(i).comp : Rank(i, q) = Rank(i, p)) = p
    <3>1. \A q \in Layout(i).comp : Rank(i, q) = Rank(i, p) <=> q = p
      BY CapsuleLayout
    <3> QED
      BY <3>1
  <2> HIDE DEF x
  <2>5. Capsule(i, base)[x] = Fw(i, p)
    BY <2>1, <2>3, <2>4 DEF Capsule
  <2> QED
    BY <2>1, <2>5 DEF x
<1> HIDE DEF new
<1> QED
  BY <1>1, <1>2, <1>3 DEF CapsuleIn, new

\* memcpy_signed_payload from staging makes the recovery region hold the capsule.
LEMMA PromoteLeads ==
  ASSUME NEW flash, NEW i, Readable(flash, i, StagingStart)
  PROVE  /\ PromotePlan(i) \in Plans
         /\ Leads(PromotePlan(i), flash,
                  Put(flash, CapsuleRegion(i, RecoveryStart), Capsule(i, RecoveryStart)))
<1> DEFINE k == CapsulePages(i)
           region == CapsuleRegion(i, RecoveryStart)
           v == Capsule(i, RecoveryStart)
           to == [n \in 1..k |-> RecoveryStart + n - 1]
           from == [n \in 1..k |-> StagingStart + n - 1]
           mid == Blank(flash, region)
<1>1. /\ i \in Images /\ RecoveryStart \in Nat /\ StagingStart \in Nat /\ IsFlash(flash)
      /\ region \subseteq Page /\ CapsuleRegion(i, StagingStart) \subseteq Page
      /\ region \intersect CapsuleRegion(i, StagingStart) = {}
      /\ CapsuleIn(flash, i, StagingStart)
  BY PlacesApart DEF Readable
<1>2. k \in Nat \ {0}
  BY <1>1, CapsuleLayout
<1>3. ErasePlan(RecoveryStart, RecoveryStart + k) \in Plans
      /\ Leads(ErasePlan(RecoveryStart, RecoveryStart + k), flash, mid)
  <2>1. /\ RecoveryStart + k \in Nat /\ RecoveryStart <= RecoveryStart + k
        /\ region = RecoveryStart..(RecoveryStart + k) - 1
    BY <1>1, <1>2 DEF CapsuleRegion
  <2>2. RecoveryStart + k <= Pages
    BY <1>1, <1>2, RegionEnd DEF CapsuleRegion
  <2> QED
    BY <1>1, <2>1, <2>2, EraseLeads
<1>4. PromotePlan(i) = ErasePlan(RecoveryStart, RecoveryStart + k) \o Copies(k, to, from)
  <2>1. Copies(k, to, from)
          = [n \in 1..k |-> Command("copy", RecoveryStart + n - 1, StagingStart + n - 1)]
    BY DEF Copies
  <2> QED
    BY <2>1 DEF PromotePlan
<1> HIDE DEF k
<1>5. ASSUME NEW n \in 1..k
      PROVE  /\ to[n] \in region /\ from[n] \in CapsuleRegion(i, StagingStart)
             /\ flash[from[n]] = v[to[n]]
             /\ to[n] = RecoveryStart + (n - 1)
  <2>1. n - 1 \in 0..k - 1 /\ to[n] = RecoveryStart + (n - 1) /\ from[n] = StagingStart + (n - 1)
    BY <1>1, <1>2
  <2>2. to[n] \in region /\ from[n] \in CapsuleRegion(i, StagingStart)
    BY <1>1, <1>2, <2>1 DEF CapsuleRegion, k
  <2> HIDE DEF to, from, v
  <2>3. flash[from[n]] = v[to[n]]
    BY <1>1, <2>1, CapsuleContent DEF v, k
  <2> QED
    BY <2>1, <2>2, <2>3
<1>6. Copyable(k, to, from, mid, v)
  <2>1. to \in [1..k -> Page] /\ from \in [1..k -> Page]
    <3>1. \A n \in 1..k : to[n] \in Page /\ from[n] \in Page
      BY <1>1, <1>5
    <3> QED
      BY <3>1
  <2>2. IsFlash(mid)
    BY DEF IsFlash, Blank
  <2>3. \A m, n \in 1..k : to[m] = to[n] => m = n
    <3>1. \A n \in 1..k : to[n] = RecoveryStart + (n - 1)
      BY <1>5
    <3> HIDE DEF to
    <3> QED
      BY <1>1, <1>2, <3>1
  <2> HIDE DEF to, from, v, region
  <2>4. \A m, n \in 1..k : to[m] # from[n]
    BY <1>1, <1>5
  <2>5. \A n \in 1..k : mid[to[n]] = Erased /\ mid[from[n]] = v[to[n]]
    BY <1>1, <1>5 DEF Blank
  <2> HIDE DEF mid
  <2> QED
    BY <1>2, <2>1, <2>2, <2>3, <2>4, <2>5 DEF Copyable
<1>7. {to[n] : n \in 1..k} = region
  <2>1. \A x \in region : x - RecoveryStart + 1 \in 1..k /\ to[x - RecoveryStart + 1] = x
    BY <1>1, <1>2 DEF CapsuleRegion, k
  <2> HIDE DEF to
  <2> QED
    BY <1>5, <2>1
<1>8. Put(mid, region, v) = Put(flash, region, v)
  BY DEF Put, Blank
<1> HIDE DEF to, from, v, region, mid
<1>9. Copies(k, to, from) \in Plans /\ Leads(Copies(k, to, from), mid, Put(flash, region, v))
  BY <1>6, <1>7, <1>8, CopiesLead
<1>10. /\ PromotePlan(i) \in Plans
       /\ Leads(PromotePlan(i), flash, Put(flash, region, v))
  BY <1>3, <1>4, <1>9, LeadsOn
<1> QED
  BY <1>10 DEF region, v

(***************************************************************************)
(* What pages hold.                                                        *)
(***************************************************************************)
Contents(I) == {Erased, Junk} \union {Pfm(i) : i \in I} \union {Header(i) : i \in I}
                 \union {Fw(i, p) : i \in I, p \in Page}

\* Contents tell what they are, and of which firmware.
LEMMA ContentsTell ==
  ASSUME NEW I, NEW c \in Contents(I)
  PROVE  /\ Len(c) = 1 => c \in {Erased, Junk}
         /\ c[1] = "pfm" => c[2] \in I /\ c = Pfm(c[2])
         /\ c[1] = "header" => c[2] \in I /\ c = Header(c[2])
         /\ \A i : c = Header(i) => i \in I
         /\ \A i : c = Pfm(i) => i \in I
<1>1. CASE c \in {Erased, Junk}
  BY <1>1 DEF Erased, Junk, Header, Pfm
<1>2. ASSUME NEW i \in I, c = Pfm(i)
      PROVE  Len(c) = 2 /\ c[1] = "pfm" /\ c[1] # "header" /\ c[2] = i /\ \A j : c # Header(j) /\ (c = Pfm(j) => j = i)
  BY <1>2 DEF Header, Pfm
<1>3. ASSUME NEW i \in I, c = Header(i)
      PROVE  Len(c) = 2 /\ c[1] # "pfm" /\ c[2] = i /\ \A j : c # Pfm(j) /\ (c = Header(j) => j = i)
  BY <1>3 DEF Header, Pfm
<1>4. ASSUME NEW i \in I, NEW p \in Page, c = Fw(i, p)
      PROVE  Len(c) = 3 /\ c[1] # "pfm" /\ c[1] # "header" /\ \A j : c # Pfm(j) /\ c # Header(j)
  BY <1>4 DEF Header, Pfm, Fw
<1>5. \/ c \in {Erased, Junk} \/ \E i \in I : c = Pfm(i) \/ c = Header(i)
      \/ \E i \in I, p \in Page : c = Fw(i, p)
  BY DEF Contents
<1>6. CASE \E i \in I : c = Pfm(i)
  BY <1>2, <1>6
<1>7. CASE \E i \in I : c = Header(i)
  BY <1>3, <1>7
<1>8. CASE \E i \in I, p \in Page : c = Fw(i, p)
  BY <1>4, <1>8
<1> QED
  BY <1>1, <1>5, <1>6, <1>7, <1>8

\* What can be read of the firmware a header or a PFM is of.
LEMMA Headers ==
  ASSUME NEW i
  PROVE  /\ Len(Header(i)) = 2 /\ Header(i)[2] = i
         /\ Len(Pfm(i)) = 2 /\ Pfm(i)[1] = "pfm" /\ Pfm(i)[2] = i
  BY DEF Header, Pfm

\* More firmware, more content.
LEMMA ContentsGrow ==
  ASSUME NEW I, NEW J, I \subseteq J
  PROVE  Contents(I) \subseteq Contents(J)
  BY DEF Contents

\* The firmware that pages may name: a BMC only writes under firmware it stages.
Live == IF budget["write"] > 0 THEN Updates ELSE Images
RamTypes == [pending : BOOLEAN, wdt : BOOLEAN, level : Nat,
             state : {"ok", "recFailed", "allFailed"}]

TypeInv ==
  /\ page \in [Page -> Contents(Live)]
  /\ goal = NoGoal \/ goal \in [Page -> Contents(Live)]
  /\ plan \in Plans
  /\ rules \in Memory
  /\ fourByte \in [flash : BOOLEAN, filter : BOOLEAN]
  /\ ram \in RamTypes
  /\ budget \in [Events -> Nat]

\* What is_capsule_valid finds, and only that, can be copied.
LEMMA CapsulesFound ==
  ASSUME TypeInv, NEW base \in {RecoveryStart, StagingStart}
  PROVE  /\ CapsulesAt(base) # {} =>
              CapsuleAt(base) \in Live /\ Readable(page, CapsuleAt(base), base)
         /\ \A i \in Images : CapsuleIn(page, i, base) => CapsulesAt(base) # {}
<1>1. Live \subseteq Images /\ page \in [Page -> Contents(Live)]
  BY SizesAssumption DEF TypeInv, Live
<1>2. \A i : i \in CapsulesAt(base) <=> i \in Named(base) /\ CapsuleIn(page, i, base)
  BY DEF CapsulesAt, CapsuleIn
<1>3. base \in Nat /\ base \in Page
  BY Starts
<1>4. ASSUME NEW i \in CapsulesAt(base) PROVE i \in Live /\ Readable(page, i, base)
  <2>1. page[base] = Header(i) /\ CapsuleIn(page, i, base)
    BY <1>2, <1>4 DEF CapsuleIn
  <2>2. page[base] \in Contents(Live)
    BY <1>1, <1>3
  <2>3. i \in Live
    BY <2>1, <2>2, ContentsTell
  <2>4. IsFlash(page)
    BY <1>1 DEF IsFlash
  <2> QED
    BY <1>1, <1>3, <2>1, <2>3, <2>4, PlacesApart DEF Readable
<1>5. ASSUME NEW i \in Images, CapsuleIn(page, i, base) PROVE i \in CapsulesAt(base)
  <2>1. page[base] = Header(i)
    BY <1>5 DEF CapsuleIn
  <2>2. i \in Named(base)
    BY <2>1, Headers DEF Named
  <2> QED
    BY <1>2, <1>5, <2>2
<1>6. CapsulesAt(base) # {} => CapsuleAt(base) \in CapsulesAt(base)
  BY DEF CapsuleAt
<1> QED
  BY <1>4, <1>5, <1>6

(***************************************************************************)
(* The invariant.                                                          *)
(***************************************************************************)
\* The PFM of i is signed, and its hashes are those of the active region.
AuthenticIn(flash, i) ==
  /\ flash[PfmStart] = Pfm(i)
  /\ \A n \in DOMAIN Layout(i).defs : LET d == Layout(i).defs[n] IN
       Static(d) /\ d.hashed => \A p \in Span(d) : flash[p] = Body(i, p)

\* What the flash is about to be.
Final == IF goal = NoGoal THEN page ELSE goal

\* The commands still to give make the flash what they are for, whatever of them
\* has been given.
PlanInv == IF goal = NoGoal THEN plan = <<>> ELSE Leads(plan, page, goal)

\* The write enable memory is the one for the PFM in service.
FilterRight ==
  \A p \in Page : Open(p) <=> {q \in Page : ChunkOf(q) = ChunkOf(p)} \subseteq OpenedByPfm
InService == (\E i \in Live : AuthenticIn(page, i)) /\ FilterRight

\* What each handler relies on of those before it, about the flash once their
\* commands are given.
PhaseInv ==
  /\ fourByte.filter => fourByte.flash
  /\ pc = "authAct" => \E i \in Live : CapsuleIn(Final, i, RecoveryStart)
  /\ pc = "apply" /\ ram.state # "allFailed" => \E i \in Live : AuthenticIn(Final, i)
  /\ pc \in {"entry", "t0"} => goal = NoGoal
  /\ pc = "t0" \/ (pc = "entry" /\ ram.state # "allFailed") => InService

FlashInv == TypeInv /\ PlanInv /\ PhaseInv

\* Events only take firmware off the list of what a BMC is restricted to.
LEMMA LiveGrows ==
  ASSUME TypeInv, UNCHANGED budget \/ \E e \in Events : Spend(e)
  PROVE  /\ Live \subseteq Live' /\ Live' \subseteq Images /\ budget' \in [Events -> Nat]
         /\ Contents(Live) \subseteq Contents(Live')
<1>1. budget \in [Events -> Nat] /\ Updates \subseteq Images
  BY SizesAssumption DEF TypeInv
<1>2. budget' \in [Events -> Nat] /\ (budget'["write"] > 0 => budget["write"] > 0)
  <2>1. "write" \in Events
    BY DEF Events
  <2>2. CASE UNCHANGED budget
    BY <1>1, <2>2
  <2>3. ASSUME NEW e \in Events, Spend(e)
        PROVE  budget' \in [Events -> Nat] /\ (budget'["write"] > 0 => budget["write"] > 0)
    <3>1. budget[e] \in Nat /\ budget[e] > 0 /\ budget' = [budget EXCEPT ![e] = budget[e] - 1]
      BY <1>1, <2>3 DEF Spend
    <3>2. budget' \in [Events -> Nat]
      BY <1>1, <3>1
    <3>3. budget'["write"] = IF e = "write" THEN budget[e] - 1 ELSE budget["write"]
      BY <1>1, <2>1, <3>1
    <3> QED
      BY <3>1, <3>2, <3>3
  <2> QED
    BY <2>2, <2>3
<1>3. Live \subseteq Live' /\ Live' \subseteq Images
  BY <1>1, <1>2 DEF Live
<1> QED
  BY <1>2, <1>3, ContentsGrow

\* is_active_region_valid, and the PFM body that is read when it holds.
LEMMA ActiveIs ==
  ASSUME TypeInv
  PROVE  /\ Live \subseteq Images
         /\ ActiveValid <=> \E i \in Live : AuthenticIn(page, i)
         /\ \A i : page[PfmStart] = Pfm(i) => ActiveBody = Layout(i).defs /\ i \in Named(PfmStart)
         /\ ActiveBody = <<>> \/ \E i \in Live : ActiveBody = Layout(i).defs
<1>1. Live \subseteq Images /\ page[PfmStart] \in Contents(Live)
  BY Starts, SizesAssumption DEF TypeInv, Live
<1>2. ASSUME NEW i, page[PfmStart] = Pfm(i)
      PROVE  ActiveBody = Layout(i).defs /\ i \in Named(PfmStart) /\ i \in Live
  <2>1. i \in Live
    BY <1>1, <1>2, ContentsTell
  <2>2. ActiveBody = Layout(i).defs
    BY <1>2, Headers DEF ActiveBody
  <2>3. i \in Named(PfmStart)
    BY <1>2, Headers DEF Named
  <2> QED
    BY <2>1, <2>2, <2>3
<1>3. \A i : Authentic(i) <=> AuthenticIn(page, i)
  BY DEF Authentic, AuthenticIn
<1>4. \A i : AuthenticIn(page, i) => page[PfmStart] = Pfm(i)
  BY DEF AuthenticIn
<1>5. ActiveValid <=> \E i \in Live : AuthenticIn(page, i)
  BY <1>2, <1>3, <1>4 DEF ActiveValid
<1>6. ActiveBody = <<>> \/ \E i \in Live : ActiveBody = Layout(i).defs
  <2>1. CASE page[PfmStart][1] = "pfm"
    <3>1. page[PfmStart][2] \in Live
      BY <1>1, <2>1, ContentsTell
    <3> QED
      BY <2>1, <3>1 DEF ActiveBody
  <2> QED
    BY <2>1 DEF ActiveBody
<1> QED
  BY <1>1, <1>2, <1>5, <1>6

\* A handler that gives no commands.
LEMMA NoPlanStep ==
  ASSUME NoPlan
  PROVE  plan' \in Plans /\ goal' = NoGoal /\ PlanInv' /\ Final' = page'
  BY LeadsNothing DEF NoPlan, PlanInv, Final

\* Commands for an aim, and the invariant of them holds.
LEMMA GiveStep ==
  ASSUME NEW cmds \in Plans, NEW C, NEW aim \in [Page -> C], Give(cmds, aim),
         UNCHANGED page, Leads(cmds, page, aim)
  PROVE  plan' \in Plans /\ goal' = aim /\ PlanInv' /\ Final' = aim
<1>1. aim # NoGoal
  <2>1. DOMAIN aim # {}
    BY Starts
  <2> QED
    BY <2>1 DEF NoGoal
<1> QED
  BY <1>1 DEF Give, PlanInv, Final

\* At the start of a handler the flash is what it was to be.
LEMMA AtHandler ==
  ASSUME PlanInv, plan = <<>>
  PROVE  Final = page
  BY LeadsNothing DEF PlanInv, Final

\* The contents that commands aim for name firmware the flash names already.
LEMMA AimTypes ==
  ASSUME NEW I, NEW i \in I, i \in Images, NEW flash \in [Page -> Contents(I)]
  PROVE  /\ \A pages, withPfm : RestoredFrom(flash, i, pages, withPfm) \in [Page -> Contents(I)]
         /\ \A base \in {RecoveryStart, StagingStart} :
              Put(flash, CapsuleRegion(i, base), Capsule(i, base)) \in [Page -> Contents(I)]
<1>1. /\ Erased \in Contents(I) /\ Pfm(i) \in Contents(I) /\ Header(i) \in Contents(I)
      /\ \A p \in Page : Fw(i, p) \in Contents(I)
  BY DEF Contents
<1>2. \A p \in Layout(i).comp : p \in Page
  BY LayoutAssumption
<1>3. \A p \in PfmRegion : NewPfm(i)[p] \in Contents(I)
  BY <1>1 DEF NewPfm
<1>4. \A p \in Layout(i).active : Image(i)[p] \in Contents(I)
  BY <1>1, <1>2 DEF Image, Body
<1>5. ASSUME NEW pages, NEW withPfm
      PROVE  RestoredFrom(flash, i, pages, withPfm) \in [Page -> Contents(I)]
  BY <1>3, <1>4 DEF RestoredFrom
<1>6. ASSUME NEW base \in {RecoveryStart, StagingStart}, NEW p \in CapsuleRegion(i, base)
      PROVE  Capsule(i, base)[p] \in Contents(I)
  <2>1. CASE p = base
    BY <1>1, <1>6, <2>1 DEF Capsule
  <2>2. CASE p # base
    <3> DEFINE q == CHOOSE r \in Layout(i).comp : Rank(i, r) = p - base - 1
    <3>1. base \in Nat
      BY Starts
    <3>2. PICK r \in Layout(i).comp : p = base + 1 + Rank(i, r)
      BY <1>6, <2>2, <3>1, CapsuleLayout
    <3>3. Rank(i, r) \in Int
      <4>1. Layout(i).comp \in SUBSET Nat /\ IsFiniteSet(Layout(i).comp)
        BY <3>1, CapsuleLayout, PageNumbers
      <4>2. Below(Layout(i).comp, r) \in Int
        BY <4>1, BelowCounts
      <4> QED
        BY <4>2 DEF Rank, Below
    <3>4. Rank(i, r) = p - base - 1
      BY <3>1, <3>2, <3>3
    <3>5. q \in Layout(i).comp
      BY <3>4
    <3>6. Capsule(i, base)[p] = Fw(i, q)
      BY <2>2 DEF Capsule
    <3> HIDE DEF q
    <3> QED
      BY <1>1, <1>2, <3>5, <3>6
  <2> QED
    BY <2>1, <2>2
<1>7. ASSUME NEW base \in {RecoveryStart, StagingStart}
      PROVE  Put(flash, CapsuleRegion(i, base), Capsule(i, base)) \in [Page -> Contents(I)]
  BY <1>6 DEF Put
<1> QED
  BY <1>5, <1>7

\* The model's ways to write the same flash.
LEMMA AimsAre ==
  ASSUME NEW i, NEW base
  PROVE  /\ \A pages, withPfm :
              Restored(i, pages, withPfm) = RestoredFrom(page, i, pages, withPfm)
         /\ \A kinds : DecompressGoal(i, kinds)
                         = RestoredFrom(page, i, DecompressedPages(i, kinds), "static" \in kinds)
         /\ Over(Capsule(i, base)) = Put(page, CapsuleRegion(i, base), Capsule(i, base))
<1>1. DOMAIN NewPfm(i) = PfmRegion
  BY DEF NewPfm
<1>2. ASSUME NEW pages, NEW withPfm
      PROVE  Restored(i, pages, withPfm) = RestoredFrom(page, i, pages, withPfm)
  BY <1>1 DEF Restored, RestoredFrom
<1>3. ASSUME NEW kinds
      PROVE  DecompressGoal(i, kinds)
               = RestoredFrom(page, i, DecompressedPages(i, kinds), "static" \in kinds)
  BY <1>2 DEF DecompressGoal, DecompressedPages
<1>4. DOMAIN Capsule(i, base) = CapsuleRegion(i, base)
  BY DEF Capsule
<1>5. Over(Capsule(i, base)) = Put(page, CapsuleRegion(i, base), Capsule(i, base))
  BY <1>4 DEF Over, Put
<1> QED
  BY <1>2, <1>3, <1>5

\* An active region restored whole authenticates.
LEMMA RestoredAuthentic ==
  ASSUME NEW flash, NEW i \in Images, NEW kinds, "static" \in kinds
  PROVE  AuthenticIn(RestoredFrom(flash, i, DecompressedPages(i, kinds), "static" \in kinds), i)
<1> DEFINE new == RestoredFrom(flash, i, DecompressedPages(i, kinds), "static" \in kinds)
<1>1. new[PfmStart] = Pfm(i)
  BY Starts DEF RestoredFrom, NewPfm
<1>2. ASSUME NEW n \in DOMAIN Layout(i).defs,
             Static(Layout(i).defs[n]), Layout(i).defs[n].hashed,
             NEW p \in Span(Layout(i).defs[n])
      PROVE  new[p] = Body(i, p)
  <2>1. p \in Layout(i).active /\ p \in Page /\ p \notin PfmRegion
    BY <1>2, LayoutAssumption, PlacesOf
  <2>2. p \in DecompressedPages(i, kinds)
    BY <1>2 DEF DecompressedPages, UnionOf, Decompressed
  <2>3. Image(i)[p] = Body(i, p)
    BY <2>1 DEF Image
  <2> QED
    BY <2>1, <2>2, <2>3 DEF RestoredFrom
<1> HIDE DEF new
<1> QED
  BY <1>1, <1>2 DEF AuthenticIn, new

(***************************************************************************)
(* It holds at the start, and every step keeps it.                         *)
(***************************************************************************)
\* A provisioned platform.
LEMMA InitInv == Init => FlashInv
<1> SUFFICES ASSUME Init PROVE FlashInv
  OBVIOUS
<1>1. PICK s \in Scenarios : page = Programmed(s.image) /\ budget = s.budget
  BY DEF Init
<1> DEFINE i == s.image
<1>2. budget \in [Events -> Nat] /\ i \in Live /\ i \in Images
  BY <1>1, SizesAssumption DEF Live
<1> HIDE DEF i
<1>3. Erased \in Contents(Live) /\ Pfm(i) \in Contents(Live)
  BY <1>2 DEF Contents
<1>4. page \in [Page -> Contents(Live)]
  <2> DEFINE blank == [p \in Page |-> Erased]
             stored == Put(blank, CapsuleRegion(i, RecoveryStart), Capsule(i, RecoveryStart))
             active == RestoredFrom(blank, i, Page, FALSE)
  <2>1. blank \in [Page -> Contents(Live)]
    BY <1>3
  <2> HIDE DEF blank
  <2>2. stored \in [Page -> Contents(Live)] /\ active \in [Page -> Contents(Live)]
    BY <1>2, <2>1, AimTypes
  <2>3. /\ DOMAIN Capsule(i, RecoveryStart) = CapsuleRegion(i, RecoveryStart)
        /\ DOMAIN Image(i) = Layout(i).active
    BY DEF Capsule, Image
  <2>4. \A p \in Page : /\ stored[p] \in Contents(Live) /\ active[p] \in Contents(Live)
                        /\ p \in CapsuleRegion(i, RecoveryStart) =>
                             stored[p] = Capsule(i, RecoveryStart)[p]
                        /\ p \in Layout(i).active => active[p] = Image(i)[p]
    BY <2>2 DEF Put, RestoredFrom
  <2> HIDE DEF stored, active
  <2>5. \A p \in Page : Programmed(i)[p] \in Contents(Live)
    BY <1>3, <2>3, <2>4 DEF Programmed
  <2>6. Programmed(i) = [p \in Page |-> Programmed(i)[p]]
    BY DEF Programmed
  <2> QED
    BY <1>1, <2>5, <2>6 DEF i
<1>5. /\ goal = NoGoal /\ plan \in Plans /\ plan = <<>> /\ rules \in Memory
      /\ fourByte \in [flash : BOOLEAN, filter : BOOLEAN] /\ ram \in RamTypes
  BY LeadsNothing DEF Init, Memory, Boot, RamTypes
<1>6. ~fourByte.filter /\ pc = "pend"
  BY DEF Init
<1> QED
  BY <1>2, <1>4, <1>5, <1>6 DEF FlashInv, TypeInv, PlanInv, PhaseInv

\* process_pending_recovery_update
LEMMA PendKeeps == FlashInv /\ Pend => FlashInv'
<1> SUFFICES ASSUME FlashInv, Pend PROVE FlashInv'
  OBVIOUS
<1> USE DEF FlashInv
<1>1. /\ plan = <<>> /\ pc' = "wdt" /\ UNCHANGED <<page, rules, fourByte, budget>>
      /\ ram' \in RamTypes
  BY DEF Pend, At, TypeInv, RamTypes
<1>2. Live' = Live
  BY <1>1 DEF Live
<1>3. /\ plan' \in Plans /\ PlanInv'
      /\ goal' = NoGoal \/ goal' \in [Page -> Contents(Live)]
  <2>1. CASE ram.pending /\ Promotable(FALSE)
    <3> DEFINE i == CapsuleAt(StagingStart)
               aim == Over(Capsule(i, RecoveryStart))
    <3>1. i \in Live /\ Readable(page, i, StagingStart)
      BY <2>1, CapsulesFound DEF Promotable
    <3>2. Give(PromotePlan(i), aim)
      BY <2>1 DEF Pend
    <3> HIDE DEF i
    <3>3. PromotePlan(i) \in Plans /\ Leads(PromotePlan(i), page, aim)
      BY <3>1, PromoteLeads, AimsAre
    <3>4. aim \in [Page -> Contents(Live)]
      BY <3>1, AimsAre, AimTypes DEF TypeInv, Readable
    <3> HIDE DEF aim
    <3> QED
      BY <1>1, <3>2, <3>3, <3>4, GiveStep
  <2>2. CASE ~(ram.pending /\ Promotable(FALSE))
    BY <2>2, NoPlanStep DEF Pend
  <2> QED
    BY <2>1, <2>2
<1>4. TypeInv'
  BY <1>1, <1>2, <1>3 DEF TypeInv
<1>5. PhaseInv'
  BY <1>1 DEF PhaseInv
<1> QED
  BY <1>3, <1>4, <1>5

\* perform_wdt_recovery: the regions of the PFM in service that have the recovery
\* bit, then those of the capsule, out of a capsule that stays whole.
LEMMA WdtLeads ==
  ASSUME TypeInv, NEW i \in Live, Readable(page, i, RecoveryStart), NEW kinds,
         NEW again \in SUBSET DOMAIN ActiveBody, \A n \in again : Dynamic(ActiveBody[n])
  PROVE  LET cmds  == RegionsPlan(RecoveryStart, i, ActiveBody, again)
                        \o DecompressPlan(RecoveryStart, i, kinds)
             pages == SpansOf(ActiveBody, again) \union DecompressedPages(i, kinds)
         IN  /\ cmds \in Plans
             /\ Leads(cmds, page, RestoredFrom(page, i, pages, "static" \in kinds))
<1> DEFINE first == SpansOf(ActiveBody, again)
           some  == first \intersect Layout(i).active
           mid   == Put(page, some, Image(i))
           pages == first \union DecompressedPages(i, kinds)
           new   == RestoredFrom(page, i, pages, "static" \in kinds)
<1>1. PICK N \in Nat : DOMAIN ActiveBody = 1..N
  <2>1. CASE ActiveBody = <<>>
    <3>1. DOMAIN ActiveBody = 1..0
      BY <2>1
    <3> QED
      BY <3>1
  <2>2. ASSUME NEW j \in Live, ActiveBody = Layout(j).defs
        PROVE  DOMAIN ActiveBody = 1..Len(Layout(j).defs) /\ Len(Layout(j).defs) \in Nat
    BY <2>2, ActiveIs, DefsInOrder
  <2> QED
    BY <2>1, <2>2, ActiveIs
<1>2. \A n \in again : Span(ActiveBody[n]) \intersect CapsuleRegion(i, RecoveryStart) = {}
  <2> SUFFICES ASSUME NEW n \in again
               PROVE  Span(ActiveBody[n]) \intersect CapsuleRegion(i, RecoveryStart) = {}
    OBVIOUS
  <2>1. Dynamic(ActiveBody[n]) /\ n \in DOMAIN ActiveBody /\ ActiveBody # <<>>
    OBVIOUS
  <2>2. PICK j \in Live : ActiveBody = Layout(j).defs
    BY <2>1, ActiveIs
  <2>3. i \in Images /\ j \in Images
    BY ActiveIs
  <2> QED
    <3>1. Writable(ActiveBody[n])
      BY <2>1 DEF Dynamic
    <3>2. n \in DOMAIN Layout(j).defs /\ ActiveBody[n] = Layout(j).defs[n]
      BY <2>1, <2>2
    <3> QED
      BY <2>3, <3>1, <3>2, PlacesOf
<1>3. SpansOf(ActiveBody, again) = first
  OBVIOUS
<1>4. some \intersect CapsuleRegion(i, RecoveryStart) = {}
  BY <1>2 DEF SpansOf
<1>5. again \in SUBSET (1..N)
  BY <1>1
<1>6. /\ RegionsPlan(RecoveryStart, i, ActiveBody, again) \in Plans
      /\ Leads(RegionsPlan(RecoveryStart, i, ActiveBody, again), page, mid)
  BY <1>1, <1>2, <1>3, <1>5, RegionsLead
<1> HIDE DEF first, some
<1>7. Readable(mid, i, RecoveryStart)
  BY <1>4, StillReadable
<1>8. RestoredFrom(mid, i, DecompressedPages(i, kinds), "static" \in kinds) = new
  BY DEF RestoredFrom, Put, some
<1> HIDE DEF mid, new
<1>9. /\ DecompressPlan(RecoveryStart, i, kinds) \in Plans
      /\ Leads(DecompressPlan(RecoveryStart, i, kinds), mid, new)
  BY <1>7, <1>8, DecompressLeads
<1>10. /\ RegionsPlan(RecoveryStart, i, ActiveBody, again)
            \o DecompressPlan(RecoveryStart, i, kinds) \in Plans
       /\ Leads(RegionsPlan(RecoveryStart, i, ActiveBody, again)
                  \o DecompressPlan(RecoveryStart, i, kinds), page, new)
  BY <1>6, <1>9, LeadsOn
<1> QED
  BY <1>10 DEF new, first

\* perform_wdt_recovery
LEMMA WdtKeeps == FlashInv /\ Wdt => FlashInv'
<1> SUFFICES ASSUME FlashInv, Wdt PROVE FlashInv'
  OBVIOUS
<1> USE DEF FlashInv
<1>1. /\ plan = <<>> /\ pc' = "intent" /\ UNCHANGED <<page, rules, fourByte, budget>>
      /\ ram \in RamTypes
  BY DEF Wdt, At, TypeInv
<1>2. Live' = Live
  BY <1>1 DEF Live
<1>3. /\ plan' \in Plans /\ PlanInv' /\ ram' \in RamTypes
      /\ goal' = NoGoal \/ goal' \in [Page -> Contents(Live)]
  <2>1. CASE ram.wdt /\ CapsulesAt(RecoveryStart) # {}
    <3> DEFINE i == CapsuleAt(RecoveryStart)
               Again(d) == Dynamic(d) /\ RecoveryBit(ram.level) \in d.mask
               again == {n \in DOMAIN ActiveBody : Again(ActiveBody[n])}
               static == \E n \in DOMAIN ActiveBody, level \in 1..3 :
                           Static(ActiveBody[n]) /\ RecoveryBit(level) \in ActiveBody[n].mask
               kinds == IF static THEN {"static"} ELSE {}
               pages == UnionOf(ActiveBody, Again) \union DecompressedPages(i, kinds)
               cmds == RegionsPlan(RecoveryStart, i, ActiveBody, again)
                         \o DecompressPlan(RecoveryStart, i, kinds)
               aim == RestoredFrom(page, i, pages, "static" \in kinds)
    <3>1. i \in Live /\ Readable(page, i, RecoveryStart)
      BY <2>1, CapsulesFound
    <3>2. static <=> "static" \in kinds
      OBVIOUS
    <3>3. /\ Give(cmds, Restored(i, pages, static))
          /\ ram' = [ram EXCEPT !.wdt = FALSE, !.level = @ + 1]
      BY <2>1 DEF Wdt, DecompressedPages
    <3>4. /\ again \in SUBSET DOMAIN ActiveBody /\ \A n \in again : Dynamic(ActiveBody[n])
          /\ SpansOf(ActiveBody, again) = UnionOf(ActiveBody, Again)
      BY DEF SpansOf, UnionOf
    <3>5. cmds \in Plans /\ Leads(cmds, page, aim)
      <4> HIDE DEF i, kinds, again
      <4> QED
        BY <3>1, <3>4, WdtLeads
    <3> HIDE DEF i, static, kinds, pages, cmds
    <3>6. Restored(i, pages, static) = aim
      <4>1. Restored(i, pages, static) = RestoredFrom(page, i, pages, static)
        BY AimsAre
      <4>2. RestoredFrom(page, i, pages, static) = aim
        BY <3>2 DEF RestoredFrom
      <4> QED
        BY <4>1, <4>2
    <3>7. aim \in [Page -> Contents(Live)]
      BY <3>1, AimTypes DEF TypeInv, Readable
    <3> HIDE DEF aim
    <3>8. /\ plan' \in Plans /\ PlanInv' /\ goal' \in [Page -> Contents(Live)]
      BY <1>1, <3>3, <3>5, <3>6, <3>7, GiveStep
    <3>9. ram' \in RamTypes
      <4>1. ram.level + 1 \in Nat
        BY <1>1 DEF RamTypes
      <4> DEFINE next == ram.level + 1
      <4>2. ram' = [[ram EXCEPT !.wdt = FALSE] EXCEPT !.level = next]
        BY <1>1, <3>3 DEF RamTypes
      <4>3. [ram EXCEPT !.wdt = FALSE] \in RamTypes
        BY <1>1 DEF RamTypes
      <4> HIDE DEF next
      <4> QED
        BY <4>1, <4>2, <4>3 DEF RamTypes, next
    <3> QED
      BY <3>8, <3>9
  <2>2. CASE ~(ram.wdt /\ CapsulesAt(RecoveryStart) # {})
    <3>1. NoPlan /\ UNCHANGED ram
      BY <2>2 DEF Wdt
    <3> QED
      BY <1>1, <3>1, NoPlanStep
  <2> QED
    BY <2>1, <2>2
<1>4. TypeInv'
  BY <1>1, <1>2, <1>3 DEF TypeInv
<1>5. PhaseInv'
  BY <1>1 DEF PhaseInv
<1> QED
  BY <1>3, <1>4, <1>5

\* act_on_bmc_update_intent
LEMMA IntentKeeps == FlashInv /\ Intent => FlashInv'
<1> SUFFICES ASSUME FlashInv, Intent PROVE FlashInv'
  OBVIOUS
<1> USE DEF FlashInv
<1>1. /\ plan = <<>> /\ pc' = "auth" /\ UNCHANGED <<page, rules, fourByte, budget>>
      /\ ram \in RamTypes
  BY DEF Intent, At, TypeInv
<1>2. Live' = Live
  BY <1>1 DEF Live
<1>3. /\ plan' \in Plans /\ PlanInv' /\ ram' \in RamTypes
      /\ goal' = NoGoal \/ goal' \in [Page -> Contents(Live)]
  <2>1. CASE NoPlan /\ UNCHANGED ram
    BY <1>1, <2>1, NoPlanStep
  <2>2. CASE ~(NoPlan /\ UNCHANGED ram)
    <3> DEFINE i == CapsuleAt(StagingStart)
               kinds == IF intent \intersect {"BR", "dynamic"} # {}
                          THEN {"static", "dynamic"} ELSE {"static"}
               aim == DecompressGoal(i, kinds)
    <3>1. /\ CapsulesAt(StagingStart) # {}
          /\ Give(DecompressPlan(StagingStart, i, kinds), aim)
          /\ ram' = [ram EXCEPT !.pending = ram.pending \/ "BR" \in intent]
      BY <2>2 DEF Intent
    <3>2. i \in Live /\ Readable(page, i, StagingStart)
      BY <3>1, CapsulesFound
    <3> HIDE DEF i, kinds
    <3>3. /\ DecompressPlan(StagingStart, i, kinds) \in Plans
          /\ Leads(DecompressPlan(StagingStart, i, kinds), page, aim)
      BY <3>2, DecompressLeads, AimsAre
    <3>4. aim \in [Page -> Contents(Live)]
      BY <3>2, AimsAre, AimTypes DEF TypeInv, Readable
    <3> HIDE DEF aim
    <3>5. plan' \in Plans /\ PlanInv' /\ goal' \in [Page -> Contents(Live)]
      BY <1>1, <3>1, <3>3, <3>4, GiveStep
    <3>6. ram' \in RamTypes
      <4>1. (ram.pending \/ "BR" \in intent) \in BOOLEAN
        OBVIOUS
      <4> DEFINE value == ram.pending \/ "BR" \in intent
      <4> HIDE DEF value
      <4> QED
        BY <1>1, <3>1, <4>1 DEF RamTypes, value
    <3> QED
      BY <3>5, <3>6
  <2> QED
    BY <2>1, <2>2
<1>4. TypeInv'
  BY <1>1, <1>2, <1>3 DEF TypeInv
<1>5. PhaseInv'
  BY <1>1 DEF PhaseInv
<1> QED
  BY <1>3, <1>4, <1>5

\* A capsule that no longer reads as it was written.
LEMMA DecayKeeps == FlashInv /\ Decay => FlashInv'
<1> SUFFICES ASSUME FlashInv, Decay PROVE FlashInv'
  OBVIOUS
<1> USE DEF FlashInv
<1>1. /\ pc' = "auth" /\ UNCHANGED <<rules, fourByte, ram>> /\ NoPlan
      /\ page' = [page EXCEPT ![RecoveryStart] = Junk] /\ Spend("decay")
  BY DEF Decay, At
<1>2. Contents(Live) \subseteq Contents(Live') /\ budget' \in [Events -> Nat]
  BY <1>1, LiveGrows DEF Events
<1>3. page' \in [Page -> Contents(Live')]
  <2>1. Junk \in Contents(Live)
    BY DEF Contents
  <2> QED
    BY <1>1, <1>2, <2>1, Starts DEF TypeInv
<1>4. TypeInv'
  BY <1>1, <1>2, <1>3, NoPlanStep DEF TypeInv
<1>5. PhaseInv'
  BY <1>1 DEF PhaseInv
<1> QED
  BY <1>1, <1>4, <1>5, NoPlanStep

\* A page is in a chunk of the memory.
LEMMA PageChunk ==
  ASSUME NEW p \in Page
  PROVE  /\ ChunkOf(p) \in Nat /\ ChunkOf(p) < Words * ChunksPerWord
         /\ WordOf(ChunkOf(p)) \in 0..Words - 1
<1>1. p \in Nat /\ p < Pages /\ Pages \in Nat
  BY PageNumbers
<1>2. ChunkOf(p) \in Nat /\ PagesPerChunk * ChunkOf(p) <= p
  BY <1>1, ChunkPages
<1> DEFINE k == ChunkOf(p)
           n == Words * ChunksPerWord
<1>3. n \in Nat /\ Pages = n * PagesPerChunk /\ PagesPerChunk \in Nat \ {0}
  BY Sizes, SizesAssumption
<1> HIDE DEF k, n
<1>4. k < n
  <2> SUFFICES ASSUME n <= k PROVE FALSE
    BY <1>2, <1>3 DEF k
  <2>1. n * PagesPerChunk <= PagesPerChunk * k
    BY <1>2, <1>3 DEF k
  <2> QED
    BY <1>1, <1>2, <1>3, <2>1 DEF k
<1>5. WordOf(k) \in Nat /\ BitOf(k) \in 0..ChunksPerWord - 1
      /\ k = ChunksPerWord * WordOf(k) + BitOf(k)
  BY <1>2, Sizes, DivMod DEF WordOf, BitOf, k
<1>6. WordOf(k) < Words
  <2> DEFINE w == WordOf(k)
             b == BitOf(k)
  <2>1. w \in Nat /\ b \in Nat /\ k = ChunksPerWord * w + b /\ ChunksPerWord \in Nat \ {0}
        /\ Words \in Nat /\ k < Words * ChunksPerWord
    BY <1>4, <1>5, Sizes DEF n
  <2> HIDE DEF w, b
  <2>2. ~(Words <= w)
    <3> SUFFICES ASSUME Words <= w PROVE FALSE
      OBVIOUS
    <3>1. Words * ChunksPerWord <= ChunksPerWord * w
      BY <2>1
    <3> QED
      BY <2>1, <3>1
  <2> QED
    BY <2>1, <2>2 DEF w
<1>7. WordOf(k) \in 0..Words - 1
  BY <1>5, <1>6, Sizes
<1> QED
  BY <1>2, <1>4, <1>7 DEF k, n

\* authenticate_and_recover_spi_flash: whichever way the recovery capsule is
\* judged, the handler for the active region finds a whole one.
LEMMA AuthKeeps == FlashInv /\ Auth => FlashInv'
<1> SUFFICES ASSUME FlashInv, Auth PROVE FlashInv'
  OBVIOUS
<1> USE DEF FlashInv
<1>1. /\ plan = <<>> /\ UNCHANGED <<page, rules, fourByte, budget>> /\ ram \in RamTypes
      /\ fourByte.filter => fourByte.flash
  BY DEF Auth, At, TypeInv, PhaseInv
<1>2. Live' = Live /\ Live \subseteq Images
  BY <1>1, SizesAssumption DEF Live
<1>3. CASE /\ CapsulesAt(RecoveryStart) # {}
           /\ ram' = [ram EXCEPT !.state = "ok"] /\ NoPlan /\ pc' = "authAct"
  <2>1. \E i \in Live : CapsuleIn(page, i, RecoveryStart)
    BY <1>3, CapsulesFound DEF Readable
  <2>2. PhaseInv'
    BY <1>1, <1>2, <1>3, <2>1, NoPlanStep DEF PhaseInv, CapsuleIn
  <2>3. ram' \in RamTypes
    BY <1>1, <1>3 DEF RamTypes
  <2> QED
    BY <1>1, <1>2, <1>3, <2>2, <2>3, NoPlanStep DEF TypeInv
<1>4. CASE /\ CapsulesAt(RecoveryStart) = {} /\ Promotable(~ActiveValid)
           /\ ram' = [ram EXCEPT !.state = "ok"] /\ pc' = "authAct"
           /\ LET i == CapsuleAt(StagingStart)
              IN  Give(PromotePlan(i), Over(Capsule(i, RecoveryStart)))
  <2> DEFINE i == CapsuleAt(StagingStart)
             aim == Over(Capsule(i, RecoveryStart))
  <2>1. i \in Live /\ Readable(page, i, StagingStart)
    BY <1>4, CapsulesFound DEF Promotable
  <2>2. Give(PromotePlan(i), aim)
    BY <1>4
  <2> HIDE DEF i
  <2>3. PromotePlan(i) \in Plans /\ Leads(PromotePlan(i), page, aim)
    BY <2>1, PromoteLeads, AimsAre
  <2>4. aim \in [Page -> Contents(Live)]
    BY <2>1, AimsAre, AimTypes DEF TypeInv, Readable
  <2>5. CapsuleIn(aim, i, RecoveryStart)
    BY <2>1, AimsAre, CapsuleThere, PlacesApart DEF Readable
  <2> HIDE DEF aim
  <2>6. plan' \in Plans /\ goal' = aim /\ PlanInv' /\ Final' = aim
    BY <1>1, <2>2, <2>3, <2>4, GiveStep
  <2>7. PhaseInv'
    <3>1. \E j \in Live' : CapsuleIn(Final', j, RecoveryStart)
      BY <1>2, <2>1, <2>5, <2>6
    <3>2. (\E j \in Live : CapsuleIn(Final, j, RecoveryStart))'
      BY <3>1 DEF CapsuleIn
    <3> QED
      BY <1>1, <1>4, <3>2 DEF PhaseInv
  <2>8. ram' \in RamTypes
    BY <1>1, <1>4 DEF RamTypes
  <2> QED
    BY <1>1, <1>2, <2>4, <2>6, <2>7, <2>8 DEF TypeInv
<1>5. CASE /\ ram' = [ram EXCEPT !.state = IF ActiveValid THEN "recFailed" ELSE "allFailed"]
           /\ NoPlan /\ pc' = "apply"
  <2>1. ram' \in RamTypes /\ (ram'.state # "allFailed" => ActiveValid)
    BY <1>1, <1>5 DEF RamTypes
  <2>2. ram'.state # "allFailed" => \E i \in Live' : AuthenticIn(Final', i)
    BY <1>1, <1>2, <1>5, <2>1, NoPlanStep, ActiveIs
  <2>3. (ram.state # "allFailed" => \E i \in Live : AuthenticIn(Final, i))'
    BY <2>2 DEF AuthenticIn
  <2>4. PhaseInv'
    BY <1>1, <1>5, <2>3 DEF PhaseInv
  <2> QED
    BY <1>1, <1>2, <1>5, <2>1, <2>4, NoPlanStep DEF TypeInv
<1> QED
  BY <1>3, <1>4, <1>5 DEF Auth

\* ... and whichever way the active region is, it authenticates once the commands
\* are given, though it is not looked at again.
LEMMA AuthActKeeps == FlashInv /\ AuthAct => FlashInv'
<1> SUFFICES ASSUME FlashInv, AuthAct PROVE FlashInv'
  OBVIOUS
<1> USE DEF FlashInv
<1>1. /\ pc = "authAct" /\ plan = <<>> /\ pc' = "apply"
      /\ UNCHANGED <<page, rules, fourByte, ram>>
      /\ fourByte.filter => fourByte.flash
  BY DEF AuthAct, At, PhaseInv
<1>2. UNCHANGED budget \/ Spend("force")
  BY DEF AuthAct
<1>3. /\ Live \subseteq Live' /\ Live \subseteq Images /\ Live' \subseteq Images
      /\ budget' \in [Events -> Nat] /\ Contents(Live) \subseteq Contents(Live')
  BY <1>2, LiveGrows DEF Events
<1> DEFINE i == CapsuleAt(RecoveryStart)
           both == {"static", "dynamic"}
           cmds == DecompressPlan(RecoveryStart, i, both)
           aim == DecompressGoal(i, both)
<1>4. i \in Live /\ Readable(page, i, RecoveryStart)
  <2>1. \E j \in Live : CapsuleIn(page, j, RecoveryStart)
    BY <1>1, AtHandler DEF PhaseInv
  <2> QED
    BY <1>3, <2>1, CapsulesFound
<1>5. (NoPlan /\ ActiveValid) \/ Give(cmds, aim)
  BY DEF AuthAct
<1> HIDE DEF i
<1>6. /\ plan' \in Plans /\ PlanInv' /\ \E j \in Live' : AuthenticIn(Final', j)
      /\ goal' = NoGoal \/ goal' \in [Page -> Contents(Live')]
  <2>1. CASE NoPlan /\ ActiveValid
    BY <1>1, <1>3, <2>1, NoPlanStep, ActiveIs
  <2>2. CASE Give(cmds, aim)
    <3>1. cmds \in Plans /\ Leads(cmds, page, aim)
      BY <1>4, DecompressLeads, AimsAre
    <3>2. aim \in [Page -> Contents(Live)]
      BY <1>3, <1>4, AimsAre, AimTypes DEF TypeInv
    <3>3. AuthenticIn(aim, i)
      <4>1. "static" \in both /\ i \in Images
        BY <1>3, <1>4
      <4> HIDE DEF both
      <4>2. aim = RestoredFrom(page, i, DecompressedPages(i, both), "static" \in both)
        BY AimsAre
      <4> QED
        BY <4>1, <4>2, RestoredAuthentic
    <3> HIDE DEF aim, cmds
    <3>4. plan' \in Plans /\ goal' = aim /\ PlanInv' /\ Final' = aim
      BY <1>1, <2>2, <3>1, <3>2, GiveStep
    <3> QED
      BY <1>3, <1>4, <3>2, <3>3, <3>4
  <2> QED
    BY <1>5, <2>1, <2>2
<1>7. (\E j \in Live : AuthenticIn(Final, j))'
  BY <1>6 DEF AuthenticIn
<1>8. PhaseInv'
  BY <1>1, <1>7 DEF PhaseInv
<1>9. TypeInv'
  BY <1>1, <1>3, <1>6 DEF TypeInv
<1> QED
  BY <1>6, <1>8, <1>9

\* apply_spi_write_protection_and_smbus_rules, for an active region that
\* authenticates, fills the memory as its PFM says.
LEMMA ApplyKeeps == FlashInv /\ Apply => FlashInv'
<1> SUFFICES ASSUME FlashInv, Apply PROVE FlashInv'
  OBVIOUS
<1> USE DEF FlashInv
<1>1. /\ pc = "apply" /\ plan = <<>> /\ pc' = "entry"
      /\ UNCHANGED <<page, fourByte, ram, budget>> /\ NoPlan /\ rules \in Memory
      /\ fourByte.filter => fourByte.flash
  BY DEF Apply, At, PhaseInv, TypeInv
<1>2. Live' = Live /\ Live \subseteq Images
  BY <1>1, SizesAssumption DEF Live
<1>3. PICK busy \in BOOLEAN :
        /\ cpldBusy' = busy
        /\ rules' = Closed(IF ram.state = "allFailed" THEN rules ELSE Rules(ActiveBody), busy)
  BY DEF Apply
<1>4. \A mem \in Memory : Closed(mem, busy) \in Memory
  BY DEF Closed, Memory
<1>5. CASE ram.state = "allFailed"
  <2>1. rules' \in Memory
    BY <1>1, <1>3, <1>4, <1>5
  <2>2. TypeInv'
    BY <1>1, <1>2, <2>1, NoPlanStep DEF TypeInv
  <2>3. PhaseInv'
    BY <1>1, <1>5, NoPlanStep DEF PhaseInv
  <2> QED
    BY <1>1, <2>2, <2>3, NoPlanStep
<1>6. CASE ram.state # "allFailed"
  <2>1. PICK i \in Live : AuthenticIn(page, i)
    BY <1>1, <1>6, AtHandler DEF PhaseInv
  <2>2. ActiveBody = Layout(i).defs /\ i \in Images
    BY <1>2, <2>1, ActiveIs DEF AuthenticIn
  <2> DEFINE mem == Rules(Layout(i).defs)
  <2>3. /\ mem \in Memory
        /\ \A k \in Nat : k < Words * ChunksPerWord => (BitOf(k) \in mem[WordOf(k)] <=> ChunkOpen(i, k))
    BY <1>1, <2>2, RulesOpenExactly
  <2> HIDE DEF mem
  <2>4. rules' = Closed(mem, busy) /\ rules' \in Memory
    BY <1>3, <1>4, <1>6, <2>2, <2>3 DEF mem
  <2>5. TypeInv'
    BY <1>1, <1>2, <2>4, NoPlanStep DEF TypeInv
  <2>6. FilterRight'
    <3>1. OpenedByPfm' = UnionOf(Layout(i).defs, Writable)
                           \ {p \in Page : WordOf(ChunkOf(p)) \in ClosedWords(busy)}
      <4>1. ActiveBody' = ActiveBody
        BY <1>1 DEF ActiveBody
      <4> QED
        BY <1>3, <2>2, <4>1 DEF OpenedByPfm, WordOf
    <3>2. ASSUME NEW p \in Page
          PROVE  Open(p)' <=> {q \in Page : ChunkOf(q) = ChunkOf(p)} \subseteq OpenedByPfm'
      <4> DEFINE k == ChunkOf(p)
                 w == WordOf(k)
      <4>1. k \in Nat /\ k < Words * ChunksPerWord /\ w \in 0..Words - 1
        BY PageChunk
      <4>2. Open(p)' <=> BitOf(k) \in rules'[w]
        BY DEF Open, BitOf, WordOf
      <4>3. rules'[w] = IF w \in ClosedWords(busy) THEN {} ELSE mem[w]
        <5> HIDE DEF w
        <5> QED
          BY <2>3, <2>4, <4>1 DEF Closed, Memory
      <4>4. ASSUME NEW q \in Page, ChunkOf(q) = k
            PROVE  q \in OpenedByPfm' <=> q \in UnionOf(Layout(i).defs, Writable)
                                            /\ w \notin ClosedWords(busy)
        BY <3>1, <4>4
      <4>5. p \in Page /\ ChunkOf(p) = k
        OBVIOUS
      <4> HIDE DEF k, w
      <4>6. {q \in Page : ChunkOf(q) = k} \subseteq OpenedByPfm'
              <=> ChunkOpen(i, k) /\ w \notin ClosedWords(busy)
        BY <4>4, <4>5 DEF ChunkOpen
      <4>7. BitOf(k) \in mem[w] <=> ChunkOpen(i, k)
        BY <2>3, <4>1 DEF w
      <4> QED
        BY <4>2, <4>3, <4>5, <4>6, <4>7
    <3> QED
      BY <3>2 DEF FilterRight
  <2>7. (\E j \in Live : AuthenticIn(page, j))'
    BY <1>1, <1>2, <2>1 DEF AuthenticIn
  <2>8. PhaseInv'
    BY <1>1, <2>6, <2>7, NoPlanStep DEF PhaseInv, InService
  <2> QED
    BY <1>1, <2>5, <2>8, NoPlanStep
<1> QED
  BY <1>5, <1>6

\* tmin1_boot_bmc, perform_entry_to_t0_bmc_only
LEMMA EntryKeeps == FlashInv /\ Entry => FlashInv'
<1> SUFFICES ASSUME FlashInv, Entry PROVE FlashInv'
  OBVIOUS
<1> USE DEF FlashInv
<1>1. /\ pc = "entry" /\ UNCHANGED <<page, rules, ram, cpldBusy, plan, goal, budget>>
      /\ pc' \in {"held", "t0"} /\ (pc' = "t0" => ram.state # "allFailed")
      /\ goal = NoGoal /\ (ram.state # "allFailed" => InService)
      /\ fourByte \in [flash : BOOLEAN, filter : BOOLEAN]
      /\ fourByte.filter => fourByte.flash
  BY DEF Entry, At, PhaseInv, TypeInv
<1>2. /\ fourByte' \in [flash : BOOLEAN, filter : BOOLEAN]
      /\ fourByte'.filter => fourByte'.flash
  <2> DEFINE three == [flash |-> FALSE, filter |-> FALSE]
  <2>1. fourByte' = fourByte \/ fourByte' = three
    BY DEF Entry
  <2>2. three \in [flash : BOOLEAN, filter : BOOLEAN] /\ ~three.filter
    BY Zenon
  <2> HIDE DEF three
  <2> QED
    BY <1>1, <2>1, <2>2
<1>3. TypeInv' /\ PlanInv'
  BY <1>1, <1>2 DEF TypeInv, PlanInv, Live
<1>4. InService' <=> InService
  BY <1>1 DEF InService, Live, AuthenticIn, FilterRight, Open, OpenedByPfm, ActiveBody
<1>5. PhaseInv'
  BY <1>1, <1>2, <1>4 DEF PhaseInv
<1> QED
  BY <1>3, <1>5

\* A command leaves the flash with contents of the same firmware.
LEMMA CommandTypes ==
  ASSUME NEW I, NEW flash \in [Page -> Contents(I)], NEW c \in Orders
  PROVE  Commanded(flash, c) \in [Page -> Contents(I)]
<1>1. /\ c.at \in Page /\ c.from \in Page /\ flash[c.from] \in Contents(I)
      /\ c.op \in {"erase4", "erase64", "copy", "pfm"}
  BY DEF Orders
<1>2. Erased \in Contents(I) /\ Junk \in Contents(I)
  BY DEF Contents
<1>3. Result(flash, c) \in Contents(I)
  <2>1. CASE c.op = "pfm" /\ flash[c.from][1] = "header"
    <3>1. flash[c.from][2] \in I
      BY <1>1, <2>1, ContentsTell
    <3>2. Pfm(flash[c.from][2]) \in Contents(I)
      BY <3>1 DEF Contents
    <3> QED
      BY <1>2, <2>1, <3>2 DEF Result, Fresh
  <2>2. CASE c.op = "pfm" /\ flash[c.from][1] # "header"
    BY <1>2, <2>2 DEF Result
  <2>3. CASE c.op # "pfm"
    BY <1>1, <1>2, <2>3 DEF Result, Fresh
  <2> QED
    BY <2>1, <2>2, <2>3
<1> QED
  BY <1>3 DEF Commanded

\* One command of a plan: what the rest makes of the flash stays the same.
LEMMA ExecKeeps == FlashInv /\ Exec => FlashInv'
<1> SUFFICES ASSUME FlashInv, Exec PROVE FlashInv'
  OBVIOUS
<1> USE DEF FlashInv
<1>1. /\ plan # <<>> /\ page' = Commanded(page, Head(plan)) /\ plan' = Tail(plan)
      /\ UNCHANGED <<rules, fourByte, ram, pc, goal, budget>>
      /\ plan \in Plans /\ page \in [Page -> Contents(Live)]
  BY DEF Exec, TypeInv
<1>2. goal # NoGoal /\ Leads(plan, page, goal)
  BY <1>1 DEF PlanInv
<1>3. Head(plan) \in Orders /\ Tail(plan) \in Plans /\ Leads(Tail(plan), page', goal)
  BY <1>1, <1>2, LeadsTail
<1>4. page' \in [Page -> Contents(Live)]
  BY <1>1, <1>3, CommandTypes
<1>5. Live' = Live
  BY <1>1 DEF Live
<1>6. TypeInv'
  BY <1>1, <1>3, <1>4, <1>5 DEF TypeInv
<1>7. PlanInv'
  BY <1>1, <1>2, <1>3 DEF PlanInv
<1>8. Final' = Final
  BY <1>1, <1>2 DEF Final
<1>9. /\ (\E i \in Live : CapsuleIn(Final, i, RecoveryStart)) =>
           (\E i \in Live : CapsuleIn(Final, i, RecoveryStart))'
      /\ (\E i \in Live : AuthenticIn(Final, i)) =>
           (\E i \in Live : AuthenticIn(Final, i))'
  BY <1>5, <1>8 DEF CapsuleIn, AuthenticIn
<1>10. PhaseInv'
  BY <1>1, <1>2, <1>9 DEF PhaseInv
<1> QED
  BY <1>6, <1>7, <1>10

(***************************************************************************)
(* T0.                                                                     *)
(***************************************************************************)
\* Where pages of the flash that the PFM in service makes writable change, and no
\* others, the active region goes on to authenticate under the same PFM.
LEMMA ServiceKept ==
  ASSUME FlashInv, InT0, NEW S \in SUBSET Page,
         S \intersect PfmRegion = {},
         S \subseteq UnionOf(ActiveBody, Writable),
         page' \in [Page -> Contents(Live')],
         \A p \in Page : p \notin S => page'[p] = page[p],
         UNCHANGED <<rules, cpldBusy>>, Live \subseteq Live'
  PROVE  InService' /\ ActiveBody' = ActiveBody
<1> USE DEF FlashInv
<1>1. PICK i \in Live : AuthenticIn(page, i)
  BY DEF PhaseInv, InT0, InService
<1>2. i \in Images /\ ActiveBody = Layout(i).defs /\ page[PfmStart] = Pfm(i)
  BY <1>1, ActiveIs DEF AuthenticIn
<1>3. page'[PfmStart] = page[PfmStart]
  BY Starts
<1>4. ActiveBody' = ActiveBody
  BY <1>3 DEF ActiveBody
<1>5. ASSUME NEW n \in DOMAIN Layout(i).defs,
             Static(Layout(i).defs[n]), Layout(i).defs[n].hashed,
             NEW p \in Span(Layout(i).defs[n])
      PROVE  page'[p] = Body(i, p)
  <2>1. page[p] = Body(i, p)
    BY <1>1, <1>5 DEF AuthenticIn
  <2>2. n \in 1..Len(Layout(i).defs)
    BY <1>2, DefsInOrder
  <2>3. p \notin UnionOf(ActiveBody, Writable)
    BY <1>2, <1>5, <2>2, PageWritable DEF Static
  <2>4. p \in Page
    BY <1>2, <1>5, LayoutAssumption, PlacesOf
  <2> QED
    BY <2>1, <2>3, <2>4
<1>6. AuthenticIn(page', i)
  BY <1>1, <1>3, <1>5 DEF AuthenticIn
<1>7. (\E j \in Live : AuthenticIn(page, j))'
  BY <1>1, <1>6 DEF AuthenticIn
<1>8. FilterRight'
  BY <1>4 DEF FilterRight, OpenedByPfm, Open, PhaseInv, InT0, InService
<1> QED
  BY <1>4, <1>7, <1>8 DEF InService

\* Multiples are ordered as what they are multiples of.
LEMMA Multiples ==
  ASSUME NEW a \in Nat, NEW b \in Nat, NEW n \in Nat \ {0}
  PROVE  (n * a <= n * b <=> a <= b) /\ (n * a < n * b <=> a < b)
  OBVIOUS

\* A word of the memory stands for the pages between two multiples of its size.
LEMMA WordPages ==
  ASSUME NEW p \in Nat, NEW w \in Nat
  PROVE  WordOf(ChunkOf(p)) = w <=> /\ PagesPerChunk * (ChunksPerWord * w) <= p
                                    /\ p < PagesPerChunk * (ChunksPerWord * (w + 1))
<1> DEFINE k == ChunkOf(p)
           a == ChunksPerWord * w
           b == ChunksPerWord * (w + 1)
           n == PagesPerChunk
<1>1. /\ n \in Nat \ {0} /\ a \in Nat /\ b \in Nat
      /\ k \in Nat /\ n * k <= p /\ p < n * (k + 1)
  BY Sizes, ChunkPages
<1>2. WordOf(k) = w <=> a <= k /\ k < b
  BY <1>1, Sizes, DivRange DEF WordOf
<1> HIDE DEF k, a, b, n
<1>3. /\ n * a \in Nat /\ n * b \in Nat /\ n * k \in Nat /\ n * (k + 1) \in Nat /\ k + 1 \in Nat
  BY <1>1
<1>4. a <= k <=> n * a <= p
  <2>1. n * a <= n * k <=> a <= k
    BY <1>1, Multiples
  <2>2. n * a < n * (k + 1) <=> a < k + 1
    BY <1>1, <1>3, Multiples
  <2> QED
    BY <1>1, <1>3, <2>1, <2>2
<1>5. k < b <=> p < n * b
  <2>1. n * k < n * b <=> k < b
    BY <1>1, Multiples
  <2>2. n * (k + 1) <= n * b <=> k + 1 <= b
    BY <1>1, <1>3, Multiples
  <2> QED
    BY <1>1, <1>3, <2>1, <2>2
<1> QED
  BY <1>2, <1>4, <1>5 DEF k, a, b, n

\* The pages of a sector are in one word.
LEMMA SectorInWord ==
  ASSUME NEW p \in Nat, NEW q \in Sector(p)
  PROVE  q \in Nat /\ WordOf(ChunkOf(q)) = WordOf(ChunkOf(p))
<1> DEFINE S == PagesPerSector
           m == (PagesPerChunk * ChunksPerWord) \div PagesPerSector
           a == p \div PagesPerSector
           w == WordOf(ChunkOf(p))
<1>1. S \in Nat \ {0} /\ PagesPerChunk \in Nat \ {0} /\ ChunksPerWord \in Nat \ {0}
  BY Sizes
<1>2. m \in Nat /\ PagesPerChunk * ChunksPerWord = S * m
  <2> DEFINE size == PagesPerChunk * ChunksPerWord
  <2>1. size \in Nat /\ size % S = 0
    BY <1>1, SizesAssumption
  <2> HIDE DEF size
  <2>2. size \div S \in Nat /\ size = S * (size \div S) + (size % S)
    BY <1>1, <2>1, DivMod
  <2> QED
    BY <1>1, <2>1, <2>2 DEF size
<1>3. a \in Nat /\ p = S * a + (p % S) /\ p % S \in 0..S - 1
  BY <1>1, DivMod
<1>4. ChunkOf(p) \in Nat /\ w \in Nat
  <2>1. ChunkOf(p) \in Nat
    BY ChunkPages
  <2> QED
    BY <2>1, ChunkPlace
<1>5. S * a <= q /\ q < S * (a + 1) /\ q \in Nat /\ S * a <= p /\ p < S * (a + 1)
  <2> DEFINE r == p % S
             f == S * a
  <2>1. f \in Nat /\ S * (a + 1) = f + S
    BY <1>1, <1>3
  <2>2. p = f + r /\ r \in 0..S - 1
    BY <1>3
  <2>3. q \in p - r..(p - r) + S - 1
    BY DEF Sector
  <2> HIDE DEF f, r, a
  <2> QED
    BY <1>1, <2>1, <2>2, <2>3 DEF f
<1> HIDE DEF a, m, S, w
<1>6. /\ PagesPerChunk * (ChunksPerWord * w) = S * (m * w)
      /\ PagesPerChunk * (ChunksPerWord * (w + 1)) = S * (m * (w + 1))
  BY <1>1, <1>2, <1>4
<1>7. S * (m * w) <= p /\ p < S * (m * (w + 1))
  BY <1>4, <1>6, WordPages DEF w
<1> DEFINE from == m * w
           to == m * (w + 1)
<1>8. from \in Nat /\ to \in Nat /\ a + 1 \in Nat /\ S * from <= p /\ p < S * to
  BY <1>2, <1>3, <1>4, <1>7
<1> HIDE DEF from, to
<1>9. /\ S * from < S * (a + 1) /\ S * a < S * to
  <2>1. S * from \in Nat /\ S * to \in Nat /\ S * a \in Nat /\ S * (a + 1) \in Nat
    BY <1>1, <1>3, <1>8
  <2> QED
    BY <1>5, <1>8, <2>1
<1>10. from <= a /\ a + 1 <= to
  <2>1. from < a + 1 /\ a < to
    BY <1>1, <1>3, <1>8, <1>9, Multiples
  <2> QED
    BY <1>3, <1>8, <2>1
<1>11. S * from <= S * a /\ S * (a + 1) <= S * to
  BY <1>1, <1>3, <1>8, <1>10, Multiples
<1>12. S * from <= q /\ q < S * to
  <2>1. S * from \in Nat /\ S * to \in Nat /\ S * a \in Nat /\ S * (a + 1) \in Nat
    BY <1>1, <1>3, <1>8
  <2> QED
    BY <1>5, <1>11, <2>1
<1>13. WordOf(ChunkOf(q)) = w
  BY <1>4, <1>5, <1>6, <1>12, WordPages DEF from, to
<1> QED
  BY <1>5, <1>13 DEF w

\* A page that the filter lets through is one that the PFM opens.
LEMMA PassesOpened ==
  ASSUME FlashInv, InT0, NEW p \in Page, Passes(p)
  PROVE  p \in OpenedByPfm /\ fourByte.flash
<1>1. Open(p) /\ fourByte.filter /\ fourByte.flash /\ FilterRight
  BY DEF Passes, FlashInv, PhaseInv, InT0, InService
<1> QED
  BY <1>1 DEF FilterRight

\* Where the BMC may write, it may erase the sector: its firmware is one it stages.
LEMMA OwnSector ==
  ASSUME FlashInv, InT0, budget["write"] > 0, NEW p \in OpenedByPfm
  PROVE  /\ Sector(p) \subseteq OpenedByPfm /\ Sector(p) \subseteq Page
         /\ Sector(p) \intersect PfmRegion = {}
<1>1. PICK i \in Live : AuthenticIn(page, i)
  BY DEF FlashInv, PhaseInv, InT0, InService
<1>2. i \in Updates /\ i \in Images /\ ActiveBody = Layout(i).defs
  BY <1>1, ActiveIs DEF AuthenticIn, FlashInv, Live
<1> DEFINE defs == Layout(i).defs
           opened == UnionOf(defs, Writable)
<1>3. \A n \in DOMAIN defs : Span(defs[n]) \subseteq Page
  <2> SUFFICES ASSUME NEW n \in DOMAIN defs PROVE Span(defs[n]) \subseteq Page
    OBVIOUS
  <2>1. defs[n].from \in Nat /\ defs[n].to \in Nat /\ defs[n].to <= Pages
    BY <1>2, DefsInOrder
  <2> QED
    BY <2>1, PageNumbers DEF Span, Page
<1>4. p \in opened /\ p \in Page /\ WordOf(ChunkOf(p)) \notin ClosedWords(cpldBusy)
  <2>1. p \in opened /\ (p \in Page => WordOf(ChunkOf(p)) \notin ClosedWords(cpldBusy))
    BY <1>2 DEF OpenedByPfm, WordOf
  <2>2. opened \subseteq Page
    BY <1>3 DEF UnionOf
  <2> QED
    BY <2>1, <2>2
<1>5. Sector(p) \subseteq opened
  BY <1>2, <1>4, LayoutAssumption
<1>6. \A q \in Sector(p) : WordOf(ChunkOf(q)) \notin ClosedWords(cpldBusy)
  BY <1>4, PageNumbers, SectorInWord
<1>7. opened \subseteq Page /\ opened \intersect PfmRegion = {}
  <2>1. \A n \in DOMAIN defs : Writable(defs[n]) => Span(defs[n]) \intersect PfmRegion = {}
    BY <1>2, PlacesOf
  <2> QED
    BY <1>3, <2>1 DEF UnionOf
<1>8. Sector(p) \subseteq OpenedByPfm
  BY <1>2, <1>5, <1>6 DEF OpenedByPfm, WordOf
<1> QED
  BY <1>5, <1>7, <1>8

\* PAGE_PROGRAM, ERASE_4K, SECTOR_ERASE and a capsule staged: what changes.
LEMMA HostChanges ==
  ASSUME FlashInv,
         \/ \E op \in {"program", "erase4", "sector"}, p \in HostPages : HostWrite(op, p)
         \/ \E i \in Updates : Stage(i)
  PROVE  /\ InT0 /\ UNCHANGED <<rules, fourByte, ram, intent, reset, cpldBusy, pc, plan, goal>>
         /\ Live \subseteq Live' /\ budget' \in [Events -> Nat]
         /\ page' \in [Page -> Contents(Live')]
         /\ \E S \in SUBSET Page : /\ S \intersect PfmRegion = {} /\ S \subseteq OpenedByPfm
                                   /\ \A p \in Page : p \notin S => page'[p] = page[p]
<1>1. ASSUME NEW op \in {"program", "erase4", "sector"}, NEW p \in HostPages, HostWrite(op, p)
      PROVE  /\ InT0 /\ UNCHANGED <<rules, fourByte, ram, intent, reset, cpldBusy, pc, plan, goal>>
             /\ Live \subseteq Live' /\ budget' \in [Events -> Nat]
             /\ page' \in [Page -> Contents(Live')]
             /\ \E S \in SUBSET Page : /\ S \intersect PfmRegion = {} /\ S \subseteq OpenedByPfm
                                       /\ \A q \in Page : q \notin S => page'[q] = page[q]
  <2>1. /\ InT0 /\ UNCHANGED <<rules, fourByte, ram, intent, reset, cpldBusy, pc, plan, goal>>
        /\ Passes(p) /\ Spend("write") /\ budget["write"] > 0
    BY <1>1 DEF HostWrite, Spend
  <2>2. p \in Page /\ p \in OpenedByPfm /\ fourByte.flash
    BY <2>1, SizesAssumption, PassesOpened
  <2> DEFINE S == IF op = "sector" THEN Sector(p) ELSE {p}
             value == IF op = "program" THEN Junk ELSE Erased
  <2>3. page' = [r \in Page |-> IF r \in S THEN value ELSE page[r]]
    BY <1>1, <2>2 DEF HostWrite
  <2>4. S \subseteq Page /\ S \subseteq OpenedByPfm /\ S \intersect PfmRegion = {}
    <3>1. /\ Sector(p) \subseteq OpenedByPfm /\ Sector(p) \subseteq Page
          /\ Sector(p) \intersect PfmRegion = {}
      BY <2>1, <2>2, OwnSector
    <3>2. p \in Sector(p)
      <4>1. p \in Nat /\ p % PagesPerSector \in 0..PagesPerSector - 1
        BY <2>2, PageNumbers, Sizes, DivMod
      <4>2. PagesPerSector \in Nat \ {0}
        BY Sizes
      <4> DEFINE r == p % PagesPerSector
      <4> HIDE DEF r
      <4> QED
        BY <4>1, <4>2 DEF Sector, r
    <3> QED
      BY <2>2, <3>1, <3>2
  <2>5. /\ Live \subseteq Live' /\ budget' \in [Events -> Nat]
        /\ Contents(Live) \subseteq Contents(Live')
    BY <2>1, LiveGrows DEF FlashInv, Events
  <2>6. value \in Contents(Live')
    BY DEF Contents
  <2> HIDE DEF S, value
  <2>7. page' \in [Page -> Contents(Live')]
    BY <2>3, <2>5, <2>6 DEF FlashInv, TypeInv
  <2>8. \A q \in Page : q \notin S => page'[q] = page[q]
    BY <2>3
  <2> QED
    BY <2>1, <2>4, <2>5, <2>7, <2>8
<1>2. ASSUME NEW i \in Updates, Stage(i)
      PROVE  /\ InT0 /\ UNCHANGED <<rules, fourByte, ram, intent, reset, cpldBusy, pc, plan, goal>>
             /\ Live \subseteq Live' /\ budget' \in [Events -> Nat]
             /\ page' \in [Page -> Contents(Live')]
             /\ \E S \in SUBSET Page : /\ S \intersect PfmRegion = {} /\ S \subseteq OpenedByPfm
                                       /\ \A q \in Page : q \notin S => page'[q] = page[q]
  <2> DEFINE S == CapsuleRegion(i, StagingStart)
             v == Capsule(i, StagingStart)
  <2>1. /\ InT0 /\ UNCHANGED <<rules, fourByte, ram, intent, reset, cpldBusy, pc, plan, goal>>
        /\ Spend("stage") /\ page' = Over(v) /\ \A p \in DOMAIN v : Passes(p)
    BY <1>2 DEF Stage
  <2>2. i \in Images /\ i \in Live
    BY SizesAssumption DEF Live
  <2>3. page' = Put(page, S, v) /\ DOMAIN v = S
    BY <2>1, AimsAre DEF Capsule
  <2>4. S \subseteq Page /\ S \intersect PfmRegion = {}
    BY <2>2, PlacesApart
  <2>5. S \subseteq OpenedByPfm
    BY <2>1, <2>3, <2>4, PassesOpened
  <2>6. /\ Live \subseteq Live' /\ budget' \in [Events -> Nat]
        /\ Contents(Live) \subseteq Contents(Live')
    BY <2>1, LiveGrows DEF FlashInv, Events
  <2>7. page' \in [Page -> Contents(Live)]
    BY <2>2, <2>3, AimTypes DEF FlashInv, TypeInv
  <2> HIDE DEF S, v
  <2>8. page' \in [Page -> Contents(Live')]
    BY <2>6, <2>7
  <2>9. \A q \in Page : q \notin S => page'[q] = page[q]
    BY <2>3 DEF Put
  <2> QED
    BY <2>1, <2>4, <2>5, <2>6, <2>8, <2>9
<1> QED
  BY <1>1, <1>2

\* The BMC behind the filter.
LEMMA HostKeeps == FlashInv /\ Host => FlashInv'
<1> SUFFICES ASSUME FlashInv, Host PROVE FlashInv'
  OBVIOUS
<1>1. CASE EnterFourByte
  <2>1. /\ InT0 /\ fourByte' = [flash |-> TRUE, filter |-> TRUE]
        /\ UNCHANGED <<page, rules, ram, cpldBusy, pc, plan, goal, budget>>
    BY <1>1 DEF EnterFourByte
  <2>2. fourByte' \in [flash : BOOLEAN, filter : BOOLEAN] /\ fourByte'.flash
    BY <2>1, Zenon
  <2>3. TypeInv' /\ PlanInv'
    BY <2>1, <2>2 DEF FlashInv, TypeInv, PlanInv, Live
  <2>4. InService' <=> InService
    BY <2>1 DEF InService, Live, AuthenticIn, FilterRight, Open, OpenedByPfm, ActiveBody
  <2>5. PhaseInv'
    BY <2>1, <2>2, <2>4 DEF FlashInv, PhaseInv, InT0
  <2> QED
    BY <2>3, <2>5 DEF FlashInv
<1>2. CASE \/ \E op \in {"program", "erase4", "sector"}, p \in HostPages : HostWrite(op, p)
           \/ \E i \in Updates : Stage(i)
  <2>1. /\ InT0 /\ UNCHANGED <<rules, fourByte, ram, intent, reset, cpldBusy, pc, plan, goal>>
        /\ Live \subseteq Live' /\ budget' \in [Events -> Nat]
        /\ page' \in [Page -> Contents(Live')]
    BY <1>2, HostChanges
  <2>2. PICK S \in SUBSET Page : /\ S \intersect PfmRegion = {} /\ S \subseteq OpenedByPfm
                                 /\ \A p \in Page : p \notin S => page'[p] = page[p]
    BY <1>2, HostChanges
  <2>3. S \subseteq UnionOf(ActiveBody, Writable)
    BY <2>2 DEF OpenedByPfm
  <2>4. InService'
    BY <2>1, <2>2, <2>3, ServiceKept
  <2>5. goal = NoGoal /\ pc = "t0" /\ (fourByte.filter => fourByte.flash) /\ TypeInv /\ PlanInv
    BY <2>1 DEF FlashInv, PhaseInv, InT0
  <2>6. TypeInv' /\ PlanInv'
    BY <2>1, <2>5 DEF TypeInv, PlanInv
  <2>7. PhaseInv'
    BY <2>1, <2>4, <2>5 DEF PhaseInv
  <2> QED
    BY <2>6, <2>7 DEF FlashInv
<1> QED
  BY <1>1, <1>2 DEF Host

\* The BMC is answered, or asks, and runs on.
LEMMA AskKeeps ==
  ASSUME FlashInv, InT0, UNCHANGED <<page, rules, fourByte, ram, cpldBusy, pc, plan, goal>>,
         UNCHANGED budget \/ Spend("intent")
  PROVE  FlashInv'
<1>1. /\ Live \subseteq Live' /\ budget' \in [Events -> Nat]
      /\ Contents(Live) \subseteq Contents(Live')
  BY LiveGrows DEF FlashInv, TypeInv, Events
<1>2. TypeInv' /\ PlanInv'
  BY <1>1 DEF FlashInv, TypeInv, PlanInv
<1>3. PICK i \in Live : AuthenticIn(page, i)
  BY DEF FlashInv, PhaseInv, InT0, InService
<1>4. AuthenticIn(page', i) /\ i \in Live'
  BY <1>1, <1>3
<1>5. (\E j \in Live : AuthenticIn(page, j))'
  BY <1>4 DEF AuthenticIn
<1>6. FilterRight'
  BY DEF FlashInv, PhaseInv, InT0, InService, FilterRight, Open, OpenedByPfm, ActiveBody
<1>7. PhaseInv'
  BY <1>5, <1>6 DEF FlashInv, PhaseInv, InT0, InService
<1> QED
  BY <1>2, <1>7 DEF FlashInv

\* The ends of T0: another pass begins.
LEMMA ResetKeeps ==
  ASSUME FlashInv,
         UpdateIntent \/ PostUpdate \/ Timeout \/ OtherReset, \E kind : StartReset(kind)
  PROVE  FlashInv'
<1>1. /\ TypeInv /\ PlanInv /\ ram \in RamTypes
      /\ fourByte \in [flash : BOOLEAN, filter : BOOLEAN]
  BY DEF FlashInv, TypeInv
<1>2. /\ UNCHANGED <<page, rules, plan, goal>>
      /\ UNCHANGED budget \/ \E e \in Events : Spend(e)
  BY DEF UpdateIntent, PostUpdate, Timeout, OtherReset, Events
<1>3. ram' \in RamTypes
  <2>1. CASE UNCHANGED ram
    BY <1>1, <2>1
  <2>2. CASE ram' = [ram EXCEPT !.pending = TRUE]
    BY <1>1, <2>2 DEF RamTypes
  <2>3. CASE ram' = [ram EXCEPT !.pending = FALSE, !.wdt = TRUE, !.state = "ok"]
    BY <1>1, <2>3 DEF RamTypes
  <2> QED
    BY <2>1, <2>2, <2>3 DEF UpdateIntent, PostUpdate, Timeout, OtherReset
<1>4. pc' \in {"pend", "wdt"} /\ fourByte' = [fourByte EXCEPT !.flash = TRUE]
  BY DEF StartReset
<1>5. fourByte' \in [flash : BOOLEAN, filter : BOOLEAN] /\ fourByte'.flash
  BY <1>1, <1>4
<1>6. /\ Live \subseteq Live' /\ budget' \in [Events -> Nat]
      /\ Contents(Live) \subseteq Contents(Live')
  BY <1>1, <1>2, LiveGrows
<1>7. TypeInv'
  BY <1>1, <1>2, <1>3, <1>5, <1>6 DEF TypeInv
<1>8. PlanInv'
  BY <1>1, <1>2 DEF PlanInv
<1>9. PhaseInv'
  BY <1>4, <1>5 DEF PhaseInv
<1> QED
  BY <1>7, <1>8, <1>9 DEF FlashInv

\* bmc_boot_complete_actions
LEMMA BootDoneKeeps == FlashInv /\ BootDone => FlashInv'
<1> SUFFICES ASSUME FlashInv, BootDone PROVE FlashInv'
  OBVIOUS
<1>1. /\ InT0 /\ ram' = [ram EXCEPT !.level = 1] /\ ram \in RamTypes
      /\ UNCHANGED <<page, rules, fourByte, cpldBusy, pc, plan, goal, budget>>
  BY DEF BootDone, FlashInv, TypeInv
<1>2. ram' \in RamTypes
  BY <1>1 DEF RamTypes
<1>3. TypeInv' /\ PlanInv'
  BY <1>1, <1>2 DEF FlashInv, TypeInv, PlanInv, Live
<1>4. InService' <=> InService
  BY <1>1 DEF InService, Live, AuthenticIn, FilterRight, Open, OpenedByPfm, ActiveBody
<1>5. PhaseInv'
  BY <1>1, <1>4 DEF FlashInv, PhaseInv, InT0
<1> QED
  BY <1>3, <1>5 DEF FlashInv

\* Power fails: what commands were left is forgotten with the RAM.
LEMMA PowerKeeps == FlashInv /\ PowerLoss => FlashInv'
<1> SUFFICES ASSUME FlashInv, PowerLoss PROVE FlashInv'
  OBVIOUS
<1>1. /\ Spend("power") /\ NoPlan /\ pc' = "pend" /\ ram' = Boot
      /\ rules' = [w \in 0..Words - 1 |-> {}]
      /\ fourByte' = [flash |-> TRUE, filter |-> FALSE]
      /\ \E torn : page' \in {page, [p \in Page |-> IF p \in torn THEN Junk ELSE page[p]]}
  BY DEF PowerLoss
<1>2. /\ Live \subseteq Live' /\ budget' \in [Events -> Nat]
      /\ Contents(Live) \subseteq Contents(Live')
  BY <1>1, LiveGrows DEF FlashInv, Events
<1>3. page' \in [Page -> Contents(Live')]
  <2>1. Junk \in Contents(Live')
    BY DEF Contents
  <2> QED
    BY <1>1, <1>2, <2>1 DEF FlashInv, TypeInv
<1>4. rules' \in Memory
  BY <1>1 DEF Memory
<1>5. ram' \in RamTypes
  BY <1>1 DEF Boot, RamTypes
<1>6. fourByte' \in [flash : BOOLEAN, filter : BOOLEAN] /\ fourByte'.flash
  BY <1>1, Zenon
<1>7. TypeInv'
  BY <1>1, <1>2, <1>3, <1>4, <1>5, <1>6, NoPlanStep DEF TypeInv
<1>8. PhaseInv'
  BY <1>1, <1>6 DEF PhaseInv
<1> QED
  BY <1>1, <1>7, <1>8, NoPlanStep DEF FlashInv

(***************************************************************************)
(* The theorems.                                                           *)
(***************************************************************************)
\* Every step.
LEMMA NextKeeps == FlashInv /\ [Next]_vars => FlashInv'
<1> SUFFICES ASSUME FlashInv, [Next]_vars PROVE FlashInv'
  OBVIOUS
<1>1. CASE Pend
  BY <1>1, PendKeeps
<1>2. CASE Wdt
  BY <1>2, WdtKeeps
<1>3. CASE Intent
  BY <1>3, IntentKeeps
<1>4. CASE Decay
  BY <1>4, DecayKeeps
<1>5. CASE Auth
  BY <1>5, AuthKeeps
<1>6. CASE AuthAct
  BY <1>6, AuthActKeeps
<1>7. CASE Apply
  BY <1>7, ApplyKeeps
<1>8. CASE Entry
  BY <1>8, EntryKeeps
<1>9. CASE Exec
  BY <1>9, ExecKeeps
<1>10. CASE Host
  BY <1>10, HostKeeps
<1>11. CASE UpdateIntent \/ PostUpdate \/ Timeout \/ OtherReset
  <2>1. CASE \E kind : StartReset(kind)
    BY <1>11, <2>1, ResetKeeps
  <2>2. CASE ~\E kind : StartReset(kind)
    <3>1. /\ InT0
          /\ UNCHANGED <<page, rules, fourByte, ram, cpldBusy, pc, plan, goal, budget>>
      BY <1>11, <2>2 DEF UpdateIntent, PostUpdate, Timeout, OtherReset
    <3> QED
      BY <3>1, AskKeeps
  <2> QED
    BY <2>1, <2>2
<1>12. CASE BootDone
  BY <1>12, BootDoneKeeps
<1>13. CASE PowerLoss
  BY <1>13, PowerKeeps
<1>14. CASE UNCHANGED vars
  <2>1. UNCHANGED <<page, rules, fourByte, ram, intent, reset, cpldBusy, pc, plan, goal, budget>>
    BY <1>14 DEF vars
  <2>2. TypeInv' /\ PlanInv'
    BY <2>1 DEF FlashInv, TypeInv, PlanInv, Live
  <2>3. InService' <=> InService
    BY <2>1 DEF InService, Live, AuthenticIn, FilterRight, Open, OpenedByPfm, ActiveBody
  <2>4. Live' = Live /\ Final' = Final
    BY <2>1 DEF Live, Final
  <2>5. /\ (\E i \in Live : CapsuleIn(Final, i, RecoveryStart)) =>
             (\E i \in Live : CapsuleIn(Final, i, RecoveryStart))'
        /\ (\E i \in Live : AuthenticIn(Final, i)) =>
             (\E i \in Live : AuthenticIn(Final, i))'
    BY <2>4 DEF CapsuleIn, AuthenticIn
  <2>6. PhaseInv'
    BY <2>1, <2>3, <2>5 DEF FlashInv, PhaseInv
  <2> QED
    BY <2>2, <2>6 DEF FlashInv
<1>15. ASSUME NEW bits, PostIntent(bits) PROVE FlashInv'
  <2>1. /\ InT0 /\ Spend("intent")
        /\ UNCHANGED <<page, rules, fourByte, ram, cpldBusy, pc, plan, goal>>
    BY <1>15 DEF PostIntent
  <2> QED
    BY <2>1, AskKeeps
<1> QED
  BY <1>1, <1>2, <1>3, <1>4, <1>5, <1>6, <1>7, <1>8, <1>9, <1>10, <1>11, <1>12, <1>13,
     <1>14, <1>15 DEF Next

\* Whatever the layouts, the sizes and the interleaving of resets, power losses,
\* updates and writes of the BMC: the commands left to give always lead to what
\* the handler is for, and each handler finds what it takes for granted.
THEOREM FlashInductive == Spec => []FlashInv
<1>1. Init => FlashInv
  BY InitInv
<1>2. FlashInv /\ [Next]_vars => FlashInv'
  BY NextKeeps
<1> QED
  BY <1>1, <1>2, PTL DEF Spec

\* The commands of decompress_capsule, perform_wdt_recovery and
\* memcpy_signed_payload leave the flash exactly as they are meant to.
THEOREM CopiesAreExact == Spec => []CopiesExact
<1>1. FlashInv => CopiesExact
  <2> SUFFICES ASSUME FlashInv, plan = <<>>, goal # NoGoal PROVE page = goal
    BY DEF CopiesExact
  <2> QED
    BY LeadsNothing DEF FlashInv, PlanInv
<1> QED
  BY <1>1, FlashInductive, PTL

\* The BMC leaves reset, and runs, only with an active region that
\* authenticates, though T-1 does not look again after a recovery.
THEOREM BootsAuthentic == Spec => []BootsComplete
<1>1. FlashInv => BootsComplete
  <2> SUFFICES ASSUME FlashInv, InT0 PROVE ActiveImage \in Images
    BY DEF BootsComplete
  <2>1. PICK i \in Live : AuthenticIn(page, i)
    BY DEF FlashInv, PhaseInv, InT0, InService
  <2> DEFINE is == {j \in Named(PfmStart) : Authentic(j)}
  <2>2. i \in is
    BY <2>1, ActiveIs DEF FlashInv, Authentic, AuthenticIn
  <2>3. \A j \in is : j \in Images
    <3> SUFFICES ASSUME NEW j, Authentic(j) PROVE j \in Images
      OBVIOUS
    <3>1. page[PfmStart] = Pfm(j) /\ page[PfmStart] \in Contents(Live)
      BY Starts DEF Authentic, FlashInv, TypeInv
    <3> QED
      BY <3>1, ContentsTell, ActiveIs DEF FlashInv
  <2> HIDE DEF is
  <2>4. (CHOOSE j \in is : TRUE) \in is /\ is # {}
    BY <2>2
  <2>5. ActiveImage = CHOOSE j \in is : TRUE
    BY <2>4 DEF ActiveImage, Content, is
  <2> QED
    BY <2>3, <2>4, <2>5
<1> QED
  BY <1>1, FlashInductive, PTL

\* While the BMC runs, the write enable memory of its filter is exactly the one
\* for the PFM in service, less the words of the CPLD capsules.
THEOREM RulesAreExact == Spec => []RulesExact
<1>1. FlashInv => RulesExact
  <2> SUFFICES ASSUME FlashInv, InT0
               PROVE  \A p \in Page :
                        Open(p) <=> {q \in Page : ChunkOf(q) = ChunkOf(p)} \subseteq OpenedByPfm
    BY DEF RulesExact
  <2> QED
    BY DEF FlashInv, PhaseInv, InT0, InService, FilterRight
<1> QED
  BY <1>1, FlashInductive, PTL

\* And what the BMC sends through it changes no page that its PFM does not let it
\* write.
THEOREM WritesOnlyOpened == Spec => OnlyOpened
<1>1. FlashInv /\ [Next]_vars =>
        [Host => \A p \in Page : page'[p] # page[p] => p \in OpenedByPfm]_vars
  <2> SUFFICES ASSUME FlashInv, Host, NEW p \in Page, page'[p] # page[p]
               PROVE  p \in OpenedByPfm
    OBVIOUS
  <2>1. CASE EnterFourByte
    BY <2>1 DEF EnterFourByte
  <2>2. CASE \/ \E op \in {"program", "erase4", "sector"}, q \in HostPages : HostWrite(op, q)
             \/ \E i \in Updates : Stage(i)
    BY <2>2, HostChanges
  <2> QED
    BY <2>1, <2>2 DEF Host
<1> QED
  BY <1>1, FlashInductive, PTL DEF Spec, OnlyOpened

=============================================================================
