-------------------------- MODULE FlashFilterProofs --------------------------
(***************************************************************************)
(* apply_spi_write_protection_and_smbus_rules of pfm_utils.h fills the     *)
(* write enable memory region by region, the word where two regions meet   *)
(* carried over.  RulesOpenExactly: for any sizes and any layout that      *)
(* keeps to what the code asks of a PFM, a chunk is opened exactly when    *)
(* all its pages are in writable regions.                                  *)
(*                                                                         *)
(* The loops are inductions on a number; SetInduction states them on the   *)
(* set of numbers for which the claim holds, and the recursive functions   *)
(* of FlashPages exist because each is built one value at a time.          *)
(***************************************************************************)
EXTENDS FlashPages, TLAPS, WellFoundedInduction

(***************************************************************************)
(* Arithmetic and induction.                                               *)
(***************************************************************************)

\* What identifies quotient and remainder.
LEMMA DivUnique ==
  ASSUME NEW q \in Nat, NEW r \in Nat, NEW n \in Nat \ {0}, r < n
  PROVE  (n * q + r) \div n = q /\ (n * q + r) % n = r
  OBVIOUS

\* A quotient is the multiple at or below a number.
LEMMA DivRange ==
  ASSUME NEW a \in Nat, NEW c \in Nat, NEW n \in Nat \ {0}
  PROVE  a \div n = c <=> n * c <= a /\ a < n * (c + 1)
  OBVIOUS

\* Quotients keep the order.
LEMMA DivMono ==
  ASSUME NEW a \in Nat, NEW b \in Nat, NEW n \in Nat \ {0}, a <= b
  PROVE  a \div n <= b \div n
  OBVIOUS

\* A number is its quotient and its remainder.
LEMMA DivMod ==
  ASSUME NEW a \in Nat, NEW n \in Nat \ {0}
  PROVE  /\ a \div n \in Nat /\ a % n \in 0..n - 1
         /\ a = n * (a \div n) + (a % n)
<1>1. a \div n \in Nat
  OBVIOUS
<1>2. PICK q \in Nat : q = a \div n
  BY <1>1
<1>3. n * q <= a /\ a < n * (q + 1)
  BY <1>2, DivRange
<1>4. PICK r \in Nat : a = n * q + r /\ r < n
  <2>1. a - n * q \in Nat /\ a = n * q + (a - n * q)
    BY <1>3
  <2>2. n * (q + 1) = n * q + n
    OBVIOUS
  <2> QED
    BY <1>3, <2>1, <2>2
<1>5. a % n = r
  BY <1>4, DivUnique
<1>6. r \in 0..n - 1
  BY <1>4
<1>7. a = n * (a \div n) + (a % n)
  BY <1>2, <1>4, <1>5
<1> QED
  BY <1>1, <1>5, <1>6, <1>7

\* A set of numbers that holds 0 and goes on holds them all up to k: induction,
\* by the smallest number it does not hold.
LEMMA SetInduction ==
  ASSUME NEW k \in Nat, NEW S,
         0 \in S, \A n \in 0..k - 1 : n \in S => n + 1 \in S
  PROVE  0..k \subseteq S
<1> DEFINE T == (0..k) \ S
           R == OpToRel(<, Nat)
<1> SUFFICES ASSUME T # {} PROVE FALSE
  OBVIOUS
<1>1. T \subseteq Nat
  OBVIOUS
<1>2. IsWellFoundedOn(R, Nat)
  BY NatLessThanWellFounded, Zenon
<1>3. PICK x \in T : \A y \in T : ~(<<y, x>> \in R)
  <2> HIDE DEF R
  <2> QED
    BY <1>1, <1>2, WFMin
<1>4. \A y \in T : ~(y < x)
  BY <1>1, <1>3 DEF OpToRel
<1>5. x # 0 /\ x - 1 \in 0..k - 1 /\ x - 1 < x
  OBVIOUS
<1>6. x - 1 \in T
  BY <1>5
<1> QED
  BY <1>4, <1>5, <1>6

(***************************************************************************)
(* Recursive functions satisfy their definitions.                          *)
(***************************************************************************)

\* What is carried over when k words of region d are collected, from we on.
Collected(f, k, we, d) ==
  f = [n \in 0..k |-> IF n = 0 THEN we ELSE CollectWord(f[n - 1], d)]

\* There are such words.
LEMMA CollectedExists ==
  ASSUME NEW k \in Nat, NEW we, NEW d
  PROVE  \E f : Collected(f, k, we, d)
<1> DEFINE S == {n \in 0..k : \E f : Collected(f, n, we, d)}
<1>1. 0 \in S
  <2>1. Collected([n \in 0..0 |-> we], 0, we, d)
    BY DEF Collected
  <2> QED
    BY <2>1
<1>2. ASSUME NEW n \in 0..k - 1, n \in S PROVE n + 1 \in S
  <2>1. PICK f : Collected(f, n, we, d)
    BY <1>2
  <2> DEFINE g == [m \in 0..n + 1 |-> IF m = n + 1 THEN CollectWord(f[n], d) ELSE f[m]]
  <2>2. \A m \in 0..n : g[m] = f[m]
    OBVIOUS
  <2>3. ASSUME NEW m \in 0..n + 1
        PROVE  g[m] = IF m = 0 THEN we ELSE CollectWord(g[m - 1], d)
    <3>1. CASE m = n + 1
      BY <3>1, <2>2
    <3>2. CASE m \in 0..n
      <4>1. g[m] = IF m = 0 THEN we ELSE CollectWord(f[m - 1], d)
        BY <2>1, <2>2, <3>2 DEF Collected
      <4>2. m # 0 => m - 1 \in 0..n
        BY <3>2
      <4> QED
        BY <4>1, <4>2, <2>2
    <3> QED
      BY <3>1, <3>2
  <2>4. Collected(g, n + 1, we, d)
    BY <2>3 DEF Collected
  <2> QED
    BY <2>4
<1> HIDE DEF S
<1>3. k \in S
  BY <1>1, <1>2, SetInduction
<1> QED
  BY <1>3 DEF S

\* CollectRegion is the last of them.
LEMMA CollectRegionIs ==
  ASSUME NEW we, NEW d, LastWord(d) - FirstWord(d) + 1 \in Nat
  PROVE  \E f : /\ Collected(f, LastWord(d) - FirstWord(d) + 1, we, d)
                /\ CollectRegion(we, d) = f[LastWord(d) - FirstWord(d) + 1]
<1> DEFINE k == LastWord(d) - FirstWord(d) + 1
           g == CHOOSE f : Collected(f, k, we, d)
<1>1. Collected(g, k, we, d)
  BY CollectedExists
<1>2. CollectRegion(we, d) = g[k]
  BY DEF CollectRegion, Collected
<1> QED
  BY <1>1, <1>2

(***************************************************************************)
(* One region in the write enable memory.                                  *)
(***************************************************************************)

\* The sizes are positive numbers.
LEMMA Sizes ==
  /\ PagesPerChunk \in Nat \ {0} /\ PagesPerSector \in Nat \ {0}
  /\ ChunksPerWord \in Nat \ {0} /\ Words \in Nat
<1>1. PagesPerChunk * ChunksPerWord \in Nat \ {0}
  BY SizesAssumption
<1> QED
  BY <1>1, SizesAssumption, DivMod DEF Words

WordOf(k) == k \div ChunksPerWord
BitOf(k)  == k % ChunksPerWord

\* Chunks are ordered by their word, and by their bit within a word.
LEMMA ChunkOrder ==
  ASSUME NEW a \in Nat, NEW b \in Nat
  PROVE  /\ WordOf(a) < WordOf(b) => a < b
         /\ WordOf(a) = WordOf(b) => (a < b <=> BitOf(a) < BitOf(b))
         /\ a <= b => WordOf(a) <= WordOf(b)
<1> DEFINE n == ChunksPerWord
<1>1. n \in Nat \ {0}
  BY Sizes
<1> HIDE DEF n
<1>2. a = n * (a \div n) + (a % n) /\ b = n * (b \div n) + (b % n)
  BY <1>1, DivMod
<1>3. a \div n \in Nat /\ b \div n \in Nat /\ a % n \in Nat /\ b % n \in Nat
  BY <1>1, DivMod
<1>4. a \div n < b \div n => a < b
  BY DivMono, <1>1, <1>3
<1>5. a \div n = b \div n => (a < b <=> a % n < b % n)
  <2>1. PICK t \in Nat : t = n * (b \div n)
    BY <1>1, <1>3
  <2> QED
    BY <1>2, <1>3, <2>1
<1>6. a <= b => a \div n <= b \div n
  BY DivMono, <1>1
<1> QED
  BY <1>4, <1>5, <1>6 DEF n, WordOf, BitOf

\* A chunk has a word and a bit of it.
LEMMA ChunkPlace ==
  ASSUME NEW k \in Nat
  PROVE  WordOf(k) \in Nat /\ BitOf(k) \in Bits /\ BitOf(k) \in 0..ChunksPerWord - 1
  BY Sizes, DivMod DEF WordOf, BitOf, Bits

Collecting == [pos : Nat, word : SUBSET Bits, mem : [0..Words - 1 -> SUBSET Bits]]

\* Chunk k is open, in the memory or in the word that is being collected.
Recorded(we, k) ==
  IF WordOf(k) < we.pos THEN BitOf(k) \in we.mem[WordOf(k)] ELSE BitOf(k) \in we.word

\* The chunks below c have been collected.
UpTo(we, c) ==
  /\ we \in Collecting
  /\ we.pos = WordOf(c)
  /\ \A b \in we.word : b < BitOf(c)

\* The words of region d before word F + m, when it is collected from we on.
RegionInv(we, d, acc, m) ==
  /\ acc \in Collecting
  /\ acc.pos = FirstWord(d) + m
  /\ m = 0 => acc.word = we.word
  /\ \A k \in Nat :
       WordOf(k) < FirstWord(d) + m =>
         (BitOf(k) \in acc.mem[WordOf(k)] <=>
            IF k < ChunkOf(d.from) THEN Recorded(we, k) ELSE Writable(d))

\* A region whose chunks are within the flash.
Fits(d) ==
  /\ ChunkOf(d.from) \in Nat /\ ChunkOf(d.to) \in Nat
  /\ FirstWord(d) \in Nat /\ LastWord(d) \in Nat /\ LastWord(d) <= Words
  /\ FirstWord(d) <= LastWord(d) /\ ChunkOf(d.from) <= ChunkOf(d.to)

\* The three ways through the inner loop.
LEMMA CollectWordIs ==
  ASSUME NEW we, NEW d, we \in Collecting, Fits(d)
  PROVE  LET open(from, to) == IF Writable(d) THEN from..to - 1 ELSE {}
             done(word) == [pos |-> we.pos + 1, word |-> word,
                            mem |-> [we.mem EXCEPT ![we.pos] = word]]
             kept(word) == [pos |-> we.pos, word |-> word, mem |-> we.mem]
             first == BitOf(ChunkOf(d.from))
             end   == BitOf(ChunkOf(d.to))
         IN /\ we.pos # FirstWord(d) /\ we.pos # LastWord(d) =>
                 CollectWord(we, d) = done(open(0, ChunksPerWord))
            /\ we.pos = FirstWord(d) /\ we.pos # LastWord(d) =>
                 CollectWord(we, d) = done(we.word \union open(first, ChunksPerWord))
            /\ we.pos # FirstWord(d) /\ we.pos = LastWord(d) =>
                 CollectWord(we, d) = kept(open(0, end))
            /\ we.pos = FirstWord(d) /\ we.pos = LastWord(d) =>
                 CollectWord(we, d) = kept(we.word \union open(first, end))
<1> DEFINE first == BitOf(ChunkOf(d.from))
           end == BitOf(ChunkOf(d.to))
<1>1. first \in 0..ChunksPerWord - 1 /\ end \in 0..ChunksPerWord - 1 /\ end # ChunksPerWord
  BY ChunkPlace, Sizes DEF Fits
<1>2. ChunkOf(d.from) % ChunksPerWord = first /\ ChunkOf(d.to) % ChunksPerWord = end
  BY DEF BitOf
<1> HIDE DEF first, end
<1>3. CASE we.pos # FirstWord(d) /\ we.pos # LastWord(d)
  BY <1>3, Sizes DEF CollectWord, Bits
<1>4. CASE we.pos = FirstWord(d) /\ we.pos # LastWord(d)
  BY <1>1, <1>2, <1>4 DEF CollectWord, first, end
<1>5. CASE we.pos # FirstWord(d) /\ we.pos = LastWord(d)
  BY <1>1, <1>2, <1>5 DEF CollectWord, Collecting, first, end
<1>6. CASE we.pos = FirstWord(d) /\ we.pos = LastWord(d)
  BY <1>1, <1>2, <1>6 DEF CollectWord, Collecting, first, end
<1> QED
  BY <1>3, <1>4, <1>5, <1>6

\* A word that is not the region's last.
LEMMA RegionWord ==
  ASSUME NEW d, Fits(d), NEW we, UpTo(we, ChunkOf(d.from)), NEW acc,
         NEW m \in Nat, m < LastWord(d) - FirstWord(d), RegionInv(we, d, acc, m)
  PROVE  RegionInv(we, d, CollectWord(acc, d), m + 1)
<1> DEFINE F == FirstWord(d)
           L == LastWord(d)
           c == ChunkOf(d.from)
           W == Writable(d)
           new == IF m = 0 THEN we.word \union IF W THEN BitOf(c)..ChunksPerWord - 1 ELSE {}
                  ELSE IF W THEN 0..ChunksPerWord - 1 ELSE {}
           next == CollectWord(acc, d)
<1>1. /\ acc \in Collecting /\ acc.pos = F + m /\ acc.pos \in 0..Words - 1 /\ acc.pos # L
      /\ F \in Nat /\ c \in Nat /\ F = WordOf(c) /\ BitOf(c) \in Bits /\ Words \in Nat
  <2>1. F \in Nat /\ L \in Nat /\ L <= Words /\ c \in Nat /\ F = WordOf(c) /\ Words \in Nat
    BY Sizes DEF Fits, FirstWord, WordOf
  <2>2. acc \in Collecting /\ acc.pos = F + m
    BY DEF RegionInv
  <2> QED
    BY <2>1, <2>2, ChunkPlace
<1>2. /\ we.word \subseteq Bits /\ we.pos = F /\ \A b \in we.word : b < BitOf(c)
  BY DEF UpTo, Collecting, FirstWord, WordOf
<1>3. next = [pos |-> acc.pos + 1, word |-> new,
              mem |-> [acc.mem EXCEPT ![acc.pos] = new]]
  <2>1. CASE m = 0
    BY <1>1, <2>1, CollectWordIs DEF RegionInv
  <2>2. CASE m # 0
    <3>1. acc.pos # F
      BY <1>1, <2>2
    <3> QED
      BY <1>1, <2>2, <3>1, CollectWordIs
  <2> QED
    BY <2>1, <2>2
<1>4. new \in SUBSET Bits
  BY <1>1, <1>2, Sizes DEF Bits
<1> HIDE DEF next, new
<1>5. next \in Collecting /\ next.pos = F + (m + 1)
  <2>1. next.mem \in [0..Words - 1 -> SUBSET Bits]
    BY <1>1, <1>3, <1>4 DEF Collecting
  <2> QED
    BY <1>1, <1>3, <1>4, <2>1 DEF Collecting
<1>6. ASSUME NEW k \in Nat, WordOf(k) < F + (m + 1)
      PROVE  BitOf(k) \in next.mem[WordOf(k)] <=> IF k < c THEN Recorded(we, k) ELSE W
  <2>1. WordOf(k) \in Nat /\ BitOf(k) \in Bits
    BY ChunkPlace
  <2>2. CASE WordOf(k) < F + m
    <3>1. next.mem[WordOf(k)] = acc.mem[WordOf(k)]
      BY <1>1, <1>3, <2>1, <2>2 DEF Collecting
    <3> QED
      BY <2>2, <3>1 DEF RegionInv
  <2>3. CASE WordOf(k) = F + m
    <3>1. next.mem[WordOf(k)] = new
      BY <1>1, <1>3, <2>3 DEF Collecting
    <3>2. CASE m = 0
      <4>1. k < c <=> BitOf(k) < BitOf(c)
        BY <1>1, <2>3, <3>2, ChunkOrder
      <4>2. Recorded(we, k) <=> BitOf(k) \in we.word
        BY <1>1, <1>2, <2>3, <3>2 DEF Recorded
      <4> QED
        BY <1>1, <1>2, <2>1, <3>1, <3>2, <4>1, <4>2 DEF new, Bits
    <3>3. CASE m # 0
      <4>1. ~(k < c)
        BY <1>1, <2>1, <2>3, <3>3, ChunkOrder
      <4> QED
        BY <2>1, <3>1, <3>3, <4>1 DEF new, Bits
    <3> QED
      BY <3>2, <3>3
  <2> QED
    BY <1>1, <1>6, <2>1, <2>2, <2>3
<1> QED
  BY <1>5, <1>6 DEF RegionInv, next

\* CollectRegion records the chunks of its region, and leaves the ones before it.
LEMMA RegionRecorded ==
  ASSUME NEW d, Fits(d), NEW we, UpTo(we, ChunkOf(d.from))
  PROVE  /\ UpTo(CollectRegion(we, d), ChunkOf(d.to))
         /\ \A k \in Nat : k < ChunkOf(d.to) =>
              (Recorded(CollectRegion(we, d), k) <=>
                 IF k < ChunkOf(d.from) THEN Recorded(we, k) ELSE Writable(d))
<1> DEFINE F == FirstWord(d)
           L == LastWord(d)
           c == ChunkOf(d.from)
           e == ChunkOf(d.to)
           W == Writable(d)
           res == CollectRegion(we, d)
<1>1. /\ F \in Nat /\ L \in Nat /\ F <= L /\ c \in Nat /\ e \in Nat /\ c <= e
      /\ F = WordOf(c) /\ L = WordOf(e) /\ BitOf(c) \in Bits /\ BitOf(e) \in Bits
      /\ we.pos = F /\ we \in Collecting /\ L - F \in Nat
  BY ChunkPlace DEF Fits, UpTo, FirstWord, LastWord, WordOf
<1>2. PICK f : Collected(f, L - F + 1, we, d) /\ res = f[L - F + 1]
  BY <1>1, CollectRegionIs
<1> HIDE DEF res
<1>3. f[0] = we /\ \A m \in 0..L - F : f[m + 1] = CollectWord(f[m], d)
  BY <1>1, <1>2 DEF Collected
<1>4. RegionInv(we, d, f[L - F], L - F)
  <2> DEFINE S == {m \in 0..L - F : RegionInv(we, d, f[m], m)}
  <2>1. 0 \in S
    <3>1. ASSUME NEW k \in Nat, WordOf(k) < F
          PROVE  BitOf(k) \in we.mem[WordOf(k)] <=> IF k < c THEN Recorded(we, k) ELSE W
      BY <1>1, <3>1, ChunkOrder DEF Recorded
    <3> QED
      BY <1>1, <1>3, <3>1 DEF RegionInv
  <2>2. ASSUME NEW m \in 0..L - F - 1, m \in S PROVE m + 1 \in S
    BY <1>1, <1>3, <2>2, RegionWord
  <2> HIDE DEF S
  <2>3. L - F \in S
    BY <1>1, <2>1, <2>2, SetInduction
  <2> QED
    BY <2>3 DEF S
<1>5. PICK acc : acc = f[L - F] /\ RegionInv(we, d, acc, L - F) /\ res = CollectWord(acc, d)
  BY <1>1, <1>2, <1>3, <1>4
<1>6. acc \in Collecting /\ acc.pos = L
  BY <1>1, <1>5 DEF RegionInv
<1> DEFINE new == IF L = F THEN we.word \union IF W THEN BitOf(c)..BitOf(e) - 1 ELSE {}
                  ELSE IF W THEN 0..BitOf(e) - 1 ELSE {}
<1>7. res = [pos |-> L, word |-> new, mem |-> acc.mem]
  <2>1. L = F => acc.word = we.word
    BY <1>1, <1>5 DEF RegionInv
  <2> QED
    BY <1>1, <1>5, <1>6, <2>1, CollectWordIs
<1>8. L = F => BitOf(c) <= BitOf(e)
  <2>1. L = F => (e < c <=> BitOf(e) < BitOf(c))
    BY <1>1, ChunkOrder
  <2> QED
    BY <1>1, <2>1, Sizes DEF Bits
<1>9. new \subseteq Bits /\ \A b \in new : b < BitOf(e)
  <2>1. \A b \in we.word : b \in Bits /\ b < BitOf(c)
    BY <1>1 DEF UpTo, Collecting
  <2> QED
    BY <1>1, <1>8, <2>1, Sizes DEF Bits
<1> HIDE DEF new
<1>10. UpTo(res, e)
  BY <1>1, <1>6, <1>7, <1>9 DEF UpTo, Collecting
<1>11. ASSUME NEW k \in Nat, k < e
       PROVE  Recorded(res, k) <=> IF k < c THEN Recorded(we, k) ELSE W
  <2>1. WordOf(k) \in Nat /\ BitOf(k) \in Bits /\ WordOf(k) <= L
    BY <1>1, <1>11, ChunkPlace, ChunkOrder
  <2>2. CASE WordOf(k) < L
    BY <1>1, <1>5, <1>7, <2>2 DEF RegionInv, Recorded
  <2>3. CASE WordOf(k) = L
    <3>1. Recorded(res, k) <=> BitOf(k) \in new
      BY <1>7, <2>1, <2>3 DEF Recorded
    <3>2. BitOf(k) < BitOf(e)
      BY <1>1, <1>11, <2>3, ChunkOrder
    <3>3. CASE L = F
      <4>1. k < c <=> BitOf(k) < BitOf(c)
        BY <1>1, <2>3, <3>3, ChunkOrder
      <4>2. Recorded(we, k) <=> BitOf(k) \in we.word
        BY <1>1, <2>3, <3>3 DEF Recorded
      <4>3. \A b \in we.word : b < BitOf(c)
        BY DEF UpTo
      <4> QED
        BY <1>1, <2>1, <3>1, <3>2, <3>3, <4>1, <4>2, <4>3 DEF new, Bits
    <3>4. CASE L # F
      <4>1. ~(k < c)
        BY <1>1, <2>1, <2>3, <3>4, ChunkOrder
      <4> QED
        BY <1>1, <2>1, <3>1, <3>2, <3>4, <4>1 DEF new, Bits
    <3> QED
      BY <3>3, <3>4
  <2> QED
    BY <2>1, <2>2, <2>3, <1>1
<1> QED
  BY <1>10, <1>11 DEF res

(***************************************************************************)
(* All regions of a layout.                                                *)
(***************************************************************************)

\* The pages of chunk k are all in regions the layout of i makes writable.
ChunkOpen(i, k) ==
  {q \in Page : ChunkOf(q) = k} \subseteq UnionOf(Layout(i).defs, Writable)

\* Which pages a chunk has.
LEMMA ChunkPages ==
  ASSUME NEW p \in Nat, NEW k \in Nat
  PROVE  /\ ChunkOf(p) \in Nat
         /\ ChunkOf(p) = k <=> PagesPerChunk * k <= p /\ p < PagesPerChunk * (k + 1)
  BY Sizes, DivRange, DivMod DEF ChunkOf

\* Chunks are in the order of their pages.
LEMMA ChunkMono ==
  ASSUME NEW p \in Nat, NEW q \in Nat, p <= q
  PROVE  ChunkOf(p) <= ChunkOf(q)
  BY Sizes, DivMono DEF ChunkOf

\* The flash is a whole number of words.
LEMMA FlashEnd == ChunkOf(Pages) = Words * ChunksPerWord /\ WordOf(ChunkOf(Pages)) = Words
<1> DEFINE c == Words * ChunksPerWord
<1>1. c \in Nat /\ Pages = PagesPerChunk * c + 0 /\ c = ChunksPerWord * Words + 0
  BY Sizes, SizesAssumption
<1>2. ChunkOf(Pages) = c
  BY <1>1, Sizes, DivUnique DEF ChunkOf
<1>3. WordOf(c) = Words
  BY <1>1, Sizes, DivUnique DEF WordOf
<1> QED
  BY <1>2, <1>3

\* The regions of a layout follow each other.
LEMMA DefsInOrder ==
  ASSUME NEW i \in Images
  PROVE  LET defs == Layout(i).defs IN
         /\ Len(defs) \in Nat \ {0} /\ DOMAIN defs = 1..Len(defs)
         /\ \A n \in 1..Len(defs) :
              /\ defs[n].from \in Nat /\ defs[n].to \in Nat
              /\ defs[n].from <= defs[n].to /\ defs[n].to <= Pages
         /\ \A m, n \in 1..Len(defs) : m < n => defs[m].to <= defs[n].from
<1> DEFINE defs == Layout(i).defs
           N == Len(defs)
           R == [from : Nat, to : Nat, mask : Masks, hashed : BOOLEAN]
<1>1. /\ defs \in Seq(R) /\ defs # <<>> /\ defs[N].to = Pages
      /\ \A n \in DOMAIN defs : defs[n].from <= defs[n].to
  BY LayoutAssumption
<1>2. N \in Nat \ {0} /\ DOMAIN defs = 1..N /\ \A n \in 1..N : defs[n] \in R
  <2> HIDE DEF defs, R
  <2>1. Len(defs) \in Nat /\ DOMAIN defs = 1..Len(defs)
    BY <1>1
  <2>2. \A n \in 1..Len(defs) : defs[n] \in R
    BY <1>1
  <2>3. Len(defs) # 0
    BY <1>1
  <2> QED
    BY <2>1, <2>2, <2>3
<1>3. \A n \in 1..N - 1 : defs[n].to = defs[n + 1].from
  BY LayoutAssumption
<1> HIDE DEF defs, N
<1>4. \A n \in 1..N : defs[n].from \in Nat /\ defs[n].to \in Nat /\ defs[n].from <= defs[n].to
  BY <1>1, <1>2
<1>5. ASSUME NEW m \in 1..N
      PROVE  \A n \in 1..N : m < n => defs[m].to <= defs[n].from
  <2> DEFINE S == {k \in 0..N - m : \A n \in 1..N : m < n /\ n <= m + k => defs[m].to <= defs[n].from}
  <2>1. 0 \in S
    BY <1>2
  <2>2. ASSUME NEW k \in 0..N - m - 1, k \in S PROVE k + 1 \in S
    <3>1. ASSUME NEW n \in 1..N, m < n, n <= m + (k + 1)
          PROVE  defs[m].to <= defs[n].from
      <4>1. CASE n = m + 1
        <5>1. m \in 1..N - 1
          BY <1>2, <3>1
        <5> QED
          BY <1>3, <1>4, <4>1, <5>1
      <4>2. CASE n # m + 1
        <5>1. n - 1 \in 1..N - 1 /\ m < n - 1 /\ n - 1 <= m + k
          BY <3>1, <4>2, <1>2
        <5>2. defs[m].to <= defs[n - 1].from /\ defs[n - 1].to = defs[n].from
          BY <5>1, <2>2, <1>3, <1>2
        <5> QED
          BY <5>1, <5>2, <1>2, <1>4
      <4> QED
        BY <4>1, <4>2
    <3> QED
      BY <3>1, <2>2, <1>2
  <2> HIDE DEF S
  <2>3. N - m \in Nat
    BY <1>2
  <2>4. N - m \in S
    BY <2>1, <2>2, <2>3, SetInduction
  <2> QED
    BY <2>4, <1>2 DEF S
<1>6. \A n \in 1..N : defs[n].to <= Pages
  <2>1. \A n \in 1..N : n < N => defs[n].to <= defs[N].from
    BY <1>2, <1>5
  <2>2. N \in 1..N
    BY <1>2
  <2>3. defs[N].to = Pages /\ defs[N].from <= defs[N].to
    BY <1>1, <1>4, <2>2
  <2> QED
    BY <1>2, <1>4, <2>1, <2>2, <2>3
<1> QED
  BY <1>2, <1>4, <1>5, <1>6 DEF defs, N

\* A page of a region is writable when its region is.
LEMMA PageWritable ==
  ASSUME NEW i \in Images, NEW n \in 1..Len(Layout(i).defs),
         NEW p \in Span(Layout(i).defs[n])
  PROVE  p \in UnionOf(Layout(i).defs, Writable) <=> Writable(Layout(i).defs[n])
<1> DEFINE defs == Layout(i).defs
<1>1. DOMAIN defs = 1..Len(defs)
  BY DefsInOrder
<1>2. \A m, k \in 1..Len(defs) : m < k => defs[m].to <= defs[k].from
  BY DefsInOrder
<1>3. \A m \in 1..Len(defs) :
        m \in Nat /\ defs[m].from \in Nat /\ defs[m].to \in Nat
  BY DefsInOrder
<1> HIDE DEF defs
<1>4. ASSUME NEW m \in 1..Len(defs), p \in Span(defs[m]) PROVE m = n
  <2>1. p \in Nat /\ defs[m].from <= p /\ p < defs[m].to
    BY <1>3, <1>4 DEF Span
  <2>2. defs[n].from <= p /\ p < defs[n].to
    BY <1>3 DEF Span, defs
  <2>3. m < n => defs[m].to <= defs[n].from
    BY <1>2 DEF defs
  <2>4. n < m => defs[n].to <= defs[m].from
    BY <1>2 DEF defs
  <2>5. n \in Nat /\ defs[n].from \in Nat /\ defs[n].to \in Nat
    BY <1>3 DEF defs
  <2> QED
    BY <1>3, <2>1, <2>2, <2>3, <2>4, <2>5
<1> QED
  BY <1>1, <1>4 DEF UnionOf, defs

\* Where a writable region starts inside a chunk, the pages of the chunk before
\* it are writable too.
LEMMA ChunkStartOpen ==
  ASSUME NEW i \in Images, NEW n \in 1..Len(Layout(i).defs)
  PROVE  LET d == Layout(i).defs[n] IN
         Writable(d) =>
           \A p \in Nat : p < d.from /\ ChunkOf(p) = ChunkOf(d.from) =>
             p \in UnionOf(Layout(i).defs, Writable)
<1> DEFINE defs == Layout(i).defs
           N == Len(defs)
           OpenBefore(m) == Writable(defs[m]) =>
                        \A p \in Nat : p < defs[m].from /\ ChunkOf(p) = ChunkOf(defs[m].from) =>
                          p \in UnionOf(defs, Writable)
           S == {m \in 0..N : m = 0 \/ OpenBefore(m)}
<1>1. /\ N \in Nat \ {0}
      /\ \A m \in 1..N : defs[m].from \in Nat /\ defs[m].to \in Nat /\ defs[m].from <= defs[m].to
  BY DefsInOrder
<1>2. \A m \in 1..N : \A p \in Span(defs[m]) : Writable(defs[m]) => p \in UnionOf(defs, Writable)
  BY PageWritable
<1>3. defs[1].from = 0 /\ \A m \in 1..N - 1 : defs[m].to = defs[m + 1].from
  BY LayoutAssumption
<1>4. \A m \in 2..N : Writable(defs[m]) /\ ~Writable(defs[m - 1]) =>
                        defs[m].from % PagesPerChunk = 0
  BY LayoutAssumption
<1> HIDE DEF defs, N
<1>5. OpenBefore(1)
  BY <1>3
<1>6. ASSUME NEW m \in 1..N - 1, OpenBefore(m) PROVE OpenBefore(m + 1)
  <2> DEFINE d == defs[m]
             e == defs[m + 1]
  <2>1. m \in 1..N /\ m + 1 \in 2..N /\ m + 1 \in 1..N /\ (m + 1) - 1 = m
    BY <1>1
  <2>2. d.to = e.from /\ d.from \in Nat /\ e.from \in Nat /\ d.from <= e.from
    BY <1>1, <1>3, <2>1
  <2>3. ASSUME Writable(e), NEW p \in Nat, p < e.from, ChunkOf(p) = ChunkOf(e.from)
        PROVE  p \in UnionOf(defs, Writable)
    <3>1. CASE ~Writable(d)
      <4>1. e.from % PagesPerChunk = 0
        BY <1>4, <2>1, <2>3, <3>1
      <4>2. PICK c \in Nat : c = ChunkOf(e.from)
        BY <2>2, ChunkPages
      <4>3. e.from = PagesPerChunk * c
        <5>1. e.from = PagesPerChunk * (e.from \div PagesPerChunk) + (e.from % PagesPerChunk)
          BY <2>2, Sizes, DivMod
        <5> QED
          BY <4>1, <4>2, <5>1, Sizes DEF ChunkOf
      <4>4. PagesPerChunk * c <= p
        BY <2>3, <4>2, ChunkPages
      <4> QED
        BY <2>2, <2>3, <4>3, <4>4
    <3>2. CASE Writable(d) /\ d.from <= p
      <4>1. p \in Span(d)
        BY <2>2, <2>3, <3>2 DEF Span
      <4> QED
        BY <1>2, <2>1, <3>2, <4>1
    <3>3. CASE Writable(d) /\ p < d.from
      <4>1. ChunkOf(p) <= ChunkOf(d.from) /\ ChunkOf(d.from) <= ChunkOf(e.from)
        BY <2>2, <3>3, ChunkMono
      <4>2. ChunkOf(p) \in Nat /\ ChunkOf(d.from) \in Nat /\ ChunkOf(e.from) \in Nat
        BY <2>2, ChunkPages
      <4>3. ChunkOf(p) = ChunkOf(d.from)
        BY <2>3, <4>1, <4>2
      <4> QED
        BY <1>6, <3>3, <4>3
    <3>4. d.from <= p \/ p < d.from
      BY <2>2
    <3> QED
      BY <3>1, <3>2, <3>3, <3>4
  <2> QED
    BY <2>3
<1>7. n \in S
  <2> HIDE DEF OpenBefore
  <2>1. 0 \in S
    BY <1>1
  <2>2. ASSUME NEW m \in 0..N - 1, m \in S PROVE m + 1 \in S
    BY <1>1, <1>5, <1>6, <2>2
  <2>3. N \in Nat /\ n \in 0..N
    BY <1>1 DEF N, defs
  <2> QED
    BY <2>1, <2>2, <2>3, SetInduction
<1>8. OpenBefore(n)
  BY <1>7
<1> QED
  BY <1>8 DEF defs

\* A chunk that a region ends is open exactly when the region is writable.
LEMMA RegionOpens ==
  ASSUME NEW i \in Images, NEW n \in 1..Len(Layout(i).defs), NEW k \in Nat,
         ChunkOf(Layout(i).defs[n].from) <= k, k < ChunkOf(Layout(i).defs[n].to)
  PROVE  ChunkOpen(i, k) <=> Writable(Layout(i).defs[n])
<1> DEFINE d == Layout(i).defs[n]
           last == PagesPerChunk * (k + 1) - 1
           opened == UnionOf(Layout(i).defs, Writable)
<1>1. d.from \in Nat /\ d.to \in Nat /\ d.from <= d.to /\ d.to <= Pages /\ Pages \in Nat
  BY DefsInOrder, SizesAssumption
<1>2. \A p \in Span(d) : p \in opened <=> Writable(d)
  BY PageWritable
<1>3. \A p \in Nat : Writable(d) /\ p < d.from /\ ChunkOf(p) = ChunkOf(d.from) => p \in opened
  BY ChunkStartOpen
<1> HIDE DEF d, opened
<1>4. PagesPerChunk * (k + 1) <= d.to
  <2>1. PICK c \in Nat : c = ChunkOf(d.to)
    BY <1>1, ChunkPages
  <2>2. PagesPerChunk * c <= d.to
    BY <1>1, <2>1, ChunkPages
  <2>4. k + 1 <= c
    BY <2>1 DEF d
  <2>3. PagesPerChunk * (k + 1) <= PagesPerChunk * c
    BY <2>4, Sizes
  <2> QED
    BY <1>1, <2>2, <2>3, Sizes
<1>5. last \in Nat /\ ChunkOf(last) = k /\ last < d.to
  <2>1. PagesPerChunk * (k + 1) = PagesPerChunk * k + PagesPerChunk /\ PagesPerChunk * k \in Nat
    BY Sizes
  <2>2. last \in Nat /\ PagesPerChunk * k <= last /\ last < PagesPerChunk * (k + 1)
    BY <2>1, Sizes
  <2>3. ChunkOf(last) = k
    BY <2>2, ChunkPages
  <2>4. last < d.to
    BY <1>1, <1>4, <2>1, Sizes
  <2> QED
    BY <2>2, <2>3, <2>4
<1> HIDE DEF last
<1>6. d.from <= last
  <2>1. ASSUME last < d.from PROVE FALSE
    <3>1. PICK c \in Nat : c = ChunkOf(d.from) /\ c <= k
      BY <1>1, ChunkPages DEF d
    <3>2. d.from < PagesPerChunk * (c + 1)
      BY <1>1, <3>1, ChunkPages
    <3>3. PagesPerChunk * (c + 1) <= PagesPerChunk * (k + 1)
      BY <3>1, Sizes
    <3> QED
      BY <1>1, <2>1, <3>2, <3>3, Sizes DEF last
  <2> QED
    BY <1>1, <1>5, <2>1
<1>7. last \in Span(d) /\ last \in Page
  BY <1>1, <1>5, <1>6 DEF Span, Page
<1>8. ASSUME Writable(d), NEW q \in Page, ChunkOf(q) = k PROVE q \in opened
  <2>1. q \in Nat /\ q < d.to
    <3>1. q < PagesPerChunk * (k + 1)
      BY <1>8, ChunkPages DEF Page
    <3> QED
      BY <1>1, <1>4, <3>1, Sizes DEF Page
  <2>2. CASE d.from <= q
    BY <1>1, <1>2, <1>8, <2>1, <2>2 DEF Span
  <2>3. CASE q < d.from
    <3>1. q <= d.from
      BY <1>1, <2>1, <2>3
    <3>2. k <= ChunkOf(d.from)
      BY <1>1, <1>8, <2>1, <3>1, ChunkMono
    <3>3. ChunkOf(d.from) \in Nat /\ ChunkOf(d.from) <= k
      BY <1>1, ChunkPages DEF d
    <3>4. ChunkOf(q) = ChunkOf(d.from)
      BY <1>8, <3>2, <3>3
    <3> QED
      BY <1>3, <1>8, <2>1, <2>3, <3>4
  <2> QED
    BY <1>1, <2>1, <2>2, <2>3
<1>9. ChunkOpen(i, k) => Writable(d)
  BY <1>2, <1>5, <1>7 DEF ChunkOpen, opened
<1>10. Writable(d) => ChunkOpen(i, k)
  BY <1>8 DEF ChunkOpen, opened
<1> QED
  BY <1>9, <1>10 DEF d

(***************************************************************************)
(* The write enable memory of a layout.                                    *)
(***************************************************************************)

\* What is carried over when k regions are collected, from base on.
CollectedDefs(f, k, base, defs) ==
  f = [n \in 0..k |-> IF n = 0 THEN base ELSE CollectRegion(f[n - 1], defs[n])]

\* There are such records of the regions collected so far.
LEMMA CollectedDefsExists ==
  ASSUME NEW k \in Nat, NEW base, NEW defs
  PROVE  \E f : CollectedDefs(f, k, base, defs)
<1> DEFINE S == {n \in 0..k : \E f : CollectedDefs(f, n, base, defs)}
<1>1. 0 \in S
  <2>1. CollectedDefs([n \in 0..0 |-> base], 0, base, defs)
    BY DEF CollectedDefs
  <2> QED
    BY <2>1
<1>2. ASSUME NEW n \in 0..k - 1, n \in S PROVE n + 1 \in S
  <2>1. PICK f : CollectedDefs(f, n, base, defs)
    BY <1>2
  <2> DEFINE g == [m \in 0..n + 1 |->
                     IF m = n + 1 THEN CollectRegion(f[n], defs[n + 1]) ELSE f[m]]
  <2>2. \A m \in 0..n : g[m] = f[m]
    OBVIOUS
  <2>3. ASSUME NEW m \in 0..n + 1
        PROVE  g[m] = IF m = 0 THEN base ELSE CollectRegion(g[m - 1], defs[m])
    <3>1. CASE m = n + 1
      BY <3>1, <2>2
    <3>2. CASE m \in 0..n
      <4>1. g[m] = IF m = 0 THEN base ELSE CollectRegion(f[m - 1], defs[m])
        BY <2>1, <2>2, <3>2 DEF CollectedDefs
      <4>2. m # 0 => m - 1 \in 0..n
        BY <3>2
      <4> QED
        BY <4>1, <4>2, <2>2
    <3> QED
      BY <3>1, <3>2
  <2>4. CollectedDefs(g, n + 1, base, defs)
    BY <2>3 DEF CollectedDefs
  <2> QED
    BY <2>4
<1> HIDE DEF S
<1>3. k \in S
  BY <1>1, <1>2, SetInduction
<1> QED
  BY <1>3 DEF S

RulesBase == [pos |-> 0, word |-> {}, mem |-> rules]

\* Rules is the memory of the last of them.
LEMMA RulesIs ==
  ASSUME NEW defs, Len(defs) \in Nat
  PROVE  \E f : /\ CollectedDefs(f, Len(defs), RulesBase, defs)
                /\ Rules(defs) = f[Len(defs)].mem
<1> DEFINE k == Len(defs)
           g == CHOOSE f : CollectedDefs(f, k, RulesBase, defs)
<1>1. CollectedDefs(g, k, RulesBase, defs)
  BY CollectedDefsExists
<1>2. Rules(defs) = g[k].mem
  BY DEF Rules, CollectedDefs, RulesBase
<1> QED
  BY <1>1, <1>2

Memory == [0..Words - 1 -> SUBSET Bits]

\* The regions of a layout fit.
LEMMA DefsFit ==
  ASSUME NEW i \in Images, NEW n \in 1..Len(Layout(i).defs)
  PROVE  Fits(Layout(i).defs[n])
<1> DEFINE d == Layout(i).defs[n]
           a == ChunkOf(d.from)
           b == ChunkOf(d.to)
<1>1. d.from \in Nat /\ d.to \in Nat /\ d.from <= d.to /\ d.to <= Pages /\ Pages \in Nat
  BY DefsInOrder, SizesAssumption
<1> HIDE DEF d
<1>2. a \in Nat /\ b \in Nat /\ ChunkOf(Pages) \in Nat
  BY <1>1, ChunkPages
<1>3. a <= b /\ b <= ChunkOf(Pages)
  BY <1>1, ChunkMono
<1>4. WordOf(a) <= WordOf(b) /\ WordOf(b) <= WordOf(ChunkOf(Pages))
  BY <1>2, <1>3, ChunkOrder
<1>5. FirstWord(d) = WordOf(a) /\ LastWord(d) = WordOf(b)
  BY DEF FirstWord, LastWord, WordOf
<1>6. WordOf(a) \in Nat /\ WordOf(b) \in Nat
  BY <1>2, ChunkPlace
<1> QED
  BY <1>2, <1>3, <1>4, <1>5, <1>6, FlashEnd DEF Fits, d

\* The translation of a PFM into the write enable memory opens exactly the chunks
\* whose pages are all writable, whatever the memory held before: for every
\* layout, however its regions lie within words and across them
\* (apply_spi_write_protection_and_smbus_rules).
THEOREM RulesOpenExactly ==
  ASSUME NEW i \in Images, rules \in Memory
  PROVE  /\ Rules(Layout(i).defs) \in Memory
         /\ \A k \in Nat : k < Words * ChunksPerWord =>
              (BitOf(k) \in Rules(Layout(i).defs)[WordOf(k)] <=> ChunkOpen(i, k))
<1> DEFINE defs == Layout(i).defs
           N == Len(defs)
           End(n) == IF n = 0 THEN 0 ELSE ChunkOf(defs[n].to)
           Inv(acc, n) == /\ UpTo(acc, End(n))
                          /\ \A k \in Nat : k < End(n) => (Recorded(acc, k) <=> ChunkOpen(i, k))
<1>1. N \in Nat \ {0}
  BY DefsInOrder
<1>2. PICK f : CollectedDefs(f, N, RulesBase, defs) /\ Rules(defs) = f[N].mem
  BY <1>1, RulesIs
<1>3. f[0] = RulesBase /\ \A n \in 0..N - 1 : f[n + 1] = CollectRegion(f[n], defs[n + 1])
  BY <1>1, <1>2 DEF CollectedDefs
<1>4. ChunkOf(0) = 0
  BY Sizes, DivRange DEF ChunkOf
<1>5. \A n \in 0..N - 1 : End(n) = ChunkOf(defs[n + 1].from)
  <2>1. defs[1].from = 0 /\ \A n \in 1..N - 1 : defs[n].to = defs[n + 1].from
    BY LayoutAssumption
  <2> QED
    BY <1>4, <2>1
<1>6. Inv(f[0], 0)
  <2>1. WordOf(0) = 0
    BY Sizes, DivRange DEF WordOf
  <2>2. RulesBase \in Collecting
    BY DEF RulesBase, Collecting, Memory
  <2> QED
    BY <1>3, <2>1, <2>2 DEF UpTo, RulesBase
<1>7. ASSUME NEW n \in 0..N - 1, Inv(f[n], n) PROVE Inv(f[n + 1], n + 1)
  <2> DEFINE d == defs[n + 1]
  <2>1. Fits(d) /\ n + 1 \in 1..N
    BY <1>1, DefsFit
  <2>2. End(n) = ChunkOf(d.from) /\ End(n + 1) = ChunkOf(d.to)
    BY <1>5
  <2>3. /\ UpTo(f[n + 1], End(n + 1))
        /\ \A k \in Nat : k < End(n + 1) =>
             (Recorded(f[n + 1], k) <=> IF k < End(n) THEN Recorded(f[n], k) ELSE Writable(d))
    BY <1>3, <1>7, <2>1, <2>2, RegionRecorded
  <2>4. ASSUME NEW k \in Nat, k < End(n + 1) PROVE Recorded(f[n + 1], k) <=> ChunkOpen(i, k)
    <3>1. CASE k < End(n)
      BY <1>7, <2>3, <2>4, <3>1
    <3>2. CASE ~(k < End(n))
      <4>1. ChunkOf(d.from) \in Nat /\ ChunkOf(d.from) <= k
        BY <2>1, <2>2, <3>2 DEF Fits
      <4>2. ChunkOpen(i, k) <=> Writable(d)
        BY <2>1, <2>2, <2>4, <4>1, RegionOpens
      <4> QED
        BY <2>3, <2>4, <3>2, <4>2
    <3> QED
      BY <3>1, <3>2
  <2> QED
    BY <2>3, <2>4
<1>8. Inv(f[N], N)
  <2> DEFINE S == {n \in 0..N : Inv(f[n], n)}
  <2>1. 0 \in S
    BY <1>1, <1>6
  <2>2. ASSUME NEW n \in 0..N - 1, n \in S PROVE n + 1 \in S
    BY <1>1, <1>7, <2>2
  <2> HIDE DEF S
  <2> HIDE DEF N
  <2>3. N \in S
    BY <1>1, <2>1, <2>2, SetInduction
  <2> QED
    BY <2>3 DEF S
<1>9. End(N) = Words * ChunksPerWord /\ WordOf(End(N)) = Words
  BY <1>1, LayoutAssumption, FlashEnd
<1>10. ASSUME NEW k \in Nat, k < Words * ChunksPerWord
       PROVE  BitOf(k) \in f[N].mem[WordOf(k)] <=> ChunkOpen(i, k)
  <2>1. WordOf(k) < Words
    BY <1>10, Sizes, DivRange DEF WordOf
  <2> QED
    BY <1>8, <1>9, <1>10, <2>1 DEF Recorded, UpTo
<1>11. f[N].mem \in Memory
  BY <1>8 DEF UpTo, Collecting, Memory
<1> QED
  BY <1>2, <1>10, <1>11

=============================================================================
