---------------------------- MODULE MCFlashPages ----------------------------
(* A flash of 48 pages, 24 chunks and 12 words: b0 and b1 are updates of    *)
(* each other with different region borders; the sweep images have any     *)
(* borders and permissions in the first three words and only boot.         *)
EXTENDS FlashPages
CONSTANTS b0, b1

Def(from, to, mask, hashed) == [from |-> from, to |-> to, mask |-> mask, hashed |-> hashed]

\* recovery and staging region, in every layout
Rest == <<Def(16, 24, {}, FALSE), Def(24, 48, {"read", "write"}, FALSE)>>

Layout0 ==
  [defs |-> <<Def(0, 4, {"read"}, TRUE), Def(4, 8, {}, FALSE),
              Def(8, 12, {"read", "write", "first"}, FALSE),
              Def(12, 16, {"read"}, TRUE)>> \o Rest,
   active |-> 0..3 \union 8..15, comp |-> {0, 1, 9, 12, 14}]

Layout1 ==
  [defs |-> <<Def(0, 3, {"read", "second"}, TRUE), Def(3, 8, {}, FALSE),
              Def(8, 10, {"read", "write", "second"}, FALSE),
              Def(10, 12, {"read", "write", "third"}, FALSE),
              Def(12, 16, {"read"}, TRUE)>> \o Rest,
   active |-> 0..2 \union 8..15, comp |-> {0, 2, 8, 10, 13, 15}]

\* cuts of the first twelve pages into regions, with permissions
Cuts == UNION {kSubset(n, 1..11) : n \in 0..2} \union kSubset(3, 2..6)
Borders(cut) == Sorted(cut \union {0, 12})
SweepDefs(cut, open) ==
  [n \in 1..Cardinality(cut) + 1 |->
     Def(Borders(cut)[n], Borders(cut)[n + 1],
         IF n \in open THEN {"read", "write"} ELSE {"read"}, FALSE)]
    \o <<Def(12, 16, {}, FALSE)>> \o Rest
Aligned(cut, open) ==
  \A n \in open : n = 1 \/ n - 1 \in open \/ Borders(cut)[n] % PagesPerChunk = 0
Sweep ==
  {<<cut, open>> \in Cuts \X {{1}, {2}, {1, 3}, {2, 3}, {2, 4}} :
     open \subseteq 1..Cardinality(cut) + 1 /\ Aligned(cut, open)}

MCImages == {b0, b1} \union Sweep
MCLayout(i) ==
  IF i = b0 THEN Layout0 ELSE IF i = b1 THEN Layout1
  ELSE [defs |-> SweepDefs(i[1], i[2]), active |-> {}, comp |-> {}]

Budget(power, write, stage, intents, timeout, other, force, decay) ==
  [power |-> power, write |-> write, stage |-> stage, intent |-> intents,
   timeout |-> timeout, other |-> other, force |-> force, decay |-> decay]
MCScenarios ==
  {[image |-> i, budget |-> Budget(0, 0, 0, 0, 0, 0, 0, 0)] : i \in Sweep}
    \union {[image |-> i, budget |-> b] : i \in {b0, b1},
              b \in {Budget(2, 0, 1, 1, 0, 0, 0, 0), Budget(1, 0, 2, 2, 0, 0, 0, 0),
                     Budget(1, 0, 1, 1, 2, 0, 0, 0), Budget(1, 1, 1, 1, 0, 1, 1, 0),
                     Budget(1, 0, 1, 2, 1, 0, 0, 1)}}
=============================================================================
