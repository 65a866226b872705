---------------------------- MODULE FigureFormat ----------------------------
(***************************************************************************)
(* What is in a .sky file, as the parser reads it and the edit endpoint    *)
(* rewrites it. A figure keeps its data in two regions, A (gold and the    *)
(* 2011 experience) and B (the later experience pools), and each region in *)
(* two mirrors with a sequence byte: the newer mirror is read, the older   *)
(* one is written. A mirror no game has written yet is all zero, in the    *)
(* file as well as in the clear. The blocks of a mirror count as written   *)
(* together; the fields that edits only copy, the cipher and the checksums *)
(* are left out.                                                           *)
(***************************************************************************)
EXTENDS Integers, FiniteSets

CONSTANTS
  SEQUENCES,  \* values of a sequence byte, 256
  Gold        \* amounts of gold, in a u16

ASSUME FormatAssumption ==
  /\ SEQUENCES \in Nat /\ SEQUENCES > 2
  /\ 0 \in Gold /\ \A gold \in Gold : gold \in Nat /\ gold <= 65535

Generation == {"SpyrosAdventure", "Giants", "SwapForce", "TrapTeam",
               "SuperChargers", "Imaginators", "Unknown"}

Side     == 1 .. 2
Sequence == 0 .. SEQUENCES - 1
MirrorA  == [written : BOOLEAN, seq : Sequence, gold : Gold, xp2011 : Nat]
MirrorB  == [written : BOOLEAN, seq : Sequence, xp2012 : Nat, xp2013 : Nat]
File     == [a : [Side -> MirrorA], b : [Side -> MirrorB]]

BlankA == [written |-> FALSE, seq |-> 0, gold |-> 0, xp2011 |-> 0]
BlankB == [written |-> FALSE, seq |-> 0, xp2012 |-> 0, xp2013 |-> 0]
-----------------------------------------------------------------------------
(***************************************************************************)
(* Levels and experience.                                                  *)
(***************************************************************************)
MAX_LEVEL == 20
Level     == 1 .. MAX_LEVEL

LEVEL_THRESHOLDS ==
  <<0, 1000, 2200, 3800, 6000, 9000, 13000, 18200, 24800, 33000, 42700, 53900,
    66600, 80800, 96500, 115735, 134435, 154635, 176335, 199535>>

\* level_from_xp and xp_for_level
LevelFromXp(xp)   == Cardinality({l \in Level : LEVEL_THRESHOLDS[l] <= xp})
XpForLevel(level) == LEVEL_THRESHOLDS[level]

\* The pools that count for a figure of this generation; the catalogue's Unknown
\* is given all three, the tag's only the first.
OnlyFirst == {"SpyrosAdventure", "Giants"}
FirstTwo  == {"SwapForce"}
AllThree  == {"TrapTeam", "SuperChargers", "Imaginators"}

MaxLevel(gen) ==
  CASE gen \in OnlyFirst -> 10
    [] gen \in FirstTwo  -> 15
    [] OTHER             -> MAX_LEVEL

CAP_2011 == 33000
CAP_2012 == 63500
AtMost(n, cap) == IF n <= cap THEN n ELSE cap

\* distribute_xp: an earlier pool is filled before a later one; a pool that the
\* generation does not have is set to zero.
DistributeXp(total, gen) ==
  LET capped == AtMost(total, XpForLevel(MaxLevel(gen)))
      first  == AtMost(capped, CAP_2011)
      second == AtMost(capped - first, CAP_2012)
  IN  [xp2011 |-> first,
       xp2012 |-> IF gen \in OnlyFirst THEN 0 ELSE second,
       xp2013 |-> IF gen \in OnlyFirst \cup FirstTwo THEN 0 ELSE capped - first - second]

\* parse_standard reads the level from the pools of the tag's own generation, and
\* from the first one if the tag has no year.
CountedXp(pools, gen) ==
  pools.xp2011 + (IF gen \in FirstTwo \cup AllThree THEN pools.xp2012 ELSE 0)
               + (IF gen \in AllThree THEN pools.xp2013 ELSE 0)
-----------------------------------------------------------------------------
(***************************************************************************)
(* Mirrors.                                                                *)
(***************************************************************************)
\* wrapping_add(1), and seq_newer: x is the one after y.
After(seq)  == IF seq = SEQUENCES - 1 THEN 0 ELSE seq + 1
Newer(x, y) == x = After(y)

\* The mirror that is read; on a tie the first. The other one is written.
Active(region) == IF Newer(region[2].seq, region[1].seq) THEN 2 ELSE 1
Target(region) == 3 - Active(region)

\* copy_region, with the sequence bumped past the mirror that was read.
Stamped(region) == [region[Active(region)] EXCEPT !.seq = After(@)]

SetGold(file, gold) ==
  [file EXCEPT !.a[Target(file.a)] = [Stamped(file.a) EXCEPT !.gold = gold]]

\* Mutant of SetXp: region A is changed in the mirror that is not read.
SetXpInPlace(file, pools) ==
  [file EXCEPT
     !.a[Target(file.a)].xp2011 = pools.xp2011,
     !.b[Target(file.b)] = [Stamped(file.b) EXCEPT !.xp2012 = pools.xp2012,
                                                   !.xp2013 = pools.xp2013]]

SetXp(file, pools) ==
  [a |-> [file.a EXCEPT ![Target(file.a)] =
            [Stamped(file.a) EXCEPT !.xp2011 = pools.xp2011]],
   b |-> [file.b EXCEPT ![Target(file.b)] =
            [Stamped(file.b) EXCEPT !.xp2012 = pools.xp2012, !.xp2013 = pools.xp2013]]]

\* encrypt_figure_preserving_unwritten: what was all zero in the source stays so.
Encrypt(plain, source) ==
  [a |-> [i \in Side |-> IF source.a[i].written
                         THEN [plain.a[i] EXCEPT !.written = TRUE] ELSE BlankA],
   b |-> [i \in Side |-> IF source.b[i].written
                         THEN [plain.b[i] EXCEPT !.written = TRUE] ELSE BlankB]]

Parse(file, gen) ==
  LET readA == file.a[Active(file.a)]
      readB == file.b[Active(file.b)]
      pools == [xp2011 |-> readA.xp2011, xp2012 |-> readB.xp2012, xp2013 |-> readB.xp2013]
  IN  [gold |-> readA.gold, level |-> LevelFromXp(CountedXp(pools, gen))]
=============================================================================
