----------------------------- MODULE FileProofs -----------------------------
(***************************************************************************)
(* The files of a figure. An edit reads back, for every number of sequence *)
(* values, every amount of gold, whatever the games save and in whatever   *)
(* order figures are edited, saved and reset, and whatever generation the  *)
(* catalogue and the tag have for the figure, if they have one at all.     *)
(* And for any number of requests about one figure, with and without       *)
(* crashes, a torn working copy is never made a whole-looking one, only    *)
(* what TornStaysTorn names leaves one torn, and progress is overwritten   *)
(* only on purpose.                                                        *)
(***************************************************************************)
EXTENDS FigureFile, FiniteSetTheorems, TLAPS

\* What the theorems ask of the figures and of what games save.
GoodFigures ==
  /\ Figure \subseteq [catalogue : Generation, tag : Generation, pack : File]
  /\ GamePools \subseteq [xp2011 : Nat, xp2012 : Nat, xp2013 : Nat]
-----------------------------------------------------------------------------
(***************************************************************************)
(* Levels and pools.                                                       *)
(***************************************************************************)
\* The table rises: a level's threshold is at most another's iff the level is.
LEMMA ThresholdsRise ==
  \A l, k \in Level : /\ LEVEL_THRESHOLDS[l] \in Nat
                      /\ LEVEL_THRESHOLDS[l] <= LEVEL_THRESHOLDS[k] <=> l <= k
BY DEF Level, MAX_LEVEL, LEVEL_THRESHOLDS

\* The experience at which a level starts is read as that level.
LEMMA LevelOfThreshold ==
  \A level \in Level : LevelFromXp(XpForLevel(level)) = level
<1> SUFFICES ASSUME NEW level \in Level
             PROVE  LevelFromXp(XpForLevel(level)) = level
  OBVIOUS
<1>1. {l \in Level : LEVEL_THRESHOLDS[l] <= LEVEL_THRESHOLDS[level]} = 1 .. level
  BY ThresholdsRise DEF Level, MAX_LEVEL
<1>2. level \in Int /\ 1 \in Int /\ 1 <= level
  BY DEF Level, MAX_LEVEL
<1>3. Cardinality(1 .. level) = level
  BY <1>2, FS_Interval
<1>4. QED
  BY <1>1, <1>3 DEF LevelFromXp, XpForLevel

\* Where the generations end.
LEMMA LastThresholds ==
  XpForLevel(10) = 33000 /\ XpForLevel(15) = 96500 /\ XpForLevel(20) = 199535
BY DEF XpForLevel, LEVEL_THRESHOLDS

\* The highest levels, of what may be announced and of what can be shown.
LEMMA HighestLevels ==
  \A gen \in Generation :
    /\ MaxLevel(gen) \in Level
    /\ gen \in OnlyFirst => MaxLevel(gen) = 10
    /\ gen \in FirstTwo => MaxLevel(gen) = 15
    /\ ReadableLevel(gen) = IF gen \in FirstTwo THEN 15 ELSE IF gen \in AllThree THEN 20 ELSE 10
<1> SUFFICES ASSUME NEW gen \in Generation
             PROVE  /\ MaxLevel(gen) \in Level
                    /\ gen \in OnlyFirst => MaxLevel(gen) = 10
                    /\ gen \in FirstTwo => MaxLevel(gen) = 15
                    /\ ReadableLevel(gen) = IF gen \in FirstTwo THEN 15
                                            ELSE IF gen \in AllThree THEN 20 ELSE 10
  OBVIOUS
<1>1. CASE gen \in OnlyFirst
  BY <1>1 DEF MaxLevel, ReadableLevel, Level, MAX_LEVEL, OnlyFirst, FirstTwo, AllThree
<1>2. CASE gen \in FirstTwo
  BY <1>2 DEF MaxLevel, ReadableLevel, Level, MAX_LEVEL, OnlyFirst, FirstTwo, AllThree
<1>3. CASE gen \in AllThree
  BY <1>3 DEF MaxLevel, ReadableLevel, Level, MAX_LEVEL, OnlyFirst, FirstTwo, AllThree
<1>4. CASE gen \notin OnlyFirst \cup FirstTwo \cup AllThree
  BY <1>4 DEF MaxLevel, ReadableLevel, Level, MAX_LEVEL, OnlyFirst, FirstTwo, AllThree
<1>5. QED
  BY <1>1, <1>2, <1>3, <1>4

\* The lesser of two thresholds is that of the lesser level, and is read as it.
LEMMA LevelOfLesser ==
  ASSUME NEW level \in Level, NEW top \in Level
  PROVE  LevelFromXp(AtMost(XpForLevel(level), XpForLevel(top))) = AtMost(level, top)
<1>1. level \in Int /\ top \in Int
  BY DEF Level, MAX_LEVEL
<1>2. /\ XpForLevel(level) \in Nat /\ XpForLevel(top) \in Nat
      /\ XpForLevel(level) <= XpForLevel(top) <=> level <= top
  BY ThresholdsRise DEF XpForLevel
<1>3. AtMost(level, top) \in Level
  BY DEF AtMost
<1>4. AtMost(XpForLevel(level), XpForLevel(top)) = XpForLevel(AtMost(level, top))
  BY <1>2 DEF AtMost
<1>5. QED
  BY <1>3, <1>4, LevelOfThreshold

\* Experience that a generation's last level starts at, or less, is spread over the
\* pools alike for every generation: the pools that it does not have get none of it.
LEMMA Spread ==
  ASSUME NEW gen \in Generation, NEW total \in Nat, NEW top \in Nat,
         top = XpForLevel(MaxLevel(gen)), total <= top,
         gen \in OnlyFirst => top = 33000,
         gen \in FirstTwo => top = 96500
  PROVE  LET first  == AtMost(total, CAP_2011)
             second == AtMost(total - first, CAP_2012)
         IN  /\ DistributeXp(total, gen) =
                  [xp2011 |-> first, xp2012 |-> second, xp2013 |-> total - first - second]
             /\ first \in Nat /\ second \in Nat /\ total - first - second \in Nat
             /\ first = AtMost(total, 33000)
             /\ first + second = AtMost(total, 96500)
<1> DEFINE first == AtMost(total, CAP_2011)
           second == AtMost(total - first, CAP_2012)
<1>1. AtMost(total, XpForLevel(MaxLevel(gen))) = total
  BY DEF AtMost
<1>2. DistributeXp(total, gen) =
        [xp2011 |-> first,
         xp2012 |-> IF gen \in OnlyFirst THEN 0 ELSE second,
         xp2013 |-> IF gen \in OnlyFirst \cup FirstTwo THEN 0 ELSE total - first - second]
  BY <1>1 DEF DistributeXp
<1>3. /\ first \in Nat /\ second \in Nat /\ total - first - second \in Nat
      /\ first = AtMost(total, 33000)
      /\ first + second = AtMost(total, 96500)
      /\ total <= 33000 => second = 0 /\ total - first - second = 0
      /\ total <= 96500 => total - first - second = 0
  BY DEF AtMost, CAP_2011, CAP_2012
<1> HIDE DEF first, second
<1>4. gen \in OnlyFirst => second = 0 /\ total - first - second = 0
  BY <1>3
<1>5. gen \in FirstTwo => total - first - second = 0
  BY <1>3
<1>6. DistributeXp(total, gen) =
        [xp2011 |-> first, xp2012 |-> second, xp2013 |-> total - first - second]
  BY <1>2, <1>4, <1>5
<1>7. QED
  BY <1>3, <1>6 DEF first, second

\* So the pools that an edit writes are read as the level it announced, as far as
\* the tag's generation can show it.
LEMMA PoolsAddUp ==
  ASSUME NEW gen \in Generation, NEW tag \in Generation,
         NEW level \in Level, level <= MaxLevel(gen)
  PROVE  LET pools == DistributeXp(XpForLevel(level), gen)
         IN  /\ pools \in [xp2011 : Nat, xp2012 : Nat, xp2013 : Nat]
             /\ LevelFromXp(CountedXp(pools, tag)) = AtMost(level, ReadableLevel(tag))
<1> DEFINE top    == XpForLevel(MaxLevel(gen))
           total  == XpForLevel(level)
           first  == AtMost(total, CAP_2011)
           second == AtMost(total - first, CAP_2012)
           pools  == DistributeXp(total, gen)
           shown  == ReadableLevel(tag)
<1>1. /\ top \in Nat /\ total \in Nat /\ total <= top
      /\ total <= 199535
  <2>1. MaxLevel(gen) \in Level /\ 20 \in Level /\ level <= 20
    BY HighestLevels DEF Level, MAX_LEVEL
  <2>2. QED
    BY <2>1, ThresholdsRise, LastThresholds DEF XpForLevel
<1>2. /\ gen \in OnlyFirst => top = 33000
      /\ gen \in FirstTwo => top = 96500
  BY HighestLevels, LastThresholds
<1>3. shown \in Level
  BY HighestLevels DEF Level, MAX_LEVEL
<1> HIDE DEF top, total
<1>4. /\ pools = [xp2011 |-> first, xp2012 |-> second, xp2013 |-> total - first - second]
      /\ first \in Nat /\ second \in Nat /\ total - first - second \in Nat
      /\ first = AtMost(total, 33000)
      /\ first + second = AtMost(total, 96500)
  BY <1>1, <1>2, Spread DEF top
<1> HIDE DEF first, second, pools
<1>5. CountedXp(pools, tag) = AtMost(total, XpForLevel(shown))
  <2>1. CASE tag \in FirstTwo
    <3>1. tag \notin AllThree /\ shown = 15
      BY <2>1, HighestLevels DEF FirstTwo, AllThree
    <3>2. CountedXp(pools, tag) = first + second
      BY <1>4, <2>1, <3>1 DEF CountedXp
    <3>3. QED
      BY <1>4, <3>1, <3>2, LastThresholds
  <2>2. CASE tag \in AllThree
    <3>1. tag \notin FirstTwo /\ shown = 20
      BY <2>2, HighestLevels DEF FirstTwo, AllThree
    <3>2. CountedXp(pools, tag) = total
      BY <1>1, <1>4, <2>2, <3>1 DEF CountedXp
    <3>3. QED
      BY <1>1, <3>1, <3>2, LastThresholds DEF AtMost
  <2>3. CASE tag \notin FirstTwo \cup AllThree
    <3>1. shown = 10
      BY <2>3, HighestLevels
    <3>2. CountedXp(pools, tag) = first
      BY <1>4, <2>3 DEF CountedXp
    <3>3. QED
      BY <1>4, <3>1, <3>2, LastThresholds
  <2>4. QED
    BY <2>1, <2>2, <2>3
<1>6. LevelFromXp(AtMost(total, XpForLevel(shown))) = AtMost(level, shown)
  BY <1>3, LevelOfLesser DEF total
<1>7. QED
  BY <1>4, <1>5, <1>6 DEF pools, total
-----------------------------------------------------------------------------
(***************************************************************************)
(* Mirrors.                                                                *)
(***************************************************************************)
\* A successor of a sequence is another sequence, and not its predecessor.
LEMMA SuccessorFacts ==
  \A seq \in Sequence : /\ After(seq) \in Sequence
                        /\ After(seq) # seq
                        /\ After(After(seq)) # seq
<1>1. SEQUENCES \in Nat /\ SEQUENCES > 2
  BY FormatAssumption
<1> SUFFICES ASSUME NEW seq \in Sequence
             PROVE  /\ After(seq) \in Sequence
                    /\ After(seq) # seq
                    /\ After(After(seq)) # seq
  OBVIOUS
<1>2. seq \in Int /\ 0 <= seq /\ seq <= SEQUENCES - 1
  BY <1>1 DEF Sequence
<1>3. CASE seq = SEQUENCES - 1
  BY <1>1, <1>3 DEF Sequence, After
<1>4. CASE seq # SEQUENCES - 1
  BY <1>1, <1>2, <1>4 DEF Sequence, After
<1>5. QED
  BY <1>3, <1>4

\* What is written over the mirror not read, with the sequence after that of the
\* mirror read, is the one read from then on; wherever the byte wraps.
LEMMA WriteIsRead ==
  ASSUME NEW Mirror, NEW region \in [Side -> Mirror], NEW mirror \in Mirror,
         \A x \in Mirror : x.seq \in Sequence,
         mirror.seq = After(region[Active(region)].seq)
  PROVE  LET after == [region EXCEPT ![Target(region)] = mirror]
         IN  /\ after \in [Side -> Mirror]
             /\ Active(region) \in Side /\ Target(region) \in Side
             /\ Active(after) = Target(region)
             /\ Target(after) = Active(region)
             /\ after[Active(after)] = mirror
<1> DEFINE after == [region EXCEPT ![Target(region)] = mirror]
<1>1. 1 \in Side /\ 2 \in Side
  BY DEF Side
<1>2. CASE Newer(region[2].seq, region[1].seq)
  <2>1. Active(region) = 2 /\ Target(region) = 1
    BY <1>2 DEF Active, Target
  <2>2. after[1] = mirror /\ after[2] = region[2]
    BY <1>1, <2>1
  <2>3. region[2].seq \in Sequence
    BY <1>1
  <2>4. ~Newer(after[2].seq, after[1].seq)
    BY <2>1, <2>2, <2>3, SuccessorFacts DEF Newer
  <2>5. Active(after) = 1 /\ Target(after) = 2
    BY <2>4 DEF Active, Target
  <2>6. QED
    BY <1>1, <2>1, <2>2, <2>5
<1>3. CASE ~Newer(region[2].seq, region[1].seq)
  <2>1. Active(region) = 1 /\ Target(region) = 2
    BY <1>3 DEF Active, Target
  <2>2. after[2] = mirror /\ after[1] = region[1]
    BY <1>1, <2>1
  <2>3. Newer(after[2].seq, after[1].seq)
    BY <2>1, <2>2 DEF Newer
  <2>4. Active(after) = 2 /\ Target(after) = 1
    BY <2>3 DEF Active, Target
  <2>5. QED
    BY <1>1, <2>1, <2>2, <2>4
<1>4. QED
  BY <1>2, <1>3
-----------------------------------------------------------------------------
(***************************************************************************)
(* An edit.                                                                *)
(***************************************************************************)
\* The mirrors that set_gold and set_xp compose are mirrors, with the sequence
\* after that of the one they were copied from.
LEMMA StampedTypes ==
  /\ \A r \in [Side -> MirrorA] :
       /\ Active(r) \in Side /\ Target(r) \in Side
       /\ Stamped(r) \in MirrorA
       /\ Stamped(r).seq = After(r[Active(r)].seq)
       /\ Stamped(r).gold = r[Active(r)].gold
  /\ \A r \in [Side -> MirrorB] :
       /\ Active(r) \in Side /\ Target(r) \in Side
       /\ Stamped(r) \in MirrorB
       /\ Stamped(r).seq = After(r[Active(r)].seq)
<1>1. ASSUME NEW Mirror, NEW r \in [Side -> Mirror]
      PROVE  Active(r) \in Side /\ Target(r) \in Side
  BY DEF Active, Target, Side
<1>2. ASSUME NEW r \in [Side -> MirrorA]
      PROVE  /\ Stamped(r) \in MirrorA
             /\ Stamped(r).seq = After(r[Active(r)].seq)
             /\ Stamped(r).gold = r[Active(r)].gold
  <2>1. Active(r) \in Side
    BY <1>1
  <2>2. r[Active(r)] \in MirrorA
    BY <2>1
  <2>3. After(r[Active(r)].seq) \in Sequence
    BY <2>2, SuccessorFacts DEF MirrorA
  <2>4. QED
    BY <2>2, <2>3 DEF Stamped, MirrorA
<1>3. ASSUME NEW r \in [Side -> MirrorB]
      PROVE  /\ Stamped(r) \in MirrorB
             /\ Stamped(r).seq = After(r[Active(r)].seq)
  <2>1. Active(r) \in Side
    BY <1>1
  <2>2. r[Active(r)] \in MirrorB
    BY <2>1
  <2>3. After(r[Active(r)].seq) \in Sequence
    BY <2>2, SuccessorFacts DEF MirrorB
  <2>4. QED
    BY <2>2, <2>3 DEF Stamped, MirrorB
<1>4. QED
  BY <1>1, <1>2, <1>3

\* Every mirror has a sequence, and a blank one is a mirror.
LEMMA MirrorTypes ==
  /\ \A m \in MirrorA : m.seq \in Sequence /\ [m EXCEPT !.written = TRUE] \in MirrorA
  /\ \A m \in MirrorB : m.seq \in Sequence /\ [m EXCEPT !.written = TRUE] \in MirrorB
  /\ BlankA \in MirrorA /\ BlankB \in MirrorB
<1>1. SEQUENCES \in Nat /\ SEQUENCES > 2 /\ 0 \in Gold
  BY FormatAssumption
<1>2. 0 \in Sequence
  BY <1>1 DEF Sequence
<1>3. QED
  BY <1>1, <1>2 DEF MirrorA, MirrorB, BlankA, BlankB

\* WriteIsRead for the mirrors of each region.
LEMMA WriteIsReadA ==
  \A r \in [Side -> MirrorA], m \in MirrorA :
    m.seq = After(r[Active(r)].seq) =>
      LET after == [r EXCEPT ![Target(r)] = m]
      IN  after \in [Side -> MirrorA] /\ after[Active(after)] = m
<1>1. \A x \in MirrorA : x.seq \in Sequence
  BY MirrorTypes
<1>2. QED
  BY <1>1, WriteIsRead

LEMMA WriteIsReadB ==
  \A r \in [Side -> MirrorB], m \in MirrorB :
    m.seq = After(r[Active(r)].seq) =>
      LET after == [r EXCEPT ![Target(r)] = m]
      IN  after \in [Side -> MirrorB] /\ after[Active(after)] = m
<1>1. \A x \in MirrorB : x.seq \in Sequence
  BY MirrorTypes
<1>2. QED
  BY <1>1, WriteIsRead

\* set_gold: the gold is in the mirror of region A that is read next; region B
\* is as it was.
LEMMA SetGoldReads ==
  ASSUME NEW file \in File, NEW gold \in Gold
  PROVE  LET after == SetGold(file, gold)
         IN  /\ after \in File
             /\ after.b = file.b
             /\ after.a[Active(after.a)].gold = gold
<1> DEFINE m     == [Stamped(file.a) EXCEPT !.gold = gold]
           after == SetGold(file, gold)
<1>1. file.a \in [Side -> MirrorA] /\ file.b \in [Side -> MirrorB]
  BY DEF File
<1>2. m \in MirrorA /\ m.seq = After(file.a[Active(file.a)].seq) /\ m.gold = gold
  BY <1>1, StampedTypes DEF MirrorA
<1>3. after = [a |-> [file.a EXCEPT ![Target(file.a)] = m], b |-> file.b]
  BY DEF SetGold, File
<1> HIDE DEF m, after
<1>4. after.a = [file.a EXCEPT ![Target(file.a)] = m] /\ after.b = file.b
  BY <1>3
<1>5. after.a \in [Side -> MirrorA] /\ after.a[Active(after.a)] = m
  BY <1>1, <1>2, <1>4, WriteIsReadA
<1>6. QED
  BY <1>1, <1>2, <1>3, <1>4, <1>5 DEF File, after

\* set_xp: the pools are in the mirrors that are read next, with the gold that
\* was read before.
LEMMA SetXpReads ==
  ASSUME NEW file \in File, NEW pools \in [xp2011 : Nat, xp2012 : Nat, xp2013 : Nat]
  PROVE  LET after == SetXp(file, pools)
             readA == after.a[Active(after.a)]
             readB == after.b[Active(after.b)]
         IN  /\ after \in File
             /\ readA.gold = file.a[Active(file.a)].gold
             /\ readA.xp2011 = pools.xp2011
             /\ readB.xp2012 = pools.xp2012
             /\ readB.xp2013 = pools.xp2013
<1> DEFINE ma == [Stamped(file.a) EXCEPT !.xp2011 = pools.xp2011]
           mb == [Stamped(file.b) EXCEPT !.xp2012 = pools.xp2012, !.xp2013 = pools.xp2013]
           after == SetXp(file, pools)
<1>1. file.a \in [Side -> MirrorA] /\ file.b \in [Side -> MirrorB]
  BY DEF File
<1>2. /\ ma \in MirrorA /\ ma.seq = After(file.a[Active(file.a)].seq)
      /\ ma.gold = file.a[Active(file.a)].gold /\ ma.xp2011 = pools.xp2011
  BY <1>1, StampedTypes DEF MirrorA
<1>3. /\ mb \in MirrorB /\ mb.seq = After(file.b[Active(file.b)].seq)
      /\ mb.xp2012 = pools.xp2012 /\ mb.xp2013 = pools.xp2013
  BY <1>1, StampedTypes DEF MirrorB
<1>4. after = [a |-> [file.a EXCEPT ![Target(file.a)] = ma],
               b |-> [file.b EXCEPT ![Target(file.b)] = mb]]
  BY DEF SetXp
<1> HIDE DEF ma, mb, after
<1>5. /\ after.a = [file.a EXCEPT ![Target(file.a)] = ma]
      /\ after.b = [file.b EXCEPT ![Target(file.b)] = mb]
      /\ after = [a |-> after.a, b |-> after.b]
  BY <1>4
<1>6. after.a \in [Side -> MirrorA] /\ after.a[Active(after.a)] = ma
  BY <1>1, <1>2, <1>5, WriteIsReadA
<1>7. after.b \in [Side -> MirrorB] /\ after.b[Active(after.b)] = mb
  BY <1>1, <1>3, <1>5, WriteIsReadB
<1>8. QED
  BY <1>2, <1>3, <1>5, <1>6, <1>7 DEF File, after

\* Encryption makes a file, and if all of it is written it is the plain one.
LEMMA EncryptKeeps ==
  ASSUME NEW plain \in File, NEW source \in File
  PROVE  LET new == Encrypt(plain, source)
         IN  /\ new \in File
             /\ Written(new.a) /\ Written(new.b) =>
                  /\ \A i \in Side : new.a[i] = [plain.a[i] EXCEPT !.written = TRUE]
                  /\ \A i \in Side : new.b[i] = [plain.b[i] EXCEPT !.written = TRUE]
<1> DEFINE new == Encrypt(plain, source)
<1>1. /\ \A i \in Side : plain.a[i] \in MirrorA /\ plain.b[i] \in MirrorB
      /\ 1 \in Side /\ 2 \in Side /\ Side = {1, 2}
  BY DEF File, Side
<1>2. \A i \in Side : /\ [plain.a[i] EXCEPT !.written = TRUE] \in MirrorA
                      /\ [plain.b[i] EXCEPT !.written = TRUE] \in MirrorB
  BY <1>1, MirrorTypes
<1>3. new \in File
  BY <1>2, MirrorTypes DEF Encrypt, File
<1>4. \A i \in Side : /\ new.a[i] = IF source.a[i].written
                                    THEN [plain.a[i] EXCEPT !.written = TRUE] ELSE BlankA
                      /\ new.b[i] = IF source.b[i].written
                                    THEN [plain.b[i] EXCEPT !.written = TRUE] ELSE BlankB
  BY DEF Encrypt
<1>5. ~BlankA.written /\ ~BlankB.written
  BY DEF BlankA, BlankB
<1> HIDE DEF new
<1>6. ASSUME Written(new.a), Written(new.b)
      PROVE  \A i \in Side : source.a[i].written /\ source.b[i].written
  <2>1. \A i \in Side : new.a[i].written /\ new.b[i].written
    BY <1>1, <1>6 DEF Written
  <2>2. QED
    BY <1>4, <1>5, <2>1
<1>7. QED
  BY <1>3, <1>4, <1>6 DEF new

\* The mirror that is read depends on the sequences only.
LEMMA SameSequences ==
  ASSUME NEW r, NEW q, r[1].seq = q[1].seq, r[2].seq = q[2].seq
  PROVE  Active(r) = Active(q)
BY DEF Active

\* An edit makes a file which, written in full, is read as the edit announced, as
\* far as the tag can show it.
LEMMA EditParses ==
  ASSUME NEW gen \in Generation, NEW tag \in Generation, NEW file \in File,
         NEW gold \in Gold, NEW level \in Level, level <= MaxLevel(gen)
  PROVE  LET pools == DistributeXp(XpForLevel(level), gen)
             new   == Encrypt(SetXp(SetGold(file, gold), pools), file)
         IN  /\ new \in File
             /\ Written(new.a) /\ Written(new.b)
                  => Parse(new, tag) = [gold |-> gold,
                                        level |-> AtMost(level, ReadableLevel(tag))]
<1> DEFINE shown == AtMost(level, ReadableLevel(tag))
           pools == DistributeXp(XpForLevel(level), gen)
           rich  == SetGold(file, gold)
           plain == SetXp(rich, pools)
           new   == Encrypt(plain, file)
           readA == plain.a[Active(plain.a)]
           readB == plain.b[Active(plain.b)]
<1>1. /\ pools \in [xp2011 : Nat, xp2012 : Nat, xp2013 : Nat]
      /\ LevelFromXp(CountedXp(pools, tag)) = shown
  BY PoolsAddUp
<1> HIDE DEF pools, shown
<1>3. rich \in File /\ rich.a[Active(rich.a)].gold = gold
  BY SetGoldReads
<1> HIDE DEF rich
<1>4. /\ plain \in File
      /\ readA.gold = gold /\ readA.xp2011 = pools.xp2011
      /\ readB.xp2012 = pools.xp2012 /\ readB.xp2013 = pools.xp2013
  BY <1>1, <1>3, SetXpReads
<1> HIDE DEF plain
<1>5. new \in File
  BY <1>4, EncryptKeeps
<1>6. ASSUME Written(new.a), Written(new.b)
      PROVE  Parse(new, tag) = [gold |-> gold, level |-> shown]
  <2>1. /\ \A i \in Side : new.a[i] = [plain.a[i] EXCEPT !.written = TRUE]
        /\ \A i \in Side : new.b[i] = [plain.b[i] EXCEPT !.written = TRUE]
    BY <1>4, <1>6, EncryptKeeps
  <2>2. /\ plain.a \in [Side -> MirrorA] /\ plain.b \in [Side -> MirrorB]
        /\ 1 \in Side /\ 2 \in Side
    BY <1>4 DEF File, Side
  <2>3. \A i \in Side : /\ plain.a[i] \in MirrorA /\ plain.b[i] \in MirrorB
    BY <2>2
  <2>4. \A i \in Side : /\ new.a[i].seq = plain.a[i].seq
                        /\ new.a[i].gold = plain.a[i].gold
                        /\ new.a[i].xp2011 = plain.a[i].xp2011
    BY <2>1, <2>3 DEF MirrorA
  <2>5. \A i \in Side : /\ new.b[i].seq = plain.b[i].seq
                        /\ new.b[i].xp2012 = plain.b[i].xp2012
                        /\ new.b[i].xp2013 = plain.b[i].xp2013
    BY <2>1, <2>3 DEF MirrorB
  <2>6. Active(new.a) = Active(plain.a) /\ Active(new.b) = Active(plain.b)
    BY <2>2, <2>4, <2>5, SameSequences
  <2>7. Active(plain.a) \in Side /\ Active(plain.b) \in Side
    BY <2>2, StampedTypes
  <2> HIDE DEF new
  <2>8. /\ new.a[Active(new.a)].gold = gold
        /\ new.a[Active(new.a)].xp2011 = pools.xp2011
        /\ new.b[Active(new.b)].xp2012 = pools.xp2012
        /\ new.b[Active(new.b)].xp2013 = pools.xp2013
    BY <1>4, <2>4, <2>5, <2>6, <2>7
  <2>9. pools = [xp2011 |-> pools.xp2011, xp2012 |-> pools.xp2012, xp2013 |-> pools.xp2013]
    BY <1>1
  <2>10. QED
    BY <1>1, <2>8, <2>9 DEF Parse
<1>7. QED
  BY <1>5, <1>6 DEF new, plain, rich, pools, shown
-----------------------------------------------------------------------------
(***************************************************************************)
(* The figure over time.                                                   *)
(***************************************************************************)
\* A game's save makes a file.
LEMMA SaveTypes ==
  ASSUME NEW file \in File, NEW gold \in Gold,
         NEW pools \in [xp2011 : Nat, xp2012 : Nat, xp2013 : Nat]
  PROVE  [a |-> [file.a EXCEPT ![Target(file.a)] =
                   [written |-> TRUE, seq |-> Stamped(file.a).seq,
                    gold |-> gold, xp2011 |-> pools.xp2011]],
          b |-> [file.b EXCEPT ![Target(file.b)] =
                   [written |-> TRUE, seq |-> Stamped(file.b).seq,
                    xp2012 |-> pools.xp2012, xp2013 |-> pools.xp2013]]] \in File
<1>1. file.a \in [Side -> MirrorA] /\ file.b \in [Side -> MirrorB]
  BY DEF File
<1>2. Stamped(file.a).seq \in Sequence /\ Stamped(file.b).seq \in Sequence
  BY <1>1, StampedTypes, MirrorTypes
<1>3. [written |-> TRUE, seq |-> Stamped(file.a).seq, gold |-> gold,
       xp2011 |-> pools.xp2011] \in MirrorA
  BY <1>2 DEF MirrorA
<1>4. [written |-> TRUE, seq |-> Stamped(file.b).seq,
       xp2012 |-> pools.xp2012, xp2013 |-> pools.xp2013] \in MirrorB
  BY <1>2 DEF MirrorB
<1>5. QED
  BY <1>1, <1>3, <1>4 DEF File

\* The invariant: the figure and its file are what they should be, and what was
\* announced is what is read. What the parser makes of a sequence of writes needs
\* no more: every write is read next, whatever mirror it went to.
Inv == figure \in Figure /\ copy \in File /\ EditReadsBack

LEMMA InvInit == GoodFigures /\ Init => Inv
BY DEF GoodFigures, Init, Inv, EditReadsBack

LEMMA InvNext == GoodFigures /\ Inv /\ [Next]_figureVars => Inv'
<1> SUFFICES ASSUME GoodFigures, Inv, [Next]_figureVars
             PROVE  Inv'
  OBVIOUS
<1> USE DEF Inv
<1>1. ASSUME NEW level \in Level, NEW gold \in Gold, Edit(level, gold)
      PROVE  Inv'
  <2> DEFINE gen   == figure.catalogue
             pools == DistributeXp(XpForLevel(level), gen)
             shown == AtMost(level, ReadableLevel(figure.tag))
  <2>1. gen \in Generation /\ figure.tag \in Generation
    BY DEF GoodFigures
  <2>2. level <= MaxLevel(gen)
    BY <1>1 DEF Edit
  <2>3. copy' = Encrypt(SetXp(SetGold(copy, gold), pools), copy)
    BY <1>1 DEF Edit
  <2>4. edited' = [gold |-> gold, level |-> level] /\ figure' = figure
    BY <1>1 DEF Edit
  <2>5. /\ copy' \in File
        /\ Written(copy'.a) /\ Written(copy'.b)
             => Parse(copy', figure.tag) = [gold |-> gold, level |-> shown]
    BY <2>1, <2>2, <2>3, EditParses
  <2>6. [edited' EXCEPT !.level = AtMost(@, ReadableLevel(figure'.tag))]
          = [gold |-> gold, level |-> shown]
    BY <2>4
  <2>7. QED
    BY <2>4, <2>5, <2>6 DEF EditReadsBack
<1>2. CASE ResetFigure
  BY <1>2 DEF ResetFigure, GoodFigures, EditReadsBack
<1>3. ASSUME NEW pools \in GamePools, NEW gold \in Gold, GameSaves(pools, gold)
      PROVE  Inv'
  <2>1. pools \in [xp2011 : Nat, xp2012 : Nat, xp2013 : Nat]
    BY DEF GoodFigures
  <2>2. copy' \in File
    BY <1>3, <2>1, SaveTypes DEF GameSaves
  <2>3. QED
    BY <1>3, <2>2 DEF GameSaves, EditReadsBack
<1>4. CASE UNCHANGED figureVars
  BY <1>4 DEF figureVars, EditReadsBack
<1>5. QED
  BY <1>1, <1>2, <1>3, <1>4 DEF Next

\* What the user sets is what the figure shows when it is read back, as far as its
\* tag can show it and if all of its mirrors are written: for figures of any
\* generation in the catalogue and on the tag, for every number of sequence values
\* above two, hence wherever the byte wraps, every gold, and every order of edits,
\* saves and resets (sky_edit.rs, sky-parser).
THEOREM EditReadsBackCorrect ==
  ASSUME GoodFigures
  PROVE  Spec => []EditReadsBack
<1>1. Init => Inv
  BY InvInit
<1>2. Inv /\ [Next]_figureVars => Inv'
  BY InvNext
<1>3. Inv => EditReadsBack
  BY DEF Inv
<1>4. QED
  BY <1>1, <1>2, <1>3, PTL DEF Spec

\* What an edit has announced is a level and gold that a figure can have.
THEOREM FigureTypesCorrect ==
  ASSUME GoodFigures
  PROVE  Spec => []TypeOK
<1> DEFINE J == Inv /\ edited \in [gold : Gold, level : Level] \cup {NoEdit}
<1>1. Init => J
  BY InvInit DEF Init
<1>2. J /\ [Next]_figureVars => J'
  <2> SUFFICES ASSUME J, [Next]_figureVars PROVE J'
    OBVIOUS
  <2>1. Inv'
    BY InvNext
  <2>2. edited' \in [gold : Gold, level : Level] \cup {NoEdit}
    <3>1. CASE edited' \in {edited, NoEdit}
      BY <3>1
    <3>2. ASSUME NEW level \in Level, NEW gold \in Gold, Edit(level, gold)
          PROVE  edited' \in [gold : Gold, level : Level]
      BY <3>2 DEF Edit
    <3>3. CASE \E level \in Level, gold \in Gold : Edit(level, gold)
      BY <3>2, <3>3
    <3>4. CASE ResetFigure \/ \E pools \in GamePools, gold \in Gold : GameSaves(pools, gold)
      BY <3>1, <3>4 DEF ResetFigure, GameSaves
    <3>5. CASE UNCHANGED figureVars
      BY <3>1, <3>5 DEF figureVars
    <3> QED
      BY <3>3, <3>4, <3>5 DEF Next
  <2> QED
    BY <2>1, <2>2
<1>3. J => TypeOK
  BY DEF Inv, TypeOK
<1> QED
  BY <1>1, <1>2, <1>3, PTL DEF Spec
-----------------------------------------------------------------------------
(***************************************************************************)
(* The working copy, for any number of requests about one figure, with and *)
(* without crashes.                                                        *)
(***************************************************************************)
CONSTANTS Request, LetCrash
VARIABLES file, toy, tmp, held, task, cut

Work == INSTANCE WorkingCopy WITH figure <- toy

TaskType == task \in [Request -> Work!Task]

WritesTmp(q) == Work!At(q, "writing") /\ task[q].into = "tmp"

\* No edit holds bytes that it has read from a torn file.
NothingBad == \A q \in Request : task[q].bad = FALSE

\* A temporary file is cut short by a failed write, is being written, or was left
\* by a crash that no edit outlived: whoever renames one has not torn it alone.
TmpTornForAReason ==
  tmp = "torn" =>
    \/ cut
    \/ \E q \in Request : WritesTmp(q)
    \/ \A q \in Request : task[q].pc \notin {"writing", "rename"}

TornInv == TaskType /\ NothingBad /\ TmpTornForAReason /\ Work!TornStaysTorn

\* What the requests other than r do stays as it is, but that they may be
\* overtaken.
Same(q)   == task'[q].pc = task[q].pc /\ task'[q].into = task[q].into /\ task'[q].bad = task[q].bad
Others(r) == \A q \in Request \ {r} : Same(q)

\* No request is under way at the start.
LEMMA TornInit == Work!Init => TornInv
  BY DEF Work!Init, TornInv, TaskType, NothingBad, TmpTornForAReason, Work!TornStaysTorn,
     Work!Exposed, Work!At,
         Work!NoTask, Work!NewTask, Work!Task, Work!Stages

\* A step that leaves the temporary file alone keeps everything, if a file that is
\* torn after it was so before or is being copied to.
LEMMA QuietStep ==
  ASSUME TornInv, NEW r \in Request, TaskType', Others(r), task'[r].bad = FALSE,
         task[r].pc # "writing", task'[r].pc \notin {"writing", "rename"},
         UNCHANGED <<tmp, cut>>, file' # "mangled",
         file' = "torn" => task'[r].pc = "copy" \/ (file = "torn" /\ task[r].pc # "copy")
  PROVE  TornInv'
<1> USE DEF TornInv, Others, Same
<1>1. NothingBad'
  BY DEF NothingBad
<1>2. TmpTornForAReason'
  BY DEF TmpTornForAReason, WritesTmp, Work!At
<1>3. Work!TornStaysTorn'
  BY DEF Work!TornStaysTorn, Work!Exposed, Work!At
<1> QED
  BY <1>1, <1>2, <1>3

\* A step of the emulator keeps everything, if it does not tear the file.
LEMMA EmulatorStep ==
  ASSUME TornInv, TaskType', \A q \in Request : Same(q), UNCHANGED <<tmp, cut>>,
         file' = file \/ file' = "played"
  PROVE  TornInv'
<1> USE DEF TornInv, Same
<1>1. NothingBad' /\ TmpTornForAReason'
  BY DEF NothingBad, TmpTornForAReason, WritesTmp, Work!At
<1>2. Work!TornStaysTorn'
  BY DEF Work!TornStaysTorn, Work!Exposed, Work!At
<1> QED
  BY <1>1, <1>2

\* A task that is set to a stage is a task.
LEMMA StepType ==
  ASSUME TaskType, NEW r \in Request, NEW pc \in Work!Stages, Work!Step(r, pc)
  PROVE  /\ TaskType' /\ Others(r)
         /\ task'[r].pc = pc /\ task'[r].bad = task[r].bad /\ task'[r].into = task[r].into
  BY DEF TaskType, Work!Step, Work!Task, Others, Same

\* A request that is over is idle.
LEMMA EndType ==
  ASSUME TaskType, NEW r \in Request, Work!End(r)
  PROVE  TaskType' /\ Others(r) /\ task'[r].pc = "idle" /\ task'[r].bad = FALSE
  BY DEF TaskType, Work!End, Work!NoTask, Work!NewTask, Work!Task, Work!Stages, Others, Same

\* A request that begins has read nothing.
LEMMA BeginType ==
  ASSUME TaskType, NEW r \in Request, NEW op \in {"load", "edit", "reset", "resetSlot"},
         NEW pc \in Work!Stages, Work!Begin(r, op, pc)
  PROVE  TaskType' /\ Others(r) /\ task[r].pc = "idle" /\ task'[r].pc = pc /\ task'[r].bad = FALSE
  BY DEF TaskType, Work!Begin, Work!At, Work!NewTask, Work!Task, Others, Same

\* An edit that goes on knows what it has read and where it writes.
LEMMA EditsType ==
  ASSUME TaskType, NEW r \in Request, NEW pc \in Work!Stages, NEW bad \in BOOLEAN,
         NEW into \in {"tmp", "file", "gone"}, Work!Edits(r, pc, bad, into)
  PROVE  TaskType' /\ Others(r) /\ task'[r].pc = pc /\ task'[r].bad = bad /\ task'[r].into = into
  BY DEF TaskType, Work!Edits, Work!Task, Others, Same

\* A request that is overtaken goes on where it was.
LEMMA OvertakenType ==
  ASSUME TaskType, NEW q \in Request
  PROVE  /\ Work!Overtaken(q) \in Work!Task
         /\ Work!Overtaken(q).pc = task[q].pc /\ Work!Overtaken(q).into = task[q].into
         /\ Work!Overtaken(q).bad = task[q].bad
  BY DEF TaskType, Work!Overtaken, Work!Task, Work!At

\* The request that overtakes the others has its own new task.
LEMMA OvertakesType ==
  ASSUME TaskType, NEW r \in Request, NEW mine \in Work!Task, Work!Overtakes(r, mine)
  PROVE  TaskType' /\ Others(r) /\ task'[r] = mine
  BY OvertakenType DEF TaskType, Work!Overtakes, Others, Same
-----------------------------------------------------------------------------
\* Requests that begin, and those that find or fork the file and mark the slot.
LEMMA LoadSide ==
  ASSUME TornInv, NEW r \in Request,
         \/ Work!Load(r) \/ Work!Edit(r) \/ Work!ResetFigure(r) \/ Work!ResetSlot(r)
         \/ Work!Reuse(r) \/ Work!LookAbsent(r)
         \/ Work!CopyRuns(r) \/ Work!CopyEnds(r) \/ Work!Mark(r) \/ Work!Opens(r) \/ Work!Read(r)
  PROVE  TornInv'
<1> USE DEF TornInv
<1>0. TaskType /\ task[r].bad = FALSE /\ task[r] \in Work!Task /\ file # "mangled"
  BY DEF TaskType, NothingBad, Work!TornStaysTorn
<1>1. CASE Work!Load(r) \/ Work!Edit(r)
  <2>1. PICK op \in {"load", "edit"} : Work!Begin(r, op, "resolve")
    BY <1>1 DEF Work!Load, Work!Edit
  <2>2. /\ TaskType' /\ Others(r) /\ task[r].pc = "idle" /\ task'[r].pc = "resolve"
        /\ task'[r].bad = FALSE
    BY <1>0, <2>1, BeginType DEF Work!Stages
  <2> QED
    BY <1>0, <1>1, <2>2, QuietStep DEF Work!Load, Work!Edit
<1>2. CASE Work!ResetFigure(r)
  <2>1. /\ TaskType' /\ Others(r) /\ task[r].pc = "idle" /\ task'[r].pc = "copy"
        /\ task'[r].bad = FALSE
    BY <1>0, <1>2, BeginType DEF Work!ResetFigure, Work!Stages
  <2> QED
    BY <1>0, <1>2, <2>1, QuietStep DEF Work!ResetFigure
<1>3. CASE Work!ResetSlot(r)
  <2> DEFINE mine == Work!NewTask("resetSlot", "copy")
  <2>1. mine \in Work!Task /\ mine.pc = "copy" /\ mine.bad = FALSE
    BY DEF Work!NewTask, Work!Task, Work!Stages
  <2>2. TaskType' /\ Others(r) /\ task'[r] = mine
    BY <1>0, <1>3, <2>1, OvertakesType DEF Work!ResetSlot
  <2> QED
    BY <1>3, <2>1, <2>2, QuietStep DEF Work!ResetSlot, Work!At
<1>4. CASE Work!Reuse(r)
  <2>1. Work!Resolved(r) \in {"mark", "read"}
    BY DEF Work!Resolved
  <2>2. /\ TaskType' /\ Others(r) /\ task'[r].bad = FALSE
        /\ task'[r].pc \notin {"writing", "rename"}
    BY <1>0, <1>4, <2>1, StepType DEF Work!Reuse, Work!Stages
  <2> QED
    BY <1>0, <1>4, <2>2, QuietStep DEF Work!Reuse, Work!At
<1>5. CASE Work!LookAbsent(r)
  <2>1. TaskType' /\ Others(r) /\ task'[r].bad = FALSE /\ task'[r].pc = "copy"
    BY <1>0, <1>5, StepType DEF Work!LookAbsent, Work!Stages
  <2> QED
    BY <1>5, <2>1, QuietStep DEF Work!LookAbsent, Work!At
<1>6. CASE Work!CopyRuns(r)
  <2>1. TaskType' /\ Others(r) /\ task'[r].bad = FALSE /\ task'[r].pc = "copy"
    BY <1>0, <1>6 DEF Work!CopyRuns, Work!At, TaskType, Others, Same
  <2> QED
    BY <1>0, <1>6, <2>1, QuietStep DEF Work!CopyRuns, Work!At
<1>7. CASE Work!CopyEnds(r)
  <2>1. PICK pc \in {"queued", "idle", "mark", "read"} : Work!Step(r, pc)
    <3>1. CASE task[r].op = "resetSlot"
      BY <1>7, <3>1 DEF Work!CopyEnds
    <3>2. CASE task[r].op = "reset"
      BY <1>7, <3>2 DEF Work!CopyEnds
    <3>3. CASE task[r].op \notin {"reset", "resetSlot"}
      BY <1>7, <3>3 DEF Work!CopyEnds, Work!Resolved
    <3> QED
      BY <3>1, <3>2, <3>3
  <2>2. /\ TaskType' /\ Others(r) /\ task'[r].bad = FALSE
        /\ task'[r].pc \notin {"writing", "rename"}
    BY <1>0, <2>1, StepType DEF Work!Stages
  <2> QED
    BY <1>7, <2>2, QuietStep DEF Work!CopyEnds, Work!At
<1>8. CASE Work!Mark(r)
  <2>1. CASE Work!End(r)
    BY <1>0, <1>8, <2>1, EndType, QuietStep DEF Work!Mark, Work!At
  <2>2. CASE Work!Overtakes(r, [task[r] EXCEPT !.pc = "queued"])
    <3>1. [task[r] EXCEPT !.pc = "queued"] \in Work!Task
      BY <1>0 DEF Work!Task, Work!Stages
    <3>2. TaskType' /\ Others(r) /\ task'[r].pc = "queued" /\ task'[r].bad = FALSE
      BY <1>0, <2>2, <3>1, OvertakesType DEF Work!Task
    <3> QED
      BY <1>0, <1>8, <3>2, QuietStep DEF Work!Mark, Work!At
  <2> QED
    BY <1>8, <2>1, <2>2 DEF Work!Mark
<1>9. CASE Work!Opens(r)
  <2>1. Work!NoTask \in Work!Task /\ Work!NoTask.pc = "idle" /\ Work!NoTask.bad = FALSE
    BY DEF Work!NoTask, Work!NewTask, Work!Task, Work!Stages
  <2>2. TaskType' /\ Others(r) /\ task'[r].pc = "idle" /\ task'[r].bad = FALSE
    BY <1>0, <1>9, <2>1, OvertakesType, EndType DEF Work!Opens
  <2> QED
    BY <1>0, <1>9, <2>2, QuietStep DEF Work!Opens, Work!At
<1>10. CASE Work!Read(r)
  <2>1. CASE Work!End(r)
    BY <1>0, <1>10, <2>1, EndType, QuietStep DEF Work!Read, Work!At
  <2>2. CASE file # "torn"
    <3>1. (file \in {"torn", "mangled"}) = FALSE
      BY <1>0, <2>2
    <3>2. TaskType' /\ Others(r) /\ task'[r].pc = "write" /\ task'[r].bad = FALSE
      BY <1>0, <1>10, <2>2, <3>1, EditsType DEF Work!Read, Work!Stages
    <3> QED
      BY <1>0, <1>10, <2>2, <3>2, QuietStep DEF Work!Read, Work!At
  <2> QED
    BY <1>10, <2>1, <2>2 DEF Work!Read
<1> QED
  BY <1>1, <1>2, <1>3, <1>4, <1>5, <1>6, <1>7, <1>8, <1>9, <1>10
-----------------------------------------------------------------------------
\* An edit that opens the temporary file is the reason for its being torn.
LEMMA OpenTmpHolds == ASSUME TornInv, NEW r \in Request, Work!OpenTmp(r) PROVE TornInv'
<1> USE DEF TornInv
<1>1. task[r] \in Work!Task /\ task[r].bad = FALSE /\ task[r].pc = "write" /\ tmp' = "torn"
      /\ UNCHANGED <<file, cut>>
  BY DEF TaskType, NothingBad, Work!OpenTmp, Work!At
<1>3. TaskType' /\ Others(r) /\ task'[r].pc = "writing" /\ task'[r].into = "tmp"
      /\ task'[r].bad = FALSE
  BY <1>1, EditsType DEF Work!OpenTmp, Work!Stages
<1>4. NothingBad' /\ TmpTornForAReason'
  BY <1>1, <1>3 DEF NothingBad, TmpTornForAReason, WritesTmp, Work!At, Others, Same
<1>5. Work!TornStaysTorn'
  BY <1>1, <1>3 DEF Work!TornStaysTorn, Work!Exposed, Work!At, Others, Same
<1> QED
  BY <1>3, <1>4, <1>5

\* What an edit writes is whole, and what it has opened is torn no longer.
LEMMA WriteTmpHolds == ASSUME TornInv, NEW r \in Request, Work!WriteTmp(r) PROVE TornInv'
<1> USE DEF TornInv
<1>1. /\ TaskType' /\ Others(r) /\ task[r].pc = "writing" /\ task'[r].pc = "rename"
      /\ task[r].bad = FALSE /\ task'[r].bad = FALSE /\ UNCHANGED cut
  BY StepType DEF Work!WriteTmp, Work!At, NothingBad, Work!Stages
<1>2. Work!Result(r) = "edited"
  BY <1>1 DEF Work!Result
<1>3. tmp' = (IF task[r].into = "tmp" THEN "edited" ELSE tmp)
      /\ file' = (IF task[r].into = "file" THEN "edited" ELSE file)
  BY <1>2 DEF Work!WriteTmp
<1>4. NothingBad'
  BY <1>1 DEF NothingBad, Others, Same
<1>5. TmpTornForAReason'
  BY <1>1, <1>3 DEF TmpTornForAReason, WritesTmp, Work!At, Others, Same
<1>6. Work!TornStaysTorn'
  BY <1>1, <1>3 DEF Work!TornStaysTorn, Work!Exposed, Work!At, Others, Same
<1> QED
  BY <1>1, <1>4, <1>5, <1>6

\* A write that fails on a torn file leaves it torn for good.
LEMMA WriteFailsHolds == ASSUME TornInv, NEW r \in Request, Work!WriteFails(r) PROVE TornInv'
<1> USE DEF TornInv
<1>1. /\ TaskType' /\ Others(r) /\ task[r].pc = "writing" /\ task'[r].pc = "idle"
      /\ task'[r].bad = FALSE /\ UNCHANGED <<file, tmp>>
  BY EndType DEF Work!WriteFails, Work!At
<1>2. /\ cut => cut'
      /\ task[r].into = "tmp" /\ tmp = "torn" => cut'
      /\ task[r].into = "file" /\ file = "torn" => cut'
  BY DEF Work!WriteFails
<1>3. NothingBad' /\ TmpTornForAReason'
  BY <1>1, <1>2 DEF NothingBad, TmpTornForAReason, WritesTmp, Work!At, Others, Same
<1>4. Work!TornStaysTorn'
  BY <1>1, <1>2 DEF Work!TornStaysTorn, Work!Exposed, Work!At, Others, Same
<1> QED
  BY <1>1, <1>3, <1>4

\* What is renamed is whole, or another edit goes on writing to it as the working
\* copy.
LEMMA RenameHolds == ASSUME TornInv, NEW r \in Request, Work!Rename(r) PROVE TornInv'
<1> USE DEF TornInv
<1>1. task[r].pc = "rename" /\ file' = tmp /\ tmp' = "absent" /\ UNCHANGED cut
      /\ task' = [q \in Request |-> IF q = r THEN Work!NoTask ELSE Work!Moved(task[q])]
  BY DEF Work!Rename, Work!At
<1>2. Work!NoTask \in Work!Task /\ Work!NoTask.pc = "idle" /\ Work!NoTask.bad = FALSE
  BY DEF Work!NoTask, Work!NewTask, Work!Task, Work!Stages
<1>3. ASSUME NEW q \in Request
      PROVE  /\ Work!Moved(task[q]) \in Work!Task
             /\ Work!Moved(task[q]).pc = task[q].pc /\ Work!Moved(task[q]).bad = task[q].bad
             /\ task[q].into = "tmp" => Work!Moved(task[q]).into = "file"
  <2>1. task[q] \in Work!Task
    BY DEF TaskType
  <2>2. CASE task[q].into = "tmp"
    BY <2>1, <2>2 DEF Work!Moved, Work!Task
  <2>3. CASE task[q].into # "tmp"
    BY <2>1, <2>3 DEF Work!Moved, Work!Task
  <2> QED
    BY <2>2, <2>3
<1>4. TaskType' /\ NothingBad'
  BY <1>1, <1>2, <1>3 DEF TaskType, NothingBad
<1>5. TmpTornForAReason'
  BY <1>1 DEF TmpTornForAReason
<1>6. Work!TornStaysTorn'
  <2>1. tmp # "mangled"
    BY DEF Work!TornStaysTorn
  <2>2. ASSUME tmp = "torn" PROVE cut' \/ Work!Exposed'
    <3>1. CASE cut
      BY <1>1, <3>1
    <3>2. CASE ~cut
      <4>1. PICK q \in Request : WritesTmp(q)
        BY <1>1, <2>2, <3>2 DEF TmpTornForAReason
      <4>2. q # r /\ task'[q].pc = "writing" /\ task'[q].into = "file"
        BY <1>1, <1>3, <4>1 DEF WritesTmp, Work!At
      <4> QED
        BY <4>2 DEF Work!Exposed, Work!At
    <3> QED
      BY <3>1, <3>2
  <2> QED
    BY <1>1, <2>1, <2>2 DEF Work!TornStaysTorn
<1> QED
  BY <1>4, <1>5, <1>6

\* A rename that fails removes the temporary file.
LEMMA RenameFailsHolds == ASSUME TornInv, NEW r \in Request, Work!RenameFails(r) PROVE TornInv'
<1> USE DEF TornInv
<1> DEFINE Left(q) == IF task[q].into = "tmp" THEN [task[q] EXCEPT !.into = "gone"] ELSE task[q]
<1>1. task[r].pc = "rename" /\ tmp' = "absent" /\ UNCHANGED <<file, cut>>
      /\ task' = [q \in Request |-> IF q = r THEN Work!NoTask ELSE Left(q)]
  BY DEF Work!RenameFails, Work!At
<1>2. Work!NoTask \in Work!Task /\ Work!NoTask.pc = "idle" /\ Work!NoTask.bad = FALSE
  BY DEF Work!NoTask, Work!NewTask, Work!Task, Work!Stages
<1>3. ASSUME NEW q \in Request
      PROVE  /\ Left(q) \in Work!Task /\ Left(q).pc = task[q].pc /\ Left(q).bad = task[q].bad
             /\ task[q].into = "file" => Left(q).into = "file"
  BY DEF TaskType, Work!Task
<1> HIDE DEF Left
<1>4. TaskType' /\ NothingBad'
  BY <1>1, <1>2, <1>3 DEF TaskType, NothingBad
<1>5. TmpTornForAReason'
  BY <1>1 DEF TmpTornForAReason
<1>6. Work!TornStaysTorn'
  BY <1>1, <1>3 DEF Work!TornStaysTorn, Work!Exposed, Work!At
<1> QED
  BY <1>4, <1>5, <1>6

\* The emulator plays, and figures are taken off.
LEMMA EmulatorHolds == ASSUME TornInv, Work!Play \/ Work!Clear \/ Work!Remove PROVE TornInv'
<1>1. TaskType /\ (UNCHANGED task => TaskType' /\ \A q \in Request : Same(q))
  BY DEF TornInv, TaskType, Same
<1>2. CASE Work!Play
  BY <1>1, <1>2, EmulatorStep DEF Work!Play
<1>3. CASE Work!Clear
  BY <1>1, <1>3, EmulatorStep DEF Work!Clear
<1>4. CASE Work!Remove
  <2>1. TaskType' /\ \A q \in Request : Same(q)
    <3>1. CASE UNCHANGED task
      BY <1>1, <3>1
    <3>2. CASE task' = [q \in Request |-> Work!Overtaken(q)]
      BY <1>1, <3>2, OvertakenType DEF TaskType, Same
    <3> QED
      BY <1>4, <3>1, <3>2 DEF Work!Remove
  <2> QED
    BY <1>4, <2>1, EmulatorStep DEF Work!Remove
<1> QED
  BY <1>2, <1>3, <1>4

\* After a crash there are no requests; what was torn stays so.
LEMMA CrashHolds == ASSUME TornInv, Work!Crash PROVE TornInv'
  BY DEF Work!Crash, TornInv, TaskType, NothingBad, TmpTornForAReason, Work!TornStaysTorn,
     Work!NoTask, Work!NewTask, Work!Task, Work!Stages

\* Every step keeps the invariant.
LEMMA TornNext == TornInv /\ [Work!Next]_(Work!fileVars) => TornInv'
<1> SUFFICES ASSUME TornInv, [Work!Next]_(Work!fileVars) PROVE TornInv'
  OBVIOUS
<1>1. CASE UNCHANGED Work!fileVars
  BY <1>1 DEF Work!fileVars, TornInv, TaskType, NothingBad, TmpTornForAReason, Work!TornStaysTorn,
     Work!Exposed,
              WritesTmp, Work!At
<1> QED
  BY <1>1, LoadSide, OpenTmpHolds, WriteTmpHolds, WriteFailsHolds, RenameHolds, RenameFailsHolds,
     EmulatorHolds, CrashHolds DEF Work!Next

\* fork_from_pack, reset and edit_figure write files that others read and rename
\* meanwhile; edit_figure checks the length of what it has read, and so no edit
\* makes a figure of half a file, however many of them overlap.
THEOREM TornStaysTornCorrect == Work!Spec => []Work!TornStaysTorn
<1>1. TornInv => Work!TornStaysTorn
  BY DEF TornInv
<1> QED
  BY TornInit, TornNext, <1>1, PTL DEF Work!Spec

\* Every step keeps a working copy's types: the emulator has the file open only of
\* a figure that is on the portal or being taken off it.
LEMMA WorkTypes ==
  ASSUME TornInv, Work!TypeOK, [Work!Next]_(Work!fileVars)
  PROVE  Work!TypeOK'
<1>0. /\ file \in Work!Contents /\ tmp \in {"absent", "torn", "edited", "mangled"}
      /\ toy \in {"off", "loading", "on", "clearing"}
      /\ held \in BOOLEAN /\ (held => toy \in {"on", "clearing"}) /\ cut \in BOOLEAN
  BY DEF Work!TypeOK
<1>1. task' \in [Request -> Work!Task]
  BY TornNext DEF TornInv, TaskType
<1> SUFFICES /\ file' \in Work!Contents /\ tmp' \in {"absent", "torn", "edited", "mangled"}
             /\ toy' \in {"off", "loading", "on", "clearing"}
             /\ held' \in BOOLEAN /\ (held' => toy' \in {"on", "clearing"}) /\ cut' \in BOOLEAN
  BY <1>1 DEF Work!TypeOK
<1> USE <1>0 DEF Work!Contents
<1>2. ASSUME NEW r \in Request, Work!Load(r) \/ Work!Edit(r) \/ Work!ResetFigure(r) \/ Work!ResetSlot(r)
      PROVE  /\ file' \in Work!Contents /\ tmp' = tmp /\ cut' = cut
             /\ \/ UNCHANGED <<toy, held>>
                \/ toy' = "loading" /\ held' = FALSE
  BY <1>2 DEF Work!Load, Work!Edit, Work!ResetFigure, Work!ResetSlot
<1>3. ASSUME NEW r \in Request, Work!Reuse(r) \/ Work!LookAbsent(r) \/ Work!CopyRuns(r) \/ Work!CopyEnds(r)
                                \/ Work!Read(r)
      PROVE  file' \in Work!Contents /\ UNCHANGED <<tmp, cut, toy, held>>
  BY <1>3 DEF Work!Reuse, Work!LookAbsent, Work!CopyRuns, Work!CopyEnds, Work!Read
<1>4. ASSUME NEW r \in Request, Work!Mark(r) \/ Work!Opens(r)
      PROVE  /\ UNCHANGED <<file, tmp, cut>>
             /\ \/ UNCHANGED <<toy, held>>
                \/ toy' \in {"loading", "off"} /\ held' = FALSE
                \/ toy' = "on" /\ held' = TRUE
  BY <1>4 DEF Work!Mark, Work!Opens
<1>5. ASSUME NEW r \in Request, \/ Work!OpenTmp(r) \/ Work!WriteTmp(r)
                                \/ Work!Rename(r) \/ Work!RenameFails(r)
      PROVE  /\ file' \in Work!Contents /\ tmp' \in {"absent", "torn", "edited", "mangled"}
             /\ UNCHANGED <<toy, cut>> /\ (held' = held \/ held' = FALSE)
  BY <1>5 DEF Work!OpenTmp, Work!WriteTmp, Work!Rename, Work!RenameFails, Work!Result
<1>6. ASSUME NEW r \in Request, Work!WriteFails(r)
      PROVE  UNCHANGED <<file, tmp, toy, held>> /\ cut' \in BOOLEAN
  BY <1>6, Zenon DEF Work!WriteFails
<1>7. CASE Work!Play \/ Work!Clear \/ Work!Remove
  BY <1>7 DEF Work!Play, Work!Clear, Work!Remove
<1>8. CASE Work!Crash
  <2>1. UNCHANGED <<file, tmp>> /\ toy' = "off" /\ held' = FALSE
    BY <1>8 DEF Work!Crash
  <2>2. cut' \in BOOLEAN
    BY <1>8, Zenon DEF Work!Crash
  <2> QED
    BY <2>1, <2>2
<1>9. CASE UNCHANGED Work!fileVars
  BY <1>9 DEF Work!fileVars
<1> HIDE DEF Work!Contents
<1>10. CASE \E r \in Request : \/ Work!Load(r) \/ Work!Edit(r) \/ Work!ResetFigure(r) \/ Work!ResetSlot(r)
                               \/ Work!Reuse(r) \/ Work!LookAbsent(r) \/ Work!CopyRuns(r)
                               \/ Work!CopyEnds(r) \/ Work!Mark(r) \/ Work!Opens(r) \/ Work!Read(r)
                               \/ Work!OpenTmp(r) \/ Work!WriteTmp(r) \/ Work!WriteFails(r)
                               \/ Work!Rename(r) \/ Work!RenameFails(r)
  BY <1>10, <1>2, <1>3, <1>4, <1>5, <1>6
<1> QED
  BY <1>7, <1>8, <1>9, <1>10 DEF Work!Next

\* The working copy, its temporary file and its slot are what they can be, however
\* requests, the emulator and crashes interleave.
THEOREM WorkTypesCorrect == Work!Spec => []Work!TypeOK
<1>1. Work!Init => TornInv /\ Work!TypeOK
  BY TornInit DEF Work!Init, Work!TypeOK, Work!Contents, TornInv, TaskType
<1>2. TornInv /\ Work!TypeOK /\ [Work!Next]_(Work!fileVars) => TornInv' /\ Work!TypeOK'
  BY TornNext, WorkTypes
<1> QED
  BY <1>1, <1>2, PTL DEF Work!Spec
-----------------------------------------------------------------------------
\* The requests other than r are where they were, and overtaken if they were.
Still(q) == task'[q].pc = task[q].pc /\ task'[q].op = task[q].op /\ (task[q].behind => task'[q].behind)
Rest(r)  == \A q \in Request \ {r} : Still(q)

\* What a step does to the stage, the operation and the mark of the requests.
LEMMA Bookkeeping ==
  ASSUME TaskType, NEW r \in Request
  PROVE  /\ \A pc \in Work!Stages : Work!Step(r, pc) =>
              /\ Rest(r) /\ task'[r].pc = pc /\ task'[r].op = task[r].op
              /\ task'[r].behind = task[r].behind
         /\ Work!End(r) => Rest(r) /\ task'[r] = Work!NoTask
         /\ \A op \in {"load", "edit", "reset", "resetSlot"}, pc \in Work!Stages :
              Work!Begin(r, op, pc) => Rest(r) /\ task'[r] = Work!NewTask(op, pc)
         /\ \A pc \in Work!Stages, bad \in BOOLEAN, into \in {"tmp", "file", "gone"} :
              Work!Edits(r, pc, bad, into) =>
                /\ Rest(r) /\ task'[r].pc = pc /\ task'[r].op = "edit"
                /\ task'[r].behind = task[r].behind
<1> USE DEF TaskType, Work!Task, Rest, Still
<1>1. \A pc \in Work!Stages : Work!Step(r, pc) =>
        Rest(r) /\ task'[r].pc = pc /\ task'[r].op = task[r].op /\ task'[r].behind = task[r].behind
  BY DEF Work!Step
<1>2. Work!End(r) => Rest(r) /\ task'[r] = Work!NoTask
  BY DEF Work!End
<1>3. \A op \in {"load", "edit", "reset", "resetSlot"}, pc \in Work!Stages :
        Work!Begin(r, op, pc) => Rest(r) /\ task'[r] = Work!NewTask(op, pc)
  BY DEF Work!Begin
<1>4. \A pc \in Work!Stages, bad \in BOOLEAN, into \in {"tmp", "file", "gone"} :
        Work!Edits(r, pc, bad, into) =>
          Rest(r) /\ task'[r].pc = pc /\ task'[r].op = "edit" /\ task'[r].behind = task[r].behind
  BY DEF Work!Edits
<1> QED
  BY <1>1, <1>2, <1>3, <1>4

\* A request that overtakes the others leaves them behind.
LEMMA LeftBehind ==
  ASSUME TaskType, NEW q \in Request
  PROVE  /\ Work!Overtaken(q).pc = task[q].pc /\ Work!Overtaken(q).op = task[q].op
         /\ task[q].pc # "idle" => Work!Overtaken(q).behind
         /\ task[q].behind => Work!Overtaken(q).behind
  BY DEF TaskType, Work!Task, Work!Overtaken, Work!At

\* The invariant needs no more than that of the other requests, unless the figure
\* comes onto the portal or is opened there.
LEMMA KeepStep ==
  ASSUME Work!KeepInv, TaskType', tmp' # "played", NEW r \in Request, Rest(r),
         Work!NotOnPortal => Work!NotOnPortal', held' => held, file' = "played" => file = "played",
         file # "absent" => file' # "absent",
         Work!At(r, "resolve")' => task'[r].op \in {"load", "edit"},
         task'[r].pc \in {"mark", "queued"} => task'[r].op # "edit" /\ file' # "absent",
         task'[r].pc \in {"read", "write", "writing", "rename"} => task'[r].op = "edit",
         ~task'[r].behind /\ task'[r].op = "edit" /\ task'[r].pc # "idle" => Work!NotOnPortal',
         ~task'[r].behind /\ task'[r].op = "load" /\ task'[r].pc = "copy" =>
           file' # "played" /\ ~held'
  PROVE  Work!KeepInv'
<1> USE DEF Work!KeepInv, TaskType, Rest, Still, Work!At
<1>1. Work!StagesOfOps'
  BY DEF Work!StagesOfOps
<1>2. Work!FileIsThere'
  BY DEF Work!FileIsThere
<1>3. Work!OvertakenAreBehind'
  BY DEF Work!OvertakenAreBehind
<1> QED
  BY <1>1, <1>2, <1>3

\* Nothing is open, and nobody at work, at the start.
LEMMA KeepInit == Work!Init => Work!KeepInv
  BY DEF Work!Init, Work!KeepInv, Work!StagesOfOps, Work!FileIsThere, Work!OvertakenAreBehind,
     Work!At, Work!NoTask,
         Work!NewTask, Work!Task, Work!Stages, Work!Contents

\* No temporary file holds what the emulator has written.
LEMMA PlainTmp == ASSUME tmp # "played", [Work!Next]_(Work!fileVars) PROVE tmp' # "played"
<1>1. ASSUME NEW r \in Request,
             \/ Work!Load(r) \/ Work!Edit(r) \/ Work!ResetFigure(r) \/ Work!ResetSlot(r)
             \/ Work!Reuse(r) \/ Work!LookAbsent(r)
             \/ Work!CopyRuns(r) \/ Work!CopyEnds(r) \/ Work!Mark(r) \/ Work!Opens(r)
             \/ Work!Read(r) \/ Work!WriteFails(r)
      PROVE  tmp' # "played"
  BY <1>1 DEF Work!Load, Work!Edit, Work!ResetFigure, Work!ResetSlot, Work!Reuse, Work!LookAbsent,
     Work!CopyRuns, Work!CopyEnds, Work!Mark,
              Work!Opens, Work!Read, Work!WriteFails
<1>2. ASSUME NEW r \in Request, Work!OpenTmp(r) \/ Work!WriteTmp(r) \/ Work!Rename(r) \/ Work!RenameFails(r)
      PROVE  tmp' # "played"
  BY <1>2 DEF Work!OpenTmp, Work!WriteTmp, Work!Result, Work!Rename, Work!RenameFails
<1>3. CASE Work!Play \/ Work!Clear \/ Work!Remove \/ Work!Crash \/ UNCHANGED Work!fileVars
  BY <1>3 DEF Work!Play, Work!Clear, Work!Remove, Work!Crash, Work!fileVars
<1> QED
  BY <1>1, <1>2, <1>3 DEF Work!Next

\* The requests that leave the others where they are.
LEMMA KeepQuiet ==
  ASSUME Work!KeepInv, TaskType', tmp' # "played", NEW r \in Request,
         \/ Work!Load(r) \/ Work!Edit(r) \/ Work!ResetFigure(r) \/ Work!Reuse(r) \/ Work!LookAbsent(r)
         \/ Work!CopyRuns(r) \/ Work!CopyEnds(r) \/ Work!Read(r)
         \/ Work!OpenTmp(r) \/ Work!WriteTmp(r) \/ Work!WriteFails(r) \/ Work!Rename(r)
         \/ Work!RenameFails(r)
  PROVE  Work!KeepInv'
<1>0. /\ TaskType /\ task[r] \in Work!Task /\ Work!StagesOfOps /\ Work!FileIsThere
      /\ Work!OvertakenAreBehind
      /\ tmp # "played"
  BY DEF Work!KeepInv, TaskType
<1> USE DEF Work!At
<1>1. CASE Work!Load(r)
  <2>1. Rest(r) /\ task'[r] = Work!NewTask("load", "resolve")
    BY <1>0, <1>1, Bookkeeping DEF Work!Load, Work!Stages
  <2> QED
    BY <1>1, <2>1, KeepStep DEF Work!Load, Work!NewTask, Work!NotOnPortal
<1>2. CASE Work!Edit(r)
  <2>1. Rest(r) /\ task'[r] = Work!NewTask("edit", "resolve")
    BY <1>0, <1>2, Bookkeeping DEF Work!Edit, Work!Stages
  <2> QED
    BY <1>2, <2>1, KeepStep DEF Work!Edit, Work!NewTask, Work!NotOnPortal
<1>3. CASE Work!ResetFigure(r)
  <2>1. Rest(r) /\ task'[r] = Work!NewTask("reset", "copy")
    BY <1>0, <1>3, Bookkeeping DEF Work!ResetFigure, Work!Stages
  <2> QED
    BY <1>3, <2>1, KeepStep DEF Work!ResetFigure, Work!NewTask, Work!NotOnPortal
<1>4. CASE Work!Reuse(r)
  <2>1. /\ Rest(r) /\ task'[r].pc = Work!Resolved(r) /\ task'[r].op = task[r].op
        /\ task'[r].behind = task[r].behind
    BY <1>0, <1>4, Bookkeeping DEF Work!Reuse, Work!Resolved, Work!Stages
  <2>2. task[r].op \in {"load", "edit"}
    BY <1>0, <1>4 DEF Work!Reuse, Work!StagesOfOps
  <2>3. task[r].op = "edit" /\ ~task[r].behind => Work!NotOnPortal
    BY <1>0, <1>4 DEF Work!Reuse, Work!OvertakenAreBehind
  <2> QED
    BY <1>4, <2>1, <2>2, <2>3, KeepStep DEF Work!Reuse, Work!Resolved, Work!NotOnPortal
<1>5. CASE Work!LookAbsent(r)
  <2>1. /\ Rest(r) /\ task'[r].pc = "copy" /\ task'[r].op = task[r].op
        /\ task'[r].behind = task[r].behind
    BY <1>0, <1>5, Bookkeeping DEF Work!LookAbsent, Work!Stages
  <2>2. task[r].op = "edit" /\ ~task[r].behind => Work!NotOnPortal
    BY <1>0, <1>5 DEF Work!LookAbsent, Work!OvertakenAreBehind
  <2>3. ~held
    BY <1>0, <1>5 DEF Work!LookAbsent, Work!FileIsThere
  <2> QED
    BY <1>5, <2>1, <2>2, <2>3, KeepStep DEF Work!LookAbsent, Work!NotOnPortal
<1>6. CASE Work!CopyRuns(r)
  <2>1. task' = task /\ task[r].pc = "copy"
    BY <1>6 DEF Work!CopyRuns
  <2>2. Rest(r)
    BY <2>1 DEF Rest, Still
  <2> QED
    BY <1>0, <1>6, <2>1, <2>2, KeepStep DEF Work!CopyRuns, Work!NotOnPortal, Work!OvertakenAreBehind
<1>7. CASE Work!CopyEnds(r)
  <2>1. PICK pc \in {"queued", "idle", "mark", "read"} :
          /\ Work!Step(r, pc)
          /\ pc = "queued" => task[r].op = "resetSlot"
          /\ pc = "mark" => task[r].op = "load"
          /\ pc = "read" => task[r].op = "edit"
    <3>1. CASE task[r].op = "resetSlot"
      BY <1>7, <3>1 DEF Work!CopyEnds
    <3>2. CASE task[r].op = "reset"
      BY <1>7, <3>2 DEF Work!CopyEnds
    <3>3. CASE task[r].op = "load"
      BY <1>7, <3>3 DEF Work!CopyEnds, Work!Resolved
    <3>4. CASE task[r].op = "edit"
      BY <1>7, <3>4 DEF Work!CopyEnds, Work!Resolved
    <3> QED
      BY <1>0, <3>1, <3>2, <3>3, <3>4 DEF Work!Task
  <2>2. /\ Rest(r) /\ task'[r].pc = pc /\ task'[r].op = task[r].op
        /\ task'[r].behind = task[r].behind
    BY <1>0, <2>1, Bookkeeping DEF Work!Stages
  <2>3. task[r].op = "edit" /\ ~task[r].behind => Work!NotOnPortal
    BY <1>0, <1>7 DEF Work!CopyEnds, Work!OvertakenAreBehind
  <2> QED
    BY <1>7, <2>1, <2>2, <2>3, KeepStep DEF Work!CopyEnds, Work!NotOnPortal
<1>8. CASE Work!Read(r)
  <2>1. CASE Work!End(r)
    <3>1. Rest(r) /\ task'[r] = Work!NoTask
      BY <1>0, <2>1, Bookkeeping
    <3> QED
      BY <1>8, <3>1, KeepStep DEF Work!Read, Work!NoTask, Work!NewTask, Work!NotOnPortal
  <2>2. CASE Work!Edits(r, "write", file \in {"torn", "mangled"}, "gone")
    <3>1. /\ Rest(r) /\ task'[r].pc = "write" /\ task'[r].op = "edit"
          /\ task'[r].behind = task[r].behind
      BY <1>0, <2>2 DEF Work!Edits, Rest, Still, TaskType
    <3>2. task[r].op = "edit" /\ (~task[r].behind => Work!NotOnPortal)
      BY <1>0, <1>8 DEF Work!Read, Work!OvertakenAreBehind, Work!StagesOfOps
    <3> QED
      BY <1>8, <3>1, <3>2, KeepStep DEF Work!Read, Work!NotOnPortal
  <2> QED
    BY <1>8, <2>1, <2>2 DEF Work!Read
<1>9. CASE Work!OpenTmp(r)
  <2>1. /\ Rest(r) /\ task'[r].pc = "writing" /\ task'[r].op = "edit"
        /\ task'[r].behind = task[r].behind
    BY <1>0, <1>9, Bookkeeping DEF Work!OpenTmp, Work!Stages, Work!Task
  <2>2. task[r].op = "edit" /\ (~task[r].behind => Work!NotOnPortal)
    BY <1>0, <1>9 DEF Work!OpenTmp, Work!OvertakenAreBehind, Work!StagesOfOps
  <2> QED
    BY <1>9, <2>1, <2>2, KeepStep DEF Work!OpenTmp, Work!NotOnPortal
<1>10. CASE Work!WriteTmp(r)
  <2>1. /\ Rest(r) /\ task'[r].pc = "rename" /\ task'[r].op = task[r].op
        /\ task'[r].behind = task[r].behind
    BY <1>0, <1>10, Bookkeeping DEF Work!WriteTmp, Work!Stages
  <2>2. task[r].op = "edit" /\ (~task[r].behind => Work!NotOnPortal)
    BY <1>0, <1>10 DEF Work!WriteTmp, Work!OvertakenAreBehind, Work!StagesOfOps
  <2> QED
    BY <1>10, <2>1, <2>2, KeepStep DEF Work!WriteTmp, Work!Result, Work!NotOnPortal
<1>11. CASE Work!WriteFails(r)
  <2>1. Rest(r) /\ task'[r] = Work!NoTask
    BY <1>0, <1>11, Bookkeeping DEF Work!WriteFails
  <2> QED
    BY <1>11, <2>1, KeepStep DEF Work!WriteFails, Work!NoTask, Work!NewTask, Work!NotOnPortal
<1>12. CASE Work!Rename(r) \/ Work!RenameFails(r)
  <2>1. Rest(r) /\ task'[r] = Work!NoTask
    BY <1>0, <1>12 DEF Work!Rename, Work!RenameFails, Rest, Still, Work!Moved, TaskType, Work!Task
  <2> QED
    BY <1>0, <1>12, <2>1, KeepStep DEF Work!Rename, Work!RenameFails, Work!NoTask, Work!NewTask,
       Work!NotOnPortal
<1> QED
  BY <1>1, <1>2, <1>3, <1>4, <1>5, <1>6, <1>7, <1>8, <1>9, <1>10, <1>11, <1>12

\* The steps that bring the figure onto the portal leave every other request behind.
LEMMA KeepArrival ==
  ASSUME Work!KeepInv, TaskType', tmp' # "played", NEW r \in Request, Work!ResetSlot(r) \/ Work!Mark(r) \/ Work!Opens(r)
  PROVE  Work!KeepInv'
<1>0. /\ TaskType /\ task[r] \in Work!Task /\ Work!StagesOfOps /\ Work!FileIsThere
      /\ Work!OvertakenAreBehind
  BY DEF Work!KeepInv, TaskType
<1> USE DEF Work!At
<1>1. ASSUME Work!End(r), Work!NotOnPortal => Work!NotOnPortal', held' => held, UNCHANGED file
      PROVE  Work!KeepInv'
  <2>1. Rest(r) /\ task'[r] = Work!NoTask
    BY <1>0, <1>1, Bookkeeping
  <2> QED
    BY <1>1, <2>1, KeepStep DEF Work!NoTask, Work!NewTask
<1>2. ASSUME NEW mine \in Work!Task, Work!Overtakes(r, mine), file' # "absent",
             mine.pc \in {"idle", "copy", "queued"}, mine.op # "edit",
             mine.op = "load" => mine.pc # "copy"
      PROVE  Work!KeepInv'
  <2>1. task'[r] = mine
    BY <1>2 DEF Work!Overtakes
  <2>2. \A q \in Request \ {r} :
          /\ task'[q].pc = task[q].pc /\ task'[q].op = task[q].op
          /\ task[q].pc # "idle" => task'[q].behind
    BY <1>0, <1>2, LeftBehind DEF Work!Overtakes
  <2>3. Work!StagesOfOps'
    BY <1>0, <1>2, <2>1, <2>2 DEF Work!StagesOfOps
  <2>4. Work!FileIsThere' /\ Work!OvertakenAreBehind'
    BY <1>2, <2>1, <2>2 DEF Work!FileIsThere, Work!OvertakenAreBehind
  <2> QED
    BY <2>3, <2>4 DEF Work!KeepInv, TaskType
<1>3. CASE Work!ResetSlot(r)
  <2>1. Work!NewTask("resetSlot", "copy") \in Work!Task
    BY DEF Work!NewTask, Work!Task, Work!Stages
  <2> QED
    BY <1>2, <1>3, <2>1 DEF Work!ResetSlot, Work!NewTask
<1>4. CASE Work!Mark(r)
  <2>1. /\ [task[r] EXCEPT !.pc = "queued"] \in Work!Task
        /\ [task[r] EXCEPT !.pc = "queued"].pc = "queued"
        /\ [task[r] EXCEPT !.pc = "queued"].op = task[r].op
    BY <1>0 DEF Work!Task, Work!Stages
  <2>2. task[r].op # "edit" /\ file' # "absent"
    BY <1>0, <1>4 DEF Work!Mark, Work!StagesOfOps, Work!FileIsThere
  <2> QED
    BY <1>1, <1>2, <1>4, <2>1, <2>2 DEF Work!Mark, Work!NotOnPortal
<1>5. CASE Work!Opens(r)
  <2>1. Work!NoTask \in Work!Task /\ Work!NoTask.pc = "idle" /\ Work!NoTask.op = "load"
    BY DEF Work!NoTask, Work!NewTask, Work!Task, Work!Stages
  <2>2. file' # "absent"
    BY <1>0, <1>5 DEF Work!Opens, Work!FileIsThere
  <2> QED
    BY <1>1, <1>2, <1>5, <2>1, <2>2 DEF Work!Opens, Work!NotOnPortal
<1> QED
  BY <1>3, <1>4, <1>5

\* Every step keeps it.
LEMMA KeepNext ==
  ASSUME Work!KeepInv, TaskType', tmp' # "played", [Work!Next]_(Work!fileVars)
  PROVE  Work!KeepInv'
<1>0. /\ TaskType /\ Work!StagesOfOps /\ Work!FileIsThere /\ Work!OvertakenAreBehind
  BY DEF Work!KeepInv, TaskType
<1> USE DEF Work!At, Work!NotOnPortal
<1>1. CASE Work!Play \/ Work!Clear \/ UNCHANGED Work!fileVars
  BY <1>0, <1>1 DEF Work!Play, Work!Clear, Work!fileVars, Work!KeepInv, Work!StagesOfOps,
     Work!FileIsThere, Work!OvertakenAreBehind
<1>2. CASE Work!Remove
  <2>1. CASE toy' = "off" /\ held' = FALSE /\ UNCHANGED <<task, file>>
    BY <1>0, <1>2, <2>1 DEF Work!Remove, Work!KeepInv, Work!StagesOfOps, Work!FileIsThere,
       Work!OvertakenAreBehind
  <2>2. CASE task' = [q \in Request |-> Work!Overtaken(q)] /\ UNCHANGED <<held, file>>
    <3>1. \A q \in Request :
            /\ task'[q].pc = task[q].pc /\ task'[q].op = task[q].op
            /\ task[q].pc # "idle" => task'[q].behind
      BY <1>0, <2>2, LeftBehind
    <3>2. Work!StagesOfOps'
      BY <1>0, <3>1 DEF Work!StagesOfOps
    <3>3. Work!FileIsThere' /\ Work!OvertakenAreBehind'
      BY <1>0, <2>2, <3>1 DEF Work!FileIsThere, Work!OvertakenAreBehind
    <3> QED
      BY <2>2, <3>2, <3>3 DEF Work!KeepInv, TaskType
  <2> QED
    BY <1>2, <2>1, <2>2 DEF Work!Remove
<1>3. CASE Work!Crash
  BY <1>0, <1>3 DEF Work!Crash, Work!KeepInv, TaskType, Work!StagesOfOps, Work!FileIsThere,
     Work!OvertakenAreBehind, Work!NoTask, Work!NewTask
<1> QED
  BY <1>1, <1>2, <1>3, KeepQuiet, KeepArrival DEF Work!Next

\* What overwrites progress is one of what the property names.
LEMMA KeepActs ==
  ASSUME Work!KeepInv, TaskType', tmp' # "played", [Work!Next]_(Work!fileVars)
  PROVE  [Work!ProgressIsKeptStep]_(Work!fileVars)
<1> SUFFICES ASSUME Work!LosesProgress PROVE \E r \in Request :
      \/ Work!ResetFigure(r) \/ Work!ResetSlot(r)
      \/ Work!CopyRuns(r) /\ (task[r].behind \/ task[r].op # "load")
      \/ (Work!WriteTmp(r) \/ Work!Rename(r)) /\ (task[r].behind \/ Work!NotOnPortal)
  BY DEF Work!ProgressIsKeptStep
<1>0. Work!StagesOfOps /\ Work!OvertakenAreBehind
  BY DEF Work!KeepInv
<1>1. \/ file = "played" /\ file' # "played"
      \/ held /\ ~held' /\ toy' \in {"on", "clearing"}
  BY DEF Work!LosesProgress
<1>2. ASSUME NEW r \in Request, Work!CopyRuns(r) PROVE task[r].behind \/ task[r].op # "load"
  BY <1>0, <1>1, <1>2 DEF Work!CopyRuns, Work!OvertakenAreBehind, Work!At
<1>3. ASSUME NEW r \in Request, Work!WriteTmp(r) \/ Work!Rename(r)
      PROVE  task[r].behind \/ Work!NotOnPortal
  BY <1>0, <1>3 DEF Work!WriteTmp, Work!Rename, Work!OvertakenAreBehind, Work!StagesOfOps, Work!At
<1>4. ASSUME NEW r \in Request,
             \/ Work!Load(r) \/ Work!Edit(r) \/ Work!Reuse(r) \/ Work!LookAbsent(r)
             \/ Work!CopyEnds(r) \/ Work!Mark(r)
             \/ Work!Opens(r) \/ Work!Read(r) \/ Work!OpenTmp(r) \/ Work!WriteFails(r)
             \/ Work!RenameFails(r)
      PROVE  FALSE
  BY <1>0, <1>1, <1>4
  DEF Work!Load, Work!Edit, Work!Reuse, Work!LookAbsent, Work!CopyEnds, Work!Mark, Work!Opens,
      Work!Read, Work!OpenTmp, Work!WriteFails, Work!RenameFails
<1>5. ~(Work!Play \/ Work!Clear \/ Work!Remove \/ Work!Crash \/ UNCHANGED Work!fileVars)
  BY <1>0, <1>1 DEF Work!Play, Work!Clear, Work!Remove, Work!Crash, Work!fileVars
<1> QED
  BY <1>2, <1>3, <1>4, <1>5 DEF Work!Next

\* Progress that the emulator has written, or may still write, is overwritten by a
\* reset or an edit that was allowed to, or by a request that the figure's arrival on
\* the portal has overtaken, and by nothing else, however the requests overlap.
THEOREM ProgressIsKeptCorrect == Work!Spec => Work!ProgressIsKept
<1>1. TornInv => TaskType
  BY DEF TornInv
<1>2. TaskType' /\ Work!KeepInv /\ [Work!Next]_(Work!fileVars) => Work!KeepInv'
                /\ [Work!ProgressIsKeptStep]_(Work!fileVars)
  BY PlainTmp, KeepNext, KeepActs DEF Work!KeepInv
<1> QED
  BY TornInit, TornNext, KeepInit, <1>1, <1>2, PTL DEF Work!Spec, Work!ProgressIsKept
=============================================================================
