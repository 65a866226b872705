----------------------------- MODULE FigureFile -----------------------------
(***************************************************************************)
(* The working copy of one figure over time: edited from a phone, saved to *)
(* by the game through the emulator, reset to the firmware pack. An edit   *)
(* here is one step: what several requests do to each other and to the     *)
(* file is the subject of WorkingCopy.                                     *)
(***************************************************************************)
EXTENDS FigureFormat

CONSTANTS
  Figure,    \* figures there can be: their generation by the catalogue (Unknown
             \* for a scanned one), that of the year in the tag (Unknown if it
             \* has none), and their file in the firmware pack
  GamePools, \* experience a game saves
  NoEdit

VARIABLES
  figure,  \* the figure
  copy,    \* the profile's working copy
  edited   \* what the last edit announced, until the file changes otherwise

figureVars == <<figure, copy, edited>>

TypeOK ==
  /\ figure \in Figure
  /\ copy \in File
  /\ edited \in [gold : Gold, level : Level] \cup {NoEdit}

Init == figure \in Figure /\ copy = figure.pack /\ edited = NoEdit

Edit(level, gold) ==
  /\ level <= MaxLevel(figure.catalogue)
  /\ LET pools == DistributeXp(XpForLevel(level), figure.catalogue)
     IN  copy' = Encrypt(SetXp(SetGold(copy, gold), pools), copy)
  /\ edited' = [gold |-> gold, level |-> level]
  /\ UNCHANGED figure

ResetFigure ==
  /\ copy' = figure.pack
  /\ edited' = NoEdit
  /\ UNCHANGED figure

\* The game switches both regions to the older mirror and bumps both sequences.
GameSaves(pools, gold) ==
  /\ copy' = [a |-> [copy.a EXCEPT ![Target(copy.a)] =
                       [written |-> TRUE, seq |-> Stamped(copy.a).seq,
                        gold |-> gold, xp2011 |-> pools.xp2011]],
              b |-> [copy.b EXCEPT ![Target(copy.b)] =
                       [written |-> TRUE, seq |-> Stamped(copy.b).seq,
                        xp2012 |-> pools.xp2012, xp2013 |-> pools.xp2013]]]
  /\ edited' = NoEdit
  /\ UNCHANGED figure

Next ==
  \/ \E level \in Level, gold \in Gold : Edit(level, gold)
  \/ ResetFigure
  \/ \E pools \in GamePools, gold \in Gold : GameSaves(pools, gold)

Spec == Init /\ [][Next]_figureVars
-----------------------------------------------------------------------------
Written(region) == region[1].written /\ region[2].written

\* The highest level that the pools can hold which the parser counts for a tag of
\* this generation: of a tag without a year it counts the first pool only, though
\* MaxLevel lets its level be set up to 20.
ReadableLevel(gen) ==
  CASE gen \in FirstTwo -> 15
    [] gen \in AllThree -> MAX_LEVEL
    [] OTHER            -> 10

\* What the user sets is what the figure displays once it is read back, whatever
\* games and edits did to the mirrors before and wherever the sequences wrapped:
\* the gold always, and the level as far as the tag's own generation can show it.
\* The catalogue, which chooses the pools that are filled, may hold another
\* generation than the tag or none (scanned figures; files without a year); a
\* level is then cut to what the tag shows and never becomes another one. Left out
\* are figures with a mirror that no game has written: the edit of a figure that
\* is new, or was saved only once, goes into blocks that Encrypt keeps at zero.
EditReadsBack ==
  edited # NoEdit /\ Written(copy.a) /\ Written(copy.b)
    => Parse(copy, figure.tag) = [edited EXCEPT !.level = AtMost(@, ReadableLevel(figure.tag))]

\* Of two written mirrors of a region one is the successor of the other: there is
\* always one to read and one to write.
InOrder(region) ==
  Written(region)
    => Newer(region[1].seq, region[2].seq) \/ Newer(region[2].seq, region[1].seq)
MirrorsInOrder == InOrder(copy.a) /\ InOrder(copy.b)
=============================================================================
