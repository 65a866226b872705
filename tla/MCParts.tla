------------------------------- MODULE MCParts -------------------------------
(***************************************************************************)
(* Instances of the parts for TLC.                                         *)
(***************************************************************************)
EXTENDS Parts, TLC

CONSTANTS a, b, c, call1, call2

\* Two slots, figures with and without an owner, driver calls and re-reads that fail
\* half-way, one request and one clean-up that compete for a channel of one place.
TwoSlots ==
  [SlotCount |-> 2, Figure |-> {c}, Recognised |-> {c}, Profile |-> {a},
   KaosEnabled |-> {}, Request |-> {"request"}, Janitor |-> {"clean-up"}, QueueCap |-> 1,
   MaxRespawns |-> 1, Faults |-> {"load", "clear", "read"}]

\* Kaos swaps one of two figures for the other in a slot that a request also wants.
OneSlot ==
  [SlotCount |-> 1, Figure |-> {"one", "two"}, Recognised |-> {"one"}, Profile |-> {c},
   KaosEnabled |-> {c}, Request |-> {"request"}, Janitor |-> {}, QueueCap |-> 1,
   MaxRespawns |-> 1, Faults |-> {"load"}]

\* Two requests guess at once; a lockout is shorter than the time there is.
TwoGuess ==
  [Attempt |-> {a, b}, LOCKOUT_STRIKES |-> 2, LOCKOUT_DURATION |-> 2, MaxClock |-> 3]

ThreeEnrol == [Creator |-> {a, b, c}, MAX_PROFILES |-> 4]

\* One profile on two devices, one slot.
TwoDevices == [Profile |-> {c}, Session |-> {a, b}, Place |-> {1}]

\* Two requests about one figure, over and over; the launcher may die.
TwoEdits == [Request |-> {a, b}, LetCrash |-> TRUE]

\* A new Giant; a scanned figure, of which the tag knows the generation and the
\* catalogue does not; one of the pack, of which the catalogue knows it and the tag
\* does not; and one of which both do. What counts for their level is the first pool,
\* the first two, the first, or all three.
New == [a |-> [i \in Side |-> BlankA], b |-> [i \in Side |-> BlankB]]
Played ==
  [a |-> [i \in Side |-> [written |-> TRUE, seq |-> i, gold |-> 300, xp2011 |-> 9000]],
   b |-> [i \in Side |-> [written |-> TRUE, seq |-> i, xp2012 |-> 0, xp2013 |-> 0]]]
FourFigures ==
  [Figure |-> {[catalogue |-> "Giants", tag |-> "Giants", pack |-> New],
               [catalogue |-> "Unknown", tag |-> "SwapForce", pack |-> Played],
               [catalogue |-> "TrapTeam", tag |-> "Unknown", pack |-> Played],
               [catalogue |-> "TrapTeam", tag |-> "TrapTeam", pack |-> Played]},
   GamePools |-> {[xp2011 |-> 33000, xp2012 |-> 42700, xp2013 |-> 5]}]

OnWindows == [Platform |-> "windows", MaxKeys |-> 2]

\* Three tags, two of them of the same figure.
ThreeTags ==
  [Tag |-> {a, b, c}, KindOf |-> (a :> "tree" @@ b :> "tree" @@ c :> "rex"), Blocks |-> 2]

\* Looks may fail, and a pause between compile phases be as long as they ride out.
ThreeLooks == [SAMPLE_BUFFER |-> 3, FreezeTicks |-> 3, MaxGap |-> 2, Failing |-> TRUE]

\* A channel of one place: two writers race with two changes; or one has a change, beside
\* two taunts and a server that is started again.
TwoChanges ==
  [Writer |-> {a, b}, Cap |-> 1, ReplayLimit |-> 1, MaxSessions |-> 2, MaxChanges |-> 2,
   MaxTaunts |-> 0, MaxSwitches |-> 1, MaxDrops |-> 1, MaxRestarts |-> 0]
TwoTaunts ==
  [Writer |-> {c}, Cap |-> 1, ReplayLimit |-> 1, MaxSessions |-> 2, MaxChanges |-> 1,
   MaxTaunts |-> 2, MaxSwitches |-> 1, MaxDrops |-> 1, MaxRestarts |-> 1]

\* Two players ask for two things at once over one socket; one player comes back on a
\* second one; and a player plays.
TwoPlayers ==
  [Profile |-> {a, b}, Call |-> {call1, call2}, LastSession |-> 1, WireCap |-> 1, Playing |-> FALSE]
TwoSockets ==
  [Profile |-> {a}, Call |-> {call1}, LastSession |-> 2, WireCap |-> 2, Playing |-> FALSE]
OnePlayer ==
  [Profile |-> {c}, Call |-> {call1}, LastSession |-> 1, WireCap |-> 1, Playing |-> TRUE]

\* A menu's button, and the dialog that resets one of two figures, in ticks of 300 ms.
OneTarget  == [Subject |-> {c}, HOLD |-> 4, LINGER |-> 3, DISMISS |-> 5]
TwoTargets == [Subject |-> {a, b}, HOLD |-> 4, LINGER |-> 3, DISMISS |-> 5]

\* The page's chain, and one more that TRY AGAIN can start beside it.
TwoChains == [Chain |-> {1, 2}, First |-> 1, RETRY_THRESHOLD |-> 3]

Interchangeable == Permutations({a, b}) \cup Permutations({call1, call2})
==============================================================================
