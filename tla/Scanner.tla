------------------------------ MODULE Scanner ------------------------------
(***************************************************************************)
(* The figure scanner: a thread that polls the NFC reader, dumps the tag   *)
(* it finds block by block, writes scanned/<uid>.sky by a plain write and  *)
(* announces the scan; and the start of the server, which makes library    *)
(* cards of the dumps and of the pack. Figures are put on and taken off    *)
(* the reader, the reader is unplugged, and the server dies, at any time.  *)
(***************************************************************************)
EXTENDS Naturals, FiniteSets

CONSTANTS
  Tag,      \* physical figures, by uid
  KindOf,   \* Tag -> its identity (figure id and variant)
  Blocks,   \* blocks of a tag, 64
  NoTag

Kinds == {KindOf[t] : t \in Tag}

VARIABLES
  pad,      \* the figure on the reader
  reader,   \* "closed", "open"
  field,    \* last_field
  dump,     \* where the worker stands, the uid it found, and what it has read
  scanned,  \* Tag -> the dump on disk: "none", "torn", "whole", "mixed"
  pack,     \* identities of the pack's figures
  cards,    \* the tags whose dumps are cards of the library
  known,    \* library_identities
  fresh     \* history: tags put on the pad, or found by a reopened reader,
            \* since they were last announced

scannerVars == <<pad, reader, field, dump, scanned, pack, cards, known, fresh>>

Polling == [pc |-> "poll", uid |-> NoTag, blocks |-> 0, from |-> {}]

Orders == {q \in [1 .. Cardinality(Tag) -> Tag] : \A i, j \in DOMAIN q : i # j => q[i] # q[j]}

\* Mutant of Keep: the identity of a kept dump is not entered in the map.
KeepAll(acc, t) ==
  IF scanned[t] # "whole" \/ KindOf[t] \in acc.known THEN acc
  ELSE [acc EXCEPT !.cards = @ \cup {t}]

\* One dump of the start's merge. An unreadable one is skipped, one that the
\* pack or an earlier dump has already is no card of its own.
Keep(acc, t) ==
  IF scanned[t] \notin {"whole", "mixed"} \/ KindOf[t] \in acc.known THEN acc
  ELSE [cards |-> acc.cards \cup {t}, known |-> acc.known \cup {KindOf[t]}]

Merge(order) ==
  LET merged[n \in 0 .. Cardinality(Tag)] ==
        IF n = 0 THEN [cards |-> {}, known |-> pack] ELSE Keep(merged[n - 1], order[n])
  IN  merged[Cardinality(Tag)]

TypeOK ==
  /\ {pad, field, dump.uid} \subseteq Tag \cup {NoTag}
  /\ reader \in {"closed", "open"}
  /\ dump.pc \in {"poll", "read", "write", "open"} /\ dump.blocks \in 0 .. Blocks
  /\ dump.from \subseteq Tag
  /\ scanned \in [Tag -> {"none", "torn", "whole", "mixed"}]
  /\ pack \subseteq Kinds /\ known \subseteq Kinds
  /\ cards \subseteq Tag /\ fresh \subseteq Tag

Init ==
  /\ pad = NoTag /\ reader = "closed" /\ field = NoTag /\ dump = Polling
  /\ scanned = [t \in Tag |-> "none"]
  /\ pack \in SUBSET Kinds /\ known = pack
  /\ cards = {} /\ fresh = {}

disk == <<scanned, pack, cards, known>>
-----------------------------------------------------------------------------
Place(t) ==
  /\ pad = NoTag
  /\ pad' = t /\ fresh' = fresh \cup {t}
  /\ UNCHANGED <<reader, field, dump, disk>>

Lift ==
  /\ pad # NoTag
  /\ pad' = NoTag
  /\ UNCHANGED <<reader, field, dump, disk, fresh>>

OpenReader ==
  /\ reader = "closed"
  /\ reader' = "open" /\ field' = NoTag
  /\ fresh' = fresh \cup ({pad} \ {NoTag})
  /\ UNCHANGED <<pad, dump, disk>>

\* list_passive_target fails: the reader went away.
ReaderGone ==
  /\ reader = "open" /\ dump.pc = "poll"
  /\ reader' = "closed"
  /\ UNCHANGED <<pad, field, dump, disk, fresh>>

SeeEmptyField ==
  /\ reader = "open" /\ dump.pc = "poll" /\ pad = NoTag
  /\ field' = NoTag
  /\ UNCHANGED <<pad, reader, dump, disk, fresh>>

\* A figure that was in the field at the last poll, too, is left alone.
SeeTag ==
  /\ reader = "open" /\ dump.pc = "poll" /\ pad \notin {NoTag, field}
  /\ dump' = [Polling EXCEPT !.pc = "read", !.uid = pad]
  /\ UNCHANGED <<pad, reader, field, disk, fresh>>

\* Mutant of ReadBlock: the uid is not part of the authentication.
ReadAnyBlock ==
  /\ dump.pc = "read" /\ dump.blocks < Blocks /\ pad # NoTag
  /\ dump' = [dump EXCEPT !.blocks = @ + 1, !.from = @ \cup {pad}]
  /\ UNCHANGED <<pad, reader, field, disk, fresh>>

\* Each block is authenticated for the uid that was found.
ReadBlock ==
  /\ dump.pc = "read" /\ dump.blocks < Blocks /\ pad = dump.uid
  /\ dump' = [dump EXCEPT !.blocks = @ + 1, !.from = @ \cup {pad}]
  /\ UNCHANGED <<pad, reader, field, disk, fresh>>

\* The tap is skipped, and found again at the next poll.
DumpFails ==
  /\ dump.pc = "read"
  /\ dump' = Polling
  /\ UNCHANGED <<pad, reader, field, disk, fresh>>

\* Mutant of DumpDone: the edge is not marked.
DumpDoneUnmarked ==
  /\ dump.pc = "read" /\ dump.blocks = Blocks
  /\ dump' = [dump EXCEPT !.pc = "write"]
  /\ UNCHANGED <<pad, reader, field, disk, fresh>>

DumpDone ==
  /\ dump.pc = "read" /\ dump.blocks = Blocks
  /\ field' = dump.uid
  /\ dump' = [dump EXCEPT !.pc = "write"]
  /\ UNCHANGED <<pad, reader, disk, fresh>>

\* persist_and_broadcast: the write truncates a dump of an earlier tap.
WriteStarts ==
  /\ dump.pc = "write"
  /\ dump' = [dump EXCEPT !.pc = "open"]
  /\ scanned' = [scanned EXCEPT ![dump.uid] = "torn"]
  /\ UNCHANGED <<pad, reader, field, pack, cards, known, fresh>>

\* Written, and announced with is_duplicate == KindOf[uid] \in known.
WriteEnds ==
  /\ dump.pc = "open"
  /\ scanned' = [scanned EXCEPT ![dump.uid] = IF dump.from = {dump.uid} THEN "whole" ELSE "mixed"]
  /\ fresh' = fresh \ {dump.uid}
  /\ dump' = Polling
  /\ UNCHANGED <<pad, reader, field, pack, cards, known>>

\* Not announced, and not tried again before the figure is lifted.
WriteFails ==
  /\ dump.pc \in {"write", "open"}
  /\ dump' = Polling
  /\ UNCHANGED <<pad, reader, field, disk, fresh>>

\* The server dies and starts again: the dumps are merged in the order in which
\* the directory lists them.
Restart(order) ==
  /\ cards' = Merge(order).cards /\ known' = Merge(order).known
  /\ reader' = "closed" /\ field' = NoTag /\ dump' = Polling
  /\ UNCHANGED <<pad, scanned, pack, fresh>>

Next ==
  \/ \E t \in Tag : Place(t)
  \/ Lift \/ OpenReader \/ ReaderGone \/ SeeEmptyField \/ SeeTag
  \/ ReadBlock \/ DumpFails \/ DumpDone \/ WriteStarts \/ WriteEnds \/ WriteFails
  \/ \E order \in Orders : Restart(order)

Spec == Init /\ [][Next]_scannerVars
-----------------------------------------------------------------------------
\* A dump holds one figure, however figures are swapped while it is taken.
DumpIsOfOneFigure == \A t \in Tag : scanned[t] # "mixed"

\* A figure is announced once for each time it is put on the reader or the
\* reader is opened with it there: left on the pad it stays silent.
OnceForEachTapStep == WriteEnds => dump.uid \in fresh
OnceForEachTap == [][OnceForEachTapStep]_scannerVars

\* A figure that is being read has not been announced since it was put down, nor has
\* one on the pad that the next poll will read.
TapIsFresh ==
  /\ dump.pc # "poll" => dump.uid \in fresh
  /\ dump.pc = "read" /\ pad \notin {NoTag, dump.uid} => pad \in fresh
  /\ reader = "open" /\ pad \notin {NoTag, field} => pad \in fresh
  /\ dump.pc \in {"write", "open"} => field = dump.uid
  /\ reader = "closed" => dump.pc = "poll"

\* After a start the library has one card for each identity: the pack's, or that
\* of one tag, whichever the directory lists first.
OneCardForEachKind ==
  /\ \A t, u \in cards : KindOf[t] = KindOf[u] => t = u
  /\ \A t \in cards : KindOf[t] \notin pack
  /\ known = pack \cup {KindOf[t] : t \in cards}
=============================================================================
