--------------------------- MODULE SessionsProofs ---------------------------
(***************************************************************************)
(* Proofs about the session registry: a seat is never lost or shared, no   *)
(* figure is forgotten, and the registry with its locks and tasks          *)
(* implements Seats.                                                       *)
(***************************************************************************)
EXTENDS Sessions, Integers, FiniteSetTheorems, TLAPS

(***************************************************************************)
(* The registry as a set of entries, and what each of its four changes     *)
(* does to it: one entry is changed, one is added, one replaces the        *)
(* oldest, or some are removed.                                            *)
(***************************************************************************)
Entries == {seats[i] : i \in DOMAIN seats}
OneEach == \A i, k \in DOMAIN seats : seats[i].sid = seats[k].sid => i = k

LEMMA Changed ==
  ASSUME seats \in Seq(Seat), OneEach, NEW i \in DOMAIN seats, NEW e \in Seat,
         e.sid = seats[i].sid, seats' = [seats EXCEPT ![i] = e]
  PROVE  /\ seats' \in Seq(Seat) /\ Len(seats') = Len(seats) /\ OneEach'
         /\ Entries' = (Entries \ {seats[i]}) \cup {e}
<1>1. /\ seats' \in Seq(Seat) /\ Len(seats') = Len(seats) /\ DOMAIN seats' = DOMAIN seats
      /\ \A k \in DOMAIN seats : seats'[k] = IF k = i THEN e ELSE seats[k]
  OBVIOUS
<1>2. OneEach'
  BY <1>1 DEF OneEach
<1>3. Entries' = (Entries \ {seats[i]}) \cup {e}
  BY <1>1 DEF Entries, OneEach
<1>4. QED
  BY <1>1, <1>2, <1>3

LEMMA Added ==
  ASSUME seats \in Seq(Seat), OneEach, NEW e \in Seat, e.sid \notin Ids(seats),
         seats' = Append(seats, e)
  PROVE  /\ seats' \in Seq(Seat) /\ Len(seats') = Len(seats) + 1 /\ OneEach'
         /\ Entries' = Entries \cup {e}
<1>1. /\ seats' \in Seq(Seat) /\ Len(seats') = Len(seats) + 1
      /\ DOMAIN seats' = DOMAIN seats \cup {Len(seats) + 1}
      /\ \A k \in DOMAIN seats : seats'[k] = seats[k]
      /\ seats'[Len(seats) + 1] = e
  OBVIOUS
<1>2. \A k \in DOMAIN seats : seats[k].sid # e.sid
  BY DEF Ids
<1>3. OneEach'
  BY <1>1, <1>2 DEF OneEach
<1>4. Entries' = Entries \cup {e}
  BY <1>1 DEF Entries
<1>5. QED
  BY <1>1, <1>3, <1>4

LEMMA Replaced ==
  ASSUME seats \in Seq(Seat), seats # <<>>, OneEach, NEW e \in Seat, e.sid \notin Ids(seats),
         seats' = Append(Tail(seats), e)
  PROVE  /\ seats' \in Seq(Seat) /\ Len(seats') = Len(seats) /\ OneEach'
         /\ Head(seats) \in Entries
         /\ Entries' = (Entries \ {Head(seats)}) \cup {e}
<1> DEFINE n == Len(seats)
<1>1. /\ seats' \in Seq(Seat) /\ Len(seats') = n /\ n \in Nat \ {0}
      /\ DOMAIN seats = 1 .. n /\ DOMAIN seats' = 1 .. n
      /\ \A k \in 1 .. n - 1 : seats'[k] = seats[k + 1]
      /\ seats'[n] = e /\ Head(seats) = seats[1]
  OBVIOUS
<1>2. \A k \in DOMAIN seats : seats[k].sid # e.sid
  BY DEF Ids
<1> HIDE DEF n
<1>3. OneEach'
  <2> SUFFICES ASSUME NEW i \in 1 .. n, NEW k \in 1 .. n, seats'[i].sid = seats'[k].sid
               PROVE  i = k
    BY <1>1 DEF OneEach
  <2>1. CASE i # n /\ k # n
    <3>1. seats'[i] = seats[i + 1] /\ seats'[k] = seats[k + 1]
          /\ i + 1 \in 1 .. n /\ k + 1 \in 1 .. n
      BY <1>1, <2>1
    <3>2. i + 1 = k + 1
      BY <1>1, <3>1 DEF OneEach
    <3>3. QED
      BY <3>2
  <2>2. CASE i = n /\ k # n
    BY <1>1, <1>2, <2>2
  <2>3. CASE i # n /\ k = n
    BY <1>1, <1>2, <2>3
  <2>4. QED
    BY <2>1, <2>2, <2>3
<1>4. Entries' = (Entries \ {seats[1]}) \cup {e}
  <2>1. ASSUME NEW x \in Entries' PROVE x \in (Entries \ {seats[1]}) \cup {e}
    <3>1. PICK k \in 1 .. n : x = seats'[k]
      BY <1>1 DEF Entries
    <3>2. CASE k = n
      BY <1>1, <3>1, <3>2
    <3>3. CASE k # n
      <4>1. x = seats[k + 1] /\ k + 1 \in 1 .. n /\ k + 1 # 1 /\ 1 \in 1 .. n
        BY <1>1, <3>1, <3>3
      <4>2. QED
        BY <1>1, <4>1 DEF Entries, OneEach
    <3>4. QED
      BY <3>2, <3>3
  <2>2. ASSUME NEW x \in Entries \ {seats[1]} PROVE x \in Entries'
    <3>1. PICK k \in 1 .. n : x = seats[k] /\ k # 1
      BY <1>1, <2>2 DEF Entries
    <3>2. k - 1 \in 1 .. n - 1 /\ k - 1 \in 1 .. n /\ (k - 1) + 1 = k
      BY <1>1, <3>1
    <3>3. seats'[k - 1] = x
      BY <1>1, <3>1, <3>2
    <3>4. QED
      BY <1>1, <3>2, <3>3 DEF Entries
  <2>3. e \in Entries'
    BY <1>1 DEF Entries
  <2>4. QED
    BY <2>1, <2>2, <2>3
<1>5. Head(seats) \in Entries
  BY <1>1 DEF Entries
<1>6. QED
  BY <1>1, <1>3, <1>4, <1>5

LEMMA Removed ==
  ASSUME seats \in Seq(Seat), OneEach, NEW K \in SUBSET DOMAIN seats, seats' \in Kept(K)
  PROVE  /\ seats' \in Seq(Seat) /\ Len(seats') <= Len(seats) /\ OneEach'
         /\ Entries' = {seats[k] : k \in K}
<1> DEFINE m == Cardinality(K)
<1>1. m \in Nat /\ m <= Len(seats)
  <2>1. /\ DOMAIN seats = 1 .. Len(seats) /\ Len(seats) \in Nat
        /\ IsFiniteSet(1 .. Len(seats)) /\ Cardinality(1 .. Len(seats)) = Len(seats)
    <3>1. DOMAIN seats = 1 .. Len(seats) /\ Len(seats) \in Nat /\ 1 \in Int
      OBVIOUS
    <3>2. Len(seats) \in Int
      BY <3>1
    <3>3. /\ IsFiniteSet(1 .. Len(seats))
          /\ Cardinality(1 .. Len(seats)) = IF 1 > Len(seats) THEN 0 ELSE Len(seats) - 1 + 1
      BY <3>1, <3>2, FS_Interval, Zenon
    <3>4. QED
      BY <3>1, <3>3
  <2>2. IsFiniteSet(K) /\ m <= Len(seats)
    BY <2>1, FS_Subset
  <2>3. QED
    BY <2>2, FS_CardinalityType
<1>2. PICK q \in InOrder(K) : seats' = [i \in DOMAIN q |-> seats[q[i]]]
  BY DEF Kept
<1> HIDE DEF m
<1>3. /\ q \in [1 .. m -> K]
      /\ \A i, k \in 1 .. m : i < k => q[i] < q[k]
      /\ \A k \in K : \E i \in 1 .. m : q[i] = k
  BY DEF InOrder, m
<1>4. /\ DOMAIN seats' = 1 .. m /\ seats' = [i \in 1 .. m |-> seats[q[i]]]
      /\ \A i \in 1 .. m : seats'[i] = seats[q[i]] /\ seats'[i] \in Seat
  BY <1>2, <1>3
<1>5. seats' \in Seq(Seat) /\ Len(seats') = m
  BY <1>1, <1>4
<1>6. \A i, k \in 1 .. m : q[i] = q[k] => i = k
  <2>1. \A i \in 1 .. m : q[i] \in Nat
    BY <1>3
  <2>2. ASSUME NEW i \in 1 .. m, NEW k \in 1 .. m, q[i] = q[k] PROVE i = k
    <3>1. q[i] \in Nat /\ ~(i < k) /\ ~(k < i)
      BY <1>3, <2>1, <2>2
    <3>2. QED
      BY <1>1, <3>1
  <2>3. QED
    BY <2>2
<1>7. OneEach'
  BY <1>3, <1>4, <1>6 DEF OneEach
<1>8. Entries' = {seats[k] : k \in K}
  BY <1>3, <1>4 DEF Entries
<1>9. QED
  BY <1>1, <1>5, <1>7, <1>8
-----------------------------------------------------------------------------
(***************************************************************************)
(* Who has an entry, who of them is live, and who serves whom: all that    *)
(* SeatsAreHeld speaks of.                                                 *)
(***************************************************************************)
Live == {e.sid : e \in {x \in Entries : x.mode = "live"}}

Sole == \A c, d \in Holding : ws[c].sid = ws[d].sid => c = d
Served ==
  /\ \A x \in Ids(seats) : x \in Live <=> \E c \in Holding : ws[c].sid = x
  /\ \A x \in Ids(seats) : ws[x].sid = x
Names ==
  /\ \A c \in Conn : ws[c].pc \in {"new", "register"} => ws[c].sid = NoSession
  /\ \A c \in Holding : ws[c].sid # NoSession
  /\ \A c \in Conn : ws[c].sid # NoSession => ws[ws[c].sid].sid = ws[c].sid

LEMMA IdsAreEntries ==
  /\ Ids(seats) = {e.sid : e \in Entries}
  /\ Ids(seats)' = {e.sid : e \in Entries'}
  /\ \A p : Seated(p) <=> \E e \in Entries : e.profile = p
  /\ \A p : Seated(p)' <=> \E e \in Entries' : e.profile = p
BY DEF Ids, Entries, Seated

LEMMA LiveIs ==
  /\ OneEach => \A i \in DOMAIN seats : seats[i].sid \in Live <=> seats[i].mode = "live"
  /\ OneEach' => \A i \in DOMAIN seats' : seats'[i].sid \in Live' <=> seats'[i].mode = "live"
<1>1. ASSUME OneEach, NEW i \in DOMAIN seats
      PROVE  seats[i].sid \in Live <=> seats[i].mode = "live"
  BY <1>1 DEF Live, Entries, OneEach
<1>2. ASSUME OneEach', NEW i \in DOMAIN seats'
      PROVE  seats'[i].sid \in Live' <=> seats'[i].mode = "live"
  BY <1>2 DEF Live, Entries, OneEach
<1>3. QED
  BY <1>1, <1>2

LEMMA HeldMeans ==
  /\ SeatsAreHeld /\ Minted => OneEach /\ Sole /\ Served /\ Names
  /\ OneEach' /\ Sole' /\ Served' /\ Names' => SeatsAreHeld' /\ Minted'
<1>1. ASSUME SeatsAreHeld, Minted PROVE OneEach /\ Sole /\ Served /\ Names
  <2>1. OneEach /\ Sole /\ Names
    BY <1>1 DEF SeatsAreHeld, Minted, OneEach, Sole, Names
  <2>2. Served
    BY <1>1, <2>1, LiveIs DEF SeatsAreHeld, Minted, Served, Ids
  <2>3. QED
    BY <2>1, <2>2
<1>2. ASSUME OneEach', Sole', Served', Names' PROVE SeatsAreHeld' /\ Minted'
  <2>1. \A i \in DOMAIN seats' : seats'[i].sid \in Ids(seats)'
    BY DEF Ids
  <2>2. \A i \in DOMAIN seats' :
          (seats'[i].mode = "live") <=> \E c \in Holding' : ws'[c].sid = seats'[i].sid
    BY <1>2, <2>1, LiveIs DEF Served
  <2>3. SeatsAreHeld'
    BY <1>2, <2>2 DEF SeatsAreHeld, OneEach, Sole
  <2>4. Minted'
    BY <1>2, <2>1 DEF Minted, Names, Served
  <2>5. QED
    BY <2>3, <2>4
<1>3. QED
  BY <1>1, <1>2

LEMMA IdsAreConns ==
  ASSUME seats \in Seq(Seat)
  PROVE  Ids(seats) \subseteq Conn
<1>1. \A i \in DOMAIN seats : seats[i] \in Seat
  OBVIOUS
<1>2. \A i \in DOMAIN seats : seats[i].sid \in Conn
  BY <1>1 DEF Seat
<1>3. QED
  BY <1>2 DEF Ids

LEMMA AtIs ==
  ASSUME NEW sid \in Ids(seats), seats \in Seq(Seat)
  PROVE  At(sid) \in DOMAIN seats /\ seats[At(sid)].sid = sid
<1>1. \E i \in DOMAIN seats : seats[i].sid = sid
  BY DEF Ids
<1>2. QED
  BY <1>1 DEF At
-----------------------------------------------------------------------------
(***************************************************************************)
(* What the operations do to the registry, seen in this way.               *)
(***************************************************************************)
\* The names of those who stay, their modes and their profiles are as they were.
LEMMA ModeSet ==
  ASSUME seats \in Seq(Seat), OneEach, NEW i \in DOMAIN seats,
         NEW m \in {"live", "ghost", "stale"}, seats' = [seats EXCEPT ![i].mode = m]
  PROVE  /\ seats' \in Seq(Seat) /\ Len(seats') = Len(seats) /\ OneEach'
         /\ Ids(seats)' = Ids(seats)
         /\ Live' = (Live \ {seats[i].sid}) \cup (IF m = "live" THEN {seats[i].sid} ELSE {})
         /\ \A p : Seated(p)' <=> Seated(p)
<1> DEFINE e == [seats[i] EXCEPT !.mode = m]
<1>0. seats[i] \in Seat /\ seats[i] \in Entries
  BY DEF Entries
<1>1. e \in Seat /\ e.sid = seats[i].sid /\ e.mode = m /\ e.profile = seats[i].profile
  BY <1>0 DEF Seat
<1>2. seats' = [seats EXCEPT ![i] = e]
  OBVIOUS
<1> HIDE DEF e
<1>3. /\ seats' \in Seq(Seat) /\ Len(seats') = Len(seats) /\ OneEach'
      /\ Entries' = (Entries \ {seats[i]}) \cup {e}
  BY <1>1, <1>2, Changed
<1>4. \A x \in Entries : x.sid = seats[i].sid => x = seats[i]
  BY DEF Entries, OneEach
<1>5. Ids(seats)' = Ids(seats) /\ \A p : Seated(p)' <=> Seated(p)
  <2>1. {x.sid : x \in (Entries \ {seats[i]}) \cup {e}} = {x.sid : x \in Entries}
    BY <1>0, <1>1
  <2>2. \A p : (\E x \in (Entries \ {seats[i]}) \cup {e} : x.profile = p)
                <=> (\E x \in Entries : x.profile = p)
    BY <1>0, <1>1
  <2>3. QED
    BY <1>3, <2>1, <2>2, IdsAreEntries
<1>6. Live' = (Live \ {seats[i].sid}) \cup (IF m = "live" THEN {seats[i].sid} ELSE {})
  BY <1>0, <1>1, <1>3, <1>4 DEF Live
<1>7. QED
  BY <1>3, <1>5, <1>6

LEMMA ProfileSet ==
  ASSUME seats \in Seq(Seat), OneEach, NEW i \in DOMAIN seats, NEW p \in Owner,
         seats' = [seats EXCEPT ![i].profile = p]
  PROVE  /\ seats' \in Seq(Seat) /\ Len(seats') = Len(seats) /\ OneEach'
         /\ Ids(seats)' = Ids(seats) /\ Live' = Live /\ Seated(p)'
         /\ \A q : Seated(q) /\ q # seats[i].profile => Seated(q)'
<1> DEFINE e == [seats[i] EXCEPT !.profile = p]
<1>0. seats[i] \in Seat /\ seats[i] \in Entries
  BY DEF Entries
<1>1. e \in Seat /\ e.sid = seats[i].sid /\ e.mode = seats[i].mode /\ e.profile = p
  BY <1>0 DEF Seat
<1>2. seats' = [seats EXCEPT ![i] = e]
  OBVIOUS
<1> HIDE DEF e
<1>3. /\ seats' \in Seq(Seat) /\ Len(seats') = Len(seats) /\ OneEach'
      /\ Entries' = (Entries \ {seats[i]}) \cup {e}
  BY <1>1, <1>2, Changed
<1>4. Ids(seats)' = Ids(seats)
  <2>1. {x.sid : x \in (Entries \ {seats[i]}) \cup {e}} = {x.sid : x \in Entries}
    BY <1>0, <1>1
  <2>2. QED
    BY <1>3, <2>1, IdsAreEntries
<1>5. Live' = Live
  BY <1>0, <1>1, <1>3 DEF Live
<1>6. Seated(p)' /\ \A q : Seated(q) /\ q # seats[i].profile => Seated(q)'
  BY <1>0, <1>1, <1>3, IdsAreEntries
<1>7. QED
  BY <1>3, <1>4, <1>5, <1>6
LEMMA NewOneAdded ==
  ASSUME SessionsAssumption, seats \in Seq(Seat), OneEach, NEW c \in Conn, c \notin Ids(seats),
         seats' = Append(seats, NewSeat(c))
  PROVE  /\ seats' \in Seq(Seat) /\ Len(seats') = Len(seats) + 1 /\ OneEach'
         /\ Ids(seats)' = Ids(seats) \cup {c} /\ Live' = Live \cup {c}
         /\ \A p : Seated(p) => Seated(p)'
<1>1. NewSeat(c) \in Seat /\ NewSeat(c).sid = c /\ NewSeat(c).mode = "live"
  BY DEF NewSeat, Seat, Owner
<1>2. /\ seats' \in Seq(Seat) /\ Len(seats') = Len(seats) + 1 /\ OneEach'
      /\ Entries' = Entries \cup {NewSeat(c)}
  BY <1>1, Added
<1>3. Ids(seats)' = Ids(seats) \cup {c} /\ Live' = Live \cup {c}
  BY <1>1, <1>2, IdsAreEntries DEF Live
<1>4. \A p : Seated(p) => Seated(p)'
  BY <1>2, IdsAreEntries
<1>5. QED
  BY <1>2, <1>3, <1>4

LEMMA OldestReplaced ==
  ASSUME SessionsAssumption, seats \in Seq(Seat), seats # <<>>, OneEach,
         NEW c \in Conn, c \notin Ids(seats), seats' = Append(Tail(seats), NewSeat(c))
  PROVE  /\ seats' \in Seq(Seat) /\ Len(seats') = Len(seats) /\ OneEach'
         /\ Head(seats) \in Seat /\ Head(seats).sid \in Ids(seats)
         /\ Ids(seats)' = (Ids(seats) \ {Head(seats).sid}) \cup {c}
         /\ Live' = (Live \ {Head(seats).sid}) \cup {c}
         /\ \A p : Seated(p) /\ p # Head(seats).profile => Seated(p)'
<1> DEFINE out == Head(seats)
<1>1. NewSeat(c) \in Seat /\ NewSeat(c).sid = c /\ NewSeat(c).mode = "live"
  BY DEF NewSeat, Seat, Owner
<1>2. /\ seats' \in Seq(Seat) /\ Len(seats') = Len(seats) /\ OneEach'
      /\ out \in Entries /\ Entries' = (Entries \ {out}) \cup {NewSeat(c)}
  BY <1>1, Replaced
<1>3. out \in Seat
  BY <1>2 DEF Entries
<1> HIDE DEF out
<1>4. \A x \in Entries : x.sid = out.sid => x = out
  BY <1>2 DEF Entries, OneEach
<1>5. out.sid \in Ids(seats)
  BY <1>2, IdsAreEntries
<1>6. Ids(seats)' = (Ids(seats) \ {out.sid}) \cup {c}
  <2>1. {x.sid : x \in Entries \ {out}} = {x.sid : x \in Entries} \ {out.sid}
    BY <1>2, <1>4
  <2>2. {x.sid : x \in (Entries \ {out}) \cup {NewSeat(c)}}
          = {x.sid : x \in Entries \ {out}} \cup {c}
    BY <1>1
  <2>3. QED
    BY <1>2, <2>1, <2>2, IdsAreEntries
<1>7. Live' = (Live \ {out.sid}) \cup {c}
  BY <1>1, <1>2, <1>4 DEF Live
<1>8. \A p : Seated(p) /\ p # out.profile => Seated(p)'
  BY <1>2, IdsAreEntries
<1>9. QED
  BY <1>2, <1>3, <1>5, <1>6, <1>7, <1>8 DEF out

\* Of those at K: who else is live, and who else has a profile, is gone.
LEMMA OnlyKept ==
  ASSUME seats \in Seq(Seat), OneEach, NEW K \in SUBSET DOMAIN seats, seats' \in Kept(K)
  PROVE  /\ seats' \in Seq(Seat) /\ Len(seats') <= Len(seats) /\ OneEach'
         /\ Ids(seats)' = {seats[k].sid : k \in K}
         /\ Ids(seats)' \subseteq Ids(seats)
         /\ Live' = Live \cap Ids(seats)'
         /\ \A p : Seated(p)' <=> \E k \in K : seats[k].profile = p
<1>1. /\ seats' \in Seq(Seat) /\ Len(seats') <= Len(seats) /\ OneEach'
      /\ Entries' = {seats[k] : k \in K}
  BY Removed
<1>2. Ids(seats)' = {seats[k].sid : k \in K}
  BY <1>1, IdsAreEntries
<1>3. Ids(seats)' \subseteq Ids(seats)
  BY <1>2 DEF Ids
<1>4. Live' = Live \cap Ids(seats)'
  <2>1. ASSUME NEW x \in Live' PROVE x \in Live \cap Ids(seats)'
    <3>1. PICK k \in K : x = seats[k].sid /\ seats[k].mode = "live"
      BY <1>1 DEF Live
    <3>2. QED
      BY <1>2, <3>1, LiveIs
  <2>2. ASSUME NEW x \in Live \cap Ids(seats)' PROVE x \in Live'
    <3>1. PICK k \in K : x = seats[k].sid
      BY <1>2
    <3>2. seats[k].mode = "live"
      BY <3>1, LiveIs
    <3>3. QED
      BY <1>1, <3>1, <3>2 DEF Live
  <2>3. QED
    BY <2>1, <2>2
<1>5. \A p : Seated(p)' <=> \E k \in K : seats[k].profile = p
  BY <1>1, IdsAreEntries
<1>6. QED
  BY <1>1, <1>2, <1>3, <1>4, <1>5
-----------------------------------------------------------------------------
(***************************************************************************)
(* Three kinds of steps keep a seat from being lost or shared: a task      *)
(* takes over a seat that nobody serves, a task lets its session go, and   *)
(* the rest, which leave the tasks with their sessions.                    *)
(***************************************************************************)
LEMMA TakesOver ==
  ASSUME SessionsAssumption, SeatsInv, TypeOK', NEW c \in Conn, NEW sid \in Conn,
         ws[c].pc \in {"new", "register"},
         \A d \in Conn \ {c} : ws'[d] = ws[d],
         ws'[c].sid = sid, ws'[c].pc \in {"handshake", "stamp"},
         sid = c \/ sid \in Ids(seats) \ Live,
         OneEach', sid \in Ids(seats)', sid \in Live',
         Ids(seats)' \subseteq Ids(seats) \cup {sid},
         \A x \in Ids(seats)' \ {sid} : x \in Live' <=> x \in Live
  PROVE  SeatsAreHeld' /\ Minted'
<1>1. Sole /\ Served /\ Names
  BY HeldMeans DEF SeatsInv
<1>2. ws[c].sid = NoSession /\ NoSession # sid /\ NoSession # c
  BY <1>1 DEF Names, SessionsAssumption
<1>3. c \notin Holding /\ Holding' = Holding \cup {c}
  BY DEF Holding, Tasks
<1>4. ASSUME NEW d \in Holding PROVE d \in Conn /\ d # c /\ ws[d].sid # sid /\ ws'[d] = ws[d]
  <2>1. d \in Conn /\ d # c /\ ws'[d] = ws[d]
    BY <1>3 DEF Holding, Tasks
  <2>2. ws[d].sid # sid
    BY <1>1, <1>2, <2>1 DEF Served, Names
  <2>3. QED
    BY <2>1, <2>2
<1>5. Sole'
  BY <1>1, <1>3, <1>4 DEF Sole
<1>6. ASSUME NEW x \in Ids(seats)' PROVE ws'[x].sid = x
  <2>1. CASE x = c
    BY <1>1, <1>2, <2>1 DEF Served
  <2>2. CASE x # c
    <3>1. x \in Ids(seats)
      BY <2>2
    <3>2. x \in Conn
      BY <3>1, IdsAreConns DEF SeatsInv, TypeOK
    <3>3. QED
      BY <1>1, <2>2, <3>1, <3>2 DEF Served
  <2>3. QED
    BY <2>1, <2>2
<1>7. ASSUME NEW x \in Ids(seats)' PROVE x \in Live' <=> \E d \in Holding' : ws'[d].sid = x
  <2>1. CASE x = sid
    BY <1>3, <2>1
  <2>2. CASE x # sid
    BY <1>1, <1>3, <1>4, <2>2 DEF Served
  <2>3. QED
    BY <2>1, <2>2
<1>8. Served'
  BY <1>6, <1>7 DEF Served
<1>9. Names'
  <2>1. \A d \in Conn : ws'[d].pc \in {"new", "register"} => ws'[d].sid = NoSession
    BY <1>1 DEF Names
  <2>2. \A d \in Holding' : ws'[d].sid # NoSession
    BY <1>1, <1>2, <1>3, <1>4 DEF Names
  <2>3. ASSUME NEW d \in Conn, ws'[d].sid # NoSession PROVE ws'[ws'[d].sid].sid = ws'[d].sid
    <3>1. CASE d = c
      BY <1>6, <3>1
    <3>2. CASE d # c
      <4>1. ws'[d] = ws[d] /\ ws[d].sid \in Conn
        BY <2>3, <3>2 DEF SeatsInv, TypeOK, Ws
      <4>2. ws[ws[d].sid].sid = ws[d].sid /\ ws[d].sid # c
        BY <1>1, <1>2, <2>3, <4>1 DEF Names
      <4>3. QED
        BY <4>1, <4>2
    <3>3. QED
      BY <3>1, <3>2
  <2>4. QED
    BY <2>1, <2>2, <2>3 DEF Names
<1>10. QED
  BY <1>5, <1>8, <1>9, HeldMeans

LEMMA LetsGo ==
  ASSUME SeatsInv, TypeOK', NEW c \in Conn, ws[c].pc \in {"ghosting", "removing"},
         ws' = [ws EXCEPT ![c].pc = "done"],
         OneEach', Ids(seats)' \subseteq Ids(seats),
         Live' = (Live \cap Ids(seats)') \ {ws[c].sid}
  PROVE  SeatsAreHeld' /\ Minted'
<1>1. Sole /\ Served /\ Names
  BY HeldMeans DEF SeatsInv
<1>2. /\ \A d \in Conn : ws'[d].sid = ws[d].sid /\ (d # c => ws'[d] = ws[d])
      /\ ws'[c].pc = "done"
  BY DEF SeatsInv, TypeOK, Ws
<1>3. c \in Holding /\ Holding' = Holding \ {c} /\ Holding \subseteq Conn
  BY <1>2 DEF Holding, Tasks
<1>4. Sole'
  BY <1>1, <1>2, <1>3 DEF Sole
<1>5. \A x \in Ids(seats) : x \in Conn
  BY IdsAreConns DEF SeatsInv, TypeOK
<1>6. Served'
  <2>1. ASSUME NEW x \in Ids(seats)' PROVE x \in Live' <=> \E d \in Holding' : ws'[d].sid = x
    BY <1>1, <1>2, <1>3 DEF Served, Sole
  <2>2. ASSUME NEW x \in Ids(seats)' PROVE ws'[x].sid = x
    BY <1>1, <1>2, <1>5 DEF Served
  <2>3. QED
    BY <2>1, <2>2 DEF Served
<1>7. Names'
  <2>1. \A d \in Conn : ws[d].sid # NoSession => ws[d].sid \in Conn
    BY DEF SeatsInv, TypeOK, Ws
  <2>2. \A d \in Conn : ws'[d].sid # NoSession => ws'[ws'[d].sid].sid = ws'[d].sid
    BY <1>1, <1>2, <2>1 DEF Names
  <2>3. \A d \in Conn : ws'[d].pc \in {"new", "register"} => ws'[d].sid = NoSession
    BY <1>1, <1>2 DEF Names
  <2>4. \A d \in Holding' : ws'[d].sid # NoSession
    BY <1>1, <1>2, <1>3 DEF Names
  <2>5. QED
    BY <2>2, <2>3, <2>4 DEF Names
<1>8. QED
  BY <1>4, <1>6, <1>7, HeldMeans

LEMMA StaysOn ==
  ASSUME SeatsInv, TypeOK',
         \A d \in Conn :
           /\ ws'[d].sid = ws[d].sid
           /\ ws'[d].pc \in {"new", "register"} => ws[d].pc \in {"new", "register"},
         Holding' = Holding,
         OneEach', Ids(seats)' \subseteq Ids(seats), Live' = Live \cap Ids(seats)'
  PROVE  SeatsAreHeld' /\ Minted'
<1>1. Sole /\ Served /\ Names
  BY HeldMeans DEF SeatsInv
<1>2. Holding \subseteq Conn /\ \A x \in Ids(seats) : x \in Conn
  BY IdsAreConns DEF Holding, Tasks, SeatsInv, TypeOK
<1>3. Sole'
  BY <1>1, <1>2 DEF Sole
<1>4. Served'
  BY <1>1, <1>2 DEF Served
<1>5. Names'
  <2>1. \A d \in Conn : ws[d].sid # NoSession => ws[d].sid \in Conn
    BY DEF SeatsInv, TypeOK, Ws
  <2>2. QED
    BY <1>1, <1>2, <2>1 DEF Names
<1>6. QED
  BY <1>3, <1>4, <1>5, HeldMeans
-----------------------------------------------------------------------------
(***************************************************************************)
(* What each operation that touches the registry does.                     *)
(***************************************************************************)
LEMMA NameIsNew ==
  ASSUME SessionsAssumption, SeatsInv, NEW c \in Conn, ws[c].pc \in {"new", "register"}
  PROVE  ws[c].sid = NoSession /\ c \notin Ids(seats)
BY HeldMeans DEF SeatsInv, Served, Names, SessionsAssumption

LEMMA LiveAreIds == Live \subseteq Ids(seats) /\ Live' \subseteq Ids(seats)'
BY IdsAreEntries DEF Live

LEMMA ClaimGhostDoes ==
  ASSUME SessionsAssumption, SeatsInv, NEW c \in Conn, NEW p \in Profile, ClaimGhost(c, p)
  PROVE  /\ TypeOK' /\ OneEach' /\ Ids(seats)' = Ids(seats)
         /\ \A q : Seated(q)' <=> Seated(q)
         /\ \E sid \in Ids(seats) \ Live :
              /\ Live' = Live \cup {sid}
              /\ ws' = [ws EXCEPT ![c].pc = "handshake", ![c].sid = sid]
<1>1. PICK i \in Claimable(p) :
        /\ seats' = [seats EXCEPT ![i].mode = "live"]
        /\ ws' = [ws EXCEPT ![c].pc = "handshake", ![c].sid = seats[i].sid]
  BY DEF ClaimGhost
<1>2. i \in DOMAIN seats /\ seats[i].mode # "live"
  BY DEF Claimable
<1>3. OneEach /\ seats \in Seq(Seat) /\ Len(seats) <= MaxSessions
  BY HeldMeans DEF SeatsInv, TypeOK
<1>4. seats[i].sid \in Ids(seats) \ Live
  BY <1>2, <1>3, LiveIs DEF Ids
<1>5. /\ seats' \in Seq(Seat) /\ Len(seats') = Len(seats) /\ OneEach'
      /\ Ids(seats)' = Ids(seats) /\ Live' = Live \cup {seats[i].sid}
      /\ \A q : Seated(q)' <=> Seated(q)
  BY <1>1, <1>2, <1>3, <1>4, ModeSet
<1>6. seats[i].sid \in Conn
  BY <1>3, <1>4, IdsAreConns
<1>7. ws' \in [Conn -> Ws]
  BY <1>1, <1>6 DEF SeatsInv, TypeOK, Ws, Stages
<1>8. TypeOK'
  BY <1>3, <1>5, <1>7 DEF SeatsInv, TypeOK, ClaimGhost
<1>9. QED
  BY <1>1, <1>4, <1>5, <1>8

LEMMA AdmitDoes ==
  ASSUME SessionsAssumption, SeatsInv, NEW c \in Conn, Admit(c)
  PROVE  /\ TypeOK' /\ OneEach' /\ c \notin Ids(seats)
         /\ Ids(seats)' = Ids(seats) \cup {c} /\ Live' = Live \cup {c}
         /\ \A q : Seated(q) => Seated(q)'
<1>1. OneEach /\ seats \in Seq(Seat) /\ Len(seats) \in Nat /\ MaxSessions \in Nat
  BY HeldMeans DEF SeatsInv, TypeOK, SessionsAssumption
<1>2. c \notin Ids(seats)
  BY NameIsNew DEF Admit
<1>3. /\ seats' \in Seq(Seat) /\ Len(seats') = Len(seats) + 1 /\ OneEach'
      /\ Ids(seats)' = Ids(seats) \cup {c} /\ Live' = Live \cup {c}
      /\ \A q : Seated(q) => Seated(q)'
  BY <1>1, <1>2, NewOneAdded DEF Admit
<1>4. ws' \in [Conn -> Ws]
  BY DEF SeatsInv, TypeOK, Ws, Stages, Admit
<1>5. TypeOK'
  BY <1>1, <1>3, <1>4 DEF SeatsInv, TypeOK, Admit
<1>6. QED
  BY <1>2, <1>3, <1>5

LEMMA AdmitByEvictingDoes ==
  ASSUME SessionsAssumption, SeatsInv, NEW c \in Conn, AdmitByEvicting(c)
  PROVE  /\ TypeOK' /\ OneEach' /\ c \notin Ids(seats)
         /\ Len(seats) = MaxSessions
         /\ Head(seats) \in Seat /\ Head(seats).sid \in Ids(seats)
         /\ Ids(seats)' = (Ids(seats) \ {Head(seats).sid}) \cup {c}
         /\ Live' = (Live \ {Head(seats).sid}) \cup {c}
         /\ \A q : Seated(q) /\ q # Head(seats).profile => Seated(q)'
<1>1. /\ OneEach /\ seats \in Seq(Seat) /\ Len(seats) <= MaxSessions
      /\ MaxSessions \in Nat \ {0}
  BY HeldMeans DEF SeatsInv, TypeOK, SessionsAssumption
<1>2. c \notin Ids(seats)
  BY NameIsNew DEF AdmitByEvicting
<1>3. Len(seats) = MaxSessions /\ seats # <<>>
  BY <1>1 DEF AdmitByEvicting
<1>4. seats' = Append(Tail(seats), NewSeat(c))
  BY DEF AdmitByEvicting
<1>5. /\ seats' \in Seq(Seat) /\ Len(seats') = Len(seats) /\ OneEach'
      /\ Head(seats) \in Seat /\ Head(seats).sid \in Ids(seats)
      /\ Ids(seats)' = (Ids(seats) \ {Head(seats).sid}) \cup {c}
      /\ Live' = (Live \ {Head(seats).sid}) \cup {c}
      /\ \A q : Seated(q) /\ q # Head(seats).profile => Seated(q)'
  BY <1>1, <1>2, <1>3, <1>4, OldestReplaced
<1>6. Head(seats).profile \in Owner
  BY <1>5 DEF Seat
<1>7. ws' \in [Conn -> Ws]
  BY <1>6 DEF SeatsInv, TypeOK, Ws, Stages, AdmitByEvicting, Owner
<1>8. walkedOff' \subseteq Profile
  BY <1>6 DEF SeatsInv, TypeOK, AdmitByEvicting, Owner
<1>9. TypeOK'
  BY <1>1, <1>5, <1>7, <1>8 DEF SeatsInv, TypeOK, AdmitByEvicting
<1>10. QED
  BY <1>2, <1>3, <1>5, <1>9

LEMMA GhostSessionDoes ==
  ASSUME SessionsAssumption, SeatsInv, NEW c \in Conn, GhostSession(c)
  PROVE  /\ TypeOK' /\ OneEach' /\ Ids(seats)' = Ids(seats)
         /\ Live' = Live \ {ws[c].sid}
         /\ \A q : Seated(q)' <=> Seated(q)
<1>1. OneEach /\ seats \in Seq(Seat) /\ Len(seats) <= MaxSessions
  BY HeldMeans DEF SeatsInv, TypeOK
<1>2. /\ seats' \in Seq(Seat) /\ Len(seats') = Len(seats) /\ OneEach'
      /\ Ids(seats)' = Ids(seats) /\ Live' = Live \ {ws[c].sid}
      /\ \A q : Seated(q)' <=> Seated(q)
  <2>1. CASE ws[c].sid \in Ids(seats)
    <3>1. At(ws[c].sid) \in DOMAIN seats /\ seats[At(ws[c].sid)].sid = ws[c].sid
      BY <1>1, <2>1, AtIs
    <3>2. seats' = [seats EXCEPT ![At(ws[c].sid)].mode = "ghost"]
      BY <2>1 DEF GhostSession
    <3>3. QED
      BY <1>1, <3>1, <3>2, ModeSet
  <2>2. CASE ws[c].sid \notin Ids(seats)
    <3>1. seats' = seats
      BY <2>2 DEF GhostSession
    <3>2. Live' = Live /\ Live \subseteq Ids(seats)
      BY <3>1, LiveAreIds DEF Live, Entries
    <3>3. QED
      BY <1>1, <2>2, <3>1, <3>2 DEF OneEach, Ids, Seated
  <2>3. QED
    BY <2>1, <2>2
<1>3. ws' \in [Conn -> Ws]
  BY DEF SeatsInv, TypeOK, Ws, Stages, GhostSession, Goto
<1>4. TypeOK'
  BY <1>1, <1>2, <1>3 DEF SeatsInv, TypeOK, GhostSession
<1>5. QED
  BY <1>2, <1>4

LEMMA ProfileIs ==
  ASSUME SeatsInv, NEW sid, NEW i \in DOMAIN seats, seats[i].sid = sid
  PROVE  ProfileOf(sid) = seats[i].profile
<1>1. OneEach /\ seats \in Seq(Seat) /\ sid \in Ids(seats)
  BY HeldMeans DEF SeatsInv, TypeOK, Ids
<1>2. At(sid) \in DOMAIN seats /\ seats[At(sid)].sid = sid
  BY <1>1, AtIs
<1>3. At(sid) = i
  BY <1>1, <1>2 DEF OneEach
<1>4. QED
  BY <1>1, <1>3 DEF ProfileOf

LEMMA ProfileOfType ==
  ASSUME SeatsInv, NEW sid PROVE ProfileOf(sid) \in Owner
<1>1. seats \in Seq(Seat)
  BY DEF SeatsInv, TypeOK
<1>2. CASE sid \in Ids(seats)
  <2>1. At(sid) \in DOMAIN seats
    BY <1>1, <1>2, AtIs
  <2>2. seats[At(sid)] \in Seat
    BY <1>1, <2>1
  <2>3. QED
    BY <1>2, <2>2 DEF ProfileOf, Seat
<1>3. CASE sid \notin Ids(seats)
  BY <1>3 DEF ProfileOf, Owner
<1>4. QED
  BY <1>2, <1>3

LEMMA RemoveSessionDoes ==
  ASSUME SessionsAssumption, SeatsInv, NEW c \in Conn, RemoveSession(c)
  PROVE  /\ TypeOK' /\ OneEach'
         /\ Ids(seats)' = Ids(seats) \ {ws[c].sid} /\ Live' = Live \ {ws[c].sid}
         /\ \A q : Seated(q) /\ q # ProfileOf(ws[c].sid) => Seated(q)'
<1> DEFINE sid == ws[c].sid
           K == {i \in DOMAIN seats : seats[i].sid # sid}
<1>1. OneEach /\ seats \in Seq(Seat) /\ Len(seats) <= MaxSessions /\ MaxSessions \in Nat
  BY HeldMeans DEF SeatsInv, TypeOK, SessionsAssumption
<1>2. K \in SUBSET DOMAIN seats /\ seats' \in Kept(K)
  BY DEF RemoveSession
<1>3. /\ seats' \in Seq(Seat) /\ Len(seats') <= Len(seats) /\ OneEach'
      /\ Ids(seats)' = {seats[k].sid : k \in K}
      /\ Live' = Live \cap Ids(seats)'
      /\ \A p : Seated(p)' <=> \E k \in K : seats[k].profile = p
  BY <1>1, <1>2, OnlyKept
<1>4. Ids(seats)' = Ids(seats) \ {sid}
  BY <1>3 DEF Ids
<1>5. Live' = Live \ {sid}
  BY <1>3, <1>4, LiveAreIds
<1>6. ASSUME NEW q, Seated(q), q # ProfileOf(sid) PROVE Seated(q)'
  <2>1. PICK i \in DOMAIN seats : seats[i].profile = q
    BY <1>6 DEF Seated
  <2>2. i \in K
    BY <1>6, <2>1, ProfileIs
  <2>3. QED
    BY <1>3, <2>1, <2>2
<1>7. ws' \in [Conn -> Ws]
  BY DEF SeatsInv, TypeOK, Ws, Stages, RemoveSession, Goto
<1>8. walkedOff' \subseteq Profile
  BY ProfileOfType DEF SeatsInv, TypeOK, RemoveSession, Owner
<1>9. Len(seats') \in Nat /\ Len(seats) \in Nat
  BY <1>1, <1>3
<1>10. TypeOK'
  BY <1>1, <1>3, <1>7, <1>8, <1>9 DEF SeatsInv, TypeOK, RemoveSession
<1>11. QED
  BY <1>3, <1>4, <1>5, <1>6, <1>10

LEMMA SetProfileDoes ==
  ASSUME SessionsAssumption, SeatsInv, NEW c \in Conn, NEW p \in Owner, SetProfile(c, p)
  PROVE  /\ TypeOK' /\ OneEach' /\ Ids(seats)' = Ids(seats) /\ Live' = Live
         /\ Seated(p)'
         /\ \A q : Seated(q) /\ q # ProfileOf(ws[c].sid) => Seated(q)'
<1> DEFINE sid == ws[c].sid
<1>1. OneEach /\ seats \in Seq(Seat) /\ Len(seats) <= MaxSessions
  BY HeldMeans DEF SeatsInv, TypeOK
<1>2. At(sid) \in DOMAIN seats /\ seats[At(sid)].sid = sid
  BY <1>1, AtIs DEF SetProfile
<1>3. ProfileOf(sid) = seats[At(sid)].profile
  BY <1>2, ProfileIs
<1>4. seats' = [seats EXCEPT ![At(sid)].profile = p]
  BY DEF SetProfile
<1>5. /\ seats' \in Seq(Seat) /\ Len(seats') = Len(seats) /\ OneEach'
      /\ Ids(seats)' = Ids(seats) /\ Live' = Live /\ Seated(p)'
      /\ \A q : Seated(q) /\ q # ProfileOf(sid) => Seated(q)'
  BY <1>1, <1>2, <1>3, <1>4, ProfileSet
<1>6. walkedOff' \subseteq Profile
  BY ProfileOfType DEF SeatsInv, TypeOK, SetProfile, Owner
<1>7. TypeOK'
  BY <1>1, <1>5, <1>6 DEF SeatsInv, TypeOK, SetProfile
<1>8. QED
  BY <1>5, <1>7

LEMMA GhostAgesDoes ==
  ASSUME SessionsAssumption, SeatsInv, NEW i \in DOMAIN seats, GhostAges(i)
  PROVE  /\ TypeOK' /\ OneEach' /\ Ids(seats)' = Ids(seats) /\ Live' = Live
         /\ \A q : Seated(q)' <=> Seated(q)
<1>1. OneEach /\ seats \in Seq(Seat) /\ Len(seats) <= MaxSessions
  BY HeldMeans DEF SeatsInv, TypeOK
<1>2. seats[i].sid \notin Live
  BY <1>1, LiveIs DEF GhostAges
<1>3. seats' = [seats EXCEPT ![i].mode = "stale"]
  BY DEF GhostAges
<1>4. /\ seats' \in Seq(Seat) /\ Len(seats') = Len(seats) /\ OneEach'
      /\ Ids(seats)' = Ids(seats) /\ Live' = Live \ {seats[i].sid}
      /\ \A q : Seated(q)' <=> Seated(q)
  BY <1>1, <1>3, ModeSet
<1>5. TypeOK'
  BY <1>1, <1>4 DEF SeatsInv, TypeOK, GhostAges
<1>6. QED
  BY <1>2, <1>4, <1>5

\* Nobody live goes, and whoever goes is cleaned up.
LEMMA ExpireGhostsDoes ==
  ASSUME SessionsAssumption, SeatsInv, ExpireGhosts
  PROVE  /\ TypeOK' /\ OneEach' /\ Ids(seats)' \subseteq Ids(seats) /\ Live' = Live
         /\ \A q : Seated(q) => Seated(q)' \/ q \in sweep' \/ q = NoProfile
<1> DEFINE K == {i \in DOMAIN seats : seats[i].mode # "stale"}
<1>1. OneEach /\ seats \in Seq(Seat) /\ Len(seats) <= MaxSessions /\ MaxSessions \in Nat
  BY HeldMeans DEF SeatsInv, TypeOK, SessionsAssumption
<1>2. K \in SUBSET DOMAIN seats /\ seats' \in Kept(K)
  BY DEF ExpireGhosts
<1>3. /\ seats' \in Seq(Seat) /\ Len(seats') <= Len(seats) /\ OneEach'
      /\ Ids(seats)' = {seats[k].sid : k \in K}
      /\ Ids(seats)' \subseteq Ids(seats)
      /\ Live' = Live \cap Ids(seats)'
      /\ \A p : Seated(p)' <=> \E k \in K : seats[k].profile = p
  BY <1>1, <1>2, OnlyKept
<1>4. ASSUME NEW x \in Live PROVE x \in Ids(seats)'
  <2>1. PICK i \in DOMAIN seats : seats[i].sid = x /\ seats[i].mode = "live"
    BY <1>4 DEF Live, Entries
  <2>2. QED
    BY <1>3, <2>1
<1>5. \A q : Seated(q) => Seated(q)' \/ q \in sweep' \/ q = NoProfile
  <2>1. sweep' = {seats[i].profile : i \in {k \in DOMAIN seats : seats[k].mode = "stale"}}
                   \ {NoProfile}
    BY DEF ExpireGhosts
  <2>2. QED
    BY <1>3, <2>1 DEF Seated
<1>6. sweep' \subseteq Profile
  <2>1. \A i \in DOMAIN seats : seats[i] \in Seat
    BY <1>1
  <2>2. \A i \in DOMAIN seats : seats[i].profile \in Profile \cup {NoProfile}
    BY <2>1 DEF Seat, Owner
  <2>3. QED
    BY <2>2 DEF ExpireGhosts
<1>7. Len(seats') \in Nat /\ Len(seats) \in Nat
  BY <1>1, <1>3
<1>8. TypeOK'
  BY <1>1, <1>3, <1>6, <1>7 DEF SeatsInv, TypeOK, ExpireGhosts
<1>9. QED
  BY <1>3, <1>4, <1>5, <1>8
-----------------------------------------------------------------------------
(***************************************************************************)
(* The steps that leave the registry alone, and the tasks with their       *)
(* sessions.                                                               *)
(***************************************************************************)
Quiet ==
  \/ \E c \in Conn :
       \/ \E hint \in Owner : NothingToClaim(c, hint)
       \/ RejectByCooldown(c) \/ StampCooldown(c) \/ AnnounceEviction(c) \/ Subscribe(c)
       \/ Disconnect(c) \/ ReadDeparting(c)
       \/ \E s \in Slot : LoadFigure(c, s) \/ ClearFigure(c, s)
  \/ \E s \in Slot : Settle(s)
  \/ CooldownElapses
  \/ \E p \in Profile : CleanUpExpired(p)

WsQuiet ==
  /\ ws' \in [Conn -> Ws]
  /\ Holding' = Holding
  /\ \A d \in Conn :
       /\ ws'[d].sid = ws[d].sid
       /\ ws'[d].pc \in {"new", "register"} => ws[d].pc \in {"new", "register"}

HoldingStages == {"stamp", "announce", "handshake", "serving", "closing", "ghosting", "removing"}

LEMMA GoesOn ==
  ASSUME SeatsInv, NEW c \in Conn, NEW pc \in Stages, ws' = [ws EXCEPT ![c].pc = pc],
         ws[c].pc \in HoldingStages <=> pc \in HoldingStages,
         pc \in {"new", "register"} => ws[c].pc \in {"new", "register"}
  PROVE  WsQuiet
<1>1. ws \in [Conn -> Ws]
  BY DEF SeatsInv, TypeOK
<1>2. /\ ws' \in [Conn -> Ws]
      /\ ws'[c].pc = pc /\ ws'[c].sid = ws[c].sid
      /\ \A d \in Conn \ {c} : ws'[d] = ws[d]
  BY <1>1 DEF Ws
<1>3. Holding' = Holding
  BY <1>2 DEF Holding, HoldingStages, Tasks
<1>4. QED
  BY <1>2, <1>3 DEF WsQuiet

LEMMA WsUnchanged == ASSUME SeatsInv, ws' = ws PROVE WsQuiet
BY DEF SeatsInv, TypeOK, WsQuiet, Holding, Tasks

LEMMA QuietDoes ==
  ASSUME SessionsAssumption, SeatsInv, Quiet
  PROVE  TypeOK' /\ seats' = seats /\ WsQuiet
<1> USE DEF Goto, HoldingStages, Stages
<1>1. ASSUME NEW c \in Conn, NEW hint \in Owner, NothingToClaim(c, hint)
      PROVE  TypeOK' /\ seats' = seats /\ WsQuiet
  <2>1. WsQuiet
    BY <1>1, GoesOn DEF NothingToClaim
  <2>2. QED
    BY <1>1, <2>1 DEF NothingToClaim, WsQuiet, SeatsInv, TypeOK
<1>2. ASSUME NEW c \in Conn, RejectByCooldown(c) PROVE TypeOK' /\ seats' = seats /\ WsQuiet
  <2>1. WsQuiet
    BY <1>2, GoesOn DEF RejectByCooldown
  <2>2. QED
    BY <1>2, <2>1 DEF RejectByCooldown, WsQuiet, SeatsInv, TypeOK
<1>3. ASSUME NEW c \in Conn, StampCooldown(c) PROVE TypeOK' /\ seats' = seats /\ WsQuiet
  <2>1. WsQuiet
    BY <1>3, GoesOn DEF StampCooldown
  <2>2. QED
    BY <1>3, <2>1 DEF StampCooldown, WsQuiet, SeatsInv, TypeOK
<1>4. ASSUME NEW c \in Conn, AnnounceEviction(c) PROVE TypeOK' /\ seats' = seats /\ WsQuiet
  <2>1. /\ ws' \in [Conn -> Ws]
        /\ ws'[c].pc = "handshake" /\ ws'[c].sid = ws[c].sid
        /\ \A d \in Conn \ {c} : ws'[d] = ws[d]
    BY <1>4 DEF AnnounceEviction, SeatsInv, TypeOK, Ws, Owner
  <2>2. WsQuiet
    BY <1>4, <2>1 DEF AnnounceEviction, WsQuiet, Holding, Tasks
  <2>3. portal' \in [Slot -> Place]
    BY <1>4 DEF AnnounceEviction, Cleared, Leaving, Place, Owner, SeatsInv, TypeOK
  <2>4. QED
    BY <1>4, <2>2, <2>3 DEF AnnounceEviction, WsQuiet, SeatsInv, TypeOK
<1>5. ASSUME NEW c \in Conn, Subscribe(c) PROVE TypeOK' /\ seats' = seats /\ WsQuiet
  <2>1. WsQuiet
    BY <1>5, GoesOn DEF Subscribe
  <2>2. QED
    BY <1>5, <2>1 DEF Subscribe, WsQuiet, SeatsInv, TypeOK
<1>6. ASSUME NEW c \in Conn, Disconnect(c) PROVE TypeOK' /\ seats' = seats /\ WsQuiet
  <2>1. WsQuiet
    BY <1>6, GoesOn DEF Disconnect
  <2>2. QED
    BY <1>6, <2>1 DEF Disconnect, WsQuiet, SeatsInv, TypeOK
<1>7. ASSUME NEW c \in Conn, ReadDeparting(c) PROVE TypeOK' /\ seats' = seats /\ WsQuiet
  <2>1. PICK pc \in {"removing", "ghosting"} : ws' = [ws EXCEPT ![c].pc = pc]
    BY <1>7 DEF ReadDeparting
  <2>2. WsQuiet
    BY <1>7, <2>1, GoesOn DEF ReadDeparting
  <2>3. QED
    BY <1>7, <2>2 DEF ReadDeparting, WsQuiet, SeatsInv, TypeOK
<1>8. ASSUME NEW c \in Conn, NEW s \in Slot, LoadFigure(c, s) \/ ClearFigure(c, s)
      PROVE  TypeOK' /\ seats' = seats /\ WsQuiet
  <2>1. ProfileOf(ws[c].sid) \in Owner
    BY ProfileOfType
  <2>2. portal' \in [Slot -> Place]
    BY <1>8, <2>1 DEF LoadFigure, ClearFigure, Leaving, Place, Owner, SeatsInv, TypeOK
  <2>3. WsQuiet
    BY <1>8, WsUnchanged DEF LoadFigure, ClearFigure
  <2>4. QED
    BY <1>8, <2>2, <2>3 DEF LoadFigure, ClearFigure, SeatsInv, TypeOK
<1>9. ASSUME NEW s \in Slot, Settle(s) PROVE TypeOK' /\ seats' = seats /\ WsQuiet
  <2>1. portal' \in [Slot -> Place] /\ walkedOff' \subseteq Profile
    BY <1>9 DEF Settle, Vacant, Place, Owner, SeatsInv, TypeOK
  <2>2. WsQuiet
    BY <1>9, WsUnchanged DEF Settle
  <2>3. QED
    BY <1>9, <2>1, <2>2 DEF Settle, SeatsInv, TypeOK
<1>10. ASSUME CooldownElapses PROVE TypeOK' /\ seats' = seats /\ WsQuiet
  <2>1. WsQuiet
    BY <1>10, WsUnchanged DEF CooldownElapses
  <2>2. QED
    BY <1>10, <2>1 DEF CooldownElapses, SeatsInv, TypeOK
<1>11. ASSUME NEW p \in Profile, CleanUpExpired(p) PROVE TypeOK' /\ seats' = seats /\ WsQuiet
  <2>1. portal' \in [Slot -> Place]
    BY <1>11 DEF CleanUpExpired, Cleared, Leaving, Place, Owner, SeatsInv, TypeOK
  <2>2. WsQuiet
    BY <1>11, WsUnchanged DEF CleanUpExpired
  <2>3. QED
    BY <1>11, <2>1, <2>2 DEF CleanUpExpired, SeatsInv, TypeOK
<1>12. QED
  BY <1>1, <1>2, <1>3, <1>4, <1>5, <1>6, <1>7, <1>8, <1>9, <1>10, <1>11 DEF Quiet
-----------------------------------------------------------------------------
(***************************************************************************)
(* A seat is never lost and never shared.                                  *)
(***************************************************************************)
LEMMA Steps ==
  ASSUME Next
  PROVE  \/ \E c \in Conn :
              \/ \E p \in Profile : ClaimGhost(c, p)
              \/ Admit(c) \/ AdmitByEvicting(c) \/ GhostSession(c) \/ RemoveSession(c)
              \/ \E p \in Owner : SetProfile(c, p)
         \/ \E i \in DOMAIN seats : GhostAges(i)
         \/ ExpireGhosts
         \/ Quiet
BY DEF Next, Arrive, Progress, Play, Time, Sweep, Quiet

LEMMA SeatsInit == ASSUME SessionsAssumption, Init PROVE SeatsInv
<1>1. TypeOK
  <2>1. seats = <<>> /\ seats \in Seq(Seat) /\ Len(seats) = 0 /\ Len(seats) <= MaxSessions
    BY DEF SessionsAssumption, Init
  <2>2. ws \in [Conn -> Ws]
    BY DEF Init, NewWs, Ws, Stages, Owner
  <2>3. portal \in [Slot -> Place]
    BY DEF Init, Vacant, Place, Owner
  <2>4. QED
    BY <2>1, <2>2, <2>3 DEF Init, TypeOK
<1>2. seats = <<>> /\ \A c \in Conn : ws[c] = NewWs
  BY DEF Init
<1>3. DOMAIN seats = {} /\ Holding = {}
  BY <1>2 DEF Holding, Tasks, NewWs
<1>4. SeatsAreHeld /\ Minted
  BY <1>2, <1>3 DEF SeatsAreHeld, Minted, NewWs
<1>5. QED
  BY <1>1, <1>4 DEF SeatsInv

LEMMA SeatsUnchanged ==
  ASSUME seats' = seats, OneEach
  PROVE  /\ OneEach' /\ Ids(seats)' = Ids(seats) /\ Live' = Live
         /\ \A q : Seated(q)' <=> Seated(q)
BY DEF OneEach, Ids, Live, Entries, Seated

LEMMA SeatsNext == ASSUME SessionsAssumption, SeatsInv, [Next]_vars PROVE SeatsInv'
<1>0. OneEach /\ Live \subseteq Ids(seats) /\ Ids(seats) \subseteq Conn
  BY HeldMeans, LiveAreIds, IdsAreConns DEF SeatsInv, TypeOK
<1> SUFFICES TypeOK' /\ SeatsAreHeld' /\ Minted'
  BY DEF SeatsInv
<1>1. ASSUME NEW c \in Conn, NEW p \in Profile, ClaimGhost(c, p)
      PROVE  TypeOK' /\ SeatsAreHeld' /\ Minted'
  <2>1. /\ TypeOK' /\ OneEach' /\ Ids(seats)' = Ids(seats)
        /\ \E sid \in Ids(seats) \ Live :
             /\ Live' = Live \cup {sid}
             /\ ws' = [ws EXCEPT ![c].pc = "handshake", ![c].sid = sid]
    BY <1>1, ClaimGhostDoes
  <2>2. PICK sid \in Ids(seats) \ Live :
          /\ Live' = Live \cup {sid}
          /\ ws' = [ws EXCEPT ![c].pc = "handshake", ![c].sid = sid]
    BY <2>1
  <2>3. /\ ws'[c].pc = "handshake" /\ ws'[c].sid = sid
        /\ \A d \in Conn \ {c} : ws'[d] = ws[d]
    BY <2>2 DEF SeatsInv, TypeOK, Ws
  <2>4. ws[c].pc = "new"
    BY <1>1 DEF ClaimGhost
  <2>5. sid \in Conn
    BY <1>0
  <2>6. SeatsAreHeld' /\ Minted'
    BY <2>1, <2>2, <2>3, <2>4, <2>5, TakesOver
  <2>7. QED
    BY <2>1, <2>6
<1>2. ASSUME NEW c \in Conn, Admit(c) PROVE TypeOK' /\ SeatsAreHeld' /\ Minted'
  <2>1. /\ TypeOK' /\ OneEach' /\ c \notin Ids(seats)
        /\ Ids(seats)' = Ids(seats) \cup {c} /\ Live' = Live \cup {c}
    BY <1>2, AdmitDoes
  <2>2. /\ ws[c].pc = "register" /\ ws'[c].pc = "handshake" /\ ws'[c].sid = c
        /\ \A d \in Conn \ {c} : ws'[d] = ws[d]
    BY <1>2 DEF Admit, SeatsInv, TypeOK, Ws
  <2>3. SeatsAreHeld' /\ Minted'
    BY <1>0, <2>1, <2>2, TakesOver
  <2>4. QED
    BY <2>1, <2>3
<1>3. ASSUME NEW c \in Conn, AdmitByEvicting(c) PROVE TypeOK' /\ SeatsAreHeld' /\ Minted'
  <2>1. /\ TypeOK' /\ OneEach' /\ c \notin Ids(seats)
        /\ Ids(seats)' = (Ids(seats) \ {Head(seats).sid}) \cup {c}
        /\ Live' = (Live \ {Head(seats).sid}) \cup {c}
    BY <1>3, AdmitByEvictingDoes
  <2>2. /\ ws[c].pc = "register" /\ ws'[c].pc = "stamp" /\ ws'[c].sid = c
        /\ \A d \in Conn \ {c} : ws'[d] = ws[d]
    BY <1>3 DEF AdmitByEvicting, SeatsInv, TypeOK, Ws
  <2>3. SeatsAreHeld' /\ Minted'
    BY <1>0, <2>1, <2>2, TakesOver
  <2>4. QED
    BY <2>1, <2>3
<1>4. ASSUME NEW c \in Conn, GhostSession(c) PROVE TypeOK' /\ SeatsAreHeld' /\ Minted'
  <2>1. TypeOK' /\ OneEach' /\ Ids(seats)' = Ids(seats) /\ Live' = Live \ {ws[c].sid}
    BY <1>4, GhostSessionDoes
  <2>2. ws[c].pc \in {"ghosting", "removing"} /\ ws' = [ws EXCEPT ![c].pc = "done"]
    BY <1>4 DEF GhostSession, Goto
  <2>3. Live' = (Live \cap Ids(seats)') \ {ws[c].sid}
    BY <1>0, <2>1
  <2>4. SeatsAreHeld' /\ Minted'
    BY <2>1, <2>2, <2>3, LetsGo
  <2>5. QED
    BY <2>1, <2>4
<1>5. ASSUME NEW c \in Conn, RemoveSession(c) PROVE TypeOK' /\ SeatsAreHeld' /\ Minted'
  <2>1. /\ TypeOK' /\ OneEach'
        /\ Ids(seats)' = Ids(seats) \ {ws[c].sid} /\ Live' = Live \ {ws[c].sid}
    BY <1>5, RemoveSessionDoes
  <2>2. ws[c].pc \in {"ghosting", "removing"} /\ ws' = [ws EXCEPT ![c].pc = "done"]
    BY <1>5 DEF RemoveSession, Goto
  <2>3. Live' = (Live \cap Ids(seats)') \ {ws[c].sid}
    BY <1>0, <2>1
  <2>4. SeatsAreHeld' /\ Minted'
    BY <2>1, <2>2, <2>3, LetsGo
  <2>5. QED
    BY <2>1, <2>4
<1>6. ASSUME OneEach', Ids(seats)' \subseteq Ids(seats), Live' = Live, WsQuiet, TypeOK'
      PROVE  SeatsAreHeld' /\ Minted'
  <2>1. Live' = Live \cap Ids(seats)'
    BY <1>6, LiveAreIds
  <2>2. QED
    BY <1>6, <2>1, StaysOn DEF WsQuiet
<1>7. ASSUME NEW c \in Conn, NEW p \in Owner, SetProfile(c, p)
      PROVE  TypeOK' /\ SeatsAreHeld' /\ Minted'
  <2>1. TypeOK' /\ OneEach' /\ Ids(seats)' = Ids(seats) /\ Live' = Live
    BY <1>7, SetProfileDoes
  <2>2. WsQuiet
    BY <1>7, WsUnchanged DEF SetProfile
  <2>3. QED
    BY <1>6, <2>1, <2>2
<1>8. ASSUME NEW i \in DOMAIN seats, GhostAges(i) PROVE TypeOK' /\ SeatsAreHeld' /\ Minted'
  <2>1. TypeOK' /\ OneEach' /\ Ids(seats)' = Ids(seats) /\ Live' = Live
    BY <1>8, GhostAgesDoes
  <2>2. WsQuiet
    BY <1>8, WsUnchanged DEF GhostAges
  <2>3. QED
    BY <1>6, <2>1, <2>2
<1>9. ASSUME ExpireGhosts PROVE TypeOK' /\ SeatsAreHeld' /\ Minted'
  <2>1. TypeOK' /\ OneEach' /\ Ids(seats)' \subseteq Ids(seats) /\ Live' = Live
    BY <1>9, ExpireGhostsDoes
  <2>2. WsQuiet
    BY <1>9, WsUnchanged DEF ExpireGhosts
  <2>3. QED
    BY <1>6, <2>1, <2>2
<1>10. ASSUME Quiet PROVE TypeOK' /\ SeatsAreHeld' /\ Minted'
  <2>1. TypeOK' /\ seats' = seats /\ WsQuiet
    BY <1>10, QuietDoes
  <2>2. OneEach' /\ Ids(seats)' = Ids(seats) /\ Live' = Live
    BY <1>0, <2>1, SeatsUnchanged
  <2>3. QED
    BY <1>6, <2>1, <2>2
<1>11. ASSUME UNCHANGED vars PROVE TypeOK' /\ SeatsAreHeld' /\ Minted'
  BY <1>11 DEF vars, SeatsInv, TypeOK, SeatsAreHeld, Minted, Holding, Tasks
<1>12. QED
  BY <1>1, <1>2, <1>3, <1>4, <1>5, <1>7, <1>8, <1>9, <1>10, <1>11, Steps

\* Whatever the number of connections, profiles, slots and seats: a live session has
\* exactly one task that will end it, a ghost has none, no session is served twice.
THEOREM SeatsCorrect == Spec => []SeatsAreHeld
<1>1. Init => SeatsInv
  BY SeatsInit, SessionsAssumption
<1>2. SeatsInv /\ [Next]_vars => SeatsInv'
  BY SeatsNext, SessionsAssumption
<1>3. SeatsInv => SeatsAreHeld
  BY DEF SeatsInv
<1>4. QED
  BY <1>1, <1>2, <1>3, PTL DEF Spec
-----------------------------------------------------------------------------
(***************************************************************************)
(* Nobody's figures stay by accident.                                      *)
(***************************************************************************)
LEMMA DueStays ==
  ASSUME NEW c \in Conn, ws[c].pc \notin {"stamp", "announce"},
         \A d \in Conn \ {c} : ws'[d] = ws[d], sweep \subseteq sweep'
  PROVE  \A p : CleanupDue(p) => CleanupDue(p)'
<1>1. ASSUME NEW p, CleanupDue(p) PROVE CleanupDue(p)'
  <2>1. CASE p \in sweep
    BY <2>1 DEF CleanupDue
  <2>2. CASE p \notin sweep
    <3>1. PICK d \in Tasks({"stamp", "announce"}) : ws[d].ghost = p
      BY <1>1, <2>2 DEF CleanupDue
    <3>2. d \in Conn /\ d # c
      BY DEF Tasks
    <3>3. d \in Tasks({"stamp", "announce"})' /\ ws'[d].ghost = p
      BY <3>1, <3>2 DEF Tasks
    <3>4. QED
      BY <3>3 DEF CleanupDue
  <2>3. QED
    BY <2>1, <2>2
<1>2. QED
  BY <1>1

LEMMA DueSame == ASSUME ws' = ws, sweep' = sweep PROVE \A p : CleanupDue(p)' <=> CleanupDue(p)
BY DEF CleanupDue, Tasks

\* No figure lands, and whoever still counts keeps the seat or the cleanup.
LEMMA StillAnswered ==
  ASSUME SessionsAssumption, SeatsInv, LoadedIsAnsweredFor,
         \A s \in Slot : portal'[s].kind = "Loaded" => portal'[s] = portal[s],
         \A p \in Profile : p \notin walkedOff' => p \notin walkedOff \/ Seated(p)',
         \A p \in Profile :
           /\ p \notin walkedOff'
           /\ \E s \in Slot : portal'[s].kind = "Loaded" /\ portal'[s].by = p
           /\ Seated(p) \/ CleanupDue(p)
           => Seated(p)' \/ CleanupDue(p)'
  PROVE  LoadedIsAnsweredFor'
<1>1. ASSUME NEW s \in Slot, NEW p \in Profile, portal'[s].kind = "Loaded", portal'[s].by = p,
             p \notin walkedOff'
      PROVE  Seated(p)' \/ CleanupDue(p)'
  <2>1. portal[s].kind = "Loaded" /\ portal[s].by = p /\ p # NoProfile
    BY <1>1 DEF SessionsAssumption
  <2>2. CASE p \notin walkedOff
    <3>1. Seated(p) \/ CleanupDue(p)
      BY <2>1, <2>2 DEF LoadedIsAnsweredFor
    <3>2. QED
      BY <1>1, <3>1
  <2>3. QED
    BY <1>1, <2>2
<1>2. ASSUME NEW s \in Slot, portal'[s].kind = "Loaded", portal'[s].by # NoProfile
      PROVE  portal'[s].by \in Profile
  BY <1>2 DEF SeatsInv, TypeOK, Place, Owner
<1>3. QED
  BY <1>1, <1>2 DEF LoadedIsAnsweredFor

LEMMA AnswerNext ==
  ASSUME SessionsAssumption, SeatsInv, LoadedIsAnsweredFor, [Next]_vars
  PROVE  LoadedIsAnsweredFor'
<1>0. OneEach /\ ws \in [Conn -> Ws]
  BY HeldMeans DEF SeatsInv, TypeOK
<1>1. ASSUME NEW c \in Conn, NEW p \in Profile, ClaimGhost(c, p) PROVE LoadedIsAnsweredFor'
  <2>1. \A q : Seated(q)' <=> Seated(q)
    BY <1>1, ClaimGhostDoes
  <2>2. \A q : CleanupDue(q) => CleanupDue(q)'
    <3>1. PICK i \in Claimable(p) :
            ws' = [ws EXCEPT ![c].pc = "handshake", ![c].sid = seats[i].sid]
      BY <1>1 DEF ClaimGhost
    <3>2. ws[c].pc = "new" /\ sweep' = sweep /\ \A d \in Conn \ {c} : ws'[d] = ws[d]
      BY <1>0, <1>1, <3>1 DEF ClaimGhost
    <3>3. QED
      BY <3>2, DueStays
  <2>3. portal' = portal /\ walkedOff' = walkedOff
    BY <1>1 DEF ClaimGhost
  <2>4. QED
    BY <2>1, <2>2, <2>3, StillAnswered
<1>2. ASSUME NEW c \in Conn, Admit(c) PROVE LoadedIsAnsweredFor'
  <2>1. \A q : Seated(q) => Seated(q)'
    BY <1>2, AdmitDoes
  <2>2. \A q : CleanupDue(q) => CleanupDue(q)'
    <3>1. ws[c].pc = "register" /\ sweep' = sweep /\ \A d \in Conn \ {c} : ws'[d] = ws[d]
      BY <1>0, <1>2 DEF Admit
    <3>2. QED
      BY <3>1, DueStays
  <2>3. portal' = portal /\ walkedOff' = walkedOff
    BY <1>2 DEF Admit
  <2>4. QED
    BY <2>1, <2>2, <2>3, StillAnswered
<1>3. ASSUME NEW c \in Conn, AdmitByEvicting(c) PROVE LoadedIsAnsweredFor'
  <2> DEFINE out == Head(seats)
  <2>1. out \in Seat /\ \A q : Seated(q) /\ q # out.profile => Seated(q)'
    BY <1>3, AdmitByEvictingDoes
  <2>2. /\ ws[c].pc = "register" /\ \A d \in Conn \ {c} : ws'[d] = ws[d]
        /\ ws'[c].pc = "stamp"
        /\ ws'[c].ghost = IF out.mode = "live" THEN NoProfile ELSE out.profile
        /\ walkedOff' = IF out.mode = "live" THEN walkedOff \cup ({out.profile} \ {NoProfile})
                        ELSE walkedOff
        /\ sweep' = sweep /\ portal' = portal
    BY <1>0, <1>3 DEF AdmitByEvicting
  <2> HIDE DEF out
  <2>3. \A q : CleanupDue(q) => CleanupDue(q)'
    BY <2>2, DueStays
  <2>4. ASSUME NEW q \in Profile, q \notin walkedOff', Seated(q)
        PROVE  Seated(q)' \/ CleanupDue(q)'
    <3>1. CASE q # out.profile
      BY <2>1, <2>4, <3>1
    <3>2. CASE q = out.profile
      <4>1. out.mode # "live"
        BY <2>2, <2>4, <3>2 DEF SessionsAssumption
      <4>2. ws'[c].ghost = q /\ ws'[c].pc = "stamp"
        BY <2>2, <3>2, <4>1
      <4>3. QED
        BY <4>2 DEF CleanupDue, Tasks
    <3>3. QED
      BY <3>1, <3>2
  <2>5. QED
    BY <2>2, <2>3, <2>4, StillAnswered
<1>4. ASSUME NEW c \in Conn, GhostSession(c) PROVE LoadedIsAnsweredFor'
  <2>1. \A q : Seated(q)' <=> Seated(q)
    BY <1>4, GhostSessionDoes
  <2>2. \A q : CleanupDue(q) => CleanupDue(q)'
    <3>1. ws[c].pc = "ghosting" /\ sweep' = sweep /\ \A d \in Conn \ {c} : ws'[d] = ws[d]
      BY <1>0, <1>4 DEF GhostSession, Goto
    <3>2. QED
      BY <3>1, DueStays
  <2>3. portal' = portal /\ walkedOff' = walkedOff
    BY <1>4 DEF GhostSession
  <2>4. QED
    BY <2>1, <2>2, <2>3, StillAnswered
<1>5. ASSUME NEW c \in Conn, RemoveSession(c) PROVE LoadedIsAnsweredFor'
  <2>1. \A q : Seated(q) /\ q # ProfileOf(ws[c].sid) => Seated(q)'
    BY <1>5, RemoveSessionDoes
  <2>2. \A q : CleanupDue(q) => CleanupDue(q)'
    <3>1. ws[c].pc = "removing" /\ sweep' = sweep /\ \A d \in Conn \ {c} : ws'[d] = ws[d]
      BY <1>0, <1>5 DEF RemoveSession, Goto
    <3>2. QED
      BY <3>1, DueStays
  <2>3. /\ portal' = portal
        /\ walkedOff' = walkedOff \cup ({ProfileOf(ws[c].sid)} \ {NoProfile})
    BY <1>5 DEF RemoveSession
  <2>4. ASSUME NEW q \in Profile, q \notin walkedOff', Seated(q) PROVE Seated(q)'
    BY <2>1, <2>3, <2>4 DEF SessionsAssumption
  <2>5. QED
    BY <2>2, <2>3, <2>4, StillAnswered
<1>6. ASSUME NEW c \in Conn, NEW p \in Owner, SetProfile(c, p) PROVE LoadedIsAnsweredFor'
  <2>1. Seated(p)' /\ \A q : Seated(q) /\ q # ProfileOf(ws[c].sid) => Seated(q)'
    BY <1>6, SetProfileDoes
  <2>2. /\ portal' = portal /\ ws' = ws /\ sweep' = sweep
        /\ walkedOff' = (walkedOff \cup ({ProfileOf(ws[c].sid)} \ {NoProfile})) \ {p}
    BY <1>6 DEF SetProfile
  <2>3. \A q : CleanupDue(q) => CleanupDue(q)'
    BY <2>2, DueSame
  <2>4. ASSUME NEW q \in Profile, q \notin walkedOff' PROVE q \notin walkedOff \/ Seated(q)'
    <3>1. CASE q = p
      BY <2>1, <3>1
    <3>2. CASE q # p
      BY <2>2, <2>4, <3>2
    <3>3. QED
      BY <3>1, <3>2
  <2>5. ASSUME NEW q \in Profile, q \notin walkedOff', Seated(q) PROVE Seated(q)'
    <3>1. CASE q = p
      BY <2>1, <3>1
    <3>2. CASE q # p
      BY <2>1, <2>2, <2>5, <3>2 DEF SessionsAssumption
    <3>3. QED
      BY <3>1, <3>2
  <2>6. QED
    BY <2>2, <2>3, <2>4, <2>5, StillAnswered
<1>7. ASSUME NEW i \in DOMAIN seats, GhostAges(i) PROVE LoadedIsAnsweredFor'
  <2>1. \A q : Seated(q)' <=> Seated(q)
    BY <1>7, GhostAgesDoes
  <2>2. portal' = portal /\ ws' = ws /\ sweep' = sweep /\ walkedOff' = walkedOff
    BY <1>7 DEF GhostAges
  <2>3. \A q : CleanupDue(q)' <=> CleanupDue(q)
    BY <2>2, DueSame
  <2>4. QED
    BY <2>1, <2>2, <2>3, StillAnswered
<1>8. ASSUME ExpireGhosts PROVE LoadedIsAnsweredFor'
  <2>1. \A q : Seated(q) => Seated(q)' \/ q \in sweep' \/ q = NoProfile
    BY <1>8, ExpireGhostsDoes
  <2>2. portal' = portal /\ ws' = ws /\ sweep = {} /\ walkedOff' = walkedOff
    BY <1>8 DEF ExpireGhosts
  <2>3. \A q : CleanupDue(q) \/ q \in sweep' => CleanupDue(q)'
    BY <2>2 DEF CleanupDue, Tasks
  <2>4. \A q \in Profile : Seated(q) \/ CleanupDue(q) => Seated(q)' \/ CleanupDue(q)'
    BY <2>1, <2>3 DEF SessionsAssumption
  <2>5. QED
    BY <2>2, <2>4, StillAnswered
<1>9. ASSUME Quiet PROVE LoadedIsAnsweredFor'
  <2>0. \A q : Seated(q)' <=> Seated(q)
    BY <1>0, <1>9, QuietDoes, SeatsUnchanged
  <2>1. ASSUME NEW c \in Conn, ws[c].pc \notin {"stamp", "announce"},
               \A d \in Conn \ {c} : ws'[d] = ws[d],
               sweep' = sweep, portal' = portal, walkedOff' = walkedOff
        PROVE  LoadedIsAnsweredFor'
    <3>1. \A q : CleanupDue(q) => CleanupDue(q)'
      BY <2>1, DueStays
    <3>2. QED
      BY <2>0, <2>1, <3>1, StillAnswered
  <2>2. ASSUME NEW c \in Conn, NEW hint \in Owner, NothingToClaim(c, hint)
        PROVE  LoadedIsAnsweredFor'
    BY <1>0, <2>1, <2>2 DEF NothingToClaim, Goto
  <2>3. ASSUME NEW c \in Conn,
               RejectByCooldown(c) \/ Subscribe(c) \/ Disconnect(c) \/ ReadDeparting(c)
        PROVE  LoadedIsAnsweredFor'
    BY <1>0, <2>1, <2>3 DEF RejectByCooldown, Subscribe, Disconnect, ReadDeparting, Goto
  <2>4. ASSUME NEW c \in Conn, StampCooldown(c) PROVE LoadedIsAnsweredFor'
    <3>1. /\ sweep' = sweep /\ portal' = portal /\ walkedOff' = walkedOff
          /\ ws[c].pc = "stamp" /\ ws' = [ws EXCEPT ![c].pc = "announce"]
      BY <2>4 DEF StampCooldown, Goto
    <3>2. \A d \in Conn :
            /\ ws'[d].ghost = ws[d].ghost
            /\ ws[d].pc \in {"stamp", "announce"} => ws'[d].pc \in {"stamp", "announce"}
      BY <1>0, <3>1 DEF Ws
    <3>3. \A q : CleanupDue(q) => CleanupDue(q)'
      BY <3>1, <3>2 DEF CleanupDue, Tasks
    <3>4. QED
      BY <2>0, <3>1, <3>3, StillAnswered
  <2>5. ASSUME NEW c \in Conn, AnnounceEviction(c) PROVE LoadedIsAnsweredFor'
    <3> DEFINE g == ws[c].ghost
    <3>1. /\ sweep' = sweep /\ walkedOff' = walkedOff
          /\ portal' = IF g = NoProfile THEN portal ELSE Cleared(g)
          /\ \A d \in Conn \ {c} : ws'[d] = ws[d]
      BY <1>0, <2>5 DEF AnnounceEviction
    <3>2. ASSUME NEW s \in Slot, portal'[s].kind = "Loaded"
          PROVE  portal'[s] = portal[s] /\ (g # NoProfile => portal[s].by # g)
      BY <3>1, <3>2 DEF Cleared, Leaving, SeatsInv, TypeOK, Place
    <3>3. ASSUME NEW q \in Profile, q # g, CleanupDue(q) PROVE CleanupDue(q)'
      <4>1. CASE q \in sweep
        BY <3>1, <4>1 DEF CleanupDue
      <4>2. CASE q \notin sweep
        <5>1. PICK d \in Tasks({"stamp", "announce"}) : ws[d].ghost = q
          BY <3>3, <4>2 DEF CleanupDue
        <5>2. d \in Conn /\ d # c
          BY <3>3, <5>1 DEF Tasks
        <5>3. QED
          BY <3>1, <5>1, <5>2 DEF CleanupDue, Tasks
      <4>3. QED
        BY <4>1, <4>2
    <3> HIDE DEF g
    <3>4. ASSUME NEW q \in Profile,
                 \E s \in Slot : portal'[s].kind = "Loaded" /\ portal'[s].by = q,
                 Seated(q) \/ CleanupDue(q)
          PROVE  Seated(q)' \/ CleanupDue(q)'
      <4>1. q # g
        BY <3>2, <3>4 DEF SessionsAssumption
      <4>2. QED
        BY <2>0, <3>3, <3>4, <4>1
    <3>5. QED
      BY <3>1, <3>2, <3>4, StillAnswered
  <2>6. ASSUME NEW c \in Conn, NEW s \in Slot, LoadFigure(c, s) \/ ClearFigure(c, s)
        PROVE  LoadedIsAnsweredFor'
    <3>1. ws' = ws /\ sweep' = sweep /\ walkedOff' = walkedOff
      BY <2>6 DEF LoadFigure, ClearFigure
    <3>2. \A x \in Slot : portal'[x].kind = "Loaded" => portal'[x] = portal[x]
      BY <2>6 DEF LoadFigure, ClearFigure, Leaving, SeatsInv, TypeOK
    <3>3. \A q : CleanupDue(q)' <=> CleanupDue(q)
      BY <3>1, DueSame
    <3>4. QED
      BY <2>0, <3>1, <3>2, <3>3, StillAnswered
  <2>7. ASSUME NEW s \in Slot, Settle(s) PROVE LoadedIsAnsweredFor'
    <3>1. ws' = ws /\ sweep' = sweep /\ \A q : CleanupDue(q)' <=> CleanupDue(q)
      BY <2>7, DueSame DEF Settle
    <3>2. CASE portal' = [portal EXCEPT ![s] = Vacant] /\ walkedOff' = walkedOff
      <4>1. \A x \in Slot : portal'[x].kind = "Loaded" => portal'[x] = portal[x]
        BY <3>2 DEF Vacant, SeatsInv, TypeOK
      <4>2. QED
        BY <2>0, <3>1, <3>2, <4>1, StillAnswered
    <3>3. CASE /\ portal' = [portal EXCEPT ![s].kind = "Loaded"]
               /\ walkedOff' = IF Seated(portal[s].by) \/ CleanupDue(portal[s].by) THEN walkedOff
                               ELSE walkedOff \cup ({portal[s].by} \ {NoProfile})
      <4>1. /\ \A x \in Slot : portal'[x].by = portal[x].by
            /\ \A x \in Slot : portal'[x].kind = "Loaded" => x = s \/ portal[x].kind = "Loaded"
        BY <3>3 DEF SeatsInv, TypeOK, Place
      <4>2. walkedOff \subseteq walkedOff'
        BY <3>3
      <4>3. ASSUME NEW x \in Slot, NEW q, portal'[x].kind = "Loaded", portal'[x].by = q,
                   q # NoProfile, q \notin walkedOff'
            PROVE  Seated(q)' \/ CleanupDue(q)'
        <5>1. portal[x].by = q
          BY <4>1, <4>3
        <5>2. Seated(q) \/ CleanupDue(q)
          <6>1. CASE x = s
            BY <3>3, <4>3, <5>1, <6>1
          <6>2. CASE x # s
            BY <4>1, <4>2, <4>3, <5>1, <6>2 DEF LoadedIsAnsweredFor
          <6>3. QED
            BY <6>1, <6>2
        <5>3. QED
          BY <2>0, <3>1, <5>2
      <4>4. QED
        BY <4>3 DEF LoadedIsAnsweredFor
    <3>4. QED
      BY <2>7, <3>2, <3>3 DEF Settle
  <2>8. ASSUME CooldownElapses PROVE LoadedIsAnsweredFor'
    <3>1. ws' = ws /\ sweep' = sweep /\ walkedOff' = walkedOff /\ portal' = portal
      BY <2>8 DEF CooldownElapses
    <3>2. \A q : CleanupDue(q)' <=> CleanupDue(q)
      BY <3>1, DueSame
    <3>3. QED
      BY <2>0, <3>1, <3>2, StillAnswered
  <2>9. ASSUME NEW p \in Profile, CleanUpExpired(p) PROVE LoadedIsAnsweredFor'
    <3>1. /\ ws' = ws /\ walkedOff' = walkedOff
          /\ portal' = Cleared(p) /\ sweep' = sweep \ {p}
      BY <2>9 DEF CleanUpExpired
    <3>2. ASSUME NEW s \in Slot, portal'[s].kind = "Loaded"
          PROVE  portal'[s] = portal[s] /\ portal[s].by # p
      BY <3>1, <3>2 DEF Cleared, Leaving, SeatsInv, TypeOK, Place
    <3>3. ASSUME NEW q, q # p, CleanupDue(q) PROVE CleanupDue(q)'
      BY <3>1, <3>3 DEF CleanupDue, Tasks
    <3>4. ASSUME NEW q \in Profile,
                 \E s \in Slot : portal'[s].kind = "Loaded" /\ portal'[s].by = q,
                 Seated(q) \/ CleanupDue(q)
          PROVE  Seated(q)' \/ CleanupDue(q)'
      BY <2>0, <3>2, <3>3, <3>4
    <3>5. QED
      BY <3>1, <3>2, <3>4, StillAnswered
  <2>10. QED
    BY <1>9, <2>2, <2>3, <2>4, <2>5, <2>6, <2>7, <2>8, <2>9 DEF Quiet
<1>10. ASSUME UNCHANGED vars PROVE LoadedIsAnsweredFor'
  BY <1>10 DEF vars, LoadedIsAnsweredFor, Seated, CleanupDue, Tasks
<1>11. QED
  BY <1>1, <1>2, <1>3, <1>4, <1>5, <1>6, <1>7, <1>8, <1>9, <1>10, Steps

\* Whoever owns a Loaded figure holds a seat or is about to be cleaned up, but for the
\* departures that leave no ghost; through evictions, reclaims and expiries.
THEOREM AnsweredCorrect == Spec => []LoadedIsAnsweredFor
<1>1. Init => SeatsInv /\ LoadedIsAnsweredFor
  <2>1. Init => LoadedIsAnsweredFor
    BY DEF Init, LoadedIsAnsweredFor, Vacant
  <2>2. QED
    BY <2>1, SeatsInit, SessionsAssumption
<1>2. SeatsInv /\ LoadedIsAnsweredFor /\ [Next]_vars => SeatsInv' /\ LoadedIsAnsweredFor'
  BY SeatsNext, AnswerNext, SessionsAssumption
<1>3. QED
  BY <1>1, <1>2, PTL DEF Spec
-----------------------------------------------------------------------------
(***************************************************************************)
(* The registry implements Seats: every step of the server is a step of    *)
(* Seats, or one that Seats does not see.                                  *)
(***************************************************************************)
Player == [c \in Conn |-> SeatOf(c)]

SeatsSeen ==
  /\ \A c \in Ids(seats) : c \in Conn /\ SeatOf(c) = IF c \in Live THEN "live" ELSE "away"
  /\ \A c \in Conn \ Ids(seats) : SeatOf(c) = IF ws[c].sid = c THEN "gone" ELSE "unborn"
  /\ \A c \in Ids(seats) : ws[c].sid = c
  /\ {c \in Conn : Player[c] \in {"live", "away"}} = Ids(seats)
  /\ Cardinality(Ids(seats)) = Len(seats)

LEMMA SeatOfIs == SeatsInv => SeatsSeen
<1> SUFFICES ASSUME SeatsInv PROVE SeatsSeen
  OBVIOUS
<1>1. OneEach /\ seats \in Seq(Seat) /\ Ids(seats) \subseteq Conn /\ Len(seats) \in Nat
  BY HeldMeans, IdsAreConns DEF SeatsInv, TypeOK
<1>2. ASSUME NEW c \in Ids(seats)
      PROVE  c \in Conn /\ SeatOf(c) = IF c \in Live THEN "live" ELSE "away"
  <2>1. At(c) \in DOMAIN seats /\ seats[At(c)].sid = c
    BY <1>1, AtIs
  <2>2. c \in Live <=> seats[At(c)].mode = "live"
    BY <1>1, <2>1, LiveIs
  <2>3. QED
    BY <1>1, <2>2 DEF SeatOf
<1>3. ASSUME NEW c \in Conn \ Ids(seats)
      PROVE  SeatOf(c) = IF ws[c].sid = c THEN "gone" ELSE "unborn"
  BY DEF SeatOf
<1>4. \A c \in Ids(seats) : ws[c].sid = c
  BY HeldMeans DEF SeatsInv, Served
<1>5. {c \in Conn : Player[c] \in {"live", "away"}} = Ids(seats)
  BY <1>1, <1>2, <1>3 DEF Player
<1>6. Cardinality(Ids(seats)) = Len(seats)
  <2> DEFINE f == [i \in 1 .. Len(seats) |-> seats[i].sid]
  <2>1. DOMAIN seats = 1 .. Len(seats)
    BY <1>1
  <2>2. f \in [1 .. Len(seats) -> Ids(seats)]
    BY <2>1 DEF Ids
  <2>3. \A i, k \in 1 .. Len(seats) : f[i] = f[k] => i = k
    BY <1>1, <2>1 DEF OneEach
  <2>4. \A x \in Ids(seats) : \E i \in 1 .. Len(seats) : f[i] = x
    BY <2>1 DEF Ids
  <2>5. f \in Bijection(1 .. Len(seats), Ids(seats))
    BY <2>2, <2>3, <2>4 DEF Bijection, Injection, Surjection, IsInjective
  <2>6. ExistsBijection(1 .. Len(seats), Ids(seats))
    BY <2>5 DEF ExistsBijection
  <2>7. QED
    BY <1>1, <2>6, FS_CountingElements
<1>7. QED
  BY <1>2, <1>3, <1>4, <1>5, <1>6 DEF SeatsSeen

LEMMA SeatOfIsNext == SeatsInv' => SeatsSeen'
BY SeatOfIs, PTL

\* Seats counts as Sessions does.
LEMMA SameCount == \A S : Seating!Cardinality(S) = Cardinality(S)
BY DEF Seating!Cardinality, Cardinality

\* What Seats sees of a step that changes no names of tasks' sessions.
LEMMA SeatsUnseen ==
  ASSUME SeatsInv, SeatsInv', Ids(seats)' = Ids(seats), Live' = Live,
         \A d \in Conn : ws'[d].sid = ws[d].sid
  PROVE  Player' = Player
<1>1. SeatsSeen /\ SeatsSeen'
  BY SeatOfIs, SeatOfIsNext
<1>2. ASSUME NEW x \in Conn PROVE SeatOf(x)' = SeatOf(x)
  <2>1. CASE x \in Ids(seats)
    BY <1>1, <2>1 DEF SeatsSeen
  <2>2. CASE x \notin Ids(seats)
    BY <1>1, <2>2 DEF SeatsSeen
  <2>3. QED
    BY <2>1, <2>2
<1>3. QED
  BY <1>2 DEF Player

LEMMA SeatingNext ==
  ASSUME SessionsAssumption, SeatsInv, SeatsInv', [Next]_vars
  PROVE  Seating!Next \/ Player' = Player
<1> DEFINE I == Ids(seats)
<1>0. /\ SeatsSeen /\ SeatsSeen' /\ Live \subseteq I /\ I \subseteq Conn
      /\ ws \in [Conn -> Ws] /\ Sole /\ Served /\ Names
  BY SeatOfIs, SeatOfIsNext, LiveAreIds, IdsAreConns, HeldMeans DEF SeatsInv, TypeOK
<1>s. Seating!Seated = {x \in Conn : Player[x] \in {"live", "away"}}
  BY DEF Seating!Seated, Seating!Sitting, Player
<1>1. ASSUME NEW c \in Conn, NEW p \in Profile, ClaimGhost(c, p) PROVE Seating!Next
  <2>1. PICK sid \in I \ Live :
          /\ I' = I /\ Live' = Live \cup {sid}
          /\ ws' = [ws EXCEPT ![c].pc = "handshake", ![c].sid = sid]
    BY <1>1, ClaimGhostDoes
  <2>2. ws[c].pc = "new" /\ ws[c].sid = NoSession /\ c \notin I /\ c # NoSession
    BY <1>1, NameIsNew DEF ClaimGhost, SessionsAssumption
  <2>3. ws'[c].sid = sid /\ \A d \in Conn \ {c} : ws'[d] = ws[d]
    BY <1>0, <2>1 DEF Ws
  <2>4. sid \in Conn /\ Player[sid] = "away"
    BY <1>0, <2>1 DEF SeatsSeen, Player
  <2>5. ASSUME NEW x \in Conn PROVE SeatOf(x)' = IF x = sid THEN "live" ELSE SeatOf(x)
    <3>1. CASE x \in I
      BY <1>0, <2>1, <3>1 DEF SeatsSeen
    <3>2. CASE x \notin I
      BY <1>0, <2>1, <2>2, <2>3, <3>2 DEF SeatsSeen
    <3>3. QED
      BY <3>1, <3>2
  <2>6. Player' = [x \in Conn |-> IF x \in {sid} THEN "live" ELSE Player[x]]
    BY <2>5 DEF Player
  <2>7. Seating!ComeBack(sid)
    BY <2>4, <2>6 DEF Seating!ComeBack, Seating!Becomes, Player
  <2>8. QED
    BY <2>4, <2>7 DEF Seating!Next
<1>2. ASSUME NEW c \in Conn, Admit(c) PROVE Seating!Next
  <2>1. c \notin I /\ I' = I \cup {c} /\ Live' = Live \cup {c}
    BY <1>2, AdmitDoes
  <2>2. ws[c].sid = NoSession /\ c # NoSession /\ \A d \in Conn \ {c} : ws'[d] = ws[d]
    BY <1>0, <1>2, NameIsNew DEF Admit, SessionsAssumption
  <2>3. Player[c] = "unborn"
    BY <1>0, <2>1, <2>2 DEF SeatsSeen, Player
  <2>4. ASSUME NEW x \in Conn PROVE SeatOf(x)' = IF x = c THEN "live" ELSE SeatOf(x)
    <3>1. CASE x \in I
      BY <1>0, <2>1, <3>1 DEF SeatsSeen
    <3>2. CASE x \notin I
      BY <1>0, <2>1, <2>2, <3>2 DEF SeatsSeen
    <3>3. QED
      BY <3>1, <3>2
  <2>5. Player' = [x \in Conn |-> IF x \in {c} THEN "live" ELSE Player[x]]
    BY <2>4 DEF Player
  <2>6. Cardinality(Seating!Seated) < MaxSessions
    BY <1>0, <1>2, <1>s DEF SeatsSeen, Admit
  <2>7. Seating!Join(c)
    BY <2>3, <2>5, <2>6, SameCount DEF Seating!Join, Seating!Becomes, Player
  <2>8. QED
    BY <2>7 DEF Seating!Next
<1>3. ASSUME NEW c \in Conn, AdmitByEvicting(c) PROVE Seating!Next
  <2> DEFINE out == Head(seats).sid
  <2>1. /\ c \notin I /\ Len(seats) = MaxSessions /\ out \in I
        /\ I' = (I \ {out}) \cup {c} /\ Live' = (Live \ {out}) \cup {c}
    BY <1>3, AdmitByEvictingDoes
  <2>2. ws[c].sid = NoSession /\ c # NoSession /\ \A d \in Conn \ {c} : ws'[d] = ws[d]
    BY <1>0, <1>3, NameIsNew DEF AdmitByEvicting, SessionsAssumption
  <2> HIDE DEF out
  <2>3. out \in Conn /\ out # c /\ ws'[out].sid = out /\ out \notin I'
    BY <1>0, <2>1, <2>2 DEF SeatsSeen
  <2>4. Player[c] = "unborn" 
    BY <1>0, <2>1, <2>2 DEF SeatsSeen, Player
  <2>5. ASSUME NEW x \in Conn
        PROVE  SeatOf(x)' = IF x = c THEN "live" ELSE IF x = out THEN "gone" ELSE SeatOf(x)
    <3>1. CASE x = c
      BY <1>0, <2>1, <3>1 DEF SeatsSeen
    <3>2. CASE x = out
      BY <1>0, <2>3, <3>2 DEF SeatsSeen
    <3>3. CASE x \in I /\ x # c /\ x # out
      BY <1>0, <2>1, <3>3 DEF SeatsSeen
    <3>4. CASE x \notin I /\ x # c
      BY <1>0, <2>1, <2>2, <3>4 DEF SeatsSeen
    <3>5. QED
      BY <3>1, <3>2, <3>3, <3>4
  <2>6. Player' = [Player EXCEPT ![c] = "live", ![out] = "gone"]
    BY <2>3, <2>5 DEF Player
  <2>7. Cardinality(Seating!Seated) = MaxSessions /\ out \in Seating!Seated
    BY <1>0, <1>s, <2>1 DEF SeatsSeen
  <2>8. Seating!TakeSeatOf(c, out)
    BY <2>4, <2>6, <2>7, SameCount DEF Seating!TakeSeatOf, Player
  <2>9. QED
    BY <2>3, <2>8 DEF Seating!Next
<1>4. ASSUME NEW c \in Conn, ws[c].pc \in {"ghosting", "removing"}, Goto(c, "done")
      PROVE  /\ \A d \in Conn : ws'[d].sid = ws[d].sid
             /\ ws[c].sid \in I => ws[c].sid \in Live
  <2>1. \A d \in Conn : ws'[d].sid = ws[d].sid
    BY <1>0, <1>4 DEF Goto, Ws
  <2>2. c \in Holding
    BY <1>4 DEF Holding, Tasks
  <2>3. QED
    BY <1>0, <2>1, <2>2 DEF Served
<1>5. ASSUME NEW c \in Conn, GhostSession(c) PROVE Seating!Next \/ Player' = Player
  <2> DEFINE sid == ws[c].sid
  <2>1. I' = I /\ Live' = Live \ {sid}
    BY <1>5, GhostSessionDoes
  <2>2. (\A d \in Conn : ws'[d].sid = ws[d].sid) /\ (sid \in I => sid \in Live)
    BY <1>4, <1>5 DEF GhostSession
  <2>3. CASE sid \notin I
    <3>1. Live' = Live
      BY <1>0, <2>1, <2>3
    <3>2. QED
      BY <2>1, <2>2, <3>1, SeatsUnseen
  <2>4. CASE sid \in I
    <3>1. sid \in Conn /\ Player[sid] = "live"
      BY <1>0, <2>2, <2>4 DEF SeatsSeen, Player
    <3>2. ASSUME NEW x \in Conn PROVE SeatOf(x)' = IF x = sid THEN "away" ELSE SeatOf(x)
      <4>1. CASE x \in I
        BY <1>0, <2>1, <4>1 DEF SeatsSeen
      <4>2. CASE x \notin I
        BY <1>0, <2>1, <2>2, <2>4, <4>2 DEF SeatsSeen
      <4>3. QED
        BY <4>1, <4>2
    <3>3. Player' = [x \in Conn |-> IF x \in {sid} THEN "away" ELSE Player[x]]
      BY <3>2 DEF Player
    <3>4. Seating!StepAway(sid)
      BY <3>1, <3>3 DEF Seating!StepAway, Seating!Becomes, Player
    <3>5. QED
      BY <3>1, <3>4 DEF Seating!Next
  <2>5. QED
    BY <2>3, <2>4
<1>6. ASSUME NEW c \in Conn, RemoveSession(c) PROVE Seating!Next \/ Player' = Player
  <2> DEFINE sid == ws[c].sid
  <2>1. I' = I \ {sid} /\ Live' = Live \ {sid}
    BY <1>6, RemoveSessionDoes
  <2>2. (\A d \in Conn : ws'[d].sid = ws[d].sid) /\ (sid \in I => sid \in Live)
    BY <1>4, <1>6 DEF RemoveSession
  <2>3. CASE sid \notin I
    <3>1. I' = I /\ Live' = Live
      BY <1>0, <2>1, <2>3
    <3>2. QED
      BY <2>2, <3>1, SeatsUnseen
  <2>4. CASE sid \in I
    <3>1. sid \in Conn /\ Player[sid] = "live" /\ ws[sid].sid = sid
      BY <1>0, <2>2, <2>4 DEF SeatsSeen, Player
    <3>2. ASSUME NEW x \in Conn PROVE SeatOf(x)' = IF x = sid THEN "gone" ELSE SeatOf(x)
      <4>1. CASE x = sid
        BY <1>0, <2>1, <2>2, <3>1, <4>1 DEF SeatsSeen
      <4>2. CASE x \in I /\ x # sid
        BY <1>0, <2>1, <4>2 DEF SeatsSeen
      <4>3. CASE x \notin I
        BY <1>0, <2>1, <2>2, <2>4, <4>3 DEF SeatsSeen
      <4>4. QED
        BY <4>1, <4>2, <4>3
    <3>3. Player' = [x \in Conn |-> IF x \in {sid} THEN "gone" ELSE Player[x]]
      BY <3>2 DEF Player
    <3>4. Seating!Leave(sid)
      BY <3>1, <3>3 DEF Seating!Leave, Seating!Becomes, Player
    <3>5. QED
      BY <3>1, <3>4 DEF Seating!Next
  <2>5. QED
    BY <2>3, <2>4
<1>7. ASSUME NEW c \in Conn, NEW p \in Owner, SetProfile(c, p) PROVE Player' = Player
  <2>1. I' = I /\ Live' = Live /\ ws' = ws
    BY <1>7, SetProfileDoes DEF SetProfile
  <2>2. QED
    BY <2>1, SeatsUnseen
<1>8. ASSUME NEW i \in DOMAIN seats, GhostAges(i) PROVE Player' = Player
  <2>1. I' = I /\ Live' = Live /\ ws' = ws
    BY <1>8, GhostAgesDoes DEF GhostAges
  <2>2. QED
    BY <2>1, SeatsUnseen
<1>9. ASSUME ExpireGhosts PROVE Seating!Next
  <2> DEFINE S == I \ I'
  <2>1. I' \subseteq I /\ Live' = Live /\ ws' = ws /\ Live' \subseteq I'
    BY <1>9, ExpireGhostsDoes, LiveAreIds DEF ExpireGhosts
  <2>2. S \in SUBSET Conn /\ \A x \in S : Player[x] = "away"
    BY <1>0, <2>1 DEF SeatsSeen, Player
  <2>3. ASSUME NEW x \in Conn PROVE SeatOf(x)' = IF x \in S THEN "gone" ELSE SeatOf(x)
    <3>1. CASE x \in S
      BY <1>0, <2>1, <3>1 DEF SeatsSeen
    <3>2. CASE x \in I'
      BY <1>0, <2>1, <3>2 DEF SeatsSeen
    <3>3. CASE x \notin I
      BY <1>0, <2>1, <3>3 DEF SeatsSeen
    <3>4. QED
      BY <3>1, <3>2, <3>3
  <2> HIDE DEF S
  <2>4. Player' = [x \in Conn |-> IF x \in S THEN "gone" ELSE Player[x]]
    BY <2>3 DEF Player
  <2>5. Seating!GiveUp(S)
    BY <2>2, <2>4 DEF Seating!GiveUp, Seating!Becomes, Player
  <2>6. QED
    BY <2>2, <2>5 DEF Seating!Next
<1>10. ASSUME Quiet PROVE Player' = Player
  <2>1. seats' = seats /\ WsQuiet /\ OneEach
    BY <1>10, QuietDoes, HeldMeans DEF SeatsInv
  <2>2. I' = I /\ Live' = Live /\ \A d \in Conn : ws'[d].sid = ws[d].sid
    BY <2>1, SeatsUnchanged DEF WsQuiet
  <2>3. QED
    BY <2>2, SeatsUnseen
<1>11. ASSUME UNCHANGED vars PROVE Player' = Player
  BY <1>11 DEF vars, Player, SeatOf, Ids, At
<1>12. QED
  BY <1>1, <1>2, <1>3, <1>5, <1>6, <1>7, <1>8, <1>9, <1>10, <1>11, Steps

\* However arrivals, evictions, reclaims and departures interleave, the server hands
\* out the seats as Seats says: never more than there are, never one twice, nobody is
\* evicted while a seat is free, and no session that has ended comes back.
THEOREM SeatsImplemented == Spec => ImplementsSeats
<1>1. Init => Seating!Init
  <2> SUFFICES ASSUME Init PROVE Seating!Init
    OBVIOUS
  <2>1. Ids(seats) = {} /\ \A c \in Conn : ws[c].sid = NoSession /\ c # NoSession
    BY SessionsAssumption DEF Init, Ids, NewWs, SessionsAssumption
  <2>2. \A c \in Conn : SeatOf(c) = "unborn"
    BY <2>1 DEF SeatOf
  <2>3. QED
    BY <2>2 DEF Seating!Init
<1>2. Init => SeatsInv
  BY SeatsInit, SessionsAssumption
<1>3. SeatsInv /\ [Next]_vars => SeatsInv'
  BY SeatsNext, SessionsAssumption
<1>4. SeatsInv /\ SeatsInv' /\ [Next]_vars => [Seating!Next]_Player
  BY SeatingNext, SessionsAssumption
<1>5. QED
  BY <1>1, <1>2, <1>3, <1>4, PTL DEF Spec, ImplementsSeats, Seating!Spec, Player
=============================================================================
