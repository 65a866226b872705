------------------------- MODULE ProfileStoreProofs -------------------------
(***************************************************************************)
(* The profile store, for every number of requests, profiles and sessions  *)
(* and whatever its limits: wrong PINs are tried at a bounded rate, the    *)
(* limit on profiles is exceeded by the overlap only, and the clean-up of  *)
(* a player never reaches the layout saved for that player.                *)
(***************************************************************************)
EXTENDS Lockouts, FiniteSetTheorems, TLAPS

\* There are finitely many workers, and a lockout takes some wrong PINs and time.
Policy ==
  /\ IsFiniteSet(Attempt)
  /\ LOCKOUT_STRIKES \in Nat \ {0} /\ LOCKOUT_DURATION \in Nat \ {0}
  /\ MaxClock \in Nat

\* Attempts that are free from before the window.
Free == Cardinality(Attempt) - Cardinality(Before)

\* Twice grows by a step of its own, and so it grows.
LEMMA TwiceStep ==
  ASSUME Policy, NEW k \in Int
  PROVE  /\ Twice(k) \in Int
         /\ Twice(k + 1) = Twice(k) + 2 * (LOCKOUT_STRIKES + k)
         /\ Twice(k) = Twice(k - 1) + 2 * (LOCKOUT_STRIKES + k - 1)
<1> DEFINE S == LOCKOUT_STRIKES
<1>1. S \in Int
  BY DEF Policy
<1>2. ASSUME NEW i \in Int PROVE Twice(i) = 2 * (i * S) + i * i - i /\ Twice(i) \in Int
  BY <1>1 DEF Twice
<1>3. (k + 1) * S = k * S + S /\ (k - 1) * S = k * S - S
  BY <1>1
<1>4. (k + 1) * (k + 1) = k * k + 2 * k + 1 /\ (k - 1) * (k - 1) = k * k - 2 * k + 1
  OBVIOUS
<1>5. k * S \in Int /\ k * k \in Int
  BY <1>1
<1> HIDE DEF S
<1> QED
  BY <1>1, <1>2, <1>3, <1>4, <1>5 DEF S

\* Twice is not negative for naturals, and does not fall.
LEMMA TwiceGrows ==
  ASSUME Policy, NEW k \in Nat, NEW n \in Nat, k <= n
  PROVE  0 <= Twice(k) /\ Twice(k) <= Twice(n)
<1> DEFINE S == LOCKOUT_STRIKES
           d == n - k
<1>1. S \in Int /\ S >= 1 /\ d \in Nat /\ n = k + d
  BY DEF Policy
<1>2. Twice(k) = k * (2 * S + k - 1)
  BY DEF Twice
<1>3. Twice(n) = k * (2 * S + k - 1) + k * d + d * (2 * S + k + d - 1)
  <2>1. Twice(n) = (k + d) * (2 * S + k + d - 1)
    BY <1>1 DEF Twice
  <2> HIDE DEF d, S
  <2>2. (k + d) * (2 * S + k + d - 1) = k * (2 * S + k - 1) + k * d + d * (2 * S + k + d - 1)
    BY <1>1
  <2> QED
    BY <2>1, <2>2
<1> HIDE DEF d, S
<1>4. k * (2 * S + k - 1) \in Nat
  <2>1. 2 * S + k - 1 \in Nat
    BY <1>1
  <2> QED
    BY <2>1
<1>5. k * d \in Nat /\ d * (2 * S + k + d - 1) \in Nat
  <2>1. 2 * S + k + d - 1 \in Nat
    BY <1>1
  <2> QED
    BY <1>1, <2>1
<1> QED
  BY <1>2, <1>3, <1>4, <1>5

-----------------------------------------------------------------------------
(***************************************************************************)
(* The three sets of attempts, and what a step of one attempt does to them *)
(***************************************************************************)
Stage == [pc : {"idle", "begun", "verify", "failure", "success"}, now : 0 .. MaxClock]

\* An attempt is in one of the sets at most.
LEMMA Counted ==
  ASSUME Policy, TypeOK
  PROVE  /\ Cardinality(Attempt) \in Nat
         /\ Cardinality(Before) \in Nat /\ Cardinality(Trying) \in Nat
         /\ Cardinality(Wrong) \in Nat
         /\ Cardinality(Before) + Cardinality(Trying) + Cardinality(Wrong)
              <= Cardinality(Attempt)
<1>1. Before \subseteq Attempt /\ Trying \subseteq Attempt /\ Wrong \subseteq Attempt
  BY DEF Before, Trying, Wrong
<1>2. /\ IsFiniteSet(Before) /\ IsFiniteSet(Trying) /\ IsFiniteSet(Wrong)
      /\ Cardinality(Before) \in Nat /\ Cardinality(Trying) \in Nat
      /\ Cardinality(Wrong) \in Nat /\ Cardinality(Attempt) \in Nat
  BY <1>1, FS_Subset, FS_CardinalityType DEF Policy
<1>3. Trying \cap Wrong = {} /\ Before \cap (Trying \cup Wrong) = {}
  <2>1. ASSUME NEW a \in Attempt, attempt[a].now < window, InWindow(attempt[a].now)
        PROVE  FALSE
    <3>1. attempt[a].now \in 0 .. MaxClock /\ window \in Instants
      BY DEF TypeOK
    <3> QED
      BY <2>1, <3>1 DEF InWindow, Instants, Policy
  <2> QED
    BY <2>1 DEF Before, Trying, Wrong
<1>4. /\ IsFiniteSet(Trying \cup Wrong)
      /\ Cardinality(Trying \cup Wrong) = Cardinality(Trying) + Cardinality(Wrong)
  <2>1. /\ IsFiniteSet(Trying \cup Wrong)
        /\ Cardinality(Trying \cup Wrong)
             = Cardinality(Trying) + Cardinality(Wrong) - Cardinality(Trying \cap Wrong)
    BY <1>2, FS_Union
  <2> QED
    BY <1>2, <1>3, <2>1, FS_EmptySet
<1>5. Cardinality(Before \cup (Trying \cup Wrong))
        = Cardinality(Before) + Cardinality(Trying) + Cardinality(Wrong)
  <2>1. Cardinality(Before \cup (Trying \cup Wrong))
          = Cardinality(Before) + Cardinality(Trying \cup Wrong)
              - Cardinality(Before \cap (Trying \cup Wrong))
    BY <1>2, <1>4, FS_Union
  <2>2. Cardinality(Before \cap (Trying \cup Wrong)) = 0
    BY <1>3, FS_EmptySet
  <2> QED
    BY <1>2, <1>4, <2>1, <2>2
<1>6. Cardinality(Before \cup (Trying \cup Wrong)) <= Cardinality(Attempt)
  BY <1>1, FS_Subset DEF Policy
<1> QED
  BY <1>2, <1>5, <1>6

\* What one attempt more or less does to the number of them.
LEMMA OneMoreOrLess ==
  ASSUME Policy, NEW X, X \subseteq Attempt, NEW a \in Attempt
  PROVE  /\ Cardinality(X \ {a}) = IF a \in X THEN Cardinality(X) - 1 ELSE Cardinality(X)
         /\ Cardinality(X \cup {a}) = IF a \in X THEN Cardinality(X) ELSE Cardinality(X) + 1
<1>1. IsFiniteSet(X)
  BY FS_Subset DEF Policy
<1>2. CASE a \in X
  BY <1>1, <1>2, FS_RemoveElement, FS_AddElement
<1>3. CASE a \notin X
  <2>1. X \ {a} = X
    BY <1>3
  <2> QED
    BY <1>1, <1>3, <2>1, FS_AddElement
<1> QED
  BY <1>2, <1>3

\* An attempt that moves on is put where its stage belongs.
LEMMA Moves ==
  ASSUME TypeOK, NEW a \in Attempt, NEW r \in Stage,
         attempt' = [attempt EXCEPT ![a] = r], window' = window
  PROVE  /\ Before' = IF r.pc # "idle" /\ r.now < window THEN Before \cup {a}
                      ELSE Before \ {a}
         /\ Trying' = IF r.pc = "verify" /\ InWindow(r.now) THEN Trying \cup {a}
                      ELSE Trying \ {a}
         /\ Wrong' = IF r.pc = "failure" /\ InWindow(r.now) THEN Wrong \cup {a}
                     ELSE Wrong \ {a}
<1>1. attempt \in [Attempt -> Stage]
  BY DEF TypeOK, Stage
<1>2. \A b \in Attempt : attempt'[b] = IF b = a THEN r ELSE attempt[b]
  BY <1>1
<1>3. \A t : InWindow(t)' = InWindow(t)
  BY DEF InWindow
<1>4. Before' = {b \in Attempt : attempt'[b].pc # "idle" /\ attempt'[b].now < window}
  BY DEF Before
<1>5. Trying' = {b \in Attempt : attempt'[b].pc = "verify" /\ InWindow(attempt'[b].now)}
  BY DEF Trying, InWindow
<1>6. Wrong' = {b \in Attempt : attempt'[b].pc = "failure" /\ InWindow(attempt'[b].now)}
  BY DEF Wrong, InWindow
<1>7. Before' = IF r.pc # "idle" /\ r.now < window THEN Before \cup {a} ELSE Before \ {a}
  BY <1>2, <1>4 DEF Before
<1>8. Trying' = IF r.pc = "verify" /\ InWindow(r.now) THEN Trying \cup {a} ELSE Trying \ {a}
  BY <1>2, <1>5 DEF Trying
<1>9. Wrong' = IF r.pc = "failure" /\ InWindow(r.now) THEN Wrong \cup {a} ELSE Wrong \ {a}
  BY <1>2, <1>6 DEF Wrong
<1> QED
  BY <1>7, <1>8, <1>9

\* A move keeps the type of the attempts, and it is one of its stage.
LEMMA MovesTyped ==
  ASSUME TypeOK, Policy, NEW a \in Attempt
  PROVE  /\ attempt[a] \in Stage /\ Idle \in Stage
         /\ \A r \in Stage : [attempt EXCEPT ![a] = r] \in [Attempt -> Stage]
         /\ \A p \in {"idle", "begun", "verify", "failure", "success"} :
              /\ [pc |-> p, now |-> attempt[a].now] \in Stage
              /\ [attempt EXCEPT ![a].pc = p]
                   = [attempt EXCEPT ![a] = [pc |-> p, now |-> attempt[a].now]]
<1>1. attempt \in [Attempt -> Stage]
  BY DEF TypeOK, Stage
<1>2. attempt[a] \in Stage /\ Idle \in Stage
  BY <1>1 DEF Stage, Idle, Policy
<1>3. ASSUME NEW p \in {"idle", "begun", "verify", "failure", "success"}
      PROVE  /\ [pc |-> p, now |-> attempt[a].now] \in Stage
             /\ [attempt[a] EXCEPT !.pc = p] = [pc |-> p, now |-> attempt[a].now]
  BY <1>2 DEF Stage
<1>4. \A p : [attempt EXCEPT ![a].pc = p] = [attempt EXCEPT ![a] = [attempt[a] EXCEPT !.pc = p]]
  BY <1>1
<1>5. \A r \in Stage : [attempt EXCEPT ![a] = r] \in [Attempt -> Stage]
  BY <1>1
<1> QED
  BY <1>2, <1>3, <1>4, <1>5
-----------------------------------------------------------------------------
(***************************************************************************)
(* The rate, first in numbers.                                             *)
(***************************************************************************)
Covered == lockedUntil >= window + LOCKOUT_DURATION

AreNumbers ==
  /\ tested \in Nat /\ strikes \in Nat /\ strikes <= LOCKOUT_STRIKES - 1
  /\ Free \in Nat /\ Free <= Cardinality(Attempt)
  /\ Cardinality(Trying) \in Nat /\ Cardinality(Wrong) \in Nat
  /\ Cardinality(Trying) + Cardinality(Wrong) <= Free

LEMMA Numbers ==
  ASSUME Policy
  PROVE  /\ TypeOK => AreNumbers
         /\ TypeOK' => AreNumbers'
<1>1. TypeOK => AreNumbers
  <2> SUFFICES ASSUME TypeOK PROVE AreNumbers
    OBVIOUS
  <2>1. strikes \in 0 .. LOCKOUT_STRIKES - 1 /\ tested \in Nat
    BY DEF TypeOK
  <2> QED
    BY <2>1, Counted DEF AreNumbers, Free, Policy
<1> QED
  BY <1>1, PTL

\* The rate in terms of the attempts that are free.
RateOf(covered, g, s, k, t, w) ==
  IF covered THEN 2 * (g + t) <= Twice(k)
  ELSE g = 0 \/ 2 * g <= Twice(k - 1) + 2 * (s + w)

LEMMA RateIs ==
  /\ Rate <=> RateOf(Covered, tested, strikes, Free, Cardinality(Trying), Cardinality(Wrong))
  /\ Rate' <=> RateOf(Covered', tested', strikes', Free', Cardinality(Trying'),
                      Cardinality(Wrong'))
  BY DEF Rate, RateOf, Covered, Free, Twice

\* Between lockouts the rate is kept when no attempt from before is added and
\* each guess comes out of what may be tried still.
LEMMA RateKept ==
  ASSUME Policy, NEW covered \in BOOLEAN,
         NEW g \in Nat, NEW s \in Nat, NEW k \in Nat, NEW t \in Nat, NEW w \in Nat,
         NEW g2 \in Nat, NEW s2 \in Nat, NEW k2 \in Nat, NEW t2 \in Nat, NEW w2 \in Nat,
         RateOf(covered, g, s, k, t, w), k2 >= k,
         covered => g2 + t2 <= g + t,
         ~covered => g2 - s2 - w2 <= g - s - w /\ (g2 = 0 \/ k2 > 0)
  PROVE  RateOf(covered, g2, s2, k2, t2, w2)
<1> DEFINE S == LOCKOUT_STRIKES
<1>1. S \in Nat /\ S >= 1
  BY DEF Policy
<1>2. /\ Twice(k) \in Int /\ Twice(k2) \in Int /\ Twice(k - 1) \in Int
      /\ Twice(k2 - 1) \in Int
  BY TwiceStep
<1>3. CASE covered
  <2>1. Twice(k) <= Twice(k2)
    BY TwiceGrows
  <2> QED
    BY <1>2, <1>3, <2>1 DEF RateOf
<1>4. CASE ~covered /\ g2 = 0
  BY <1>4 DEF RateOf
<1>5. CASE ~covered /\ k2 > 0
  <2>1. g = 0 \/ 2 * g <= Twice(k - 1) + 2 * (s + w)
    BY <1>5 DEF RateOf
  <2>2. 0 <= Twice(k2 - 1)
    <3>1. k2 - 1 \in Nat
      BY <1>5
    <3> QED
      BY <3>1, TwiceGrows
  <2>3. Twice(k - 1) <= Twice(k2 - 1)
    <3>1. CASE k > 0
      <4>1. k - 1 \in Nat /\ k2 - 1 \in Nat /\ k - 1 <= k2 - 1
        BY <3>1
      <4> QED
        BY <4>1, TwiceGrows
    <3>2. CASE k = 0
      <4>1. Twice(0) = Twice(0 - 1) + 2 * (S + 0 - 1) /\ Twice(0) = 0
        BY <1>1, TwiceStep DEF Twice
      <4>2. Twice(k - 1) = Twice(0 - 1)
        BY <3>2
      <4> HIDE DEF S
      <4> QED
        BY <1>1, <1>2, <2>2, <4>1, <4>2
    <3> QED
      BY <3>1, <3>2
  <2>4. 2 * g2 <= Twice(k2 - 1) + 2 * (s2 + w2)
    BY <1>2, <1>5, <2>1, <2>2, <2>3
  <2> QED
    BY <1>5, <2>4 DEF RateOf
<1> QED
  BY <1>3, <1>4, <1>5

\* The last strike is one of an attempt from before the window, whose lockout ends
\* in it, and then there is one less of those; or its lockout covers the window.
LEMMA RateStruck ==
  ASSUME Policy, NEW covered \in BOOLEAN,
         NEW g \in Nat, NEW k \in Nat, NEW t \in Nat, NEW w \in Nat, t + w <= k,
         RateOf(covered, g, LOCKOUT_STRIKES - 1, k, t, w)
  PROVE  /\ RateOf(FALSE, g, 0, k + 1, t, w)
         /\ \A w2 \in Nat : RateOf(TRUE, g, 0, k, t, w2)
<1> DEFINE S == LOCKOUT_STRIKES
<1>1. S \in Nat /\ S >= 1
  BY DEF Policy
<1>2. /\ Twice(k) \in Int /\ Twice(k - 1) \in Int
      /\ Twice(k) = Twice(k - 1) + 2 * (S + k - 1)
  BY TwiceStep
<1>3. IF covered THEN 2 * (g + t) <= Twice(k)
      ELSE g = 0 \/ 2 * g <= Twice(k - 1) + 2 * (S - 1 + w)
  BY DEF RateOf
<1>4. 0 <= Twice(k)
  BY TwiceGrows
<1>5. 2 * t <= Twice(k)
  <2>1. CASE k = 0
    BY <1>2, <1>4, <2>1
  <2>2. CASE k > 0
    <3>1. k - 1 \in Nat
      BY <2>2
    <3>2. 0 <= Twice(k - 1)
      BY <3>1, TwiceGrows
    <3> HIDE DEF S
    <3> QED
      BY <1>1, <1>2, <3>2
  <2> QED
    BY <2>1, <2>2
<1> HIDE DEF S
<1>6. 2 * (g + t) <= Twice(k)
  BY <1>1, <1>2, <1>3, <1>5
<1>7. g = 0 \/ 2 * g <= Twice(k) + 2 * (0 + w)
  BY <1>2, <1>6
<1>8. k + 1 - 1 = k
  OBVIOUS
<1> QED
  BY <1>6, <1>7, <1>8 DEF RateOf
-----------------------------------------------------------------------------
(***************************************************************************)
(* The lockout: wrong PINs are tried at a bounded rate.                    *)
(***************************************************************************)
LEMMA LockoutInit == ASSUME Policy PROVE Init => RateInv
<1> SUFFICES ASSUME Init PROVE RateInv
  OBVIOUS
<1>1. TypeOK
  BY DEF Init, TypeOK, Idle, Instants, Policy
<1>2. Timely
  BY <1>1 DEF Init, Timely, TypeOK, Idle, Instants, Policy
<1>3. ~Covered /\ tested = 0
  BY <1>1 DEF Init, Covered, TypeOK, Instants, Policy
<1>4. Rate
  BY <1>3, RateIs DEF RateOf
<1> QED
  BY <1>1, <1>2, <1>4 DEF RateInv

\* Each step of an attempt puts it on some stage, begun at the time it was.
LEMMA StepMoves ==
  ASSUME Policy, TypeOK, NEW a \in Attempt,
         \/ Begin(a) \/ Check(a) \/ Verify(a) \/ RecordFailure(a) \/ RecordSuccess(a)
  PROVE  \E r \in Stage : /\ attempt' = [attempt EXCEPT ![a] = r]
                          /\ r.now \in {0, clock, attempt[a].now}
<1>1. Idle \in Stage /\ Idle.now = 0
  BY MovesTyped DEF Idle
<1>2. CASE attempt' = [attempt EXCEPT ![a] = Idle]
  BY <1>1, <1>2
<1>3. ASSUME NEW p \in {"idle", "begun", "verify", "failure", "success"},
             attempt' = [attempt EXCEPT ![a].pc = p]
      PROVE  \E r \in Stage : /\ attempt' = [attempt EXCEPT ![a] = r]
                              /\ r.now \in {0, clock, attempt[a].now}
  <2> DEFINE r == [pc |-> p, now |-> attempt[a].now]
  <2>1. r \in Stage /\ attempt' = [attempt EXCEPT ![a] = r] /\ r.now = attempt[a].now
    BY <1>3, MovesTyped
  <2> QED
    BY <2>1
<1>4. CASE Begin(a)
  <2> DEFINE r == [pc |-> "begun", now |-> clock]
  <2>1. r \in Stage /\ r.now = clock
    BY DEF TypeOK, Instants, Stage
  <2>2. attempt' = [attempt EXCEPT ![a] = r]
    BY <1>4 DEF Begin
  <2> QED
    BY <2>1, <2>2
<1>5. CASE Check(a)
  <2>1. \/ attempt' = [attempt EXCEPT ![a] = Idle]
        \/ attempt' = [attempt EXCEPT ![a].pc = "verify"]
    BY <1>5 DEF Check
  <2> QED
    BY <1>2, <1>3, <2>1
<1>6. CASE Verify(a)
  <2>1. \/ attempt' = [attempt EXCEPT ![a] = Idle]
        \/ attempt' = [attempt EXCEPT ![a].pc = "success"]
        \/ attempt' = [attempt EXCEPT ![a].pc = "failure"]
    BY <1>6 DEF Verify
  <2> QED
    BY <1>2, <1>3, <2>1
<1>7. CASE RecordFailure(a) \/ RecordSuccess(a)
  BY <1>2, <1>7 DEF RecordFailure, RecordSuccess
<1> QED
  BY <1>4, <1>5, <1>6, <1>7

\* Each step keeps the types.
LEMMA LockoutTypes ==
  ASSUME Policy, TypeOK, [Next]_lockoutVars
  PROVE  TypeOK'
<1>1. ASSUME NEW a \in Attempt,
             \/ Begin(a) \/ Check(a) \/ Verify(a) \/ RecordFailure(a) \/ RecordSuccess(a)
      PROVE  attempt' \in [Attempt -> Stage]
  BY <1>1, StepMoves, MovesTyped
<1>2. ASSUME NEW a \in Attempt, Begin(a) \/ Check(a) PROVE TypeOK'
  <2>1. attempt' \in [Attempt -> Stage]
    BY <1>1, <1>2
  <2> QED
    BY <1>2, <2>1 DEF Begin, Check, TypeOK, Stage, Instants
<1>4. ASSUME NEW a \in Attempt, Verify(a) PROVE TypeOK'
  <2>1. attempt' \in [Attempt -> Stage]
    BY <1>1, <1>4
  <2>2. tested' \in Nat
    BY <1>4 DEF Verify, TypeOK
  <2> QED
    BY <1>4, <2>1, <2>2 DEF Verify, TypeOK, Stage, Instants
<1>5. ASSUME NEW a \in Attempt, RecordFailure(a) PROVE TypeOK'
  <2>1. attempt' \in [Attempt -> Stage]
    BY <1>1, <1>5
  <2>2. attempt[a].now \in 0 .. MaxClock
    BY MovesTyped DEF Stage
  <2>3. strikes' \in 0 .. LOCKOUT_STRIKES - 1 /\ lockedUntil' \in 0 .. MaxClock + LOCKOUT_DURATION
    BY <1>5, <2>2 DEF RecordFailure, TypeOK, Policy
  <2> QED
    BY <1>5, <2>1, <2>3 DEF RecordFailure, TypeOK, Stage, Instants
<1>6. ASSUME NEW a \in Attempt, RecordSuccess(a) PROVE TypeOK'
  <2>1. attempt' \in [Attempt -> Stage]
    BY <1>1, <1>6
  <2> QED
    BY <1>6, <2>1 DEF RecordSuccess, TypeOK, Stage, Instants, Policy
<1>7. CASE Tick
  BY <1>7 DEF Tick, TypeOK, Instants, Policy
<1>8. CASE UNCHANGED lockoutVars
  BY <1>8 DEF lockoutVars, TypeOK, Instants
<1> QED
  BY <1>2, <1>4, <1>5, <1>6, <1>7, <1>8 DEF Next

\* Each step keeps time.
LEMMA LockoutTimely ==
  ASSUME Policy, TypeOK, TypeOK', Timely, [Next]_lockoutVars
  PROVE  Timely'
<1>1. /\ attempt \in [Attempt -> Stage] /\ clock \in Nat /\ clock >= 1 /\ window \in Nat
      /\ lockedUntil \in Nat
  BY DEF TypeOK, Stage, Instants, Policy
<1>2. \A a \in Attempt : attempt[a].now \in Nat
  BY <1>1 DEF Stage
<1>3. ASSUME NEW a \in Attempt,
             \/ Begin(a) \/ Check(a) \/ Verify(a) \/ RecordFailure(a) \/ RecordSuccess(a)
      PROVE  \A b \in Attempt : attempt'[b].now <= clock'
  <2>1. PICK r \in Stage : /\ attempt' = [attempt EXCEPT ![a] = r]
                           /\ r.now \in {0, clock, attempt[a].now}
    BY <1>3, StepMoves
  <2>2. clock' = clock
    BY <1>3 DEF Begin, Check, Verify, RecordFailure, RecordSuccess
  <2>3. r.now <= clock
    BY <1>1, <2>1 DEF Timely
  <2> QED
    BY <1>1, <2>1, <2>2, <2>3 DEF Timely
<1>4. ASSUME NEW a \in Attempt, Begin(a) \/ Check(a) PROVE Timely'
  BY <1>3, <1>4 DEF Begin, Check, Timely
<1>8. ASSUME NEW a \in Attempt, Verify(a) PROVE Timely'
  <2>1. attempt[a].now <= clock /\ attempt[a].now \in Nat
    BY <1>2 DEF Timely
  <2>2. tested' = tested \/ InWindow(attempt[a].now)
    BY <1>8 DEF Verify
  <2>3. clock < window => tested' = tested
    BY <1>1, <2>1, <2>2 DEF InWindow
  <2> QED
    BY <1>3, <1>8, <2>3 DEF Verify, Timely
<1>9. ASSUME NEW a \in Attempt, RecordFailure(a) PROVE Timely'
  <2>1. attempt[a].now <= clock /\ attempt[a].now \in Nat
    BY <1>2 DEF Timely
  <2>2. lockedUntil' <= clock' + LOCKOUT_DURATION
    BY <1>1, <1>9, <2>1 DEF RecordFailure, Timely, Policy
  <2> QED
    BY <1>3, <1>9, <2>2 DEF RecordFailure, Timely
<1>10. ASSUME NEW a \in Attempt, RecordSuccess(a) PROVE Timely'
  <2>1. lockedUntil' = 0 /\ tested' = 0 /\ clock' = clock
    BY <1>10 DEF RecordSuccess
  <2>2. \A b \in Attempt : attempt'[b].now <= clock'
    BY <1>3, <1>10
  <2> QED
    BY <1>1, <2>1, <2>2 DEF Timely, Policy
<1>11. CASE Tick
  <2>1. clock' = clock + 1 /\ UNCHANGED <<lockedUntil, attempt, window, tested>>
    BY <1>11 DEF Tick
  <2>2. \A b \in Attempt : attempt[b].now <= clock + 1
    BY <1>1, <1>2 DEF Timely
  <2> QED
    BY <1>1, <2>1, <2>2 DEF Timely, Policy
<1>12. CASE UNCHANGED lockoutVars
  BY <1>12 DEF lockoutVars, Timely
<1> QED
  BY <1>4, <1>8, <1>9, <1>10, <1>11, <1>12 DEF Next

\* How the numbers follow an attempt from one stage to the next.
One(b) == IF b THEN 1 ELSE 0

LEMMA Recount ==
  ASSUME Policy, TypeOK, NEW a \in Attempt, NEW r \in Stage,
         attempt' = [attempt EXCEPT ![a] = r], window' = window
  PROVE  /\ Free' = Free + One(a \in Before) - One(r.pc # "idle" /\ r.now < window)
         /\ Cardinality(Trying') = Cardinality(Trying) - One(a \in Trying)
                                    + One(r.pc = "verify" /\ InWindow(r.now))
         /\ Cardinality(Wrong') = Cardinality(Wrong) - One(a \in Wrong)
                                   + One(r.pc = "failure" /\ InWindow(r.now))
<1>1. /\ Before' = IF r.pc # "idle" /\ r.now < window THEN Before \cup {a} ELSE Before \ {a}
      /\ Trying' = IF r.pc = "verify" /\ InWindow(r.now) THEN Trying \cup {a} ELSE Trying \ {a}
      /\ Wrong' = IF r.pc = "failure" /\ InWindow(r.now) THEN Wrong \cup {a} ELSE Wrong \ {a}
  BY Moves
<1>2. Before \subseteq Attempt /\ Trying \subseteq Attempt /\ Wrong \subseteq Attempt
  BY DEF Before, Trying, Wrong
<1>3. /\ Cardinality(Attempt) \in Nat
      /\ Cardinality(Before) \in Nat /\ Cardinality(Trying) \in Nat
      /\ Cardinality(Wrong) \in Nat
  BY Counted
<1>4. ASSUME NEW X, X \subseteq Attempt, Cardinality(X) \in Nat, NEW b \in BOOLEAN, NEW Y,
             Y = IF b THEN X \cup {a} ELSE X \ {a}
      PROVE  Cardinality(Y) = Cardinality(X) - One(a \in X) + One(b)
  <2>1. /\ Cardinality(X \ {a}) = IF a \in X THEN Cardinality(X) - 1 ELSE Cardinality(X)
        /\ Cardinality(X \cup {a}) = IF a \in X THEN Cardinality(X) ELSE Cardinality(X) + 1
    BY <1>4, OneMoreOrLess
  <2> QED
    BY <1>4, <2>1 DEF One
<1>5. Cardinality(Before') = Cardinality(Before) - One(a \in Before)
                             + One(r.pc # "idle" /\ r.now < window)
  BY <1>1, <1>2, <1>3, <1>4
<1>6. Cardinality(Trying') = Cardinality(Trying) - One(a \in Trying)
                             + One(r.pc = "verify" /\ InWindow(r.now))
  BY <1>1, <1>2, <1>3, <1>4
<1>7. Cardinality(Wrong') = Cardinality(Wrong) - One(a \in Wrong)
                            + One(r.pc = "failure" /\ InWindow(r.now))
  BY <1>1, <1>2, <1>3, <1>4
<1>8. Free' = Cardinality(Attempt) - Cardinality(Before')
  BY DEF Free
<1>9. \A b : One(b) \in {0, 1}
  BY DEF One
<1> QED
  BY <1>3, <1>5, <1>6, <1>7, <1>8, <1>9 DEF Free

\* Who has guessed in the window is not from before it.
LEMMA GuessesNeedOne ==
  ASSUME Policy, NEW g \in Nat, NEW s \in Nat, NEW k \in Nat, NEW t \in Nat, NEW w \in Nat,
         s <= LOCKOUT_STRIKES - 1, w <= k, RateOf(FALSE, g, s, k, t, w)
  PROVE  g = 0 \/ k > 0
<1> SUFFICES ASSUME k = 0 PROVE g = 0
  OBVIOUS
<1>1. Twice(0) = Twice(0 - 1) + 2 * (LOCKOUT_STRIKES + 0 - 1) /\ Twice(0) = 0
      /\ Twice(0 - 1) \in Int
  BY TwiceStep DEF Twice, Policy
<1>2. g = 0 \/ 2 * g <= Twice(0 - 1) + 2 * (s + w)
  BY DEF RateOf
<1> QED
  BY <1>1, <1>2 DEF Policy

\* Each step keeps the rate.
LEMMA LockoutRate ==
  ASSUME Policy, TypeOK, TypeOK', Timely, Rate, [Next]_lockoutVars
  PROVE  Rate'
<1> DEFINE t == Cardinality(Trying)
           w == Cardinality(Wrong)
<1>1. AreNumbers /\ AreNumbers'
  BY Numbers
<1>2. /\ tested \in Nat /\ strikes \in Nat /\ Free \in Nat /\ t \in Nat /\ w \in Nat
      /\ strikes <= LOCKOUT_STRIKES - 1 /\ t + w <= Free
  BY <1>1 DEF AreNumbers
<1>3. /\ tested' \in Nat /\ strikes' \in Nat /\ Free' \in Nat
      /\ Cardinality(Trying') \in Nat /\ Cardinality(Wrong') \in Nat
  BY <1>1 DEF AreNumbers
<1>4. /\ attempt \in [Attempt -> Stage] /\ clock \in Nat /\ window \in Nat
      /\ clock >= 1 /\ window >= 1
      /\ lockedUntil \in Nat /\ LOCKOUT_STRIKES \in Nat /\ LOCKOUT_STRIKES >= 1
      /\ LOCKOUT_DURATION \in Nat
  BY DEF TypeOK, Stage, Instants, Policy
<1>5. RateOf(Covered, tested, strikes, Free, t, w)
  BY RateIs
<1>6. Covered \in BOOLEAN
  BY DEF Covered
<1>7. ASSUME lockedUntil' = lockedUntil, window' = window, Free' >= Free,
             Covered => tested' + Cardinality(Trying') <= tested + t,
             ~Covered => /\ tested' - strikes' - Cardinality(Wrong') <= tested - strikes - w
                         /\ tested' = 0 \/ Free' > 0
      PROVE  Rate'
  <2>1. Covered' = Covered
    BY <1>7 DEF Covered
  <2>2. RateOf(Covered, tested', strikes', Free', Cardinality(Trying'), Cardinality(Wrong'))
    <3> HIDE DEF t, w
    <3> QED
      BY <1>2, <1>3, <1>5, <1>6, <1>7, RateKept
  <2> QED
    BY <2>1, <2>2, RateIs
<1>8. ASSUME NEW a \in Attempt
      PROVE  /\ attempt[a] \in Stage /\ attempt[a].now \in Nat /\ Idle \in Stage
             /\ a \in Before <=> attempt[a].pc # "idle" /\ attempt[a].now < window
             /\ a \in Trying <=> attempt[a].pc = "verify" /\ InWindow(attempt[a].now)
             /\ a \in Wrong <=> attempt[a].pc = "failure" /\ InWindow(attempt[a].now)
  <2>1. attempt[a] \in Stage /\ Idle \in Stage
    BY MovesTyped
  <2>2. attempt[a].now \in Nat
    BY <2>1 DEF Stage
  <2>3. a \in Before <=> attempt[a].pc # "idle" /\ attempt[a].now < window
    BY DEF Before
  <2>4. a \in Trying <=> attempt[a].pc = "verify" /\ InWindow(attempt[a].now)
    BY DEF Trying
  <2>5. a \in Wrong <=> attempt[a].pc = "failure" /\ InWindow(attempt[a].now)
    BY DEF Wrong
  <2> QED
    BY <2>1, <2>2, <2>3, <2>4, <2>5
<1>9. Covered \/ tested = 0 \/ Free > 0
  <2> HIDE DEF t, w
  <2>1. ASSUME ~Covered PROVE RateOf(FALSE, tested, strikes, Free, t, w)
    BY <1>5, <2>1 DEF RateOf
  <2>2. w <= Free
    BY <1>2
  <2> QED
    BY <1>2, <2>1, <2>2, GuessesNeedOne
<1>10. ASSUME NEW a \in Attempt, NEW r \in Stage, attempt' = [attempt EXCEPT ![a] = r],
              window' = window
       PROVE  /\ Free' = Free + One(a \in Before) - One(r.pc # "idle" /\ r.now < window)
              /\ Cardinality(Trying') = t - One(a \in Trying)
                                         + One(r.pc = "verify" /\ InWindow(r.now))
              /\ Cardinality(Wrong') = w - One(a \in Wrong)
                                        + One(r.pc = "failure" /\ InWindow(r.now))
  BY <1>10, Recount
<1> HIDE DEF t, w
\* An attempt that begins before the window finds nothing tried in it.
<1>11. ASSUME NEW a \in Attempt, Begin(a) PROVE Rate'
  <2> DEFINE r == [pc |-> "begun", now |-> clock]
  <2>1. r \in Stage /\ attempt' = [attempt EXCEPT ![a] = r] /\ window' = window
        /\ UNCHANGED <<lockedUntil, tested, strikes>> /\ attempt[a].pc = "idle"
    BY <1>11 DEF Begin, TypeOK, Instants, Stage
  <2>2. a \notin Before /\ a \notin Trying /\ a \notin Wrong
    BY <1>8, <2>1
  <2>3. r.pc = "begun" /\ r.now = clock
    OBVIOUS
  <2> HIDE DEF r
  <2>4. CASE clock < window
    <3>1. tested' = 0 /\ lockedUntil' < window' + LOCKOUT_DURATION
      BY <1>4, <2>1, <2>4 DEF Timely
    <3>2. ~Covered'
      BY <1>4, <2>1, <3>1 DEF Covered
    <3> QED
      BY <3>1, <3>2, RateIs DEF RateOf
  <2>5. CASE ~(clock < window)
    <3>1. Free' = Free + 0 /\ Cardinality(Trying') = t + 0 /\ Cardinality(Wrong') = w + 0
      <4>1. /\ Free' = Free + One(a \in Before) - One(r.pc # "idle" /\ r.now < window)
            /\ Cardinality(Trying') = t - One(a \in Trying)
                                       + One(r.pc = "verify" /\ InWindow(r.now))
            /\ Cardinality(Wrong') = w - One(a \in Wrong)
                                      + One(r.pc = "failure" /\ InWindow(r.now))
        BY <1>10, <2>1
      <4> QED
        BY <1>2, <2>2, <2>3, <2>5, <4>1 DEF One
    <3> QED
      BY <1>2, <1>7, <1>9, <2>1, <3>1
  <2> QED
    BY <2>4, <2>5
\* A lockout that covers the window refuses what begins in it.
<1>12. ASSUME NEW a \in Attempt, Check(a) PROVE Rate'
  <2>1. /\ UNCHANGED <<lockedUntil, tested, strikes, window>> /\ attempt[a].pc = "begun"
        /\ a \notin Trying /\ a \notin Wrong
    BY <1>8, <1>12 DEF Check
  <2>2. CASE attempt' = [attempt EXCEPT ![a] = Idle]
    <3>1. Idle \in Stage /\ Idle.pc = "idle"
      BY <1>8 DEF Idle
    <3>2. /\ Free' = Free + One(a \in Before) - One(Idle.pc # "idle" /\ Idle.now < window)
          /\ Cardinality(Trying') = t - One(a \in Trying)
                                     + One(Idle.pc = "verify" /\ InWindow(Idle.now))
          /\ Cardinality(Wrong') = w - One(a \in Wrong)
                                    + One(Idle.pc = "failure" /\ InWindow(Idle.now))
      BY <1>10, <2>1, <2>2, <3>1
    <3>3. Free' >= Free /\ Cardinality(Trying') = t /\ Cardinality(Wrong') = w
      BY <1>2, <2>1, <3>1, <3>2 DEF One
    <3> QED
      BY <1>2, <1>3, <1>7, <1>9, <2>1, <3>3
  <2>3. CASE lockedUntil <= attempt[a].now /\ attempt' = [attempt EXCEPT ![a].pc = "verify"]
    <3> DEFINE r == [pc |-> "verify", now |-> attempt[a].now]
    <3>1. r \in Stage /\ attempt' = [attempt EXCEPT ![a] = r]
      BY <2>3, MovesTyped
    <3>2. r.pc = "verify" /\ r.now = attempt[a].now
      OBVIOUS
    <3>3. a \in Before <=> r.now < window
      BY <1>8, <2>1
    <3>4. Covered => ~InWindow(r.now)
      BY <1>4, <1>8, <2>3 DEF Covered, InWindow
    <3> HIDE DEF r
    <3>5. /\ Free' = Free + One(a \in Before) - One(r.pc # "idle" /\ r.now < window)
          /\ Cardinality(Trying') = t - One(a \in Trying)
                                     + One(r.pc = "verify" /\ InWindow(r.now))
          /\ Cardinality(Wrong') = w - One(a \in Wrong)
                                    + One(r.pc = "failure" /\ InWindow(r.now))
      BY <1>10, <2>1, <3>1
    <3>6. /\ Free' = Free /\ Cardinality(Wrong') = w
          /\ Covered => Cardinality(Trying') = t
      BY <1>2, <2>1, <3>2, <3>3, <3>4, <3>5 DEF One
    <3> QED
      BY <1>2, <1>3, <1>7, <1>9, <2>1, <3>6
  <2> QED
    BY <1>4, <1>8, <1>12, <2>2, <2>3 DEF Check
\* A wrong PIN of the window was being verified, and waits to be recorded.
<1>13. ASSUME NEW a \in Attempt, Verify(a) PROVE Rate'
  <2>1. /\ UNCHANGED <<lockedUntil, strikes, window>> /\ attempt[a].pc = "verify"
        /\ a \notin Wrong
    BY <1>8, <1>13 DEF Verify
  <2>2. a \in Trying <=> InWindow(attempt[a].now)
    BY <1>8, <2>1
  <2>3. a \in Before <=> attempt[a].now < window
    BY <1>8, <2>1
  <2>4. InWindow(attempt[a].now) => ~(attempt[a].now < window)
    BY <1>4, <1>8 DEF InWindow
  <2>5. ASSUME NEW r \in Stage, attempt' = [attempt EXCEPT ![a] = r],
               r.pc = "idle" \/ (r.pc = "success" /\ r.now = attempt[a].now),
               tested' = tested
        PROVE  Rate'
    <3>1. /\ Free' = Free + One(a \in Before) - One(r.pc # "idle" /\ r.now < window)
          /\ Cardinality(Trying') = t - One(a \in Trying)
                                     + One(r.pc = "verify" /\ InWindow(r.now))
          /\ Cardinality(Wrong') = w - One(a \in Wrong)
                                    + One(r.pc = "failure" /\ InWindow(r.now))
      BY <1>10, <2>1, <2>5
    <3>2. r.pc = "success" /\ r.now < window => a \in Before
      BY <2>3, <2>5
    <3>3. Free' >= Free /\ Cardinality(Trying') <= t /\ Cardinality(Wrong') = w
      BY <1>2, <2>1, <2>5, <3>1, <3>2 DEF One
    <3> QED
      BY <1>2, <1>3, <1>7, <1>9, <2>1, <2>5, <3>3
  <2>6. CASE tested' = tested /\ attempt' = [attempt EXCEPT ![a] = Idle]
    BY <1>8, <2>5, <2>6 DEF Idle
  <2>7. CASE tested' = tested /\ attempt' = [attempt EXCEPT ![a].pc = "success"]
    BY <2>5, <2>7, MovesTyped
  <2>8. CASE /\ tested' = IF InWindow(attempt[a].now) THEN tested + 1 ELSE tested
             /\ attempt' = [attempt EXCEPT ![a].pc = "failure"]
    <3> DEFINE r == [pc |-> "failure", now |-> attempt[a].now]
    <3>1. r \in Stage /\ attempt' = [attempt EXCEPT ![a] = r]
      BY <2>8, MovesTyped
    <3>2. r.pc = "failure" /\ r.now = attempt[a].now
      OBVIOUS
    <3> HIDE DEF r
    <3>3. /\ Free' = Free + One(a \in Before) - One(r.pc # "idle" /\ r.now < window)
          /\ Cardinality(Trying') = t - One(a \in Trying)
                                     + One(r.pc = "verify" /\ InWindow(r.now))
          /\ Cardinality(Wrong') = w - One(a \in Wrong)
                                    + One(r.pc = "failure" /\ InWindow(r.now))
      BY <1>10, <2>1, <3>1
    <3>4. Free' = Free
      BY <1>2, <2>3, <3>2, <3>3 DEF One
    <3>5. CASE InWindow(attempt[a].now)
      <4>1. Cardinality(Trying') = t - 1 /\ Cardinality(Wrong') = w + 1 /\ tested' = tested + 1
        BY <1>2, <2>1, <2>2, <2>8, <3>2, <3>3, <3>5 DEF One
      <4>2. Free' > 0
        <5>1. a \in Trying /\ t >= 1
          BY <1>2, <1>3, <2>2, <3>5, <4>1
        <5> QED
          BY <1>2, <3>4, <5>1
      <4> QED
        BY <1>2, <1>3, <1>7, <2>1, <3>4, <4>1, <4>2
    <3>6. CASE ~InWindow(attempt[a].now)
      <4>1. Cardinality(Trying') = t /\ Cardinality(Wrong') = w /\ tested' = tested
        BY <1>2, <2>1, <2>2, <2>8, <3>2, <3>3, <3>6 DEF One
      <4> QED
        BY <1>2, <1>3, <1>7, <1>9, <2>1, <3>4, <4>1
    <3> QED
      BY <3>5, <3>6
  <2> QED
    BY <1>13, <2>6, <2>7, <2>8 DEF Verify
\* A lockout set by an attempt from before the window ends in it.
<1>14. ASSUME NEW a \in Attempt, RecordFailure(a) PROVE Rate'
  <2>1. /\ UNCHANGED <<window, tested>> /\ attempt[a].pc = "failure" /\ a \notin Trying
        /\ attempt' = [attempt EXCEPT ![a] = Idle]
    BY <1>8, <1>14 DEF RecordFailure
  <2>2. Idle \in Stage /\ Idle.pc = "idle"
    BY <1>8 DEF Idle
  <2>3. a \in Wrong <=> InWindow(attempt[a].now)
    BY <1>8, <2>1
  <2>4. a \in Before <=> attempt[a].now < window
    BY <1>8, <2>1
  <2>5. /\ Free' = Free + One(a \in Before) - One(Idle.pc # "idle" /\ Idle.now < window)
        /\ Cardinality(Trying') = t - One(a \in Trying)
                                   + One(Idle.pc = "verify" /\ InWindow(Idle.now))
        /\ Cardinality(Wrong') = w - One(a \in Wrong)
                                  + One(Idle.pc = "failure" /\ InWindow(Idle.now))
    BY <1>10, <2>1, <2>2
  <2>6. /\ Free' = Free + One(a \in Before) /\ Cardinality(Trying') = t
        /\ Cardinality(Wrong') = w - One(a \in Wrong)
    BY <1>2, <2>1, <2>2, <2>5 DEF One
  <2>7. CASE strikes + 1 >= LOCKOUT_STRIKES
    <3>1. lockedUntil' = attempt[a].now + LOCKOUT_DURATION /\ strikes' = 0
      BY <1>14, <2>7 DEF RecordFailure
    <3>2. strikes = LOCKOUT_STRIKES - 1
      BY <1>2, <1>4, <2>7
    <3>3. RateOf(Covered, tested, LOCKOUT_STRIKES - 1, Free, t, w)
      BY <1>5, <3>2
    <3>4. /\ RateOf(FALSE, tested, 0, Free + 1, t, w)
          /\ \A w2 \in Nat : RateOf(TRUE, tested, 0, Free, t, w2)
      BY <1>2, <1>6, <3>3, RateStruck
    <3>5. CASE attempt[a].now < window
      <4>1. ~InWindow(attempt[a].now)
        BY <1>4, <1>8, <3>5 DEF InWindow
      <4>2. Free' = Free + 1 /\ Cardinality(Wrong') = w
        BY <1>2, <2>3, <2>4, <2>6, <3>5, <4>1 DEF One
      <4>3. Covered' = FALSE
        BY <1>4, <1>8, <2>1, <3>1, <3>5 DEF Covered
      <4> QED
        BY <2>1, <2>6, <3>1, <3>4, <4>2, <4>3, RateIs
    <3>6. CASE ~(attempt[a].now < window)
      <4>1. Free' = Free
        BY <1>2, <2>4, <2>6, <3>6 DEF One
      <4>2. Covered' = TRUE
        BY <1>4, <1>8, <2>1, <3>1, <3>6 DEF Covered
      <4> QED
        BY <1>3, <2>1, <2>6, <3>1, <3>4, <4>1, <4>2, RateIs
    <3> QED
      BY <3>5, <3>6
  <2>8. CASE ~(strikes + 1 >= LOCKOUT_STRIKES)
    <3>1. lockedUntil' = lockedUntil /\ strikes' = strikes + 1
      BY <1>14, <2>8 DEF RecordFailure
    <3>2. Free' >= Free /\ Cardinality(Wrong') >= w - 1
      BY <1>2, <2>6 DEF One
    <3> QED
      BY <1>2, <1>3, <1>7, <1>9, <2>1, <2>6, <3>1, <3>2
  <2> QED
    BY <2>7, <2>8
<1>15. ASSUME NEW a \in Attempt, RecordSuccess(a) PROVE Rate'
  <2>1. tested' = 0 /\ lockedUntil' = 0 /\ window' = window
    BY <1>15 DEF RecordSuccess
  <2>2. Covered' = FALSE
    BY <1>4, <2>1 DEF Covered
  <2> QED
    BY <2>1, <2>2, RateIs DEF RateOf
<1>16. CASE Tick \/ UNCHANGED lockoutVars
  <2>1. UNCHANGED <<strikes, lockedUntil, attempt, window, tested>>
    BY <1>16 DEF Tick, lockoutVars
  <2> QED
    BY <2>1 DEF Rate, Before, Trying, Wrong, InWindow
<1> QED
  BY <1>11, <1>12, <1>13, <1>14, <1>15, <1>16 DEF Next

\* The rate bounds the guesses.
LEMMA RateBounds == ASSUME Policy, TypeOK, Rate PROVE GuessingIsSlow
<1> DEFINE S == LOCKOUT_STRIKES
           k == Free
           n == Cardinality(Attempt)
           t == Cardinality(Trying)
           w == Cardinality(Wrong)
<1>1. /\ tested \in Nat /\ strikes \in Nat /\ strikes <= S - 1 /\ k \in Nat /\ k <= n
      /\ t \in Nat /\ w \in Nat /\ t + w <= k /\ n \in Nat /\ S \in Nat
  BY Numbers, FS_CardinalityType DEF AreNumbers, Policy
<1>2. RateOf(Covered, tested, strikes, k, t, w)
  BY RateIs
<1>3. /\ Twice(k) \in Int /\ Twice(n) \in Int /\ Twice(k - 1) \in Int
      /\ Twice(k) = Twice(k - 1) + 2 * (S + k - 1)
  BY <1>1, TwiceStep
<1>4. 0 <= Twice(k) /\ Twice(k) <= Twice(n)
  BY <1>1, TwiceGrows
<1>5. IF Covered THEN 2 * (tested + t) <= Twice(k)
      ELSE tested = 0 \/ 2 * tested <= Twice(k - 1) + 2 * (strikes + w)
  BY <1>2 DEF RateOf
<1> HIDE DEF S, k, n, t, w
<1>6. 2 * tested <= Twice(n)
  BY <1>1, <1>3, <1>4, <1>5
<1> QED
  BY <1>6 DEF GuessingIsSlow, n

\* LOCKOUT_STRIKES and LOCKOUT_DURATION slow guessing down: of the PINs tried within
\* any one lockout period no more are wrong than the strikes for each request that
\* can be in flight and one for each two of them, however check, verify_pin and
\* record_failure of unlock_profile interleave.
THEOREM GuessingCorrect == ASSUME Policy PROVE Spec => []GuessingIsSlow
<1>1. Init => RateInv
  BY LockoutInit
<1>2. RateInv /\ [Next]_lockoutVars => RateInv'
  BY LockoutTypes, LockoutTimely, LockoutRate DEF RateInv
<1>3. RateInv => GuessingIsSlow
  BY RateBounds DEF RateInv
<1> QED
  BY <1>1, <1>2, <1>3, PTL DEF Spec

\* The attempts, the strikes and the clock are what they can be.
THEOREM LockoutTypesCorrect == ASSUME Policy PROVE Spec => []TypeOK
<1>1. Init => RateInv
  BY LockoutInit
<1>2. RateInv /\ [Next]_lockoutVars => RateInv'
  BY LockoutTypes, LockoutTimely, LockoutRate DEF RateInv
<1>3. RateInv => TypeOK
  BY DEF RateInv
<1> QED
  BY <1>1, <1>2, <1>3, PTL DEF Spec
-----------------------------------------------------------------------------
(***************************************************************************)
(* The limit on profiles.                                                  *)
(***************************************************************************)
CONSTANTS Creator, MAX_PROFILES
VARIABLES enrolled, creator
Enrol == INSTANCE Enrolment

\* The limit is a number, and there are finitely many workers.
Limits == IsFiniteSet(Creator) /\ MAX_PROFILES \in Nat

EnrolmentInv == Enrol!TypeOK /\ Enrol!LimitIsSoft

\* Enrolment counts as is done here.
LEMMA SameCount == \A S : Enrol!Cardinality(S) = Cardinality(S)
  BY DEF Enrol!Cardinality, Cardinality

LEMMA LimitIs ==
  /\ Enrol!LimitIsSoft
       <=> (Creator # {} => enrolled + Cardinality(creator) <= MAX_PROFILES + Cardinality(Creator) - 1)
  /\ Enrol!LimitIsSoft'
       <=> (Creator # {} => enrolled' + Cardinality(creator')
                              <= MAX_PROFILES + Cardinality(Creator) - 1)
  BY SameCount DEF Enrol!LimitIsSoft

\* With no rows and no requests there is room.
LEMMA EnrolmentInit == ASSUME Limits PROVE Enrol!Init => EnrolmentInv
<1> SUFFICES ASSUME Enrol!Init PROVE EnrolmentInv
  OBVIOUS
<1>1. Enrol!TypeOK
  BY DEF Enrol!Init, Enrol!TypeOK
<1>2. ASSUME Creator # {}
      PROVE  enrolled + Cardinality(creator) <= MAX_PROFILES + Cardinality(Creator) - 1
  <2>1. Cardinality(Creator) \in Nat /\ Cardinality(Creator) # 0
    BY <1>2, FS_CardinalityType, FS_EmptySet DEF Limits
  <2>2. Cardinality(creator) = 0 /\ enrolled = 0
    BY FS_EmptySet DEF Enrol!Init
  <2> QED
    BY <2>1, <2>2 DEF Limits
<1> QED
  BY <1>1, <1>2, LimitIs DEF EnrolmentInv

\* A request is counted only below the limit, an insert takes the place of its
\* request, and deleting makes room.
LEMMA EnrolmentNext ==
  ASSUME Limits PROVE EnrolmentInv /\ [Enrol!Next]_(Enrol!enrolmentVars) => EnrolmentInv'
<1> SUFFICES ASSUME EnrolmentInv, [Enrol!Next]_(Enrol!enrolmentVars) PROVE EnrolmentInv'
  OBVIOUS
<1> USE DEF EnrolmentInv, Enrol!TypeOK
<1> DEFINE Room == MAX_PROFILES + Cardinality(Creator) - 1
<1>1. /\ Cardinality(Creator) \in Nat
      /\ IsFiniteSet(creator) /\ Cardinality(creator) \in Nat
  BY FS_Subset, FS_CardinalityType DEF Limits
<1>2. Creator # {} => enrolled + Cardinality(creator) <= Room
  BY LimitIs
<1>3. SUFFICES Enrol!TypeOK' /\ (Creator # {} => enrolled' + Cardinality(creator') <= Room)
  BY LimitIs
<1>4. ASSUME NEW c \in Creator, Enrol!CountProfiles(c)
      PROVE  Enrol!TypeOK' /\ enrolled' + Cardinality(creator') <= Room
  <2>1. creator' \subseteq Creator /\ enrolled' = enrolled /\ enrolled < MAX_PROFILES
    BY <1>4 DEF Enrol!CountProfiles
  <2>2. Cardinality(creator') <= Cardinality(Creator) /\ Cardinality(creator') \in Nat
    BY <2>1, FS_Subset, FS_CardinalityType DEF Limits
  <2> QED
    BY <1>1, <2>1, <2>2 DEF Limits
<1>5. ASSUME NEW c \in Creator, Enrol!InsertProfile(c)
      PROVE  Enrol!TypeOK' /\ enrolled' + Cardinality(creator') <= Room
  <2>1. creator' \subseteq Creator /\ enrolled' \in {enrolled, enrolled + 1} /\ c \in creator
        /\ creator' = creator \ {c}
    BY <1>5 DEF Enrol!InsertProfile
  <2>2. Cardinality(creator') = Cardinality(creator) - 1
    BY <1>1, <2>1, FS_RemoveElement
  <2> QED
    BY <1>1, <1>2, <2>1, <2>2 DEF Limits
<1>6. CASE Enrol!DeleteProfile
  BY <1>1, <1>2, <1>6 DEF Enrol!DeleteProfile, Limits
<1>7. CASE UNCHANGED Enrol!enrolmentVars
  BY <1>2, <1>7 DEF Enrol!enrolmentVars
<1> QED
  BY <1>4, <1>5, <1>6, <1>7 DEF Enrol!Next

\* create_profile checks MAX_PROFILES in a statement of its own: the limit can be
\* exceeded, by the number of requests that overlap less one.
THEOREM LimitIsSoftCorrect == ASSUME Limits PROVE Enrol!Spec => []Enrol!LimitIsSoft
<1>1. Enrol!Init => EnrolmentInv
  BY EnrolmentInit
<1>2. EnrolmentInv /\ [Enrol!Next]_(Enrol!enrolmentVars) => EnrolmentInv'
  BY EnrolmentNext
<1>3. EnrolmentInv => Enrol!LimitIsSoft
  BY DEF EnrolmentInv
<1> QED
  BY <1>1, <1>2, <1>3, PTL DEF Enrol!Spec

\* The requests for new profiles are what they can be.
THEOREM EnrolmentTypesCorrect == ASSUME Limits PROVE Enrol!Spec => []Enrol!TypeOK
<1>1. Enrol!Init => EnrolmentInv
  BY EnrolmentInit
<1>2. EnrolmentInv /\ [Enrol!Next]_(Enrol!enrolmentVars) => EnrolmentInv'
  BY EnrolmentNext
<1>3. EnrolmentInv => Enrol!TypeOK
  BY DEF EnrolmentInv
<1> QED
  BY <1>1, <1>2, <1>3, PTL DEF Enrol!Spec
------------------------------------------------------------------------------
(***************************************************************************)
(* The rows and the layouts saved with them.                               *)
(***************************************************************************)
CONSTANTS Profile, Session, Place, NoProfile, NoLayout
VARIABLES rows, minted, layout, seat, bound, unlocking, place, cleaning, saver, story
Rows == INSTANCE Profiles

\* "No profile" is not a profile.
Ids == NoProfile \notin Profile

Parts == {"idle", "snapshot", "ids", "each", "save"}
Saver == [pc : Parts, snap : Rows!Layout, left : SUBSET Session, seen : SUBSET Profile, p : Rows!Owner]

\* What the slots may hold, and an emptied saver.
LEMMA Values ==
  /\ NoProfile \in Rows!Owner /\ Profile \subseteq Rows!Owner
  /\ Rows!Nothing \in Rows!Spot /\ Rows!Nothing.freed = NoProfile
  /\ [s \in Place |-> Rows!Nothing] \in Rows!Layout
  /\ Rows!AtRest \in Saver /\ Rows!AtRest.p = NoProfile /\ Rows!AtRest.pc = "idle"
  /\ Rows!AtRest.snap = [s \in Place |-> Rows!Nothing]
<1>1. NoProfile \in Rows!Owner /\ Profile \subseteq Rows!Owner
  BY DEF Rows!Owner
<1>2. Rows!Nothing \in Rows!Spot /\ Rows!Nothing.freed = NoProfile
  BY <1>1 DEF Rows!Nothing, Rows!Spot
<1>3. [s \in Place |-> Rows!Nothing] \in Rows!Layout
  BY <1>2 DEF Rows!Layout
<1> QED
  BY <1>1, <1>2, <1>3 DEF Rows!AtRest, Saver, Parts

LEMMA LayoutInit == ASSUME Ids PROVE Rows!Init => Rows!LayoutInv
<1> SUFFICES ASSUME Rows!Init PROVE Rows!LayoutInv
  OBVIOUS
<1> USE Values
<1>1. Rows!TypeOK
  BY DEF Rows!Init, Rows!TypeOK, Saver, Parts
<1>2. Rows!SeatsAreBound
  BY DEF Rows!Init, Rows!SeatsAreBound
<1>3. \A p \in Profile : ~Rows!Marked([s \in Place |-> Rows!Nothing], p)
  BY DEF Rows!Marked, Ids
<1>4. Rows!CleanedUpWhenGone
  BY <1>3 DEF Rows!Init, Rows!CleanedUpWhenGone
<1> QED
  BY <1>1, <1>2, <1>4 DEF Rows!LayoutInv, Rows!Init

LEMMA LayoutTypes ==
  ASSUME Ids, Rows!TypeOK, [Rows!Next]_(Rows!profileVars)
  PROVE  Rows!TypeOK'
<1> USE DEF Rows!TypeOK
<1>1. ASSUME NEW p \in Profile, Rows!CreateProfile(p) \/ Rows!DeleteProfile(p) \/ Rows!ClearResume(p)
      PROVE  Rows!TypeOK'
  BY <1>1 DEF Rows!CreateProfile, Rows!DeleteProfile, Rows!ClearResume, Rows!registry
<1>2. ASSUME NEW p \in Profile, Rows!CleanUp(p) PROVE Rows!TypeOK'
  <2>1. [kind |-> "clearing", by |-> NoProfile, freed |-> p] \in Rows!Spot
    BY Values DEF Rows!Spot
  <2>2. place' \in Rows!Layout
    BY <1>2, <2>1 DEF Rows!CleanUp, Rows!Layout
  <2> QED
    BY <1>2, <2>2 DEF Rows!CleanUp, Rows!registry
<1>3. ASSUME NEW s \in Session,
             Rows!Arrive(s) \/ Rows!LockProfile(s) \/ Rows!Depart(s) \/ Rows!Reclaim(s)
      PROVE  Rows!TypeOK'
  BY <1>3, Values DEF Rows!Arrive, Rows!LockProfile, Rows!Depart, Rows!Reclaim
<1>4. ASSUME NEW s \in Session, Rows!SetProfile(s) PROVE Rows!TypeOK'
  BY <1>4, Values DEF Rows!SetProfile, Rows!Owner
<1>5. ASSUME NEW s \in Session, Rows!ExpireGhost(s) PROVE Rows!TypeOK'
  <2>1. cleaning' \subseteq Profile
    BY <1>5 DEF Rows!ExpireGhost, Rows!Owner
  <2>2. story' \in [Profile -> {"here", "gone", "back"}]
    BY <1>5 DEF Rows!ExpireGhost, Rows!Goes
  <2> QED
    BY <1>5, <2>1, <2>2, Values DEF Rows!ExpireGhost
<1>6. ASSUME NEW s \in Session, NEW p \in Profile, Rows!ReadRow(s, p) PROVE Rows!TypeOK'
  BY <1>6, Values DEF Rows!ReadRow
<1>7. ASSUME NEW s \in Session, Rows!ReadProfile(s) PROVE Rows!TypeOK'
  <2>1. saver \in Saver
    BY DEF Saver, Parts
  <2>2. bound[s] \in Rows!Owner
    OBVIOUS
  <2>3. saver' \in Saver
    BY <1>7, <2>1, <2>2, Values DEF Rows!ReadProfile, Saver, Parts, Rows!Owner
  <2> QED
    BY <1>7, <2>3 DEF Rows!ReadProfile, Rows!registry, Saver, Parts
<1>8. ASSUME NEW s \in Session, NEW sp \in Place, NEW kind \in {"loading", "clearing"},
             Rows!Request(s, sp, kind)
      PROVE  Rows!TypeOK'
  <2>1. [kind |-> kind, by |-> IF kind = "loading" THEN bound[s] ELSE NoProfile,
         freed |-> NoProfile] \in Rows!Spot
    BY Values DEF Rows!Spot
  <2>2. place' \in Rows!Layout
    BY <1>8, <2>1 DEF Rows!Request, Rows!Layout
  <2> QED
    BY <1>8, <2>2 DEF Rows!Request, Rows!registry
<1>9. ASSUME NEW sp \in Place, Rows!FinishJob(sp) PROVE Rows!TypeOK'
  <2>1. place' \in Rows!Layout
    BY <1>9 DEF Rows!FinishJob, Rows!Layout, Rows!Spot
  <2> QED
    BY <1>9, <2>1 DEF Rows!FinishJob, Rows!registry
<1>10. CASE Rows!TakeSnapshot \/ Rows!ReadIds
  BY <1>10 DEF Rows!TakeSnapshot, Rows!ReadIds, Rows!registry
<1>11. CASE Rows!SaveLayout
  BY <1>11, Values DEF Rows!SaveLayout, Rows!registry
<1>12. CASE Rows!EndPersist
  BY <1>12, Values DEF Rows!EndPersist, Rows!registry, Saver, Parts
<1>13. CASE UNCHANGED Rows!profileVars
  BY <1>13 DEF Rows!profileVars
<1> QED
  BY <1>1, <1>2, <1>3, <1>4, <1>5, <1>6, <1>7, <1>8, <1>9, <1>10, <1>11, <1>12, <1>13 DEF Rows!Next

\* Signing in brings a player back, and only a player on no seat goes.
LEMMA SeatsKept ==
  ASSUME Ids, Rows!TypeOK, Rows!SeatsAreBound, [Rows!Next]_(Rows!profileVars)
  PROVE  Rows!SeatsAreBound'
<1> USE DEF Rows!TypeOK, Rows!SeatsAreBound
<1>1. CASE UNCHANGED <<seat, bound, story>>
  BY <1>1
<1>2. ASSUME NEW s \in Session, Rows!Arrive(s) \/ Rows!Depart(s) \/ Rows!Reclaim(s) PROVE Rows!SeatsAreBound'
  BY <1>2 DEF Rows!Arrive, Rows!Depart, Rows!Reclaim
<1>3. ASSUME NEW s \in Session, Rows!LockProfile(s) PROVE Rows!SeatsAreBound'
  BY <1>3 DEF Rows!LockProfile, Ids
<1>4. ASSUME NEW s \in Session, Rows!SetProfile(s), seat[s] # "out" PROVE Rows!SeatsAreBound'
  <2> DEFINE q == unlocking[s]
  <2>1. q \in Profile
    BY <1>4 DEF Rows!SetProfile, Rows!Owner
  <2>2. /\ bound' = [bound EXCEPT ![s] = q] /\ seat' = seat
        /\ story' = [story EXCEPT ![q] = IF @ = "gone" THEN "back" ELSE @]
    BY <1>4 DEF Rows!SetProfile
  <2>3. \A o \in Session : bound'[o] = IF o = s THEN q ELSE bound[o]
    BY <2>2
  <2>4. \A p \in Profile : story'[p] = "gone" => story[p] = "gone" /\ p # q
    BY <2>1, <2>2
  <2> HIDE DEF q
  <2> QED
    BY <1>4, <2>2, <2>3, <2>4
<1>5. ASSUME NEW s \in Session, Rows!ExpireGhost(s) PROVE Rows!SeatsAreBound'
  <2>1. \A o \in Session : /\ bound'[o] = IF o = s THEN NoProfile ELSE bound[o]
                           /\ seat'[o] = IF o = s THEN "out" ELSE seat[o]
    BY <1>5 DEF Rows!ExpireGhost
  <2>2. ASSUME NEW p \in Profile, story'[p] = "gone", NEW o \in Session
        PROVE  bound'[o] # p
    <3>1. CASE story[p] = "gone"
      BY <2>1, <3>1 DEF Ids
    <3>2. CASE story[p] # "gone"
      <4>1. ~ \E e \in Session \ {s} : seat[e] # "out" /\ bound[e] = p
        BY <1>5, <2>2, <3>2 DEF Rows!ExpireGhost, Rows!Goes
      <4> QED
        BY <2>1, <4>1 DEF Ids
    <3> QED
      BY <3>1, <3>2
  <2> QED
    BY <2>1, <2>2
<1>6. CASE Rows!Next
  <2>1. ASSUME NEW p \in Profile,
               Rows!CreateProfile(p) \/ Rows!DeleteProfile(p) \/ Rows!ClearResume(p) \/ Rows!CleanUp(p)
        PROVE  UNCHANGED <<seat, bound, story>>
    BY <2>1 DEF Rows!CreateProfile, Rows!DeleteProfile, Rows!ClearResume, Rows!CleanUp,
         Rows!registry
  <2>2. ASSUME NEW s \in Session, Rows!SetProfile(s), seat[s] = "out"
        PROVE  UNCHANGED <<seat, bound, story>>
    BY <2>2 DEF Rows!SetProfile
  <2>3. ASSUME NEW s \in Session, Rows!ReadProfile(s) \/ \E p \in Profile : Rows!ReadRow(s, p)
        PROVE  UNCHANGED <<seat, bound, story>>
    BY <2>3 DEF Rows!ReadProfile, Rows!ReadRow, Rows!registry
  <2>4. ASSUME NEW s \in Session, NEW sp \in Place, NEW kind, Rows!Request(s, sp, kind)
        PROVE  UNCHANGED <<seat, bound, story>>
    BY <2>4 DEF Rows!Request, Rows!registry
  <2>5. ASSUME Rows!TakeSnapshot \/ Rows!ReadIds \/ Rows!SaveLayout \/ Rows!EndPersist
               \/ \E sp \in Place : Rows!FinishJob(sp)
        PROVE  UNCHANGED <<seat, bound, story>>
    BY <2>5 DEF Rows!TakeSnapshot, Rows!ReadIds, Rows!SaveLayout, Rows!EndPersist,
         Rows!FinishJob, Rows!registry
  <2> QED
    BY <1>1, <1>2, <1>3, <1>4, <1>5, <1>6, <2>1, <2>2, <2>3, <2>4, <2>5 DEF Rows!Next
<1> QED
  BY <1>1, <1>6 DEF Rows!profileVars

\* The saved layouts are of rows that are there, and only a save is for a profile.
LEMMA RowsKept ==
  ASSUME Ids, Rows!LayoutInv, [Rows!Next]_(Rows!profileVars)
  PROVE  /\ saver'.pc # "save" => saver'.p = NoProfile
         /\ \A p \in Profile : layout'[p] # NoLayout => p \in rows'
<1> DEFINE Kept == /\ saver'.pc # "save" => saver'.p = NoProfile
                  /\ \A p \in Profile : layout'[p] # NoLayout => p \in rows'
<1> USE DEF Rows!LayoutInv, Rows!TypeOK
<1>1. CASE UNCHANGED <<saver, layout, rows>>
  BY <1>1
<1>2. ASSUME NEW p \in Profile, Rows!CreateProfile(p) \/ Rows!DeleteProfile(p) \/ Rows!ClearResume(p)
      PROVE  Kept
  BY <1>2 DEF Rows!CreateProfile, Rows!DeleteProfile, Rows!ClearResume
<1>3. ASSUME NEW s \in Session, Rows!ReadProfile(s) PROVE Kept
  <2>1. saver.pc = "each" /\ saver.p = NoProfile /\ UNCHANGED <<layout, rows>>
    BY <1>3 DEF Rows!ReadProfile
  <2>2. \/ saver' = [saver EXCEPT !.left = @ \ {s}]
        \/ saver'.pc = "save"
    BY <1>3 DEF Rows!ReadProfile
  <2> QED
    BY <2>1, <2>2
<1>4. ASSUME NEW sp \in Place, Rows!FinishJob(sp) PROVE Kept
  BY <1>4 DEF Rows!FinishJob
<1>5. CASE Rows!TakeSnapshot \/ Rows!ReadIds
  BY <1>5 DEF Rows!TakeSnapshot, Rows!ReadIds
<1>6. CASE Rows!SaveLayout
  BY <1>6 DEF Rows!SaveLayout
<1>7. CASE Rows!EndPersist
  BY <1>7, Values DEF Rows!EndPersist
<1>8. CASE Rows!Next
  <2>1. ASSUME NEW p \in Profile, Rows!CleanUp(p) PROVE UNCHANGED <<saver, layout, rows>>
    BY <2>1 DEF Rows!CleanUp
  <2>2. ASSUME NEW s \in Session,
               \/ Rows!Arrive(s) \/ Rows!SetProfile(s) \/ Rows!LockProfile(s) \/ Rows!Depart(s) \/ Rows!Reclaim(s)
               \/ Rows!ExpireGhost(s) \/ \E p \in Profile : Rows!ReadRow(s, p)
        PROVE  UNCHANGED <<saver, layout, rows>>
    BY <2>2 DEF Rows!Arrive, Rows!SetProfile, Rows!LockProfile, Rows!Depart, Rows!Reclaim,
         Rows!ExpireGhost, Rows!ReadRow
  <2>3. ASSUME NEW s \in Session, NEW sp \in Place, NEW kind, Rows!Request(s, sp, kind)
        PROVE  UNCHANGED <<saver, layout, rows>>
    BY <2>3 DEF Rows!Request
  <2> QED
    BY <1>1, <1>2, <1>3, <1>4, <1>5, <1>6, <1>7, <1>8, <2>1, <2>2, <2>3 DEF Rows!Next
<1> QED
  BY <1>1, <1>8 DEF Rows!profileVars

\* A clean-up marks the slots of a player who has gone; the layout of one is
\* saved from a snapshot that was taken when the player was there.
LEMMA MarksKept ==
  ASSUME Ids, Rows!LayoutInv, [Rows!Next]_(Rows!profileVars)
  PROVE  Rows!CleanedUpWhenGone'
<1> DEFINE Kept(p) ==
             /\ story'[p] = "here" => /\ p \notin cleaning' /\ ~Rows!Marked(place', p)
                                      /\ ~Rows!Marked(saver'.snap, p)
             /\ story'[p] = "gone" /\ saver'.p = p => ~Rows!Marked(saver'.snap, p)
             /\ story'[p] # "back" /\ layout'[p] # NoLayout => ~Rows!Marked(layout'[p], p)
<1>0. SUFFICES ASSUME NEW p \in Profile PROVE Kept(p)
  BY DEF Rows!CleanedUpWhenGone, Rows!Marked
<1> USE DEF Rows!LayoutInv, Rows!TypeOK
<1>a. /\ story[p] = "here" => p \notin cleaning /\ ~Rows!Marked(place, p) /\ ~Rows!Marked(saver.snap, p)
      /\ story[p] = "gone" /\ saver.p = p => ~Rows!Marked(saver.snap, p)
      /\ story[p] # "back" /\ layout[p] # NoLayout => ~Rows!Marked(layout[p], p)
  BY DEF Rows!CleanedUpWhenGone
<1>b. p # NoProfile
  BY DEF Ids
<1>1. CASE UNCHANGED <<story, cleaning, place, saver, layout>>
  BY <1>1, <1>a
<1>2. ASSUME NEW q \in Profile, Rows!DeleteProfile(q) \/ Rows!ClearResume(q) PROVE Kept(p)
  <2>1. UNCHANGED <<story, cleaning, place, saver>>
        /\ layout' = [layout EXCEPT ![q] = NoLayout]
    BY <1>2 DEF Rows!DeleteProfile, Rows!ClearResume
  <2>2. layout'[p] \in {layout[p], NoLayout}
    BY <2>1
  <2> QED
    BY <1>a, <2>1, <2>2
<1>3. ASSUME NEW q \in Profile, Rows!CleanUp(q) PROVE Kept(p)
  <2>1. q \in cleaning /\ cleaning' = cleaning \ {q} /\ UNCHANGED <<story, saver, layout>>
    BY <1>3 DEF Rows!CleanUp
  <2>2. story[p] = "here" => p # q /\ ~Rows!Marked(place, p)
    BY <1>a, <2>1
  <2>3. \A s \in Place : place'[s].freed \in {place[s].freed, q}
    BY <1>3 DEF Rows!CleanUp
  <2>4. story[p] = "here" => ~Rows!Marked(place', p)
    BY <2>2, <2>3 DEF Rows!Marked
  <2> QED
    BY <1>a, <2>1, <2>4
<1>4. ASSUME NEW s \in Session, Rows!SetProfile(s) PROVE Kept(p)
  <2>1. UNCHANGED <<cleaning, place, saver, layout>>
        /\ (story'[p] = story[p] \/ story'[p] = "back")
    BY <1>4 DEF Rows!SetProfile
  <2> QED
    BY <1>a, <2>1
<1>5. ASSUME NEW s \in Session, Rows!ExpireGhost(s) PROVE Kept(p)
  <2>1. UNCHANGED <<place, saver, layout>>
        /\ cleaning' = cleaning \cup ({bound[s]} \ {NoProfile})
    BY <1>5 DEF Rows!ExpireGhost
  <2>2. story'[p] = IF p = bound[s] /\ story[p] = "here"
                    THEN IF \E o \in Session \ {s} : seat[o] # "out" /\ bound[o] = p
                         THEN "back" ELSE "gone"
                    ELSE story[p]
    BY <1>5 DEF Rows!ExpireGhost, Rows!Goes
  <2>3. CASE p = bound[s] /\ story[p] = "here"
    BY <1>a, <2>1, <2>2, <2>3
  <2>4. CASE ~(p = bound[s] /\ story[p] = "here")
    BY <1>a, <2>1, <2>2, <2>4
  <2> QED
    BY <2>3, <2>4
<1>6. ASSUME NEW s \in Session, NEW sp \in Place, NEW kind \in {"loading", "clearing"},
             Rows!Request(s, sp, kind)
      PROVE  Kept(p)
  <2>1. UNCHANGED <<story, cleaning, saver, layout>>
    BY <1>6 DEF Rows!Request
  <2>2. \A x \in Place : place'[x].freed \in {place[x].freed, NoProfile}
    BY <1>6 DEF Rows!Request, Rows!Layout
  <2>3. story[p] = "here" => ~Rows!Marked(place', p)
    BY <1>a, <1>b, <2>2 DEF Rows!Marked
  <2> QED
    BY <1>a, <2>1, <2>3
<1>7. ASSUME NEW sp \in Place, Rows!FinishJob(sp) PROVE Kept(p)
  <2>1. /\ UNCHANGED <<story, cleaning, layout>>
        /\ saver' = [saver EXCEPT !.pc = "snapshot"]
    BY <1>7 DEF Rows!FinishJob
  <2>2. saver'.snap = saver.snap /\ saver'.p = saver.p
    BY <2>1
  <2>3. \A x \in Place : place'[x].freed = place[x].freed
    BY <1>7 DEF Rows!FinishJob, Rows!Layout, Rows!Spot
  <2>4. story[p] = "here" => ~Rows!Marked(place', p)
    BY <1>a, <2>3 DEF Rows!Marked
  <2> QED
    BY <1>a, <2>1, <2>2, <2>4
<1>8. CASE Rows!TakeSnapshot
  <2>1. /\ UNCHANGED <<story, cleaning, layout, place>> /\ saver.p = NoProfile
        /\ saver'.snap = place /\ saver'.p = saver.p
    BY <1>8 DEF Rows!TakeSnapshot
  <2> QED
    BY <1>a, <1>b, <2>1
<1>9. CASE Rows!ReadIds
  <2>1. /\ UNCHANGED <<story, cleaning, layout, place>>
        /\ saver'.snap = saver.snap /\ saver'.p = saver.p
    BY <1>9 DEF Rows!ReadIds
  <2> QED
    BY <1>a, <2>1
<1>10. ASSUME NEW s \in Session, Rows!ReadProfile(s) PROVE Kept(p)
  <2>1. UNCHANGED <<story, cleaning, layout, place>>
    BY <1>10 DEF Rows!ReadProfile
  <2>2. /\ saver'.snap = saver.snap
        /\ saver'.p = saver.p \/ (seat[s] # "out" /\ saver'.p = bound[s])
    BY <1>10 DEF Rows!ReadProfile
  <2>3. saver'.p = p => saver.p = p \/ story[p] # "gone"
    BY <2>2 DEF Rows!SeatsAreBound
  <2> QED
    BY <1>a, <2>1, <2>2, <2>3
<1>11. CASE Rows!SaveLayout
  <2>1. UNCHANGED <<story, cleaning, place>> /\ saver'.snap = saver.snap /\ saver'.p = NoProfile
    BY <1>11 DEF Rows!SaveLayout
  <2>2. layout'[p] = layout[p] \/ (saver.p = p /\ layout'[p] = saver.snap)
    BY <1>11 DEF Rows!SaveLayout
  <2>3. story[p] \in {"here", "gone", "back"}
    OBVIOUS
  <2> QED
    BY <1>a, <1>b, <2>1, <2>2, <2>3
<1>12. CASE Rows!EndPersist
  <2>1. UNCHANGED <<story, cleaning, layout, place>>
        /\ saver'.snap = [s \in Place |-> Rows!Nothing] /\ saver'.p = NoProfile
    BY <1>12, Values DEF Rows!EndPersist
  <2>2. ~Rows!Marked(saver'.snap, p)
    BY <1>b, <2>1, Values DEF Rows!Marked
  <2> QED
    BY <1>a, <2>1, <2>2
<1>13. CASE Rows!Next
  <2>1. ASSUME NEW q \in Profile, Rows!CreateProfile(q)
        PROVE  UNCHANGED <<story, cleaning, place, saver, layout>>
    BY <2>1 DEF Rows!CreateProfile
  <2>2. ASSUME NEW s \in Session,
               \/ Rows!Arrive(s) \/ Rows!LockProfile(s) \/ Rows!Depart(s) \/ Rows!Reclaim(s)
               \/ \E q \in Profile : Rows!ReadRow(s, q)
        PROVE  UNCHANGED <<story, cleaning, place, saver, layout>>
    BY <2>2 DEF Rows!Arrive, Rows!LockProfile, Rows!Depart, Rows!Reclaim, Rows!ReadRow
  <2> HIDE DEF Kept, Rows!LayoutInv, Rows!TypeOK
  <2> QED
    BY <1>1, <1>2, <1>3, <1>4, <1>5, <1>6, <1>7, <1>8, <1>9, <1>10, <1>11, <1>12, <1>13,
       <2>1, <2>2 DEF Rows!Next
<1> QED
  BY <1>1, <1>13 DEF Rows!profileVars

\* persist_layout writes everybody's slots to everybody's row, and yet a player who
\* left is offered what stood there, however sign-ins, departures, deletions and
\* clean-ups fall between its snapshot and its saves.
THEOREM LayoutCorrect == ASSUME Ids PROVE Rows!Spec => []Rows!LayoutOutlivesCleanUp
<1>1. Rows!Init => Rows!LayoutInv
  BY LayoutInit
<1>2. Rows!LayoutInv /\ [Rows!Next]_(Rows!profileVars) => Rows!LayoutInv'
  <2> SUFFICES ASSUME Rows!LayoutInv, [Rows!Next]_(Rows!profileVars) PROVE Rows!LayoutInv'
    OBVIOUS
  <2>1. Rows!TypeOK'
    BY LayoutTypes DEF Rows!LayoutInv
  <2>2. Rows!SeatsAreBound'
    BY SeatsKept DEF Rows!LayoutInv
  <2> QED
    BY <2>1, <2>2, RowsKept, MarksKept DEF Rows!LayoutInv
<1>3. Rows!LayoutInv => Rows!LayoutOutlivesCleanUp
  BY DEF Rows!LayoutInv, Rows!CleanedUpWhenGone, Rows!LayoutOutlivesCleanUp, Rows!Marked
<1> QED
  BY <1>1, <1>2, <1>3, PTL DEF Rows!Spec

\* The rows, the sessions and what is known of them are what they can be.
THEOREM LayoutTypesCorrect == ASSUME Ids PROVE Rows!Spec => []Rows!TypeOK
<1>1. Rows!Init => Rows!TypeOK
  BY LayoutInit DEF Rows!LayoutInv
<1>2. Rows!TypeOK /\ [Rows!Next]_(Rows!profileVars) => Rows!TypeOK'
  BY LayoutTypes
<1> QED
  BY <1>1, <1>2, PTL DEF Rows!Spec
=============================================================================
