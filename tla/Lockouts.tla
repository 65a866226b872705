------------------------------ MODULE Lockouts ------------------------------
(***************************************************************************)
(* The PIN lockout of one profile (entries of other profiles are keyed     *)
(* apart and never meet). unlock_profile takes the time, checks the        *)
(* lockout, verifies the PIN without any lock held, and records the        *)
(* outcome afterwards, with the instant at which it began: attempts        *)
(* overlap at every step.                                                  *)
(***************************************************************************)
EXTENDS Integers, FiniteSets

CONSTANTS
  Attempt,          \* requests that can be served at a time
  LOCKOUT_STRIKES,
  LOCKOUT_DURATION,
  MaxClock          \* bound: instants

VARIABLES
  clock,
  strikes,      \* LockoutEntry.strikes
  lockedUntil,  \* LockoutEntry.locked_until; 0 is None
  attempt,      \* Attempt -> where unlock_profile stands and when it began
  window,       \* any one instant: what follows it for a LOCKOUT_DURATION is watched
  tested        \* history: wrong guesses that began in the window and were
                \* verified, since the profile was last unlocked

lockoutVars == <<clock, strikes, lockedUntil, attempt, window, tested>>

Idle == [pc |-> "idle", now |-> 0]
Instants == 1 .. MaxClock
InWindow(t) == window <= t /\ t < window + LOCKOUT_DURATION

TypeOK ==
  /\ clock \in Instants /\ window \in Instants
  /\ strikes \in 0 .. LOCKOUT_STRIKES - 1
  /\ lockedUntil \in 0 .. MaxClock + LOCKOUT_DURATION
  /\ attempt \in [Attempt -> [pc : {"idle", "begun", "verify", "failure", "success"},
                              now : 0 .. MaxClock]]
  /\ tested \in Nat

Init ==
  /\ clock = 1
  /\ strikes = 0
  /\ lockedUntil = 0
  /\ attempt = [a \in Attempt |-> Idle]
  /\ window \in Instants
  /\ tested = 0

\* unlock_profile reads the clock before it waits for the lock of the map.
Begin(a) ==
  /\ attempt[a].pc = "idle"
  /\ attempt' = [attempt EXCEPT ![a] = [pc |-> "begun", now |-> clock]]
  /\ UNCHANGED <<clock, strikes, lockedUntil, window, tested>>

\* Mutant of Check: the lockout is looked up but not heeded.
CheckNothing(a) ==
  /\ attempt[a].pc = "begun"
  /\ attempt' = [attempt EXCEPT ![a].pc = "verify"]
  /\ UNCHANGED <<clock, strikes, lockedUntil, window, tested>>

\* Lockouts::check: a locked profile is answered at once and nothing changes.
Check(a) ==
  /\ attempt[a].pc = "begun"
  /\ attempt' = IF lockedUntil > attempt[a].now THEN [attempt EXCEPT ![a] = Idle]
                ELSE [attempt EXCEPT ![a].pc = "verify"]
  /\ UNCHANGED <<clock, strikes, lockedUntil, window, tested>>

\* verify_pin: the PIN is right or wrong, or the row cannot be read.
Verify(a) ==
  /\ attempt[a].pc = "verify"
  /\ \/ /\ attempt' = [attempt EXCEPT ![a].pc = "success"]
        /\ UNCHANGED tested
     \/ /\ attempt' = [attempt EXCEPT ![a].pc = "failure"]
        /\ tested' = IF InWindow(attempt[a].now) THEN tested + 1 ELSE tested
     \/ /\ attempt' = [attempt EXCEPT ![a] = Idle]
        /\ UNCHANGED tested
  /\ UNCHANGED <<clock, strikes, lockedUntil, window>>

RecordFailure(a) ==
  /\ attempt[a].pc = "failure"
  /\ IF strikes + 1 >= LOCKOUT_STRIKES
     THEN /\ lockedUntil' = attempt[a].now + LOCKOUT_DURATION
          /\ strikes' = 0
     ELSE /\ strikes' = strikes + 1
          /\ UNCHANGED lockedUntil
  /\ attempt' = [attempt EXCEPT ![a] = Idle]
  /\ UNCHANGED <<clock, window, tested>>

\* record_success drops the entry, a lockout recorded meanwhile included.
RecordSuccess(a) ==
  /\ attempt[a].pc = "success"
  /\ strikes' = 0
  /\ lockedUntil' = 0
  /\ attempt' = [attempt EXCEPT ![a] = Idle]
  /\ tested' = 0
  /\ UNCHANGED <<clock, window>>

Tick ==
  /\ clock < MaxClock
  /\ clock' = clock + 1
  /\ UNCHANGED <<strikes, lockedUntil, attempt, window, tested>>

Next ==
  \/ \E a \in Attempt : \/ Begin(a) \/ Check(a) \/ Verify(a)
                        \/ RecordFailure(a) \/ RecordSuccess(a)
  \/ Tick

Spec == Init /\ [][Next]_lockoutVars
-----------------------------------------------------------------------------
\* Attempts from before the window, and those of the window that are about to be
\* verified and that were wrong and are not recorded yet.
Before == {a \in Attempt : attempt[a].pc # "idle" /\ attempt[a].now < window}
Trying == {a \in Attempt : attempt[a].pc = "verify" /\ InWindow(attempt[a].now)}
Wrong  == {a \in Attempt : attempt[a].pc = "failure" /\ InWindow(attempt[a].now)}

\* Twice the guesses for which k attempts, none of them from before, are good.
Twice(k) == k * (2 * LOCKOUT_STRIKES + k - 1)

\* While a lockout covers the window only what is being verified can add to the
\* guesses; otherwise an attempt from before the window is used up for each
\* lockout that came and went.
Rate ==
  LET k == Cardinality(Attempt) - Cardinality(Before)
  IN  IF lockedUntil >= window + LOCKOUT_DURATION
      THEN 2 * (tested + Cardinality(Trying)) <= Twice(k)
      ELSE tested = 0 \/ 2 * tested <= Twice(k - 1) + 2 * (strikes + Cardinality(Wrong))

\* Attempts and lockouts do not come from the future, guesses not from before.
Timely ==
  /\ \A a \in Attempt : attempt[a].now <= clock
  /\ lockedUntil <= clock + LOCKOUT_DURATION
  /\ clock < window => tested = 0

RateInv == TypeOK /\ Timely /\ Rate

\* Whatever overlaps, guessing is slow: within any LOCKOUT_DURATION no more
\* wrong PINs are tried than LOCKOUT_STRIKES for each request that can be in
\* flight and one for each two of them. (A lockout counts from the start of the
\* attempt that set it, so each attempt from before can cut one short, once.)
GuessingIsSlow == 2 * tested <= Twice(Cardinality(Attempt))
=============================================================================
