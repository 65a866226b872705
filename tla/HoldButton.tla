----------------------------- MODULE HoldButton -----------------------------
(***************************************************************************)
(* A button of the page that must be held: every press arms a timer of its *)
(* own, lifting the finger clears one flag that all timers share, and the  *)
(* timer that finds the flag set acts. In the menu (ActionButton: shut     *)
(* down, switch games, game settings) the flags go with the button; in the *)
(* reset dialog (ResetConfirmModal) they outlive the dialog, and an effect *)
(* clears them when it opens for a figure. Time goes in ticks.             *)
(***************************************************************************)
EXTENDS Naturals

CONSTANTS
  Dialog,     \* TRUE for ResetConfirmModal, FALSE for an ActionButton
  Subject,     \* what the button can be about
  HOLD,       \* ticks until a press acts
  LINGER,     \* ticks until the button of a menu is at rest again
  DISMISS,    \* ticks until a dialog that has acted closes
  NoTarget

VARIABLES
  target,  \* reset_target, or what the button on the screen does
  holding, fired,
  timers,  \* ticks left of the timers that presses have armed
  rest,    \* ticks left of the timer that a firing has armed, 0 for none
  down,    \* the finger is on the button
  held,    \* for how many ticks, as far as it counts
  spent    \* history: the press has acted

holdVars == <<target, holding, fired, timers, rest, down, held, spent>>

TypeOK ==
  /\ target \in Subject \cup {NoTarget}
  /\ holding \in BOOLEAN /\ fired \in BOOLEAN /\ down \in BOOLEAN /\ spent \in BOOLEAN
  /\ timers \subseteq 0 .. HOLD
  /\ rest \in 0 .. (IF Dialog THEN DISMISS + 1 ELSE LINGER) /\ held \in 0 .. HOLD

Init ==
  /\ target = NoTarget
  /\ holding = FALSE /\ fired = FALSE
  /\ timers = {} /\ rest = 0
  /\ down = FALSE /\ held = 0 /\ spent = FALSE

\* Mutant of AtRest: the dialog opens as it was left when it had acted.
AsItWas == holding' = FALSE /\ UNCHANGED fired

\* The dialog's effect on a new target; the button of a menu is mounted anew.
AtRest == holding' = FALSE /\ fired' = FALSE

Open(t) ==
  /\ target = NoTarget
  /\ target' = t
  /\ AtRest
  /\ UNCHANGED <<timers, rest, down, held, spent>>

\* The screen goes, under the finger perhaps, which no event tells the button of. The
\* timers of a menu's button find nothing to act on.
Gone ==
  /\ target' = NoTarget /\ down' = FALSE /\ held' = 0
  /\ IF Dialog THEN UNCHANGED <<holding, fired, timers>>
     ELSE holding' = FALSE /\ fired' = FALSE /\ timers' = {}

\* The menu is closed, or KEEP is tapped before the dialog has acted.
Close ==
  /\ target # NoTarget /\ ~(Dialog /\ fired)
  /\ Gone
  /\ rest' = IF Dialog THEN rest ELSE 0
  /\ UNCHANGED spent

Press ==
  /\ target # NoTarget /\ ~down
  /\ down' = TRUE /\ held' = 0
  /\ IF fired THEN UNCHANGED <<holding, timers, spent>>
     ELSE holding' = TRUE /\ timers' = timers \cup {HOLD} /\ spent' = FALSE
  /\ UNCHANGED <<target, fired, rest>>

\* pointerup, pointerleave, pointercancel
Lift ==
  /\ down
  /\ down' = FALSE /\ held' = 0 /\ holding' = FALSE
  /\ UNCHANGED <<target, fired, timers, rest, spent>>

\* Mutant of Act: the flag of the press stays.
ActOn == fired' = TRUE /\ UNCHANGED holding

Act == fired' = TRUE /\ holding' = FALSE

\* A timer that finds nothing held, or the button fired, does nothing. In the dialog it
\* acts for whom the dialog is open now, and not at all without one.
TimerEnds ==
  /\ 0 \in timers
  /\ timers' = timers \ {0}
  /\ IF holding /\ ~fired
     THEN /\ Act
          /\ rest' = IF ~Dialog THEN LINGER ELSE IF target = NoTarget THEN rest
                     ELSE DISMISS + 1
          /\ spent' = TRUE
     ELSE UNCHANGED <<holding, fired, rest, spent>>
  /\ UNCHANGED <<target, down, held>>

\* A tick of the clock, once the timers that are due have run. A dialog that has acted
\* closes a tick before its flag is cleared.
Tick ==
  /\ 0 \notin timers
  /\ timers # {} \/ rest > 0 \/ down
  /\ timers' = {t - 1 : t \in timers}
  /\ rest' = IF rest > 0 THEN rest - 1 ELSE 0
  /\ fired' = (fired /\ rest # 1)
  /\ IF Dialog /\ rest = 2
     THEN target' = NoTarget /\ down' = FALSE /\ held' = 0
     ELSE held' = (IF down /\ held < HOLD THEN held + 1 ELSE held) /\ UNCHANGED <<target, down>>
  /\ UNCHANGED <<holding, spent>>

Next ==
  \/ \E t \in Subject : Open(t)
  \/ Close \/ Press \/ Lift \/ TimerEnds \/ Tick

Spec == Init /\ [][Next]_holdVars
-----------------------------------------------------------------------------
\* The step in which the button does what it is for.
Acts == ~fired /\ fired' /\ target # NoTarget

\* The button acts under the finger only, and once for each press, whatever timers of
\* earlier presses, of a closed dialog or for another figure still run (on_hold_down).
ActsUnderFingerStep == Acts => down /\ ~spent
ActsUnderFinger == [][ActsUnderFingerStep]_holdVars

\* A dialog that refuses to be closed because it has acted is about to close by itself.
ClosesInTheEnd == Dialog /\ fired /\ target # NoTarget => rest > 0

\* The button acts only when the finger has been on it for the whole time: "Lifting
\* before `d` cancels with no fire" (action_button.rs).
FullHold == [][Acts => held >= HOLD]_holdVars

\* A press that is held has not acted, and is under the finger while there is
\* something on the screen for it to act on.
PressIsHeld ==
  /\ holding => ~fired
  /\ holding /\ target # NoTarget => down /\ ~spent

HoldInv ==
  /\ holding \in BOOLEAN /\ fired \in BOOLEAN /\ down \in BOOLEAN /\ spent \in BOOLEAN
  /\ rest \in Nat
  /\ PressIsHeld /\ ClosesInTheEnd
=============================================================================
