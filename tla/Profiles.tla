------------------------------ MODULE Profiles ------------------------------
(***************************************************************************)
(* The profile rows and the portal layouts saved with them: creation,      *)
(* deletion, signing in, and persist_layout, which after every driver job  *)
(* writes the whole portal to the row of each profile                      *)
(* that is signed in. The saved layout is what the "resume last setup?"    *)
(* prompt offers when the player comes back, so the clean-up of a player   *)
(* who has gone must not reach it. PINs are Lockouts' concern, seats       *)
(* Sessions', slots Portal's; here they are as coarse as the rows need.    *)
(***************************************************************************)
CONSTANTS
  Profile,      \* ids of profiles, each minted once
  Session,      \* session ids of the registry
  Place,        \* portal slots
  NoProfile, NoLayout

Owner == Profile \cup {NoProfile}

\* A slot: what is on it, whose it is, and (history) whose clean-up freed it.
Spot    == [kind : {"empty", "loading", "clearing", "loaded"}, by : Owner, freed : Owner]
Nothing == [kind |-> "empty", by |-> NoProfile, freed |-> NoProfile]
Layout  == [Place -> Spot]

VARIABLES
  rows,      \* profiles
  minted,    \* ids that have been given out
  layout,    \* sessions.last_portal_layout_json
  seat,      \* Session -> "out", "live", "ghost"
  bound,     \* Session -> profile_id
  unlocking, \* Session -> profile whose row unlock_profile has read
  place,     \* the portal
  cleaning,  \* profiles of expired ghosts still to clean up
  saver,     \* persist_layout: where the worker stands in it
  story      \* history: Profile -> "here", "gone" with its first clean-up, "back"

profileVars ==
  <<rows, minted, layout, seat, bound, unlocking, place, cleaning, saver, story>>
registry == <<seat, bound, unlocking>>

AtRest == [pc |-> "idle", snap |-> [s \in Place |-> Nothing],
           left |-> {}, seen |-> {}, p |-> NoProfile]

TypeOK ==
  /\ rows \subseteq minted /\ minted \subseteq Profile
  /\ layout \in [Profile -> Layout \cup {NoLayout}]
  /\ seat \in [Session -> {"out", "live", "ghost"}]
  /\ bound \in [Session -> Owner]
  /\ unlocking \in [Session -> Owner]
  /\ place \in Layout
  /\ cleaning \subseteq Profile
  /\ saver \in [pc : {"idle", "snapshot", "ids", "each", "save"}, snap : Layout,
                left : SUBSET Session, seen : SUBSET Profile, p : Owner]
  /\ story \in [Profile -> {"here", "gone", "back"}]

Init ==
  /\ rows = {} /\ minted = {}
  /\ layout = [p \in Profile |-> NoLayout]
  /\ seat = [s \in Session |-> "out"]
  /\ bound = [s \in Session |-> NoProfile]
  /\ unlocking = [s \in Session |-> NoProfile]
  /\ place = [s \in Place |-> Nothing]
  /\ cleaning = {}
  /\ saver = AtRest
  /\ story = [p \in Profile |-> "here"]

-----------------------------------------------------------------------------
(***************************************************************************)
(* Rows.                                                                   *)
(***************************************************************************)
\* create_profile; how many there may be is Enrolment's concern.
CreateProfile(p) ==
  /\ p \notin minted
  /\ rows' = rows \cup {p} /\ minted' = minted \cup {p}
  /\ UNCHANGED <<layout, registry, place, cleaning, saver, story>>

\* The layout goes with the row (ON DELETE CASCADE); sessions keep the profile.
DeleteProfile(p) ==
  /\ p \in rows
  /\ rows' = rows \ {p}
  /\ layout' = [layout EXCEPT ![p] = NoLayout]
  /\ UNCHANGED <<minted, registry, place, cleaning, saver, story>>

\* clear_resume: "Start Fresh".
ClearResume(p) ==
  /\ layout[p] # NoLayout
  /\ layout' = [layout EXCEPT ![p] = NoLayout]
  /\ UNCHANGED <<rows, minted, registry, place, cleaning, saver, story>>
-----------------------------------------------------------------------------
(***************************************************************************)
(* Sessions, as far as they say who is signed in.                          *)
(***************************************************************************)
Arrive(s) ==
  /\ seat[s] = "out"
  /\ seat' = [seat EXCEPT ![s] = "live"]
  /\ UNCHANGED <<rows, minted, layout, bound, unlocking, place, cleaning, saver, story>>

\* unlock_profile reads the row after the PIN was verified, and binds it to the
\* session later.
ReadRow(s, p) ==
  /\ seat[s] = "live" /\ unlocking[s] = NoProfile
  /\ p \in rows
  /\ unlocking' = [unlocking EXCEPT ![s] = p]
  /\ UNCHANGED <<rows, minted, layout, seat, bound, place, cleaning, saver, story>>

SetProfile(s) ==
  /\ unlocking[s] # NoProfile
  /\ unlocking' = [unlocking EXCEPT ![s] = NoProfile]
  /\ IF seat[s] = "out" THEN UNCHANGED <<bound, story>>
     ELSE /\ bound' = [bound EXCEPT ![s] = unlocking[s]]
          /\ story' = [story EXCEPT ![unlocking[s]] = IF @ = "gone" THEN "back" ELSE @]
  /\ UNCHANGED <<rows, minted, layout, seat, place, cleaning, saver>>

LockProfile(s) ==
  /\ seat[s] = "live" /\ bound[s] # NoProfile
  /\ bound' = [bound EXCEPT ![s] = NoProfile]
  /\ UNCHANGED <<rows, minted, layout, seat, unlocking, place, cleaning, saver, story>>

Depart(s) ==
  /\ seat[s] = "live"
  /\ seat' = [seat EXCEPT ![s] = IF bound[s] = NoProfile THEN "out" ELSE "ghost"]
  /\ UNCHANGED <<rows, minted, layout, bound, unlocking, place, cleaning, saver, story>>

Reclaim(s) ==
  /\ seat[s] = "ghost"
  /\ seat' = [seat EXCEPT ![s] = "live"]
  /\ UNCHANGED <<rows, minted, layout, bound, unlocking, place, cleaning, saver, story>>

\* A profile that is signed in on another phone, too, is not gone.
Goes(s) ==
  story' = [p \in Profile |->
    IF p = bound[s] /\ story[p] = "here"
    THEN IF \E o \in Session \ {s} : seat[o] # "out" /\ bound[o] = p THEN "back" ELSE "gone"
    ELSE story[p]]

\* The ghost expires, or is evicted: it leaves the registry, and only then are
\* its figures cleaned up.
ExpireGhost(s) ==
  /\ seat[s] = "ghost"
  /\ seat' = [seat EXCEPT ![s] = "out"]
  /\ bound' = [bound EXCEPT ![s] = NoProfile]
  /\ cleaning' = cleaning \cup ({bound[s]} \ {NoProfile})
  /\ Goes(s)
  /\ UNCHANGED <<rows, minted, layout, unlocking, place, saver>>

\* clear_slots_for_profile
CleanUp(p) ==
  /\ p \in cleaning
  /\ cleaning' = cleaning \ {p}
  /\ place' = [s \in Place |->
                 IF place[s].kind = "loaded" /\ place[s].by = p
                 THEN [kind |-> "clearing", by |-> NoProfile, freed |-> p] ELSE place[s]]
  /\ UNCHANGED <<rows, minted, layout, registry, saver, story>>
-----------------------------------------------------------------------------
(***************************************************************************)
(* The portal and the worker.                                              *)
(***************************************************************************)
Request(s, sp, kind) ==
  /\ seat[s] = "live"
  /\ place[sp].kind \in {"empty", "loaded"}
  /\ place' = [place EXCEPT ![sp] =
       [kind |-> kind, by |-> IF kind = "loading" THEN bound[s] ELSE NoProfile,
        freed |-> NoProfile]]
  /\ UNCHANGED <<rows, minted, layout, registry, cleaning, saver, story>>

FinishJob(sp) ==
  /\ saver.pc = "idle"
  /\ place[sp].kind \in {"loading", "clearing"}
  /\ place' = [place EXCEPT ![sp].kind = IF @ = "loading" THEN "loaded" ELSE "empty"]
  /\ saver' = [saver EXCEPT !.pc = "snapshot"]
  /\ UNCHANGED <<rows, minted, layout, registry, cleaning, story>>

\* persist_layout: first the portal, then the ids, then one profile at a time.
TakeSnapshot ==
  /\ saver.pc = "snapshot"
  /\ saver' = [saver EXCEPT !.pc = "ids", !.snap = place]
  /\ UNCHANGED <<rows, minted, layout, registry, place, cleaning, story>>

ReadIds ==
  /\ saver.pc = "ids"
  /\ saver' = [saver EXCEPT !.pc = "each", !.left = {s \in Session : seat[s] # "out"}]
  /\ UNCHANGED <<rows, minted, layout, registry, place, cleaning, story>>

ReadProfile(s) ==
  /\ saver.pc = "each" /\ s \in saver.left
  /\ LET p == IF seat[s] = "out" THEN NoProfile ELSE bound[s]
     IN  saver' = IF p = NoProfile \/ p \in saver.seen
                  THEN [saver EXCEPT !.left = @ \ {s}]
                  ELSE [saver EXCEPT !.pc = "save", !.left = @ \ {s},
                                     !.seen = @ \cup {p}, !.p = p]
  /\ UNCHANGED <<rows, minted, layout, registry, place, cleaning, story>>

\* Mutant of SaveLayout: no foreign key refuses the layout of a deleted profile.
SaveAnyway ==
  /\ saver.pc = "save"
  /\ layout' = [layout EXCEPT ![saver.p] = saver.snap]
  /\ saver' = [saver EXCEPT !.pc = "each", !.p = NoProfile]
  /\ UNCHANGED <<rows, minted, registry, place, cleaning, story>>

\* The layout of a profile that has no row any more is refused by the foreign key.
SaveLayout ==
  /\ saver.pc = "save"
  /\ layout' = IF saver.p \in rows THEN [layout EXCEPT ![saver.p] = saver.snap] ELSE layout
  /\ saver' = [saver EXCEPT !.pc = "each", !.p = NoProfile]
  /\ UNCHANGED <<rows, minted, registry, place, cleaning, story>>

EndPersist ==
  /\ saver.pc = "each" /\ saver.left = {}
  /\ saver' = AtRest
  /\ UNCHANGED <<rows, minted, layout, registry, place, cleaning, story>>
-----------------------------------------------------------------------------
Next ==
  \/ \E p \in Profile : CreateProfile(p) \/ DeleteProfile(p) \/ ClearResume(p) \/ CleanUp(p)
  \/ \E s \in Session : \/ Arrive(s) \/ SetProfile(s) \/ LockProfile(s) \/ Depart(s)
                        \/ Reclaim(s) \/ ExpireGhost(s) \/ ReadProfile(s)
                        \/ \E p \in Profile : ReadRow(s, p)
                        \/ \E sp \in Place, kind \in {"loading", "clearing"} : Request(s, sp, kind)
  \/ \E sp \in Place : FinishJob(sp)
  \/ TakeSnapshot \/ ReadIds \/ SaveLayout \/ EndPersist

Spec == Init /\ [][Next]_profileVars
-----------------------------------------------------------------------------
\* What a player who left is offered to resume is what stood there when the
\* player left: the clean-up of an expired or evicted ghost never reaches the
\* layout saved for its profile, unless the player was back before it was over;
\* and a deleted profile leaves no layout behind.
LayoutOutlivesCleanUp ==
  \A p \in Profile : layout[p] # NoLayout =>
    /\ p \in rows
    /\ story[p] = "gone" => \A s \in Place : layout[p][s].freed # p

\* A layout that has, in some slot, what the clean-up of p left there.
Marked(l, p) == \E s \in Place : l[s].freed = p

\* Nobody is signed in on a seat that is not there, nor a player who has gone.
SeatsAreBound ==
  /\ \A s \in Session : seat[s] = "out" => bound[s] = NoProfile
  /\ \A p \in Profile, s \in Session : story[p] = "gone" => bound[s] # p

\* Whoever has not gone yet has not been cleaned up, and who has gone is saved, if
\* at all, from a snapshot of before.
CleanedUpWhenGone ==
  \A p \in Profile :
    /\ story[p] = "here" => p \notin cleaning /\ ~Marked(place, p) /\ ~Marked(saver.snap, p)
    /\ story[p] = "gone" /\ saver.p = p => ~Marked(saver.snap, p)
    /\ story[p] # "back" /\ layout[p] # NoLayout => ~Marked(layout[p], p)

LayoutInv ==
  /\ TypeOK /\ SeatsAreBound /\ CleanedUpWhenGone
  /\ saver.pc # "save" => saver.p = NoProfile
  /\ \A p \in Profile : layout[p] # NoLayout => p \in rows
=============================================================================
