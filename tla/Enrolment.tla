----------------------------- MODULE Enrolment -----------------------------
(***************************************************************************)
(* How many profiles there are. create_profile counts the rows in one      *)
(* statement and inserts in another, through a pool of connections; other  *)
(* requests create and delete in between.                                  *)
(***************************************************************************)
EXTENDS Naturals, FiniteSets

CONSTANTS
  Creator,      \* create_profile requests that can be served at a time
  MAX_PROFILES

VARIABLES
  enrolled,     \* number of rows of the table profiles
  creator       \* the requests that have counted and have yet to insert

enrolmentVars == <<enrolled, creator>>

TypeOK == enrolled \in Nat /\ creator \subseteq Creator
Init   == enrolled = 0 /\ creator = {}

\* Mutant of CountProfiles: one too many.
CountOneMore(c) ==
  /\ c \notin creator
  /\ enrolled <= MAX_PROFILES
  /\ creator' = creator \cup {c}
  /\ UNCHANGED enrolled

\* MAX_PROFILES or more are answered 409.
CountProfiles(c) ==
  /\ c \notin creator
  /\ enrolled < MAX_PROFILES
  /\ creator' = creator \cup {c}
  /\ UNCHANGED enrolled

\* The insert, or a PIN, name or colour that the validators refuse.
InsertProfile(c) ==
  /\ c \in creator
  /\ creator' = creator \ {c}
  /\ enrolled' \in {enrolled, enrolled + 1}

DeleteProfile ==
  /\ enrolled > 0
  /\ enrolled' = enrolled - 1
  /\ UNCHANGED creator

Next ==
  \/ \E c \in Creator : CountProfiles(c) \/ InsertProfile(c)
  \/ DeleteProfile

Spec == Init /\ [][Next]_enrolmentVars
-----------------------------------------------------------------------------
\* Requests that overlap may go over the limit, but however they overlap never
\* by more than the number of them less one.
LimitIsSoft ==
  Creator # {} => enrolled + Cardinality(creator) <= MAX_PROFILES + Cardinality(Creator) - 1
=============================================================================
