----------------------------- MODULE SmallProofs -----------------------------
(***************************************************************************)
(* Four of the small parts, each for every value of its constants:         *)
(* config.json keeps the key that the phones have and the settings that    *)
(* were acknowledged; a dump on disk holds the blocks of one figure only,  *)
(* which is announced once for a tap and has one card in the library; a    *)
(* button that must be held acts under the finger, once for a press; and   *)
(* the cover is lifted for a game that has rendered only, and what is      *)
(* called frozen is. Each keeps to its types and bounds.                   *)
(***************************************************************************)
EXTENDS Setup, FiniteSetTheorems, WellFoundedInduction, TLAPS

\* A key is a number; zero is none.
Keys == MaxKeys \in Nat

EditState == [pc : {"idle", "read", "open"}, base : Config, to : Config]

\* The values the steps assign.
LEMMA SetupValues ==
  ASSUME Keys
  PROVE  /\ Unset \in Config /\ Resting \in EditState /\ Resting.pc = "idle"
         /\ NoWizard \in [page : Pages, rpcs3 : BOOLEAN, pack : {"empty", "valid", "invalid"},
                          mode : Modes, result : Config]
         /\ \A c \in Config : /\ c.key \in 0 .. MaxKeys /\ c.mode \in Modes /\ c.twice \in BOOLEAN
                              /\ DriverOf(c) \in {"uia", "ipc", "mock"}
         /\ \A c \in Config, m \in Modes, t \in BOOLEAN, h \in Handler : Change(h, c, m, t) \in Config
<1>1. Unset \in Config
  BY DEF Unset, Config, Modes, Keys
<1>2. Resting \in EditState /\ Resting.pc = "idle"
  BY <1>1 DEF Resting, EditState
<1>3. NoWizard \in [page : Pages, rpcs3 : BOOLEAN, pack : {"empty", "valid", "invalid"},
                    mode : Modes, result : Config]
  BY <1>1 DEF NoWizard, Pages, Modes
<1>4. \A c \in Config : /\ c.key \in 0 .. MaxKeys /\ c.mode \in Modes /\ c.twice \in BOOLEAN
                        /\ DriverOf(c) \in {"uia", "ipc", "mock"}
  BY DEF Config, DriverOf
<1>5. \A c \in Config, m \in Modes, t \in BOOLEAN, h \in Handler : Change(h, c, m, t) \in Config
  BY DEF Config, Change
<1> QED
  BY <1>1, <1>2, <1>3, <1>4, <1>5

\* At the start nobody writes or races.
LEMMA SetupInit == ASSUME Keys PROVE Init => SetupInv
<1> SUFFICES ASSUME Init PROVE SetupInv
  OBVIOUS
<1>1. TypeOK
  BY SetupValues DEF Init, TypeOK, SettingsOf, Unset, EditState, Modes, Keys
<1>2. \A h \in Handler : edit[h].pc = "idle"
  BY SetupValues DEF Init
<1> QED
  BY <1>1, <1>2
  DEF Init, SetupInv, HandlersAreHonest, WritersAreAlone, SavesAsAsked, KeySurvives,
      SettingsStick, TornForAReason, SettingsOf, Unset

\* The steps keep the types of the settings and of what the handlers hold.
LEMMA SetupTypes ==
  ASSUME Keys, TypeOK, [Next]_setupVars
  PROVE  TypeOK'
<1>a. /\ edit \in [Handler -> EditState]
      /\ wizard \in [page : Pages, rpcs3 : BOOLEAN, pack : {"empty", "valid", "invalid"},
                     mode : Modes, result : Config]
  BY DEF TypeOK, EditState
<1>b. keys < MaxKeys => keys + 1 \in 0 .. MaxKeys
  BY DEF TypeOK, Keys
<1>c. \A c \in Config : [c EXCEPT !.driver = DriverOf(c)] \in Config
  BY SetupValues DEF Config
<1>1. CASE StartMock
  <2>1. run' \in Config
    BY <1>1, <1>b DEF StartMock, Unset, Config, Modes
  <2> QED
    BY <1>1, <1>b, <2>1 DEF StartMock, TypeOK, history
<1>2. CASE StartNormally
  BY <1>2, <1>c, SetupValues DEF StartNormally, ComeUp, TypeOK
<1>3. CASE GiveKey
  <2>1. pending' \in Config
    BY <1>3, <1>b DEF GiveKey, Config, TypeOK
  <2> QED
    BY <1>3, <1>b, <2>1 DEF GiveKey, TypeOK, history
<1>4. CASE SaveEnds
  BY <1>4, <1>c, SetupValues DEF SaveEnds, ComeUp, TypeOK
<1>5. ASSUME NEW reconfigure \in BOOLEAN, NEW softwareGl \in BOOLEAN, NEW guess \in BOOLEAN,
             StartWizard(reconfigure, softwareGl, guess)
      PROVE  TypeOK'
  <2>1. wizard' \in [page : Pages, rpcs3 : BOOLEAN, pack : {"empty", "valid", "invalid"},
                     mode : Modes, result : Config]
    BY <1>5, SetupValues DEF StartWizard, NoWizard, Pages
  <2> QED
    BY <1>5, <2>1 DEF StartWizard, TypeOK, history
<1>6. ASSUME NEW to \in Pages, Turn(to) PROVE TypeOK'
  <2>1. wizard' \in [page : Pages, rpcs3 : BOOLEAN, pack : {"empty", "valid", "invalid"},
                     mode : Modes, result : Config]
    BY <1>6, <1>a DEF Turn
  <2> QED
    BY <1>6, <2>1 DEF Turn, TypeOK, history
<1>7. CASE Enter
  <2>1. wizard' \in [page : Pages, rpcs3 : BOOLEAN, pack : {"empty", "valid", "invalid"},
                     mode : Modes, result : Config]
    BY <1>7, <1>a DEF Enter
  <2> QED
    BY <1>7, <2>1 DEF Enter, TypeOK, history
<1>8. CASE Finish
  <2>1. /\ [key |-> keys + 1, driver |-> "mock", mode |-> "tv", twice |-> FALSE] \in Config
        /\ [key |-> keys + 1, driver |-> "ipc", mode |-> wizard.mode, twice |-> FALSE] \in Config
    BY <1>8, <1>a, <1>b DEF Finish, Config, Modes
  <2>2. wizard' \in [page : Pages, rpcs3 : BOOLEAN, pack : {"empty", "valid", "invalid"},
                     mode : Modes, result : Config]
    BY <1>8, <1>a, <2>1 DEF Finish, Pages
  <2> QED
    BY <1>8, <1>b, <2>2 DEF Finish, TypeOK, history
<1>9. CASE Close
  <2>1. wizard.result \in Config
    BY <1>a
  <2>2. asked' \in [mode : Modes, twice : BOOLEAN]
    BY <1>9, <2>1, SetupValues DEF Close, SettingsOf
  <2>3. qr' = 0 /\ 0 \in 0 .. MaxKeys
    BY <1>9 DEF Close, Keys
  <2> QED
    BY <1>9, <2>1, <2>2, <2>3 DEF Close, TypeOK
<1>10. CASE Cancel
  BY <1>10, SetupValues DEF Cancel, TypeOK, history
<1>11. ASSUME NEW h \in Handler, NEW m \in Modes, NEW t \in BOOLEAN, ReadConfig(h, m, t)
       PROVE  TypeOK'
  <2>1. edit' \in [Handler -> EditState]
    <3>1. [pc |-> "read", base |-> json, to |-> Change(h, json, m, t)] \in EditState
      BY SetupValues DEF EditState, TypeOK
    <3> QED
      BY <1>11, <1>a, <3>1 DEF ReadConfig
  <2> QED
    BY <1>11, <2>1 DEF ReadConfig, TypeOK, history, EditState
<1>12. ASSUME NEW h \in Handler, ReadFails(h) PROVE TypeOK'
  BY <1>12 DEF ReadFails, TypeOK
<1>13. ASSUME NEW h \in Handler, WriteStarts(h) PROVE TypeOK'
  <2>1. edit' \in [Handler -> EditState]
    BY <1>13, <1>a DEF WriteStarts, EditState
  <2> QED
    BY <1>13, <2>1 DEF WriteStarts, TypeOK, EditState
<1>14. ASSUME NEW h \in Handler, WriteEnds(h) PROVE TypeOK'
  <2>1. edit' \in [Handler -> EditState]
    BY <1>14, <1>a, SetupValues DEF WriteEnds
  <2>2. edit[h].to \in Config
    BY <1>a DEF EditState
  <2>3. asked' \in [mode : Modes, twice : BOOLEAN]
    BY <1>14, <2>2, SetupValues DEF WriteEnds, TypeOK
  <2> QED
    BY <1>14, <2>1, <2>2, <2>3 DEF WriteEnds, TypeOK, EditState
<1>15. CASE Die
  <2>1. edit' \in [Handler -> EditState]
    BY <1>15, SetupValues DEF Die
  <2> QED
    BY <1>15, <2>1, SetupValues DEF Die, TypeOK, EditState
<1>16. CASE SaveFails
  BY <1>16, SetupValues DEF SaveFails, TypeOK
<1>17. ASSUME NEW h \in Handler, WriteFails(h) PROVE TypeOK'
  <2>1. edit' \in [Handler -> EditState]
    BY <1>17, <1>a, SetupValues DEF WriteFails
  <2> QED
    BY <1>17, <2>1 DEF WriteFails, TypeOK, EditState
<1>18. CASE UNCHANGED setupVars
  BY <1>18 DEF setupVars, TypeOK
<1> QED
  BY <1>1, <1>2, <1>3, <1>4, <1>5, <1>6, <1>7, <1>8, <1>9, <1>10, <1>11, <1>12, <1>13, <1>14,
     <1>15, <1>16, <1>17, <1>18 DEF Next

\* The steps of the launcher that is not up, when no handler runs.
LEMMA SetupAlone ==
  ASSUME Keys, SetupInv, TypeOK',
         \/ StartMock \/ StartNormally \/ GiveKey \/ SaveEnds \/ SaveFails
         \/ \E reconfigure, softwareGl, guess \in BOOLEAN : StartWizard(reconfigure, softwareGl, guess)
         \/ \E to \in Pages : Turn(to)
         \/ Enter \/ Finish \/ Close \/ Cancel
  PROVE  SetupInv'
<1> USE DEF SetupInv
<1>1. edit' = edit
  BY DEF StartMock, StartNormally, GiveKey, SaveEnds, SaveFails, StartWizard, Turn, Enter,
       Finish, Close, Cancel
<1>2. app # "up"
  BY DEF StartMock, StartNormally, GiveKey, SaveEnds, SaveFails, StartWizard, Turn, Enter,
       Finish, Close, Cancel
<1>3. \A h \in Handler : edit[h].pc = "idle" /\ edit'[h].pc = "idle"
  BY <1>1, <1>2 DEF HandlersAreHonest
<1>4. HandlersAreHonest' /\ WritersAreAlone'
  BY <1>3 DEF HandlersAreHonest, WritersAreAlone
<1> DEFINE Goal == SavesAsAsked' /\ KeySurvives' /\ SettingsStick' /\ TornForAReason'
<1> USE DEF SavesAsAsked, KeySurvives, SettingsStick, TornForAReason
<1>5. ASSUME StartMock PROVE Goal
  BY <1>3, <1>5 DEF StartMock, history
<1>6. ASSUME StartNormally PROVE Goal
  BY <1>3, <1>6 DEF StartNormally, ComeUp
<1>7. ASSUME GiveKey PROVE Goal
  <2>1. SettingsOf(pending') = SettingsOf(json)
    BY <1>7 DEF GiveKey, SettingsOf, TypeOK, Config
  <2> QED
    BY <1>3, <1>7, <2>1 DEF GiveKey, history
<1>8. ASSUME SaveEnds PROVE Goal
  BY <1>3, <1>8 DEF SaveEnds, ComeUp
<1>9. ASSUME NEW reconfigure \in BOOLEAN, NEW softwareGl \in BOOLEAN, NEW guess \in BOOLEAN,
             StartWizard(reconfigure, softwareGl, guess)
      PROVE  Goal
  BY <1>3, <1>9 DEF StartWizard, history
<1>10. ASSUME NEW to \in Pages, Turn(to) PROVE Goal
  BY <1>3, <1>10 DEF Turn, history
<1>11. ASSUME Enter \/ Finish \/ Cancel PROVE Goal
  BY <1>3, <1>11 DEF Enter, Finish, Cancel, history
<1>12. ASSUME Close PROVE Goal
  BY <1>3, <1>12 DEF Close
<1>13. ASSUME SaveFails PROVE Goal
  BY <1>3, <1>13 DEF SaveFails
<1> HIDE DEF SetupInv
<1>14. Goal
  BY <1>5, <1>6, <1>7, <1>8, <1>9, <1>10, <1>11, <1>12, <1>13
<1> QED
  BY <1>4, <1>14 DEF SetupInv

\* A change of one field leaves the key and the other field.
LEMMA OneField ==
  ASSUME NEW c \in Config, NEW h \in Handler, NEW m \in Modes, NEW t \in BOOLEAN
  PROVE  /\ Change(h, c, m, t).key = c.key
         /\ h # "mode" => Change(h, c, m, t).mode = c.mode
         /\ h = "mode" => Change(h, c, m, t).twice = c.twice
  BY DEF Change, Config

\* The steps of the handlers.
LEMMA HandlersKeep ==
  ASSUME Keys, SetupInv, TypeOK', NEW h \in Handler,
         \/ \E m \in Modes, t \in BOOLEAN : ReadConfig(h, m, t)
         \/ ReadFails(h) \/ WriteStarts(h) \/ WriteEnds(h) \/ WriteFails(h)
  PROVE  SetupInv'
<1>a. /\ edit \in [Handler -> EditState] /\ json \in Config
      /\ asked \in [mode : Modes, twice : BOOLEAN]
  BY DEF SetupInv, TypeOK, EditState
<1>b. /\ HandlersAreHonest /\ WritersAreAlone /\ SavesAsAsked
      /\ KeySurvives /\ SettingsStick /\ TornForAReason
  BY DEF SetupInv
<1> DEFINE Goal == /\ HandlersAreHonest' /\ WritersAreAlone' /\ SavesAsAsked'
                  /\ KeySurvives' /\ SettingsStick' /\ TornForAReason'
<1>1. ASSUME NEW m \in Modes, NEW t \in BOOLEAN, ReadConfig(h, m, t) PROVE Goal
  <2>1. /\ app = "up" /\ file = "whole" /\ edit[h].pc = "idle"
        /\ edit' = [edit EXCEPT ![h] = [pc |-> "read", base |-> json, to |-> Change(h, json, m, t)]]
        /\ UNCHANGED <<file, json, app, pending, qr, asked, raced, cut>>
    BY <1>1 DEF ReadConfig, history
  <2>2. \A o \in Handler : edit'[o] =
          IF o = h THEN [pc |-> "read", base |-> json, to |-> Change(h, json, m, t)] ELSE edit[o]
    BY <1>a, <2>1
  <2>3. qr # 0 => Change(h, json, m, t).key = qr
    BY <1>a, <1>b, <2>1, OneField DEF KeySurvives
  <2>4. HandlersAreHonest'
    BY <1>b, <2>1, <2>2, <2>3 DEF HandlersAreHonest
  <2>5. \A o \in Handler : edit'[o].pc = "open" <=> edit[o].pc = "open"
    BY <2>1, <2>2
  <2>6. \A o \in Handler : edit'[o].pc = "open" => edit'[o] = edit[o]
    BY <2>2
  <2>7. WritersAreAlone'
    BY <1>b, <2>1, <2>5, <2>6 DEF WritersAreAlone
  <2>8. SavesAsAsked' /\ KeySurvives' /\ SettingsStick' /\ TornForAReason'
    BY <1>b, <2>1 DEF SavesAsAsked, KeySurvives, SettingsStick, TornForAReason, SettingsOf
  <2> QED
    BY <2>4, <2>7, <2>8
<1>2. ASSUME ReadFails(h) PROVE Goal
  BY <1>b, <1>2
  DEF ReadFails, HandlersAreHonest, WritersAreAlone, SavesAsAsked, KeySurvives, SettingsStick,
      TornForAReason
<1>3. ASSUME WriteStarts(h) PROVE Goal
  <2>1. /\ edit[h].pc = "read" /\ file' = "torn"
        /\ raced' = (raced \/ file # "whole" \/ json # edit[h].base)
        /\ edit' = [edit EXCEPT ![h].pc = "open"]
        /\ UNCHANGED <<json, app, pending, qr, asked, cut>>
    BY <1>3 DEF WriteStarts
  <2>2. \A o \in Handler : /\ edit'[o].pc = IF o = h THEN "open" ELSE edit[o].pc
                           /\ edit'[o].base = edit[o].base /\ edit'[o].to = edit[o].to
    BY <1>a, <2>1 DEF EditState
  <2>3. HandlersAreHonest'
    <3>1. \A o \in Handler : edit'[o].pc # "idle" => edit[o].pc # "idle"
      BY <2>1, <2>2
    <3>2. ASSUME NEW o \in Handler, edit[o].pc # "idle"
          PROVE  /\ app' = "up" /\ (qr' # 0 => edit'[o].to.key = qr')
                 /\ \E m \in Modes, t \in BOOLEAN : edit'[o].to = Change(o, edit'[o].base, m, t)
      <4>1. PICK m \in Modes, t \in BOOLEAN : edit[o].to = Change(o, edit[o].base, m, t)
        BY <1>b, <3>2 DEF HandlersAreHonest
      <4>2. edit'[o].to = Change(o, edit'[o].base, m, t)
        BY <2>2, <4>1
      <4> QED
        BY <1>b, <2>1, <2>2, <3>2, <4>2 DEF HandlersAreHonest
    <3> QED
      BY <3>1, <3>2 DEF HandlersAreHonest, Change
  <2>4. WritersAreAlone'
    <3>1. SUFFICES ASSUME ~raced' PROVE WritersAreAlone'
      BY DEF WritersAreAlone
    <3>2. ~raced /\ file = "whole" /\ json = edit[h].base
      BY <2>1, <3>1
    <3>3. \A o \in Handler : edit[o].pc # "open"
      BY <1>b, <3>2 DEF WritersAreAlone
    <3>4. SettingsOf(edit[h].base) = asked
      BY <1>b, <3>2 DEF SettingsStick
    <3> QED
      BY <2>1, <2>2, <3>3, <3>4 DEF WritersAreAlone, SettingsOf
  <2>5. SavesAsAsked' /\ KeySurvives' /\ SettingsStick' /\ TornForAReason'
    BY <1>b, <2>1, <2>2
    DEF SavesAsAsked, KeySurvives, SettingsStick, TornForAReason, HandlersAreHonest
  <2> QED
    BY <2>3, <2>4, <2>5
<1>4. ASSUME WriteEnds(h) PROVE Goal
  <2>1. /\ edit[h].pc = "open" /\ (file' = "whole" \/ (file = "whole" /\ file' = "torn"))
        /\ json' = edit[h].to
        /\ asked' = IF h = "mode" THEN [asked EXCEPT !.mode = edit[h].to.mode]
                    ELSE [asked EXCEPT !.twice = edit[h].to.twice]
        /\ edit' = [edit EXCEPT ![h] = Resting]
        /\ UNCHANGED <<app, pending, qr, raced>>
    BY <1>4 DEF WriteEnds
  <2>2. \A o \in Handler : edit'[o] = IF o = h THEN Resting ELSE edit[o]
    BY <1>a, <2>1
  <2>3. \A o \in Handler : edit'[o].pc # "idle" => o # h /\ edit'[o] = edit[o]
    BY <2>2 DEF Resting
  <2>4. HandlersAreHonest'
    <3>1. ASSUME NEW o \in Handler, edit'[o].pc # "idle"
          PROVE  /\ app' = "up" /\ (qr' # 0 => edit'[o].to.key = qr')
                 /\ \E m \in Modes, t \in BOOLEAN : edit'[o].to = Change(o, edit'[o].base, m, t)
      <4>1. edit'[o] = edit[o] /\ edit[o].pc # "idle"
        BY <2>3, <3>1
      <4>2. PICK m \in Modes, t \in BOOLEAN : edit[o].to = Change(o, edit[o].base, m, t)
        BY <1>b, <4>1 DEF HandlersAreHonest
      <4>3. edit'[o].to = Change(o, edit'[o].base, m, t)
        BY <4>1, <4>2
      <4> QED
        BY <1>b, <2>1, <4>1, <4>3 DEF HandlersAreHonest
    <3> QED
      BY <3>1 DEF HandlersAreHonest, Change
  <2>5. WritersAreAlone'
    <3>1. ~raced => \A o \in Handler : edit'[o].pc # "open"
      BY <1>b, <2>1, <2>3 DEF WritersAreAlone
    <3> QED
      BY <2>1, <3>1 DEF WritersAreAlone
  <2>6. app = "up"
    BY <1>b, <2>1 DEF HandlersAreHonest
  <2>7. KeySurvives'
    BY <1>b, <2>1 DEF HandlersAreHonest, KeySurvives
  <2>8. SettingsStick'
    <3>1. SUFFICES ASSUME ~raced' PROVE SettingsOf(json)' = asked'
      BY DEF SettingsStick
    <3>2. SettingsOf(edit[h].base) = asked
      BY <1>b, <2>1, <3>1 DEF WritersAreAlone
    <3>3. PICK m \in Modes, t \in BOOLEAN : edit[h].to = Change(h, edit[h].base, m, t)
      BY <1>b, <2>1 DEF HandlersAreHonest
    <3>4. edit[h].base \in Config
      BY <1>a DEF EditState
    <3>5. /\ h # "mode" => edit[h].to.mode = edit[h].base.mode
          /\ h = "mode" => edit[h].to.twice = edit[h].base.twice
      BY <3>3, <3>4, OneField
    <3> QED
      BY <1>a, <2>1, <3>2, <3>5 DEF SettingsOf
  <2>9. TornForAReason'
    <3>1. file' = "torn" => raced
      BY <1>b, <2>1 DEF WritersAreAlone
    <3> QED
      BY <2>1, <3>1 DEF TornForAReason
  <2>10. SavesAsAsked'
    BY <2>1, <2>6 DEF SavesAsAsked
  <2> QED
    BY <2>4, <2>5, <2>7, <2>8, <2>9, <2>10
<1>5. ASSUME WriteFails(h) PROVE Goal
  <2>1. /\ edit' = [edit EXCEPT ![h] = Resting]
        /\ file' = file \/ (edit[h].pc = "open" /\ file' = "torn")
        /\ cut' = (cut \/ (edit[h].pc = "open" /\ file' = "torn"))
        /\ UNCHANGED <<json, app, pending, qr, asked, raced>>
    BY <1>5 DEF WriteFails
  <2>2. \A o \in Handler : edit'[o] = IF o = h THEN Resting ELSE edit[o]
    BY <1>a, <2>1
  <2>3. \A o \in Handler : edit'[o].pc # "idle" => o # h /\ edit'[o] = edit[o]
    BY <2>2 DEF Resting
  <2>4. HandlersAreHonest'
    <3>1. ASSUME NEW o \in Handler, edit'[o].pc # "idle"
          PROVE  /\ app' = "up" /\ (qr' # 0 => edit'[o].to.key = qr')
                 /\ \E m \in Modes, t \in BOOLEAN : edit'[o].to = Change(o, edit'[o].base, m, t)
      <4>1. edit'[o] = edit[o] /\ edit[o].pc # "idle"
        BY <2>3, <3>1
      <4>2. PICK m \in Modes, t \in BOOLEAN : edit[o].to = Change(o, edit[o].base, m, t)
        BY <1>b, <4>1 DEF HandlersAreHonest
      <4>3. edit'[o].to = Change(o, edit'[o].base, m, t)
        BY <4>1, <4>2
      <4> QED
        BY <1>b, <2>1, <4>1, <4>3 DEF HandlersAreHonest
    <3> QED
      BY <3>1 DEF HandlersAreHonest, Change
  <2>5. WritersAreAlone'
    BY <1>b, <2>1, <2>3 DEF WritersAreAlone
  <2>6. SavesAsAsked' /\ KeySurvives' /\ SettingsStick'
    BY <1>b, <2>1 DEF SavesAsAsked, KeySurvives, SettingsStick
  <2>7. TornForAReason'
    BY <1>b, <2>1, <2>2 DEF TornForAReason
  <2> QED
    BY <2>4, <2>5, <2>6, <2>7
<1>6. Goal
  BY <1>1, <1>2, <1>3, <1>4, <1>5
<1> QED
  BY <1>6 DEF SetupInv

\* Every step keeps the invariant.
LEMMA SetupNext == ASSUME Keys PROVE SetupInv /\ [Next]_setupVars => SetupInv'
<1> SUFFICES ASSUME SetupInv, [Next]_setupVars PROVE SetupInv'
  OBVIOUS
<1>1. TypeOK'
  BY SetupTypes DEF SetupInv
<1>2. CASE Die
  <2>1. /\ app' = "off" /\ \A h \in Handler : edit'[h].pc = "idle"
        /\ file' \in {file, "torn"} /\ cut' = (cut \/ file' = "torn")
        /\ UNCHANGED <<json, qr, asked, raced>>
    BY <1>2 DEF Die, Resting
  <2> QED
    BY <1>1, <2>1
    DEF SetupInv, HandlersAreHonest, WritersAreAlone, SavesAsAsked, KeySurvives, SettingsStick,
        TornForAReason
<1>3. CASE UNCHANGED setupVars
  BY <1>1, <1>3
  DEF setupVars, SetupInv, HandlersAreHonest, WritersAreAlone, SavesAsAsked, KeySurvives,
      SettingsStick, TornForAReason
<1> QED
  BY <1>1, <1>2, <1>3, SetupAlone, HandlersKeep DEF Next

\* The key on the phones is the key in config.json, through every restart, repair and
\* change of a setting, also when the two handlers write over each other.
THEOREM KeyCorrect == ASSUME Keys PROVE Spec => []KeySurvives
<1>1. SetupInv => KeySurvives
  BY DEF SetupInv
<1> QED
  BY <1>1, SetupInit, SetupNext, PTL DEF Spec

\* What set_window_mode and set_render_2x acknowledged is in config.json, unless one of
\* them overlapped the other one.
THEOREM SettingsCorrect == ASSUME Keys PROVE Spec => []SettingsStick
<1>1. SetupInv => SettingsStick
  BY DEF SetupInv
<1> QED
  BY <1>1, SetupInit, SetupNext, PTL DEF Spec

\* config.json is unreadable, with nobody writing it, only if its last write was cut
\* short by a death or a failure, or the two handlers raced.
THEOREM TornCorrect == ASSUME Keys PROVE Spec => []TornForAReason
<1>1. SetupInv => TornForAReason
  BY DEF SetupInv
<1> QED
  BY <1>1, SetupInit, SetupNext, PTL DEF Spec

\* The launcher's set-up keeps to its types.
THEOREM SetupTypesCorrect == ASSUME Keys PROVE Spec => []TypeOK
<1>1. SetupInv => TypeOK
  BY DEF SetupInv
<1> QED
  BY <1>1, SetupInit, SetupNext, PTL DEF Spec
-----------------------------------------------------------------------------
(***************************************************************************)
(* Reading a figure                                                        *)
(***************************************************************************)
CONSTANTS Tag, KindOf, Blocks, NoTag
VARIABLES pad, reader, field, dump, scanned, pack, cards, known, fresh

Nfc == INSTANCE Scanner

\* There are finitely many tags, a tag has blocks, and "no tag" is not a tag.
Tags == IsFiniteSet(Tag) /\ Blocks \in Nat \ {0} /\ NoTag \notin Tag

\* What the worker has read of the tag is that tag's, and once it is all read
\* there is something of it.
ReadsOneFigure ==
  /\ dump.pc \in {"read", "write", "open"} => dump.uid \in Tag
  /\ dump.from \subseteq {dump.uid}
  /\ dump.blocks > 0 => dump.from = {dump.uid}
  /\ dump.pc \in {"write", "open"} => dump.blocks = Blocks

DumpType ==
  dump \in [pc : {"poll", "read", "write", "open"}, uid : Tag \cup {NoTag},
            blocks : 0 .. Blocks, from : SUBSET Tag]

ScannedType == scanned \in [Tag -> {"none", "torn", "whole", "mixed"}]
ScanInv == DumpType /\ ScannedType /\ pad \in Tag \cup {NoTag} /\ ReadsOneFigure /\ Nfc!DumpIsOfOneFigure

\* A worker that polls has read nothing.
LEMMA PollingReadsNothing ==
  ASSUME Tags
  PROVE  /\ Nfc!Polling \in [pc : {"poll", "read", "write", "open"}, uid : Tag \cup {NoTag},
                         blocks : 0 .. Blocks, from : SUBSET Tag]
         /\ Nfc!Polling.pc = "poll" /\ Nfc!Polling.from = {} /\ Nfc!Polling.blocks = 0
  BY DEF Nfc!Polling, Tags

\* Nothing is on disk when the launcher is first started.
LEMMA ScanInit == ASSUME Tags PROVE Nfc!Init => ScanInv
  BY PollingReadsNothing
  DEF Nfc!Init, ScanInv, DumpType, ScannedType, ReadsOneFigure, Nfc!DumpIsOfOneFigure

\* A worker that goes back to polling keeps what is said of the worker.
LEMMA BackToPolling ==
  ASSUME Tags, dump' = Nfc!Polling PROVE DumpType' /\ ReadsOneFigure'
  BY PollingReadsNothing DEF DumpType, ReadsOneFigure

\* Each block is authenticated for the uid that was found, so that a figure that
\* takes its place cannot be read into the same dump.
LEMMA ScanNext == ASSUME Tags PROVE ScanInv /\ [Nfc!Next]_(Nfc!scannerVars) => ScanInv'
<1> SUFFICES ASSUME ScanInv, [Nfc!Next]_(Nfc!scannerVars) PROVE ScanInv'
  OBVIOUS
<1> USE DEF ScanInv
<1>1. ASSUME UNCHANGED <<dump, scanned>> PROVE DumpType' /\ ScannedType' /\ ReadsOneFigure' /\ Nfc!DumpIsOfOneFigure'
  BY <1>1 DEF DumpType, ScannedType, ReadsOneFigure, Nfc!DumpIsOfOneFigure
<1>2. ASSUME UNCHANGED scanned PROVE ScannedType' /\ Nfc!DumpIsOfOneFigure'
  BY <1>2 DEF ScannedType, Nfc!DumpIsOfOneFigure
<1>3. ASSUME NEW t \in Tag, Nfc!Place(t) PROVE ScanInv'
  BY <1>1, <1>3 DEF Nfc!Place, Nfc!disk
<1>4. CASE Nfc!Lift \/ Nfc!OpenReader \/ Nfc!ReaderGone \/ Nfc!SeeEmptyField
  BY <1>1, <1>4 DEF Nfc!Lift, Nfc!OpenReader, Nfc!ReaderGone, Nfc!SeeEmptyField, Nfc!disk
<1>5. CASE Nfc!SeeTag
  <2>1. dump' = [pc |-> "read", uid |-> pad, blocks |-> 0, from |-> {}] /\ pad \in Tag
        /\ UNCHANGED <<pad, scanned>>
    BY <1>5 DEF Nfc!SeeTag, Nfc!Polling, Nfc!disk
  <2>2. DumpType' /\ ReadsOneFigure'
    BY <2>1 DEF DumpType, ReadsOneFigure, Tags
  <2> QED
    BY <1>2, <2>1, <2>2
<1>6. CASE Nfc!ReadBlock
  <2>1. dump' = [dump EXCEPT !.blocks = @ + 1, !.from = @ \cup {pad}]
        /\ dump.pc = "read" /\ dump.blocks < Blocks /\ pad = dump.uid
        /\ UNCHANGED <<pad, scanned>>
    BY <1>6 DEF Nfc!ReadBlock, Nfc!disk
  <2>2. dump.uid \in Tag /\ dump.from \subseteq {dump.uid}
    BY <2>1 DEF ReadsOneFigure
  <2>3. dump.blocks + 1 \in 0 .. Blocks /\ dump.from \cup {pad} = {dump.uid}
    BY <2>1, <2>2 DEF DumpType, Tags
  <2>4. dump' = [pc |-> "read", uid |-> dump.uid, blocks |-> dump.blocks + 1, from |-> {dump.uid}]
    <3>1. dump = [pc |-> "read", uid |-> dump.uid, blocks |-> dump.blocks, from |-> dump.from]
      BY <2>1 DEF DumpType
    <3> QED
      BY <2>1, <2>3, <3>1
  <2>5. DumpType'
    BY <2>2, <2>3, <2>4 DEF DumpType
  <2>6. ReadsOneFigure'
    BY <2>2, <2>4 DEF ReadsOneFigure
  <2> QED
    BY <1>2, <2>1, <2>5, <2>6
<1>7. CASE Nfc!DumpFails \/ Nfc!WriteFails
  BY <1>2, <1>7, BackToPolling DEF Nfc!DumpFails, Nfc!WriteFails, Nfc!disk
<1>8. CASE Nfc!DumpDone
  <2>1. dump' = [dump EXCEPT !.pc = "write"] /\ dump.pc = "read" /\ dump.blocks = Blocks
        /\ UNCHANGED <<pad, scanned>>
    BY <1>8 DEF Nfc!DumpDone, Nfc!disk
  <2>2. DumpType' /\ ReadsOneFigure'
    BY <2>1 DEF DumpType, ReadsOneFigure
  <2> QED
    BY <1>2, <2>1, <2>2
<1>9. CASE Nfc!WriteStarts
  <2>1. dump' = [dump EXCEPT !.pc = "open"] /\ dump.pc = "write"
        /\ scanned' = [scanned EXCEPT ![dump.uid] = "torn"] /\ UNCHANGED pad
    BY <1>9 DEF Nfc!WriteStarts
  <2>2. DumpType' /\ ReadsOneFigure'
    BY <2>1 DEF DumpType, ReadsOneFigure
  <2>3. ScannedType' /\ Nfc!DumpIsOfOneFigure'
    BY <2>1 DEF ScannedType, Nfc!DumpIsOfOneFigure
  <2> QED
    BY <2>1, <2>2, <2>3
<1>10. CASE Nfc!WriteEnds
  <2>1. dump.pc = "open" /\ dump' = Nfc!Polling /\ UNCHANGED pad
        /\ scanned' = [scanned EXCEPT ![dump.uid] = IF dump.from = {dump.uid} THEN "whole" ELSE "mixed"]
    BY <1>10 DEF Nfc!WriteEnds
  <2>2. dump.from = {dump.uid}
    BY <2>1 DEF ReadsOneFigure, Tags
  <2>3. ScannedType' /\ Nfc!DumpIsOfOneFigure'
    BY <2>1, <2>2 DEF ScannedType, Nfc!DumpIsOfOneFigure
  <2> QED
    BY <2>1, <2>3, BackToPolling
<1>11. ASSUME NEW order \in Nfc!Orders, Nfc!Restart(order) PROVE ScanInv'
  BY <1>2, <1>11, BackToPolling DEF Nfc!Restart
<1>12. CASE UNCHANGED Nfc!scannerVars
  BY <1>1, <1>12 DEF Nfc!scannerVars
<1> QED
  BY <1>3, <1>4, <1>5, <1>6, <1>7, <1>8, <1>9, <1>10, <1>11, <1>12 DEF Nfc!Next

\* What persist_and_broadcast leaves on disk is the dump of one figure, however
\* figures are swapped and readers unplugged while dump_figure reads.
THEOREM DumpIsOfOneFigureCorrect == ASSUME Tags PROVE Nfc!Spec => []Nfc!DumpIsOfOneFigure
<1>1. Nfc!Init => ScanInv
  BY ScanInit
<1>2. ScanInv /\ [Nfc!Next]_(Nfc!scannerVars) => ScanInv'
  BY ScanNext
<1>3. ScanInv => Nfc!DumpIsOfOneFigure
  BY DEF ScanInv
<1> QED
  BY <1>1, <1>2, <1>3, PTL DEF Nfc!Spec

\* Marking the edge when the dump is complete is what keeps a figure silent.
LEMMA TapNext ==
  ASSUME ScanInv, Nfc!TapIsFresh, [Nfc!Next]_(Nfc!scannerVars)
  PROVE  Nfc!TapIsFresh' /\ [Nfc!OnceForEachTapStep]_(Nfc!scannerVars)
<1> USE DEF Nfc!TapIsFresh, Nfc!disk
<1>0. DumpType
  BY DEF ScanInv
<1>1. Nfc!OnceForEachTapStep
  BY DEF Nfc!OnceForEachTapStep, Nfc!WriteEnds
<1>2. ASSUME NEW t \in Tag, Nfc!Place(t) PROVE Nfc!TapIsFresh'
  BY <1>2 DEF Nfc!Place
<1>3. ASSUME Nfc!Lift \/ Nfc!ReaderGone \/ Nfc!SeeEmptyField PROVE Nfc!TapIsFresh'
  BY <1>3 DEF Nfc!Lift, Nfc!ReaderGone, Nfc!SeeEmptyField
<1>4. ASSUME Nfc!OpenReader PROVE Nfc!TapIsFresh'
  BY <1>4 DEF Nfc!OpenReader
<1>5. ASSUME Nfc!SeeTag PROVE Nfc!TapIsFresh'
  BY <1>5 DEF Nfc!SeeTag, Nfc!Polling
<1>6. ASSUME Nfc!ReadBlock PROVE Nfc!TapIsFresh'
  BY <1>0, <1>6 DEF Nfc!ReadBlock, DumpType
<1>7. ASSUME Nfc!DumpFails \/ Nfc!WriteFails PROVE Nfc!TapIsFresh'
  BY <1>7 DEF Nfc!DumpFails, Nfc!WriteFails, Nfc!Polling
<1>8. ASSUME Nfc!DumpDone \/ Nfc!WriteStarts PROVE Nfc!TapIsFresh'
  BY <1>0, <1>8 DEF Nfc!DumpDone, Nfc!WriteStarts, DumpType
<1>9. ASSUME Nfc!WriteEnds PROVE Nfc!TapIsFresh'
  BY <1>9 DEF Nfc!WriteEnds, Nfc!Polling
<1>10. ASSUME NEW order \in Nfc!Orders, Nfc!Restart(order) PROVE Nfc!TapIsFresh'
  BY <1>10 DEF Nfc!Restart, Nfc!Polling
<1>11. ASSUME UNCHANGED Nfc!scannerVars PROVE Nfc!TapIsFresh'
  BY <1>11 DEF Nfc!scannerVars
<1>12. Nfc!TapIsFresh'
  BY <1>2, <1>3, <1>4, <1>5, <1>6, <1>7, <1>8, <1>9, <1>10, <1>11 DEF Nfc!Next
<1> QED
  BY <1>1, <1>12

\* A figure is announced once for each time it is put on the reader, or found by a
\* reader that has come back, although it is polled all the time, may be swapped in
\* mid-dump, and is marked before its dump is written.
THEOREM OnceForEachTapCorrect == ASSUME Tags PROVE Nfc!Spec => Nfc!OnceForEachTap
<1>1. Nfc!Init => Nfc!TapIsFresh
  BY DEF Nfc!Init, Nfc!TapIsFresh, Nfc!Polling
<1> QED
  BY <1>1, ScanInit, ScanNext, TapNext, PTL DEF Nfc!Spec, Nfc!OnceForEachTap
-----------------------------------------------------------------------------
(***************************************************************************)
(* The cards of the library. The merge is a loop over the dumps: what it   *)
(* has after n of them is defined by induction, and so is what holds of it *)
(***************************************************************************)
\* Scanner counts as is done here.
LEMMA SameTags == Nfc!Cardinality(Tag) = Cardinality(Tag)
  BY DEF Nfc!Cardinality, Cardinality

\* Below is well-founded on the naturals.
LEMMA LeastNumber ==
  ASSUME NEW S \in SUBSET Nat, S # {}
  PROVE  \E n \in S : \A m \in S : n <= m
<1> DEFINE R == {p \in Nat \X Nat : p[1] < p[2]}
<1>1. IsWellFoundedOn(R, Nat)
  BY NatLessThanWellFounded DEF OpToRel
<1>2. PICK n \in S : \A m \in S : ~(<<m, n>> \in R)
  BY <1>1, WFMin
<1>3. \A m \in S : ~(m < n)
  BY <1>2
<1> QED
  BY <1>3

\* What the merge has before the first dump, and g is what it has after each of the
\* first k ones.
NoCards == [cards |-> {}, known |-> pack]
MergesUpTo(order, k, g) ==
  g = [n \in 0 .. k |-> IF n = 0 THEN NoCards ELSE Nfc!Keep(g[n - 1], order[n])]

\* The merge is defined, however many dumps there are.
LEMMA MergeExists == ASSUME NEW order, NEW k \in Nat PROVE \E g : MergesUpTo(order, k, g)
<1> DEFINE S == {n \in Nat : ~ \E g : MergesUpTo(order, n, g)}
<1> SUFFICES ASSUME S # {} PROVE FALSE
  OBVIOUS
<1>1. PICK n \in S : \A m \in S : n <= m
  BY LeastNumber
<1>2. n # 0
  <2>1. MergesUpTo(order, 0, [i \in 0 .. 0 |-> NoCards])
    BY DEF MergesUpTo
  <2> QED
    BY <2>1
<1>3. n - 1 \in Nat /\ n - 1 \notin S
  BY <1>1, <1>2
<1>4. PICK g : MergesUpTo(order, n - 1, g)
  BY <1>3
<1> DEFINE h == [i \in 0 .. n |-> IF i = n THEN Nfc!Keep(g[n - 1], order[n]) ELSE g[i]]
<1>5. ASSUME NEW i \in 0 .. n
      PROVE  h[i] = IF i = 0 THEN NoCards ELSE Nfc!Keep(h[i - 1], order[i])
  <2>1. CASE i = n
    <3>1. h[i - 1] = g[n - 1]
      BY <1>2, <2>1
    <3> QED
      BY <1>2, <2>1, <3>1
  <2>2. CASE i # n
    <3>1. i \in 0 .. n - 1 /\ h[i] = g[i]
      BY <2>2
    <3>2. g[i] = IF i = 0 THEN NoCards ELSE Nfc!Keep(g[i - 1], order[i])
      BY <1>4, <3>1 DEF MergesUpTo
    <3>3. i # 0 => h[i - 1] = g[i - 1]
      BY <3>1
    <3> HIDE DEF h
    <3> QED
      BY <3>1, <3>2, <3>3
  <2> QED
    BY <2>1, <2>2
<1>6. MergesUpTo(order, n, h)
  <2>1. h = [i \in 0 .. n |-> h[i]]
    OBVIOUS
  <2> HIDE DEF h
  <2> QED
    BY <1>5, <2>1 DEF MergesUpTo
<1> QED
  BY <1>6

\* The cards so far are of tags, one for each identity that the pack does not have,
\* and their identities and the pack's are known.
GoodCards(acc) ==
  /\ acc.cards \subseteq Tag
  /\ \A t, u \in acc.cards : KindOf[t] = KindOf[u] => t = u
  /\ \A t \in acc.cards : KindOf[t] \notin pack
  /\ acc.known = pack \cup {KindOf[t] : t \in acc.cards}

\* One more dump keeps it so.
LEMMA KeepsCardsGood ==
  ASSUME NEW acc, GoodCards(acc), NEW t \in Tag
  PROVE  GoodCards(Nfc!Keep(acc, t))
<1>1. CASE Nfc!Keep(acc, t) = acc
  BY <1>1
<1>2. CASE Nfc!Keep(acc, t) # acc
  <2>1. /\ Nfc!Keep(acc, t).cards = acc.cards \cup {t}
        /\ Nfc!Keep(acc, t).known = acc.known \cup {KindOf[t]}
        /\ KindOf[t] \notin acc.known
    BY <1>2 DEF Nfc!Keep
  <2>2. \A u \in acc.cards : KindOf[u] # KindOf[t] /\ KindOf[t] \notin pack
    BY <2>1 DEF GoodCards
  <2> QED
    BY <2>1, <2>2 DEF GoodCards
<1> QED
  BY <1>1, <1>2

\* The merge ends with such cards.
LEMMA MergeIsGood ==
  ASSUME Cardinality(Tag) \in Nat, NEW order \in Nfc!Orders
  PROVE  GoodCards(Nfc!Merge(order))
<1> DEFINE N == Cardinality(Tag)
           M == CHOOSE g : MergesUpTo(order, N, g)
<1>1. Nfc!Merge(order) = M[N]
  BY SameTags DEF Nfc!Merge, MergesUpTo, NoCards
<1>2. MergesUpTo(order, N, M)
  BY MergeExists
<1>3. \A n \in 1 .. N : order[n] \in Tag
  BY SameTags DEF Nfc!Orders
<1> HIDE DEF M, N
<1> DEFINE S == {n \in Nat : n <= N /\ ~GoodCards(M[n])}
<1>4. S = {}
  <2> SUFFICES ASSUME S # {} PROVE FALSE
    OBVIOUS
  <2>1. PICK n \in S : \A m \in S : n <= m
    BY LeastNumber
  <2>2. M[n] = IF n = 0 THEN NoCards ELSE Nfc!Keep(M[n - 1], order[n])
    BY <1>2, <2>1 DEF MergesUpTo, N
  <2>3. n # 0
    BY <2>1, <2>2 DEF GoodCards, NoCards
  <2>4. n - 1 \in Nat /\ n - 1 \notin S
    BY <2>1, <2>3
  <2>5. GoodCards(M[n - 1]) /\ order[n] \in Tag
    BY <1>3, <2>1, <2>3, <2>4 DEF N
  <2> QED
    BY <2>1, <2>2, <2>3, <2>5, KeepsCardsGood
<1> QED
  BY <1>1, <1>4 DEF N

\* Only a start changes the cards.
LEMMA CardsNext ==
  ASSUME Tags, cards \subseteq Tag, Nfc!OneCardForEachKind, [Nfc!Next]_(Nfc!scannerVars)
  PROVE  cards' \subseteq Tag /\ Nfc!OneCardForEachKind'
<1>1. ASSUME NEW order \in Nfc!Orders, Nfc!Restart(order)
      PROVE  cards' \subseteq Tag /\ Nfc!OneCardForEachKind'
  <2>1. Cardinality(Tag) \in Nat
    BY FS_CardinalityType DEF Tags
  <2>2. GoodCards(Nfc!Merge(order))
    BY <2>1, MergeIsGood
  <2>3. cards' = Nfc!Merge(order).cards /\ known' = Nfc!Merge(order).known /\ pack' = pack
    BY <1>1 DEF Nfc!Restart
  <2> QED
    BY <2>2, <2>3 DEF GoodCards, Nfc!OneCardForEachKind
<1>2. ASSUME UNCHANGED <<pack, cards, known>> PROVE cards' \subseteq Tag /\ Nfc!OneCardForEachKind'
  BY <1>2 DEF Nfc!OneCardForEachKind
<1>3. ASSUME NEW t \in Tag, Nfc!Place(t) PROVE UNCHANGED <<pack, cards, known>>
  BY <1>3 DEF Nfc!Place, Nfc!disk
<1>4. ASSUME \/ Nfc!Lift \/ Nfc!OpenReader \/ Nfc!ReaderGone \/ Nfc!SeeEmptyField \/ Nfc!SeeTag
             \/ Nfc!ReadBlock \/ Nfc!DumpFails \/ Nfc!DumpDone \/ Nfc!WriteFails
      PROVE  UNCHANGED <<pack, cards, known>>
  BY <1>4 DEF Nfc!Lift, Nfc!OpenReader, Nfc!ReaderGone, Nfc!SeeEmptyField, Nfc!SeeTag, Nfc!ReadBlock,
              Nfc!DumpFails, Nfc!DumpDone, Nfc!WriteFails, Nfc!disk
<1>5. ASSUME Nfc!WriteStarts \/ Nfc!WriteEnds PROVE UNCHANGED <<pack, cards, known>>
  BY <1>5 DEF Nfc!WriteStarts, Nfc!WriteEnds
<1>6. ASSUME UNCHANGED Nfc!scannerVars PROVE UNCHANGED <<pack, cards, known>>
  BY <1>6 DEF Nfc!scannerVars
<1> QED
  BY <1>1, <1>2, <1>3, <1>4, <1>5, <1>6 DEF Nfc!Next

\* A start makes one card for each identity of the pack's figures and the dumps',
\* however many dumps there are and in whatever order the directory lists them.
THEOREM OneCardCorrect == ASSUME Tags PROVE Nfc!Spec => []Nfc!OneCardForEachKind
<1>1. Nfc!Init => cards \subseteq Tag /\ Nfc!OneCardForEachKind
  BY DEF Nfc!Init, Nfc!OneCardForEachKind
<1>2. cards \subseteq Tag /\ Nfc!OneCardForEachKind /\ [Nfc!Next]_(Nfc!scannerVars)
        => (cards \subseteq Tag)' /\ Nfc!OneCardForEachKind'
  BY CardsNext
<1> QED
  BY <1>1, <1>2, PTL DEF Nfc!Spec

\* Beside what ScanInv says: the reader, the last figure seen, the library.
ScanTypes ==
  /\ field \in Tag \cup {NoTag} /\ reader \in {"closed", "open"}
  /\ pack \subseteq Nfc!Kinds /\ known \subseteq Nfc!Kinds
  /\ cards \subseteq Tag /\ fresh \subseteq Tag

\* Every step keeps it.
LEMMA ScanTypesNext ==
  ASSUME Tags, ScanInv, ScanTypes, [Nfc!Next]_(Nfc!scannerVars)
  PROVE  ScanTypes'
<1>0. /\ pad \in Tag \cup {NoTag} /\ dump.uid \in Tag \cup {NoTag}
      /\ field \in Tag \cup {NoTag} /\ reader \in {"closed", "open"}
      /\ pack \subseteq Nfc!Kinds /\ known \subseteq Nfc!Kinds
      /\ cards \subseteq Tag /\ fresh \subseteq Tag
  BY DEF ScanInv, DumpType, ScanTypes
<1> USE <1>0 DEF ScanTypes
<1>1. ASSUME NEW t \in Tag, Nfc!Place(t) PROVE ScanTypes'
  BY <1>1 DEF Nfc!Place, Nfc!disk
<1>2. CASE Nfc!Lift \/ Nfc!OpenReader \/ Nfc!ReaderGone \/ Nfc!SeeEmptyField \/ Nfc!SeeTag
  BY <1>2 DEF Nfc!Lift, Nfc!OpenReader, Nfc!ReaderGone, Nfc!SeeEmptyField, Nfc!SeeTag, Nfc!disk
<1>3. CASE Nfc!ReadBlock \/ Nfc!DumpFails \/ Nfc!DumpDone \/ Nfc!WriteFails
  BY <1>3 DEF Nfc!ReadBlock, Nfc!DumpFails, Nfc!DumpDone, Nfc!WriteFails, Nfc!disk
<1>4. CASE Nfc!WriteStarts \/ Nfc!WriteEnds
  BY <1>4 DEF Nfc!WriteStarts, Nfc!WriteEnds
<1>5. ASSUME NEW order \in Nfc!Orders, Nfc!Restart(order) PROVE ScanTypes'
  <2>1. Cardinality(Tag) \in Nat
    BY FS_CardinalityType DEF Tags
  <2>2. GoodCards(Nfc!Merge(order))
    BY <2>1, MergeIsGood
  <2>3. /\ cards' = Nfc!Merge(order).cards /\ known' = Nfc!Merge(order).known
        /\ UNCHANGED <<pack, fresh>> /\ field' = NoTag /\ reader' = "closed"
    BY <1>5 DEF Nfc!Restart
  <2>4. known' \subseteq Nfc!Kinds
    BY <2>2, <2>3 DEF GoodCards, Nfc!Kinds
  <2> QED
    BY <2>2, <2>3, <2>4 DEF GoodCards
<1>6. CASE UNCHANGED Nfc!scannerVars
  BY <1>6 DEF Nfc!scannerVars
<1> QED
  BY <1>1, <1>2, <1>3, <1>4, <1>5, <1>6 DEF Nfc!Next

\* The scanner keeps to its types: the cards are of tags, and what the library
\* knows is of the pack or of a tag.
THEOREM ScanTypesCorrect == ASSUME Tags PROVE Nfc!Spec => []Nfc!TypeOK
<1>1. Nfc!Init => ScanInv /\ ScanTypes
  BY ScanInit DEF Nfc!Init, ScanTypes
<1>2. ScanInv /\ ScanTypes /\ [Nfc!Next]_(Nfc!scannerVars) => ScanInv' /\ ScanTypes'
  BY ScanNext, ScanTypesNext
<1>3. ScanInv /\ ScanTypes => Nfc!TypeOK
  BY DEF ScanInv, ScanTypes, DumpType, ScannedType, Nfc!TypeOK
<1> QED
  BY <1>1, <1>2, <1>3, PTL DEF Nfc!Spec
-----------------------------------------------------------------------------
(***************************************************************************)
(* The button that must be held                                            *)
(***************************************************************************)
CONSTANTS Dialog, Subject, HOLD, LINGER, DISMISS, NoTarget
VARIABLES target, holding, fired, timers, rest, down, held, spent

Button == INSTANCE HoldButton

\* Times are counted.
Times == HOLD \in Nat /\ LINGER \in Nat /\ DISMISS \in Nat

\* At the start nothing is pressed.
LEMMA HoldInit == Button!Init => Button!HoldInv
<1> SUFFICES ASSUME Button!Init PROVE Button!HoldInv
  OBVIOUS
<1>1. rest \in Nat
  BY SMT DEF Button!Init
<1>2. /\ holding \in BOOLEAN /\ fired \in BOOLEAN /\ down \in BOOLEAN /\ spent \in BOOLEAN
      /\ Button!PressIsHeld /\ Button!ClosesInTheEnd
  BY Zenon DEF Button!Init, Button!PressIsHeld, Button!ClosesInTheEnd
<1> QED
  BY <1>1, <1>2 DEF Button!HoldInv

\* Every step keeps the timers harmless.
LEMMA HoldNext ==
  ASSUME Times PROVE Button!HoldInv /\ [Button!Next]_(Button!holdVars) => Button!HoldInv'
<1> SUFFICES ASSUME Button!HoldInv, [Button!Next]_(Button!holdVars) PROVE Button!HoldInv'
  OBVIOUS
<1> USE DEF Button!HoldInv, Button!PressIsHeld, Button!ClosesInTheEnd
<1>1. ASSUME NEW t \in Subject, Button!Open(t) PROVE Button!HoldInv'
  BY <1>1 DEF Button!Open, Button!AtRest
<1>2. CASE Button!Close
  BY <1>2 DEF Button!Close, Button!Gone
<1>3. CASE Button!Press
  BY <1>3 DEF Button!Press
<1>4. CASE Button!Lift
  BY <1>4 DEF Button!Lift
<1>5. CASE Button!TimerEnds
  <2>1. CASE holding /\ ~fired
    <3>1. /\ fired' = TRUE /\ holding' = FALSE /\ spent' = TRUE /\ UNCHANGED <<target, down>>
          /\ rest' = IF ~Dialog THEN LINGER ELSE IF target = NoTarget THEN rest ELSE DISMISS + 1
      BY <1>5, <2>1 DEF Button!TimerEnds, Button!Act
    <3>2. rest' \in Nat /\ (Dialog /\ target # NoTarget => rest' > 0)
      BY <3>1, SMT DEF Times
    <3>3. /\ holding' \in BOOLEAN /\ fired' \in BOOLEAN /\ spent' \in BOOLEAN /\ down' \in BOOLEAN
          /\ holding' = FALSE /\ target' = target
      BY <3>1, Zenon
    <3> HIDE DEF Button!HoldInv, Button!PressIsHeld, Button!ClosesInTheEnd
    <3>4. Button!PressIsHeld'
      BY <3>3, Zenon DEF Button!PressIsHeld
    <3>5. Button!ClosesInTheEnd'
      BY <3>2, <3>3, Zenon DEF Button!ClosesInTheEnd
    <3> QED
      BY <3>2, <3>3, <3>4, <3>5, Zenon DEF Button!HoldInv
  <2>2. CASE ~(holding /\ ~fired)
    BY <1>5, <2>2 DEF Button!TimerEnds
  <2> QED
    BY <2>1, <2>2
<1>6. CASE Button!Tick
  <2>1. CASE Dialog /\ rest = 2
    <3>1. rest' = 1 /\ fired' = (fired /\ rest # 1) /\ rest # 1
      BY <1>6, <2>1, SMT DEF Button!Tick
    <3>2. /\ target' = NoTarget /\ down' = FALSE /\ holding' = holding /\ spent' = spent
          /\ fired' = fired
      BY <1>6, <2>1, <3>1, Zenon DEF Button!Tick
    <3>3. rest' \in Nat
      BY <3>1, SMT
    <3> HIDE DEF Button!HoldInv, Button!PressIsHeld, Button!ClosesInTheEnd
    <3>4. Button!PressIsHeld'
      BY <3>2, Zenon DEF Button!HoldInv, Button!PressIsHeld
    <3>5. Button!ClosesInTheEnd'
      BY <3>2, Zenon DEF Button!ClosesInTheEnd
    <3> QED
      BY <3>2, <3>3, <3>4, <3>5, Zenon DEF Button!HoldInv
  <2>2. CASE ~(Dialog /\ rest = 2)
    BY <1>6, <2>2 DEF Button!Tick
  <2> QED
    BY <2>1, <2>2
<1>7. CASE UNCHANGED Button!holdVars
  BY <1>7 DEF Button!holdVars
<1> QED
  BY <1>1, <1>2, <1>3, <1>4, <1>5, <1>6, <1>7 DEF Button!Next

\* Whatever acts does so with the finger down, for the first time in its press.
LEMMA HoldActs ==
  ASSUME Times
  PROVE  Button!HoldInv /\ [Button!Next]_(Button!holdVars) => [Button!ActsUnderFingerStep]_(Button!holdVars)
<1> SUFFICES ASSUME Button!HoldInv, [Button!Next]_(Button!holdVars), Button!Acts PROVE down /\ ~spent
  BY DEF Button!ActsUnderFingerStep
<1>1. fired' # fired /\ fired'
  BY DEF Button!Acts
<1>2. Button!TimerEnds
  BY <1>1 DEF Button!Next, Button!Open, Button!AtRest, Button!Close, Button!Gone, Button!Press,
       Button!Lift, Button!Tick, Button!holdVars, Button!HoldInv
<1> QED
  BY <1>2 DEF Button!TimerEnds, Button!Acts, Button!HoldInv, Button!PressIsHeld

\* A press acts with the finger on the button, and once, whatever timers of earlier
\* presses, of a closed dialog or for another figure still run (on_hold_down).
THEOREM ActsCorrect == ASSUME Times PROVE Button!Spec => Button!ActsUnderFinger
  BY HoldInit, HoldNext, HoldActs, PTL DEF Button!Spec, Button!ActsUnderFinger

\* The reset dialog that has acted, and so cannot be dismissed, is about to close by
\* itself (ResetConfirmModal).
THEOREM ClosesCorrect == ASSUME Times PROVE Button!Spec => []Button!ClosesInTheEnd
<1>1. Button!HoldInv => Button!ClosesInTheEnd
  BY DEF Button!HoldInv
<1> QED
  BY <1>1, HoldInit, HoldNext, PTL DEF Button!Spec

\* The timers of a button, and its flags.
Longest   == IF Dialog THEN DISMISS + 1 ELSE LINGER
IsTimely  == timers \subseteq 0 .. HOLD /\ rest \in 0 .. Longest /\ held \in 0 .. HOLD
IsFlagged == holding \in BOOLEAN /\ fired \in BOOLEAN /\ down \in BOOLEAN /\ spent \in BOOLEAN

\* Every step keeps a button's types: no timer outlasts what armed it.
LEMMA ButtonTypes ==
  ASSUME Times, target \in Subject \cup {NoTarget}, IsTimely, IsFlagged,
         [Button!Next]_(Button!holdVars)
  PROVE  target' \in Subject \cup {NoTarget} /\ IsTimely' /\ IsFlagged'
<1>0. /\ HOLD \in Nat /\ Longest \in Nat /\ LINGER \in Nat /\ DISMISS \in Nat
      /\ Longest = IF Dialog THEN DISMISS + 1 ELSE LINGER
  BY DEF Times, Longest
<1>1. ASSUME UNCHANGED <<target, timers, rest, held>>
      PROVE  target' \in Subject \cup {NoTarget} /\ IsTimely'
  BY <1>1 DEF IsTimely, Longest
<1>2. ASSUME UNCHANGED <<holding, fired, down, spent>> PROVE IsFlagged'
  BY <1>2 DEF IsFlagged
<1>3. ASSUME NEW t \in Subject, Button!Open(t)
      PROVE  target' \in Subject \cup {NoTarget} /\ IsTimely' /\ IsFlagged'
  <2>1. target' \in Subject \cup {NoTarget} /\ IsTimely'
    BY <1>3 DEF Button!Open, IsTimely, Longest
  <2>2. IsFlagged'
    BY <1>3, Zenon DEF Button!Open, Button!AtRest, IsFlagged
  <2> QED
    BY <2>1, <2>2
<1>4. CASE Button!Close
  <2>1. /\ target' = NoTarget /\ held' = 0
        /\ timers' = timers \/ timers' = {}
        /\ rest' = rest \/ rest' = 0
    BY <1>4, Zenon DEF Button!Close, Button!Gone
  <2>2. target' \in Subject \cup {NoTarget} /\ IsTimely'
    <3>1. timers' \subseteq 0 .. HOLD
      BY <1>0, <2>1 DEF IsTimely
    <3>2. rest' \in 0 .. Longest /\ held' \in 0 .. HOLD
      BY <1>0, <2>1 DEF IsTimely
    <3> QED
      BY <2>1, <3>1, <3>2 DEF IsTimely, Longest
  <2>3. IsFlagged'
    BY <1>4, Zenon DEF Button!Close, Button!Gone, IsFlagged
  <2> QED
    BY <2>2, <2>3
<1>5. CASE Button!Press
  <2>1. /\ target' = target /\ held' = 0 /\ rest' = rest
        /\ timers' = timers \/ timers' = timers \cup {HOLD}
    BY <1>5, Zenon DEF Button!Press
  <2>2. target' \in Subject \cup {NoTarget} /\ IsTimely'
    <3>1. timers' \subseteq 0 .. HOLD
      <4>1. HOLD \in 0 .. HOLD
        BY <1>0
      <4>2. timers \subseteq 0 .. HOLD
        BY DEF IsTimely
      <4> QED
        BY <2>1, <4>1, <4>2
    <3>2. rest' \in 0 .. Longest /\ held' \in 0 .. HOLD
      BY <1>0, <2>1 DEF IsTimely
    <3> QED
      BY <2>1, <3>1, <3>2 DEF IsTimely, Longest
  <2>3. IsFlagged'
    BY <1>5, Zenon DEF Button!Press, IsFlagged
  <2> QED
    BY <2>2, <2>3
<1>6. CASE Button!Lift
  <2>1. target' \in Subject \cup {NoTarget} /\ IsTimely'
    BY <1>0, <1>6 DEF Button!Lift, IsTimely, Longest
  <2>2. IsFlagged'
    BY <1>6, Zenon DEF Button!Lift, IsFlagged
  <2> QED
    BY <2>1, <2>2
<1>7. CASE Button!TimerEnds
  <2>1. target' \in Subject \cup {NoTarget} /\ IsTimely'
    BY <1>0, <1>7 DEF Button!TimerEnds, IsTimely, Longest
  <2>2. IsFlagged'
    BY <1>7, Zenon DEF Button!TimerEnds, Button!Act, IsFlagged
  <2> QED
    BY <2>1, <2>2
<1>8. CASE Button!Tick
  <2>1. target' \in Subject \cup {NoTarget} /\ IsTimely'
    BY <1>0, <1>8 DEF Button!Tick, IsTimely, Longest
  <2>2. IsFlagged'
    BY <1>8, Zenon DEF Button!Tick, IsFlagged
  <2> QED
    BY <2>1, <2>2
<1> QED
  BY <1>1, <1>2, <1>3, <1>4, <1>5, <1>6, <1>7, <1>8 DEF Button!Next, Button!holdVars

\* The types and bounds of a button, for every time of holding, lingering and dismissal.
THEOREM ButtonTypesCorrect == ASSUME Times PROVE Button!Spec => []Button!TypeOK
<1>1. Button!Init => target \in Subject \cup {NoTarget} /\ IsTimely /\ IsFlagged
  <2>1. Button!Init => target \in Subject \cup {NoTarget} /\ IsTimely
    BY DEF Times, Button!Init, IsTimely, Longest
  <2>2. Button!Init => IsFlagged
    BY Zenon DEF Button!Init, IsFlagged
  <2> QED
    BY <2>1, <2>2
<1>2. target \in Subject \cup {NoTarget} /\ IsTimely /\ IsFlagged => Button!TypeOK
  BY Zenon DEF IsTimely, IsFlagged, Longest, Button!TypeOK
<1>3. /\ target \in Subject \cup {NoTarget} /\ IsTimely /\ IsFlagged
      /\ [Button!Next]_(Button!holdVars)
      => (target \in Subject \cup {NoTarget} /\ IsTimely /\ IsFlagged)'
  BY ButtonTypes
<1> QED
  BY <1>1, <1>2, <1>3, PTL DEF Button!Spec
-----------------------------------------------------------------------------
(***************************************************************************)
(* Looking at the emulator                                                 *)
(***************************************************************************)
CONSTANTS SAMPLE_BUFFER, FreezeTicks, MaxGap, Failing, NoSample
VARIABLES game, status, poller, sample, looked

Poll == INSTANCE Poller

\* A pause between two compile phases is over before the game counts as ready.
Brief ==
  /\ SAMPLE_BUFFER \in Nat /\ MaxGap \in Nat /\ MaxGap < SAMPLE_BUFFER
  /\ FreezeTicks \in Nat \ {0}
  /\ NoSample \notin Poll!Look

\* A look is under way.
LookedUp == sample # NoSample

\* A game that shows frames has rendered.
FramesAreRendered == game.phase \in {"rendering", "stalling", "stalled"} => game.rendered

\* A look at an emulator that has stopped has found nothing.
NothingIsSeen ==
  LookedUp /\ sample.stopped => ~sample.up /\ ~sample.running /\ ~sample.frozen

\* Nothing is left of a game that the poller has seen stopped.
SeenToStop ==
  looked /\ game.phase = "none" =>
    /\ ~status.playable /\ ~status.frozen
    /\ ~poller.ever /\ poller.ready = 0 /\ poller.stall = 0
    /\ LookedUp => ~sample.up /\ ~sample.running /\ ~sample.frozen

\* A game that has not rendered is ready in pauses between compile phases only.
ReadyInGaps ==
  looked /\ game.phase # "none" /\ ~game.rendered =>
    /\ ~status.playable /\ ~poller.ever
    /\ ~LookedUp => poller.ready <= game.gap
    /\ LookedUp => (Poll!Ready(sample) => poller.ready + 1 <= game.gap)

\* The stall count is no more than the looks at which the game had no new frame.
StallsAreIdle ==
  looked /\ game.phase # "none" =>
    /\ ~LookedUp => poller.stall <= game.idle
    /\ LookedUp /\ sample.running /\ ~sample.advancing =>
         Poll!Least(poller.stall + 1, FreezeTicks) <= game.idle
    /\ LookedUp /\ sample.frozen => game.phase = "halted"
    /\ ~LookedUp /\ status.frozen => game.idle = FreezeTicks \/ game.phase = "halted"

PollInv ==
  /\ Poll!TypeOK
  /\ FramesAreRendered /\ NothingIsSeen
  /\ SeenToStop /\ ReadyInGaps /\ StallsAreIdle

\* The components of the state have their types.
LEMMA PollTypes ==
  ASSUME Poll!TypeOK
  PROVE  /\ game.phase \in Poll!Phase /\ game.gap \in 0 .. MaxGap /\ game.idle \in 0 .. FreezeTicks
         /\ game.rendered \in BOOLEAN
         /\ status.running \in BOOLEAN /\ status.playable \in BOOLEAN /\ status.frozen \in BOOLEAN
         /\ poller.ready \in 0 .. SAMPLE_BUFFER /\ poller.stall \in 0 .. FreezeTicks
         /\ poller.ever \in BOOLEAN /\ poller.last \in {"zero", "this", "former"}
         /\ looked \in BOOLEAN /\ (LookedUp => sample \in Poll!Look)
  BY DEF Poll!TypeOK, LookedUp

\* The launcher starts with nothing running and nothing seen.
LEMMA PollInit == ASSUME Brief PROVE Poll!Init => PollInv
<1> SUFFICES ASSUME Poll!Init PROVE PollInv
  OBVIOUS
<1> USE DEF Poll!Init, Poll!NewGame, Brief
<1>1. Poll!TypeOK
  BY DEF Poll!TypeOK, Poll!Phase
<1> QED
  BY <1>1 DEF PollInv, FramesAreRendered, NothingIsSeen, SeenToStop, ReadyInGaps, StallsAreIdle,
              LookedUp

-----------------------------------------------------------------------------
\* A phase leads to another of a running emulator, and to frames by rendering.
LEMMA GoesOnHolds == ASSUME Brief, PollInv, Poll!EmulatorGoesOn PROVE PollInv'
<1> USE DEF PollInv, Brief
<1>1. PICK next \in Poll!Becomes[game.phase] :
        game' = [phase |-> next, gap |-> game.gap, idle |-> game.idle,
                 rendered |-> game.rendered \/ next = "rendering"]
  BY DEF Poll!EmulatorGoesOn
<1>2. UNCHANGED <<status, poller, sample, looked>>
  BY DEF Poll!EmulatorGoesOn
<1>3. /\ next \in Poll!Phase \ {"none"} /\ game.phase \notin {"none", "halted"}
      /\ next \in {"stalling", "stalled"} => game.rendered
  BY <1>1, PollTypes DEF Poll!Becomes, Poll!Phase, FramesAreRendered
<1>4. Poll!TypeOK'
  BY <1>1, <1>2, <1>3, PollTypes DEF Poll!TypeOK
<1>5. FramesAreRendered' /\ NothingIsSeen' /\ SeenToStop'
  BY <1>1, <1>2, <1>3 DEF FramesAreRendered, NothingIsSeen, SeenToStop, LookedUp
<1>6. ReadyInGaps'
  BY <1>1, <1>2, <1>3, PollTypes DEF ReadyInGaps, LookedUp, Poll!Ready
<1>7. StallsAreIdle'
  BY <1>1, <1>2, <1>3, PollTypes DEF StallsAreIdle, LookedUp, Poll!Least
<1> QED
  BY <1>4, <1>5, <1>6, <1>7

\* A game that ends is to be seen to stop anew.
LEMMA EndsHold == ASSUME Brief, PollInv, Poll!EmulatorEnds \/ Poll!Recover PROVE PollInv'
<1> USE DEF PollInv, Brief
<1>1. game' = [game EXCEPT !.phase = "none"] /\ looked' = FALSE /\ UNCHANGED <<poller, sample>>
  BY DEF Poll!EmulatorEnds, Poll!Recover
<1>2. status' \in [running : BOOLEAN, playable : BOOLEAN, frozen : BOOLEAN]
  <2>1. CASE Poll!EmulatorEnds
    BY <2>1 DEF Poll!EmulatorEnds, Poll!TypeOK
  <2>2. CASE Poll!Recover
    BY <2>2 DEF Poll!Recover
  <2> QED
    BY <2>1, <2>2
<1>3. Poll!TypeOK'
  BY <1>1, <1>2 DEF Poll!TypeOK, Poll!Phase
<1>4. game'.phase = "none"
  BY <1>1 DEF Poll!TypeOK
<1> QED
  BY <1>1, <1>3, <1>4 DEF FramesAreRendered, NothingIsSeen, SeenToStop, ReadyInGaps, StallsAreIdle,
                          LookedUp

\* A game starts with nothing left of one that was seen to stop.
LEMMA SpawnHolds == ASSUME Brief, PollInv, Poll!Spawn PROVE PollInv'
<1> USE DEF PollInv, Brief
<1>1. /\ game' = [phase |-> "compiling", gap |-> 0, idle |-> 0, rendered |-> FALSE]
      /\ poller' = [poller EXCEPT !.last = IF @ = "this" THEN "former" ELSE @]
      /\ game.phase = "none" /\ UNCHANGED <<status, sample, looked>>
  BY DEF Poll!Spawn, Poll!NewGame
<1>2. Poll!TypeOK' /\ poller'.ready = poller.ready /\ poller'.stall = poller.stall
      /\ poller'.ever = poller.ever
  BY <1>1 DEF Poll!TypeOK, Poll!Phase
<1>3. FramesAreRendered' /\ NothingIsSeen' /\ SeenToStop'
  BY <1>1 DEF FramesAreRendered, NothingIsSeen, SeenToStop, LookedUp
<1>4. ReadyInGaps'
  BY <1>1, <1>2 DEF ReadyInGaps, SeenToStop, LookedUp, Poll!Ready
<1>5. StallsAreIdle'
  BY <1>1, <1>2 DEF StallsAreIdle, SeenToStop, LookedUp
<1> QED
  BY <1>2, <1>3, <1>4, <1>5

\* Neither a boot nor a quit touches what the poller has found.
LEMMA FlagHolds == ASSUME Brief, PollInv, Poll!BootDirect \/ Poll!Quit PROVE PollInv'
<1> USE DEF PollInv, Brief
<1>1. PICK up \in BOOLEAN : status' = [status EXCEPT !.running = up]
  BY DEF Poll!BootDirect, Poll!Quit
<1>2. UNCHANGED <<game, poller, sample, looked>>
  BY DEF Poll!BootDirect, Poll!Quit
<1>3. Poll!TypeOK' /\ status'.playable = status.playable /\ status'.frozen = status.frozen
  BY <1>1, <1>2 DEF Poll!TypeOK
<1> QED
  BY <1>2, <1>3 DEF FramesAreRendered, NothingIsSeen, SeenToStop, ReadyInGaps, StallsAreIdle,
                    LookedUp, Poll!Ready
-----------------------------------------------------------------------------
\* A look that fails says nothing.
LEMMA NoSampleHolds == ASSUME Brief, PollInv, Poll!NoSampleTaken PROVE PollInv'
<1> USE DEF PollInv, Brief
<1>1. /\ sample' = Poll!NoAnswer /\ poller' = [poller EXCEPT !.last = "zero"]
      /\ UNCHANGED <<game, status, looked>>
  BY DEF Poll!NoSampleTaken
<1>2. Poll!NoAnswer \in Poll!Look /\ ~Poll!NoAnswer.up /\ ~Poll!NoAnswer.running /\ ~Poll!NoAnswer.frozen
  BY DEF Poll!NoAnswer, Poll!Look
<1>3. Poll!TypeOK' /\ poller'.ready = poller.ready /\ poller'.stall = poller.stall
      /\ poller'.ever = poller.ever
  BY <1>1, <1>2 DEF Poll!TypeOK
<1>4. LookedUp' /\ ~sample'.up /\ ~sample'.running /\ ~sample'.frozen
  BY <1>1, <1>2 DEF LookedUp
<1>5. FramesAreRendered' /\ NothingIsSeen' /\ SeenToStop'
  BY <1>1, <1>3, <1>4 DEF FramesAreRendered, NothingIsSeen, SeenToStop
<1>6. ReadyInGaps'
  BY <1>1, <1>3, <1>4 DEF ReadyInGaps, Poll!Ready
<1>7. StallsAreIdle'
  BY <1>1, <1>3, <1>4 DEF StallsAreIdle
<1> QED
  BY <1>3, <1>5, <1>6, <1>7

\* A look at a game is counted by the game as the poller will count it.
LEMMA TakeHolds == ASSUME Brief, PollInv, Poll!TakeSample PROVE PollInv'
<1> USE DEF PollInv, Brief
<1> DEFINE gap == CASE game.phase = "compiling" -> 0
                    [] game.phase = "gap"       -> game.gap + 1
                    [] OTHER                    -> game.gap
           idle(moved) == IF moved THEN 0 ELSE Poll!Least(game.idle + 1, FreezeTicks)
           phase == IF game.phase = "stalling" THEN "stalled" ELSE game.phase
<1>1. PICK moved \in Poll!Moved :
        /\ sample' = Poll!Answer(moved)
        /\ game' = [phase |-> phase, gap |-> gap, idle |-> idle(moved),
                    rendered |-> game.rendered]
        /\ poller' = [poller EXCEPT !.last = "this"]
  BY DEF Poll!TakeSample
<1>2. /\ ~LookedUp /\ game.phase # "none" /\ (game.phase = "gap" => game.gap < MaxGap)
      /\ UNCHANGED <<status, looked>>
  BY DEF Poll!TakeSample, LookedUp
<1>3. moved \in BOOLEAN
  <2>1. CASE poller.last = "former"
    BY <1>1, <2>1, <1>2, PollTypes DEF Poll!Moved, Poll!Phase
  <2>2. CASE poller.last # "former"
    BY <1>1, <2>2, <1>2, PollTypes DEF Poll!Moved, Poll!Phase
  <2> QED
    BY <2>1, <2>2
<1>4. /\ gap \in 0 .. MaxGap
      /\ game.phase = "gap" => gap = game.gap + 1
  <2>1. CASE game.phase = "compiling"
    BY <2>1, PollTypes
  <2>2. CASE game.phase = "gap"
    BY <2>2, <1>2, PollTypes
  <2>3. CASE game.phase \notin {"compiling", "gap"}
    BY <2>3, PollTypes
  <2> QED
    BY <2>1, <2>2, <2>3
<1>5. idle(moved) \in 0 .. FreezeTicks
  BY <1>3, PollTypes DEF Poll!Least
<1>6. phase \in Poll!Phase \ {"none"} /\ (phase = "halted" <=> game.phase = "halted")
  BY <1>2, PollTypes DEF Poll!Phase
<1> HIDE DEF gap, idle, phase
<1>7. /\ sample' \in Poll!Look /\ sample'.up = TRUE /\ sample'.running = (game.phase # "halted")
      /\ sample'.frozen = (game.phase = "halted") /\ sample'.compiled = (game.phase # "compiling")
      /\ sample'.advancing = moved /\ sample'.stopped = FALSE
  BY <1>1, <1>3 DEF Poll!Answer, Poll!Look
<1>8. LookedUp' /\ UNCHANGED <<status, looked>>
  BY <1>2, <1>7 DEF LookedUp
<1>9. Poll!TypeOK' /\ poller'.ready = poller.ready /\ poller'.stall = poller.stall
      /\ poller'.ever = poller.ever
  <2>1. game' \in [phase : Poll!Phase, gap : 0 .. MaxGap, idle : 0 .. FreezeTicks, rendered : BOOLEAN]
    BY <1>1, <1>4, <1>5, <1>6, PollTypes
  <2> QED
    BY <1>1, <1>7, <1>8, <2>1 DEF Poll!TypeOK
<1>10. game'.phase = phase /\ game'.gap = gap /\ game'.idle = idle(moved)
       /\ game'.rendered = game.rendered
  BY <1>1
<1>11. FramesAreRendered' /\ NothingIsSeen' /\ SeenToStop'
  BY <1>6, <1>7, <1>10 DEF FramesAreRendered, NothingIsSeen, SeenToStop, phase
<1>12. ReadyInGaps'
  <2> SUFFICES ASSUME looked, ~game.rendered
               PROVE  /\ ~status.playable /\ ~poller.ever
                      /\ Poll!Ready(sample') => poller.ready + 1 <= gap
    BY <1>8, <1>9, <1>10 DEF ReadyInGaps, Poll!Ready
  <2>1. ~status.playable /\ ~poller.ever /\ poller.ready <= game.gap
    BY <1>2 DEF ReadyInGaps
  <2>2. Poll!Ready(sample') => game.phase = "gap"
    BY <1>2, <1>7, PollTypes DEF Poll!Ready, FramesAreRendered, Poll!Phase
  <2> QED
    BY <1>4, <2>1, <2>2, PollTypes
<1>13. StallsAreIdle'
  <2>1. looked => poller.stall <= game.idle
    BY <1>2 DEF StallsAreIdle
  <2>2. looked /\ ~moved => Poll!Least(poller.stall + 1, FreezeTicks) <= idle(moved)
    BY <2>1, PollTypes DEF idle, Poll!Least
  <2> QED
    BY <1>6, <1>7, <1>8, <1>9, <1>10, <2>2 DEF StallsAreIdle
<1> QED
  BY <1>9, <1>11, <1>12, <1>13

\* What a look is applied to agrees with what the game has counted; a look that
\* saw nothing clears what a former game has left.
LEMMA ApplyHolds == ASSUME Brief, PollInv, Poll!ApplySample PROVE PollInv'
<1> USE DEF PollInv, Brief
<1>1. /\ LookedUp /\ sample \in Poll!Look /\ UNCHANGED game
      /\ status' = Poll!Latch
      /\ poller' = [ready |-> IF status.running THEN Poll!ReadyRun ELSE 0,
                    stall |-> Poll!StallTicks, ever |-> Poll!Ever,
                    last  |-> IF status.running THEN poller.last ELSE "zero"]
      /\ looked' = (looked \/ (~status.running /\ sample.stopped))
      /\ ~LookedUp'
  BY PollTypes DEF Poll!ApplySample, LookedUp
<1>2. /\ Poll!ReadyRun \in 0 .. SAMPLE_BUFFER
      /\ Poll!ReadyRun <= poller.ready + 1
      /\ ~Poll!Ready(sample) => Poll!ReadyRun = 0
  BY PollTypes DEF Poll!ReadyRun, Poll!Least
<1>3. /\ Poll!StallTicks \in 0 .. FreezeTicks
      /\ Poll!StallTicks # 0 => /\ sample.running /\ ~sample.advancing
                           /\ Poll!StallTicks <= Poll!Least(poller.stall + 1, FreezeTicks)
  BY PollTypes DEF Poll!StallTicks, Poll!Least
<1>4. /\ Poll!Stable <=> Poll!ReadyRun = SAMPLE_BUFFER
      /\ Poll!Ever <=> (status.running /\ poller.ever) \/ Poll!Stable
      /\ Poll!FrozenNow <=> Poll!StallTicks = FreezeTicks \/ (Poll!Ever /\ sample.frozen)
  BY DEF Poll!Stable, Poll!Ever, Poll!FrozenNow
<1>5. Poll!Ever \in BOOLEAN /\ Poll!FrozenNow \in BOOLEAN /\ Poll!Stable \in BOOLEAN
  BY DEF Poll!Ever, Poll!FrozenNow, Poll!Stable
<1>6. /\ status'.playable = (status.running /\ (status.playable \/ Poll!Stable) /\ ~Poll!FrozenNow)
      /\ status'.frozen = Poll!FrozenNow
      /\ status' \in [running : BOOLEAN, playable : BOOLEAN, frozen : BOOLEAN]
  BY <1>1, <1>5, PollTypes DEF Poll!Latch
<1>7. /\ poller'.ready = (IF status.running THEN Poll!ReadyRun ELSE 0)
      /\ poller'.stall = Poll!StallTicks /\ poller'.ever = Poll!Ever
      /\ poller' \in [ready : 0 .. SAMPLE_BUFFER, stall : 0 .. FreezeTicks, ever : BOOLEAN,
                      last : {"zero", "this", "former"}]
  BY <1>1, <1>2, <1>3, <1>5, PollTypes
<1>8. Poll!TypeOK'
  BY <1>1, <1>6, <1>7 DEF Poll!TypeOK, LookedUp
<1>9. FramesAreRendered' /\ NothingIsSeen'
  BY <1>1 DEF FramesAreRendered, NothingIsSeen
\* A look that saw nothing, or the emulator stopped, and what it leaves.
<1>10. ASSUME ~sample.up, ~sample.running, ~sample.frozen, ~status.running \/ ~poller.ever,
              ~status.running \/ ~status.playable
       PROVE  /\ ~status'.playable /\ ~status'.frozen /\ ~poller'.ever
              /\ poller'.ready = 0 /\ poller'.stall = 0
  <2>1. Poll!ReadyRun = 0 /\ Poll!StallTicks = 0
    BY <1>2, <1>3, <1>10 DEF Poll!Ready
  <2>2. ~Poll!Stable /\ ~Poll!Ever /\ ~Poll!FrozenNow
    BY <1>4, <1>10, <2>1
  <2> QED
    BY <1>6, <1>7, <1>10, <2>1, <2>2
<1>11. SeenToStop'
  <2> SUFFICES ASSUME looked', game.phase = "none"
               PROVE  /\ ~status'.playable /\ ~status'.frozen /\ ~poller'.ever
                      /\ poller'.ready = 0 /\ poller'.stall = 0
    BY <1>1 DEF SeenToStop
  <2>1. CASE looked
    BY <1>1, <1>10, <2>1 DEF SeenToStop
  <2>2. CASE ~status.running /\ sample.stopped
    BY <1>1, <1>10, <2>2 DEF NothingIsSeen
  <2> QED
    BY <1>1, <2>1, <2>2
<1>12. ReadyInGaps'
  <2> SUFFICES ASSUME looked', game.phase # "none", ~game.rendered
               PROVE  ~status'.playable /\ ~poller'.ever /\ poller'.ready <= game.gap
    BY <1>1 DEF ReadyInGaps
  <2>1. CASE looked
    <3>1. ~status.playable /\ ~poller.ever /\ (Poll!Ready(sample) => poller.ready + 1 <= game.gap)
      BY <1>1, <2>1 DEF ReadyInGaps
    <3>2. Poll!ReadyRun <= game.gap
      BY <1>2, <3>1, PollTypes
    <3>3. ~Poll!Stable /\ ~Poll!Ever
      BY <1>4, <3>1, <3>2, PollTypes
    <3> QED
      BY <1>6, <1>7, <3>1, <3>2, <3>3, PollTypes
  <2>2. CASE ~status.running /\ sample.stopped
    BY <1>1, <1>10, <2>2, PollTypes DEF NothingIsSeen
  <2> QED
    BY <1>1, <2>1, <2>2
<1>13. StallsAreIdle'
  <2> SUFFICES ASSUME looked', game.phase # "none"
               PROVE  /\ poller'.stall <= game.idle
                      /\ status'.frozen => game.idle = FreezeTicks \/ game.phase = "halted"
    BY <1>1 DEF StallsAreIdle
  <2>1. CASE looked
    <3>1. Poll!StallTicks <= game.idle
      <4>1. CASE Poll!StallTicks = 0
        BY <4>1, PollTypes
      <4>2. CASE Poll!StallTicks # 0
        <5>1. Poll!StallTicks <= Poll!Least(poller.stall + 1, FreezeTicks)
              /\ Poll!Least(poller.stall + 1, FreezeTicks) <= game.idle
          BY <1>1, <1>3, <2>1, <4>2 DEF StallsAreIdle
        <5>2. Poll!Least(poller.stall + 1, FreezeTicks) \in Nat
          BY PollTypes DEF Poll!Least
        <5> QED
          BY <1>3, <5>1, <5>2, PollTypes
      <4> QED
        BY <4>1, <4>2
    <3>2. sample.frozen => game.phase = "halted"
      BY <1>1, <2>1 DEF StallsAreIdle
    <3>3. Poll!StallTicks = FreezeTicks => game.idle = FreezeTicks
      BY <1>3, <3>1, PollTypes
    <3> QED
      BY <1>4, <1>6, <1>7, <3>1, <3>2, <3>3
  <2>2. CASE ~status.running /\ sample.stopped
    BY <1>1, <1>10, <2>2, PollTypes DEF NothingIsSeen
  <2> QED
    BY <1>1, <2>1, <2>2
<1> QED
  BY <1>8, <1>9, <1>11, <1>12, <1>13
-----------------------------------------------------------------------------
\* Every step keeps the invariant.
LEMMA PollNext == ASSUME Brief PROVE PollInv /\ [Poll!Next]_(Poll!pollerVars) => PollInv'
<1> SUFFICES ASSUME PollInv, [Poll!Next]_(Poll!pollerVars) PROVE PollInv'
  OBVIOUS
<1>1. CASE UNCHANGED Poll!pollerVars
  BY <1>1 DEF Poll!pollerVars, PollInv, Poll!TypeOK, FramesAreRendered, NothingIsSeen, SeenToStop, ReadyInGaps,
              StallsAreIdle, LookedUp, Poll!Ready
<1> QED
  BY <1>1, GoesOnHolds, EndsHold, SpawnHolds, FlagHolds, NoSampleHolds, TakeHolds, ApplyHolds
  DEF Poll!Next, Poll!Poll

\* The poller applies looks that it took without the status lock; its counters and
\* the latch do not carry a game's playability over to one that only compiles.
THEOREM CoverHoldsCorrect == ASSUME Brief PROVE Poll!Spec => []Poll!CoverHolds
<1>1. Poll!Init => PollInv
  BY PollInit
<1>2. PollInv /\ [Poll!Next]_(Poll!pollerVars) => PollInv'
  BY PollNext
<1>3. PollInv => Poll!CoverHolds
  BY DEF PollInv, Poll!CoverHolds, SeenToStop, ReadyInGaps
<1> QED
  BY <1>1, <1>2, <1>3, PTL DEF Poll!Spec

\* FreezeDetector calls frozen what has shown no new frame for FreezeTicks looks
\* at this game, or has halted: the supervisor does not kill a game that plays.
THEOREM FreezeIsRealCorrect == ASSUME Brief PROVE Poll!Spec => []Poll!FreezeIsReal
<1>1. Poll!Init => PollInv
  BY PollInit
<1>2. PollInv /\ [Poll!Next]_(Poll!pollerVars) => PollInv'
  BY PollNext
<1>3. PollInv => Poll!FreezeIsReal
  BY DEF PollInv, Poll!FreezeIsReal, StallsAreIdle, LookedUp
<1> QED
  BY <1>1, <1>2, <1>3, PTL DEF Poll!Spec

\* The poller and the detector keep to their types; the samples fit their buffer.
THEOREM PollTypesCorrect == ASSUME Brief PROVE Poll!Spec => []Poll!TypeOK
<1>1. Poll!Init => PollInv
  BY PollInit
<1>2. PollInv /\ [Poll!Next]_(Poll!pollerVars) => PollInv'
  BY PollNext
<1>3. PollInv => Poll!TypeOK
  BY DEF PollInv
<1> QED
  BY <1>1, <1>2, <1>3, PTL DEF Poll!Spec
=============================================================================
