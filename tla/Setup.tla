------------------------------- MODULE Setup -------------------------------
(***************************************************************************)
(* config.json over the life of an installation: the first-launch wizard   *)
(* that writes it, config::load that reads it at every start (and repairs  *)
(* it), and the two handlers that change one field of it each while the    *)
(* launcher runs. Every write truncates the file first, and may fail; the  *)
(* launcher may be closed or die at any moment. Release builds; dev builds *)
(* read a file that nobody writes.                                         *)
(***************************************************************************)
EXTENDS Naturals

CONSTANTS
  Platform,  \* "windows" or "macos"
  MaxKeys    \* bound: HMAC keys ever generated

VARIABLES
  file,      \* config.json: "none", "torn" or "whole"
  json,      \* its fields, when it is whole
  app,       \* the launcher: "off", "wizard", "saving", "up"
  wizard,    \* the wizard's page, its inputs and its result
  run,       \* the Config this process runs with
  pending,   \* what it is about to write before it comes up
  edit,      \* the handlers set_window_mode and set_render_2x
  keys,      \* HMAC keys generated so far
  qr,        \* history: the key on the phones; 0 when none is valid by right
  asked,     \* history: the settings last acknowledged
  raced,     \* history: a handler read the file while the other one changed it
  cut        \* history: the last write was cut short, by the launcher's death in the
             \* middle of it or because it failed there

setupVars == <<file, json, app, wizard, run, pending, edit, keys, qr, asked, raced, cut>>

Modes   == {"tv", "desktop"}
Config  == [key : 0 .. MaxKeys, driver : {"uia", "ipc", "mock"}, mode : Modes, twice : BOOLEAN]
Unset   == [key |-> 0, driver |-> "uia", mode |-> "tv", twice |-> FALSE]
Handler == {"mode", "twice"}
Pages   == {"welcome", "demo", "rpcs3", "pack", "display", "done"}
NoWizard == [page |-> "welcome", rpcs3 |-> FALSE, pack |-> "empty", mode |-> "tv", result |-> Unset]
Resting == [pc |-> "idle", base |-> Unset, to |-> Unset]

TypeOK ==
  /\ file \in {"none", "torn", "whole"} /\ json \in Config
  /\ app \in {"off", "wizard", "saving", "up"}
  /\ wizard \in [page : Pages, rpcs3 : BOOLEAN, pack : {"empty", "valid", "invalid"},
                 mode : Modes, result : Config]
  /\ run \in Config /\ pending \in Config
  /\ edit \in [Handler -> [pc : {"idle", "read", "open"}, base : Config, to : Config]]
  /\ keys \in 0 .. MaxKeys /\ qr \in 0 .. MaxKeys
  /\ asked \in [mode : Modes, twice : BOOLEAN]
  /\ raced \in BOOLEAN /\ cut \in BOOLEAN

SettingsOf(c) == [mode |-> c.mode, twice |-> c.twice]

\* A fresh machine, or one with a config from before keys and the IPC driver.
Init ==
  /\ file \in {"none", "whole"} /\ json = Unset
  /\ app = "off" /\ wizard = NoWizard
  /\ run = Unset /\ pending = Unset
  /\ edit = [h \in Handler |-> Resting]
  /\ keys = 0 /\ qr = 0
  /\ asked = SettingsOf(Unset)
  /\ raced = FALSE /\ cut = FALSE

history == <<qr, asked, raced, cut>>
-----------------------------------------------------------------------------
(***************************************************************************)
(* config::load                                                            *)
(***************************************************************************)
\* migrate_install_paths: IPC whatever the file says; on Windows a chosen mock
\* stays one, on macOS only the environment's override does.
DriverOf(c) == IF Platform = "windows" /\ c.driver = "mock" THEN "mock" ELSE "ipc"

ComeUp(c) ==
  /\ app' = "up"
  /\ run' = [c EXCEPT !.driver = DriverOf(c)]

\* SKYLANDER_PORTAL_DRIVER=mock: nothing is read or written, the key is new.
StartMock ==
  /\ app = "off" /\ keys < MaxKeys
  /\ app' = "up" /\ keys' = keys + 1
  /\ run' = [Unset EXCEPT !.key = keys + 1, !.driver = "mock"]
  /\ UNCHANGED <<file, json, wizard, pending, edit, history>>

\* wizard_needed: no config, or --reconfigure. Without a GPU it opens on demo.
StartWizard(reconfigure, softwareGl, guess) ==
  /\ app = "off"
  /\ file = "none" \/ reconfigure
  /\ app' = "wizard"
  /\ wizard' = [NoWizard EXCEPT !.page = IF softwareGl THEN "demo" ELSE "welcome",
                                !.rpcs3 = guess]
  /\ UNCHANGED <<file, json, run, pending, edit, keys, history>>

StartNormally ==
  /\ app = "off" /\ file = "whole" /\ json.key # 0
  /\ ComeUp(json)
  /\ qr' = json.key
  /\ UNCHANGED <<file, json, wizard, pending, edit, keys, asked, raced, cut>>

\* Mutant of GiveKey: the new key is used but not persisted.
KeyForThisRun ==
  /\ app = "off" /\ file = "whole" /\ json.key = 0 /\ keys < MaxKeys
  /\ keys' = keys + 1
  /\ ComeUp([json EXCEPT !.key = keys + 1])
  /\ qr' = keys + 1
  /\ UNCHANGED <<file, json, wizard, pending, edit, asked, raced, cut>>

\* A config without a key is given one, which is persisted before the start
\* goes on. (If the file cannot be opened the start fails, and the key with it.)
GiveKey ==
  /\ app = "off" /\ file = "whole" /\ json.key = 0 /\ keys < MaxKeys
  /\ keys' = keys + 1
  /\ pending' = [json EXCEPT !.key = keys + 1]
  /\ file' = "torn" /\ UNCHANGED json /\ app' = "saving"
  /\ UNCHANGED <<wizard, run, edit, history>>

SaveEnds ==
  /\ app = "saving"
  /\ file' = "whole" /\ json' = pending
  /\ ComeUp(pending)
  /\ qr' = pending.key
  /\ cut' = FALSE
  /\ UNCHANGED <<wizard, pending, edit, keys, asked, raced>>

\* The write of a start or of the wizard fails after it has truncated the file, and
\* the start with it.
SaveFails ==
  /\ app = "saving"
  /\ app' = "off" /\ wizard' = NoWizard
  /\ cut' = TRUE
  /\ UNCHANGED <<file, json, run, pending, edit, keys, qr, asked, raced>>
-----------------------------------------------------------------------------
(***************************************************************************)
(* The wizard.                                                             *)
(***************************************************************************)
\* Which button leads where, and when it is enabled.
Leads(from, to) ==
  \/ <<from, to>> \in {<<"welcome", "rpcs3">>, <<"welcome", "demo">>, <<"demo", "welcome">>,
                       <<"rpcs3", "welcome">>, <<"pack", "rpcs3">>, <<"display", "pack">>}
  \/ from = "rpcs3" /\ to = "pack" /\ wizard.rpcs3
  \/ from = "pack" /\ to = "display" /\ wizard.pack # "invalid"

Turn(to) ==
  /\ app = "wizard" /\ Leads(wizard.page, to)
  /\ wizard' = [wizard EXCEPT !.page = to]
  /\ UNCHANGED <<file, json, app, run, pending, edit, keys, history>>

\* The inputs of a page, typed or browsed for.
Enter ==
  /\ app = "wizard"
  /\ \/ /\ wizard.page = "rpcs3"
        /\ \E ok \in BOOLEAN : wizard' = [wizard EXCEPT !.rpcs3 = ok]
     \/ /\ wizard.page = "pack"
        /\ \E p \in {"empty", "valid", "invalid"} : wizard' = [wizard EXCEPT !.pack = p]
     \/ /\ wizard.page = "display"
        /\ \E m \in Modes : wizard' = [wizard EXCEPT !.mode = m]
  /\ UNCHANGED <<file, json, app, run, pending, edit, keys, history>>

\* START DEMO MODE and FINISH: a whole new config, with a new key.
Finish ==
  /\ app = "wizard" /\ wizard.page \in {"demo", "display"}
  /\ keys < MaxKeys
  /\ keys' = keys + 1
  /\ wizard' = [wizard EXCEPT !.page = "done", !.result =
       IF wizard.page = "demo"
       THEN [key |-> keys + 1, driver |-> "mock", mode |-> "tv", twice |-> FALSE]
       ELSE [key |-> keys + 1, driver |-> "ipc", mode |-> wizard.mode, twice |-> FALSE]]
  /\ UNCHANGED <<file, json, app, run, pending, edit, history>>

\* The done page closes the window, and the result is written.
Close ==
  /\ app = "wizard" /\ wizard.page = "done"
  /\ app' = "saving" /\ file' = "torn" /\ UNCHANGED json
  /\ pending' = wizard.result
  /\ qr' = 0
  /\ asked' = SettingsOf(wizard.result)
  /\ raced' = FALSE
  /\ UNCHANGED <<wizard, run, edit, keys, cut>>

\* CANCEL, or Esc on any page: setup is abandoned. So it is if its result cannot be
\* written because the file cannot be opened.
Cancel ==
  /\ app = "wizard"
  /\ app' = "off" /\ wizard' = NoWizard
  /\ UNCHANGED <<file, json, run, pending, edit, keys, history>>
-----------------------------------------------------------------------------
(***************************************************************************)
(* set_window_mode and set_render_2x: read, change one field, write. An    *)
(* unreadable file is not written, but the answer is 202 all the same.     *)
(***************************************************************************)
Change(h, c, m, t) == IF h = "mode" THEN [c EXCEPT !.mode = m] ELSE [c EXCEPT !.twice = t]

\* Mutant of ReadConfig: the fields come from the running config.
ReadRunning(h, m, t) ==
  /\ app = "up" /\ edit[h].pc = "idle" /\ file = "whole"
  /\ edit' = [edit EXCEPT ![h] = [pc |-> "read", base |-> json, to |-> Change(h, run, m, t)]]
  /\ UNCHANGED <<file, json, app, wizard, run, pending, keys, history>>

ReadConfig(h, m, t) ==
  /\ app = "up" /\ edit[h].pc = "idle" /\ file = "whole"
  /\ edit' = [edit EXCEPT ![h] = [pc |-> "read", base |-> json, to |-> Change(h, json, m, t)]]
  /\ UNCHANGED <<file, json, app, wizard, run, pending, keys, history>>

ReadFails(h) ==
  /\ app = "up" /\ edit[h].pc = "idle" /\ file # "whole"
  /\ raced' = TRUE
  /\ UNCHANGED <<file, json, app, wizard, run, pending, edit, keys, qr, asked, cut>>

WriteStarts(h) ==
  /\ edit[h].pc = "read"
  /\ raced' = (raced \/ file # "whole" \/ json # edit[h].base)
  /\ file' = "torn" /\ UNCHANGED json
  /\ edit' = [edit EXCEPT ![h].pc = "open"]
  /\ UNCHANGED <<app, wizard, run, pending, keys, qr, asked, cut>>

\* Mutant of WriteEnds: written over a longer text that was not truncated.
WriteUntruncated(h) ==
  /\ edit[h].pc = "open"
  /\ file' \in {"whole", "torn"}
  /\ json' = edit[h].to
  /\ asked' = IF h = "mode" THEN [asked EXCEPT !.mode = edit[h].to.mode]
              ELSE [asked EXCEPT !.twice = edit[h].to.twice]
  /\ edit' = [edit EXCEPT ![h] = Resting]
  /\ cut' = (cut /\ file' = "torn")
  /\ UNCHANGED <<app, wizard, run, pending, keys, qr, raced>>

\* Written over what the other handler has written since this one truncated the
\* file, a shorter text leaves the end of the longer one behind.
WriteEnds(h) ==
  /\ edit[h].pc = "open"
  /\ file' = "whole" \/ (file = "whole" /\ file' = "torn")
  /\ json' = edit[h].to
  /\ asked' = IF h = "mode" THEN [asked EXCEPT !.mode = edit[h].to.mode]
              ELSE [asked EXCEPT !.twice = edit[h].to.twice]
  /\ edit' = [edit EXCEPT ![h] = Resting]
  /\ cut' = (cut /\ file' = "torn")
  /\ UNCHANGED <<app, wizard, run, pending, keys, qr, raced>>

\* PersistedConfig::write fails, before it has truncated the file or after, and the
\* answer is 500. What it had written by then may lie over the other handler's text.
WriteFails(h) ==
  /\ edit[h].pc # "idle"
  /\ file' \in IF edit[h].pc = "open" THEN {file, "torn"} ELSE {file}
  /\ cut' = (cut \/ (edit[h].pc = "open" /\ file' = "torn"))
  /\ edit' = [edit EXCEPT ![h] = Resting]
  /\ UNCHANGED <<json, app, wizard, run, pending, keys, qr, asked, raced>>

\* The launcher is closed, crashes or is killed, in the middle of a write, too.
Die ==
  /\ app # "off"
  /\ app' = "off"
  /\ wizard' = NoWizard
  /\ file' \in IF \E h \in Handler : edit[h].pc = "open" THEN {file, "torn"} ELSE {file}
  /\ edit' = [h \in Handler |-> Resting]
  /\ cut' = (cut \/ file' = "torn")
  /\ UNCHANGED <<json, run, pending, keys, qr, asked, raced>>

Next ==
  \/ StartMock \/ StartNormally \/ GiveKey \/ SaveEnds \/ SaveFails
  \/ \E reconfigure, softwareGl, guess \in BOOLEAN : StartWizard(reconfigure, softwareGl, guess)
  \/ \E to \in Pages : Turn(to)
  \/ Enter \/ Finish \/ Close \/ Cancel
  \/ \E h \in Handler : \/ \E m \in Modes, t \in BOOLEAN : ReadConfig(h, m, t)
                        \/ ReadFails(h) \/ WriteStarts(h) \/ WriteEnds(h) \/ WriteFails(h)
  \/ Die

Spec == Init /\ [][Next]_setupVars
-----------------------------------------------------------------------------
\* The QR code a phone has scanned stays good: every start but a mock one uses
\* the key of the start before, unless setup was run again in between.
KeySurvives ==
  file = "whole" /\ qr # 0 => json.key = qr

\* An acknowledged setting is in the file, whatever was changed after it and
\* however often a write failed or the launcher died in between, unless the two
\* handlers overlapped or the setup was run again.
SettingsStick ==
  file = "whole" /\ ~raced => SettingsOf(json) = asked

\* The file is unreadable, which fails every start but one that runs the setup again,
\* only while it is written, when its last write was cut short, or when the two
\* handlers overlapped: a write that runs to its end is read back.
TornForAReason ==
  file = "torn" => cut \/ raced \/ app = "saving" \/ \E h \in Handler : edit[h].pc = "open"

\* The handlers run while the launcher is up and change one field of what they read,
\* which has the key on the phones.
HandlersAreHonest ==
  \A h \in Handler : edit[h].pc # "idle" =>
    /\ app = "up"
    /\ qr # 0 => edit[h].to.key = qr
    /\ \E m \in Modes, t \in BOOLEAN : edit[h].to = Change(h, edit[h].base, m, t)

\* A handler that nobody has raced has the file to itself, and it was as asked for.
WritersAreAlone ==
  ~raced => \A h \in Handler : edit[h].pc = "open" =>
    /\ file = "torn" /\ SettingsOf(edit[h].base) = asked
    /\ \A o \in Handler : edit[o].pc = "open" => o = h

\* What is about to be written is what was asked for.
SavesAsAsked == app = "saving" /\ ~raced => SettingsOf(pending) = asked

SetupInv ==
  /\ TypeOK /\ HandlersAreHonest /\ WritersAreAlone /\ SavesAsAsked
  /\ KeySurvives /\ SettingsStick /\ TornForAReason
=============================================================================
