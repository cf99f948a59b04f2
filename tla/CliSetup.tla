------------------------------ MODULE CliSetup ------------------------------
(* cli-setup.ts, the installer the Host owns, behind configuration-service.ts, and the
   client/cli-setup-controller.ts of each settings panel.  A panel checks whether the
   OpenBKN CLI is there, and asks for an installation when it is missing; the Host runs
   one installation at a time and looks again before it installs, since what a panel
   knows is old when it asks.  A panel that closes leaves the installation running, and
   one that opens meanwhile asks every second until it is over.  The user may install or
   remove a CLI without the Host at any time, also between its look and npm.
   A probe (executables, npm, Node) is what it finds: a CLI, nothing, or an obstacle. *)
EXTENDS Integers, Sequences, FiniteSets

CONSTANTS Panels,      \* the panels, each opened once
          Versions,    \* the versions that can be installed
          Absent,      \* no CLI
          MaxChecks    \* bound: the checks a user causes (a poll is not counted)

ASSUME SetupAssumption == Absent \notin Versions /\ MaxChecks \in Nat

VARIABLES
  cli,      \* the CLI a probe finds: a version, or Absent
  alive,    \* whether the Host's service lives
  run,      \* the installations performed so far; users: history, whether the user
            \* changed the CLI since the Host looked
  running,  \* the one check() and install() see, or 0
  panel,    \* per panel: its controller
  probe,    \* per panel: its inspection under way
  asked,    \* per panel: its request for an installation, which outlives the panel
  checks    \* the checks users have caused

host      == <<cli, alive, run, running>>
setupVars == <<host, panel, probe, asked, checks>>

View(s, v)  == [state |-> s, version |-> v]
Missing     == View("missing", Absent)              \* the only view with canInstall
Blocked     == View("blocked", Absent)
Failed      == View("failed", Absent)
Ready(v)    == View("ready", v)
Idle        == [at |-> "none", view |-> Missing]

SetupInit ==
  /\ cli \in {Absent} \cup Versions /\ alive = TRUE
  /\ run = <<>> /\ running = 0
  /\ panel = [p \in Panels |-> [life |-> "new", phase |-> "idle", clicked |-> Absent, timer |-> FALSE]]
  /\ probe = [p \in Panels |-> Idle]
  /\ asked = [p \in Panels |-> [at |-> "none", version |-> Absent, view |-> Missing]]
  /\ checks = 0

Current(p)  == panel[p].life = "open"
Clicking(p) == panel[p].clicked # Absent

------------------------------------------------------------------------------
(* The controller.  A new inspection supersedes the one under way: its answer is not
   looked at. *)

Inspect(p, clicked) ==
  /\ panel' = [panel EXCEPT ![p].timer = FALSE, ![p].clicked = clicked,
                            ![p].phase = IF @ = "installing" THEN @ ELSE "checking"]
  /\ probe' = [probe EXCEPT ![p] = [at |-> "sent", view |-> Missing]]

Opens(p) ==
  /\ panel[p].life = "new"
  /\ panel' = [panel EXCEPT ![p].life = "open"]
  /\ UNCHANGED <<host, probe, asked, checks>>

\* The panel opens, or its path is edited; and detectAndInstall, up to its inspection.
Checks(p) ==
  /\ Current(p) /\ ~Clicking(p) /\ checks < MaxChecks
  /\ checks' = checks + 1
  /\ \E clicked \in {Absent} \cup Versions : Inspect(p, clicked)
  /\ UNCHANGED <<host, asked>>

\* Mutant: an answer "installing" does not arrange for the next one.
Accept_Once(r, view) == [r EXCEPT !.phase = view.state]
\* accept: what the panel shows, and the next poll of an installation under way.
Accept(r, view) == [r EXCEPT !.phase = view.state, !.timer = view.state = "installing"]

CheckAnswered(p) ==
  /\ probe[p].at = "answered"
  /\ probe' = [probe EXCEPT ![p] = Idle]
  /\ LET view == probe[p].view
         installs == Clicking(p) /\ view = Missing
     IN  /\ panel' = [panel EXCEPT ![p] =
              IF installs THEN [Accept(@, view) EXCEPT !.phase = "installing"]
                          ELSE [Accept(@, view) EXCEPT !.clicked = Absent]]
         /\ asked' = IF installs
              THEN [asked EXCEPT ![p].at = "sent", ![p].version = panel[p].clicked]
              ELSE asked
  /\ UNCHANGED <<host, checks>>

\* The Host cannot be reached.
CheckFails(p) ==
  /\ probe[p].at # "none"
  /\ probe' = [probe EXCEPT ![p] = Idle]
  /\ panel' = [panel EXCEPT ![p].phase = "failed", ![p].clicked = Absent]
  /\ UNCHANGED <<host, asked, checks>>

Polls(p) ==
  /\ Current(p) /\ ~Clicking(p) /\ panel[p].timer
  /\ Inspect(p, Absent)
  /\ UNCHANGED <<host, asked, checks>>

\* The outcome of the installation reaches the panel that asked, or the call is lost on
\* the way; the Host's part of a call that it took goes on either way.
InstallAnswered(p, lost) ==
  /\ Current(p) /\ Clicking(p)
  /\ asked[p].at \in IF lost THEN {"sent", "waiting", "answered"} ELSE {"answered"}
  /\ asked' = [asked EXCEPT ![p].at = "none"]
  /\ panel' = [panel EXCEPT ![p] =
       [Accept(@, IF lost THEN Failed ELSE asked[p].view) EXCEPT !.clicked = Absent]]
  /\ UNCHANGED <<host, probe, checks>>

Disposes(p) ==
  /\ Current(p)
  /\ panel' = [panel EXCEPT ![p] = [life |-> "closed", phase |-> "idle", clicked |-> Absent, timer |-> FALSE]]
  /\ probe' = [probe EXCEPT ![p] = Idle]
  /\ UNCHANGED <<host, asked, checks>>

------------------------------------------------------------------------------
(* The Host. *)

\* check: an installation under way is the answer.
HostChecks(p) ==
  /\ probe[p].at = "sent"
  /\ probe' = [probe EXCEPT ![p] =
       IF running # 0 THEN [at |-> "answered", view |-> View("installing", run[running].version)]
                      ELSE [at |-> "probing", view |-> Missing]]
  /\ UNCHANGED <<host, panel, asked, checks>>

\* inspect: a CLI that is found is never missing; without one, npm or Node may be.
Inspected == IF cli # Absent THEN {Ready(cli), Blocked} ELSE {Missing, Blocked}

HostProbes(p) ==
  /\ probe[p].at = "probing"
  /\ \E view \in Inspected : probe' = [probe EXCEPT ![p] = [at |-> "answered", view |-> view]]
  /\ UNCHANGED <<host, panel, asked, checks>>

\* installCli and install: refused while the settings cannot be edited; joins the
\* installation under way, whatever its version.
HostInstalls(p) ==
  /\ asked[p].at = "sent"
  /\ \/ asked' = [asked EXCEPT ![p].at = "answered", ![p].view = Blocked] /\ UNCHANGED <<run, running>>
     \/ /\ asked' = [asked EXCEPT ![p].at = "waiting"]
        /\ IF running # 0 THEN UNCHANGED <<run, running>>
           ELSE /\ run' = Append(run, [at |-> "inspecting", version |-> asked[p].version,
                                       users |-> FALSE])
                /\ running' = Len(run')
  /\ UNCHANGED <<cli, alive, panel, probe, checks>>

Settles(k, view) ==
  /\ run' = [run EXCEPT ![k].at = "over"]
  /\ running' = IF running = k THEN 0 ELSE running
  /\ asked' = [p \in Panels |-> IF asked[p].at = "waiting"
                                THEN [asked[p] EXCEPT !.at = "answered", !.view = view] ELSE asked[p]]

Performing(k, at) == k \in DOMAIN run /\ run[k].at = at

\* Mutant: what the panel saw is relied upon.
LooksAgain_Trusts(k) ==
  /\ Performing(k, "inspecting")
  /\ run' = [run EXCEPT ![k].at = "cleared", ![k].users = FALSE]
  /\ UNCHANGED <<cli, alive, running, asked, panel, probe, checks>>
\* performInstall looks again before npm runs.
LooksAgain(k) ==
  /\ Performing(k, "inspecting")
  /\ \E view \in IF alive THEN Inspected ELSE {Failed} :
       IF view = Missing THEN /\ run' = [run EXCEPT ![k].at = "cleared", ![k].users = FALSE]
                              /\ UNCHANGED <<running, asked>>
                         ELSE Settles(k, view)
  /\ UNCHANGED <<cli, alive, panel, probe, checks>>

\* npm is started, unless the service was disposed since; or it cannot be.
StartsNpm(k) ==
  /\ Performing(k, "cleared")
  /\ \/ alive /\ run' = [run EXCEPT ![k].at = "npm"] /\ UNCHANGED <<running, asked>>
     \/ Settles(k, Failed)
  /\ UNCHANGED <<cli, alive, panel, probe, checks>>

\* npm ends; when it fails, is timed out or killed, the package may be there or not.
NpmEnds(k, ok) ==
  /\ Performing(k, "npm") /\ (ok => alive)
  /\ cli' \in IF ok THEN {run[k].version} ELSE {cli, run[k].version}
  /\ IF ok THEN run' = [run EXCEPT ![k].at = "verifying"] /\ UNCHANGED <<running, asked>>
           ELSE Settles(k, Failed)
  /\ UNCHANGED <<alive, panel, probe, checks>>

Verifies(k) ==
  /\ Performing(k, "verifying")
  /\ \E view \in {Failed} \cup IF alive /\ cli = run[k].version THEN {Ready(cli)} ELSE {} : Settles(k, view)
  /\ UNCHANGED <<cli, alive, panel, probe, checks>>

\* The user's own npm, or any other way a CLI appears, changes or disappears.
UserChangesCli ==
  /\ cli' \in ({Absent} \cup Versions) \ {cli}
  /\ run' = [k \in DOMAIN run |-> [run[k] EXCEPT !.users = TRUE]]
  /\ UNCHANGED <<alive, running, panel, probe, asked, checks>>

HostDisposed ==
  /\ alive
  /\ alive' = FALSE
  /\ UNCHANGED <<cli, run, running, panel, probe, asked, checks>>

RunStep(k) == LooksAgain(k) \/ StartsNpm(k) \/ Verifies(k) \/ \E ok \in BOOLEAN : NpmEnds(k, ok)
HostStep ==
  \/ \E p \in Panels : HostChecks(p) \/ HostProbes(p) \/ HostInstalls(p)
  \/ \E k \in DOMAIN run : RunStep(k)
PanelStep ==
  \E p \in Panels : CheckAnswered(p) \/ Polls(p) \/ InstallAnswered(p, FALSE)
SetupNext ==
  \/ HostStep \/ PanelStep \/ HostDisposed \/ UserChangesCli
  \/ \E p \in Panels : Opens(p) \/ Checks(p) \/ CheckFails(p) \/ InstallAnswered(p, TRUE) \/ Disposes(p)

\* The Host works off what it was asked (each of its commands has a time limit), answers
\* arrive and the poll's timer fires; nobody has to click, and no call has to fail.
SetupFairness ==
  /\ \A p \in Panels : /\ WF_setupVars(HostChecks(p) \/ HostProbes(p)) /\ WF_setupVars(HostInstalls(p))
                       /\ WF_setupVars(CheckAnswered(p)) /\ WF_setupVars(Polls(p))
                       /\ WF_setupVars(InstallAnswered(p, FALSE))
  /\ WF_setupVars(\E k \in DOMAIN run : RunStep(k))
SetupSpec     == SetupInit /\ [][SetupNext]_setupVars
SetupFairSpec == SetupSpec /\ SetupFairness

------------------------------------------------------------------------------
(* Properties. *)

\* npm runs where the installation itself found no CLI, and no other one is under way,
\* however old what the panels know is and however many of them ask: what it may write
\* over is only what the user installed after that look (cli-setup.ts:55 and 65).
NpmRunsAloneOnNothing ==
  \A k \in DOMAIN run : run[k].at \in {"cleared", "npm"} =>
    /\ cli = Absent \/ run[k].users
    /\ \A j \in DOMAIN run : j = k \/ run[j].at = "over"

\* A panel that shows an installation, its own or one it found under way, comes to show
\* how it ended, unless it is closed first (client/cli-setup-controller.ts:75).
PanelLearnsTheEnd ==
  \A p \in Panels : panel[p].phase = "installing" ~> panel[p].phase # "installing"
==============================================================================
