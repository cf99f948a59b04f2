---------------------------- MODULE BusinessPanel ----------------------------
(* The panel in which a user signs in and opens a business network:
   client/openbkn-ui-controller.ts behind client/openbkn-panel-bridge.ts, with what
   client/OpenBknOverlay.tsx enables.  The Host's business owner may be replaced, and
   its connection with it, while any call is under way; the settings are served by a
   connection of their own.  A new operation, a change of the owner and a closing
   supersede the operation under way, whose answers are then ignored.  configureToken,
   which the panel does not offer, is left out. *)
EXTENDS Integers, FiniteSets

CONSTANTS MaxOwners,   \* bound: the business owners that connect
          MaxPorts     \* bound: the changes of the settings' connection

ASSUME PanelAssumption == MaxOwners \in Nat /\ MaxPorts \in Nat

VARIABLES
  conn,    \* the owner whose connection the bridge holds, or 0
  owners,  \* the owners that have connected
  port,    \* whether the settings are served
  ports,   \* the changes of port
  ui,      \* what the panel shows; networks: the owner that listed them, or 0
  op       \* the operation under way: its call, the owner called, the login's timer

panelVars == <<conn, owners, port, ports, ui, op>>

None      == [at |-> "none", from |-> 0, timer |-> FALSE]
Call(at)  == [at |-> at, from |-> conn, timer |-> FALSE]
Shows(phase, login) == [open |-> TRUE, phase |-> phase, login |-> login, networks |-> 0]
Fresh(phase) == Shows(phase, "none")
Shut      == [Fresh("idle") EXCEPT !.open = FALSE]

PanelInit ==
  /\ conn = 0 /\ owners = 0 /\ port = FALSE /\ ports = 0
  /\ ui = Shut /\ op = None

\* An answer is only looked at by the operation under way.
Answers(at) == op.at = at
Ends        == op' = None
Steady      == UNCHANGED <<conn, owners, port, ports>>

------------------------------------------------------------------------------
(* The bridge. *)

\* Mutant: the operation under way goes on.
BusinessChanged_Keeps ==
  /\ UNCHANGED op
  /\ ui' = IF ui.open /\ ui.phase # "configuration" THEN Fresh("idle") ELSE ui
\* Settings that are being edited or saved stay: the save may be what replaces the owner.
BusinessChanged ==
  IF ui.open /\ ui.phase # "configuration" THEN ui' = Fresh("idle") /\ Ends ELSE UNCHANGED <<ui, op>>

Connects ==
  /\ owners < MaxOwners
  /\ owners' = owners + 1 /\ conn' = owners'
  /\ BusinessChanged
  /\ UNCHANGED <<port, ports>>

Disconnects ==
  /\ conn # 0
  /\ conn' = 0
  /\ BusinessChanged
  /\ UNCHANGED <<owners, port, ports>>

ConfigurationChanges ==
  /\ ports < MaxPorts
  /\ ports' = ports + 1 /\ port' \in {TRUE, ~port}
  /\ IF ui.open THEN ui' = Fresh("idle") /\ Ends ELSE UNCHANGED <<ui, op>>
  /\ UNCHANGED <<conn, owners>>

------------------------------------------------------------------------------
(* The user, and the overlay's effect, which refreshes a panel that is idle. *)

Open  == ~ui.open /\ ui' = Fresh("idle") /\ Ends /\ Steady
Close == ui.open /\ ui' = Shut /\ Ends /\ Steady

Refresh(phase) ==
  /\ ui.open /\ ui.phase = phase
  /\ ui' = Fresh("loading") /\ op' = Call("configuration") /\ Steady

ShowSettings ==
  /\ ui.open /\ ui.login # "waiting" /\ ~Answers("saving")
  /\ ui' = Fresh("configuration") /\ op' = Call("settings") /\ Steady

SaveConfiguration ==
  /\ ui.open /\ ui.phase = "configuration" /\ ~Answers("settings") /\ ~Answers("saving")
  /\ op' = Call("saving") /\ UNCHANGED ui /\ Steady

\* Mutant: the wait for the browser has no end of its own.
StartLogin_Untimed(shown) ==
  ui' = [shown EXCEPT !.phase = "loading", !.login = "waiting"] /\ op' = Call("login")
StartLogin(shown) ==
  /\ ui' = [shown EXCEPT !.phase = "loading", !.login = "waiting"]
  /\ op' = [Call("login") EXCEPT !.timer = TRUE]

BeginLogin ==
  /\ ui.open
  /\ ui.phase = "authentication-required" \/ (ui.phase = "error" /\ ui.login = "failed")
  /\ StartLogin(ui) /\ Steady

FinishLoginWait(login) ==
  ui' = [ui EXCEPT !.phase = "authentication-required", !.login = login] /\ Ends /\ Steady
CancelLogin   == ui.login = "waiting" /\ FinishLoginWait("cancelled")
LoginTimesOut == op.timer /\ FinishLoginWait("timed-out")

OpenNetwork ==
  /\ ui.open /\ ui.phase = "ready"
  /\ ui' = [ui EXCEPT !.phase = "binding"] /\ op' = Call("opening") /\ Steady

------------------------------------------------------------------------------
(* The answers.  Any call may fail, and one without a connection does. *)

ConnectionFailed(login) ==
  \E phase \in {"error", "authentication-required"} : ui' = Shows(phase, login) /\ Ends

\* A platform without an address is first configured; settings that cannot be read do
\* not keep the panel from the business.
ConfigurationRead(pending) ==
  /\ Answers("configuration") /\ (pending => port)
  /\ IF pending THEN ui' = Fresh("configuration") /\ Ends
                ELSE op' = Call("status") /\ UNCHANGED ui
  /\ Steady

SettingsRead == Answers("settings") /\ Ends /\ UNCHANGED ui /\ Steady

Saved ==
  /\ Answers("saving")
  /\ \/ Ends /\ UNCHANGED ui
     \/ port /\ ui' = Fresh("loading") /\ op' = Call("status")
  /\ Steady

\* A platform that was replaced is signed in to without being asked for.
StatusRead ==
  /\ Answers("status")
  /\ \/ op.from # 0 /\ op' = Call("list") /\ UNCHANGED ui
     \/ op.from # 0 /\ StartLogin(Fresh("authentication-required"))
     \/ ConnectionFailed("none")
  /\ Steady

Listed ==
  /\ Answers("list")
  /\ \/ ui' = [Fresh("ready") EXCEPT !.networks = op.from] /\ Ends
     \/ ConnectionFailed("none")
  /\ Steady

LoggedIn ==
  /\ Answers("login")
  /\ \/ op.from # 0 /\ op' = [op EXCEPT !.at = "loginStatus"] /\ UNCHANGED ui
     \/ ConnectionFailed("failed")
  /\ Steady

LoginConfirmed ==
  /\ Answers("loginStatus")
  /\ \/ ui' = [Shows("ready", "succeeded") EXCEPT !.networks = op.from] /\ Ends
     \/ ConnectionFailed("failed")
  /\ Steady

\* The session's workspace is there; or its picker was dismissed, or failed.
NetworkOpened ==
  /\ Answers("opening")
  /\ \/ op' = Call("binding") /\ UNCHANGED ui
     \/ Ends /\ \E phase \in {"ready", "error"} : ui' = [ui EXCEPT !.phase = phase]
  /\ Steady

NetworkBound ==
  /\ Answers("binding") /\ Ends
  /\ ui' = Shut \/ ui' = [ui EXCEPT !.phase = "error"]
  /\ Steady

HostAnswers ==
  \/ \E pending \in BOOLEAN : ConfigurationRead(pending)
  \/ SettingsRead \/ Saved \/ StatusRead \/ Listed \/ LoginConfirmed \/ NetworkBound

PanelNext ==
  \/ Connects \/ Disconnects \/ ConfigurationChanges
  \/ Open \/ Close \/ ShowSettings \/ SaveConfiguration \/ BeginLogin \/ CancelLogin \/ OpenNetwork
  \/ \E phase \in {"idle", "authentication-required", "error"} : Refresh(phase)
  \/ HostAnswers \/ LoggedIn \/ LoginTimesOut \/ NetworkOpened

\* The overlay's effect, the Host's answers and the timer happen; the user's sign-in in
\* the browser and the choice of a directory need not.
PanelFairness ==
  WF_panelVars(Refresh("idle")) /\ WF_panelVars(HostAnswers) /\ WF_panelVars(LoginTimesOut)
PanelSpec     == PanelInit /\ [][PanelNext]_panelVars
PanelFairSpec == PanelSpec /\ PanelFairness

------------------------------------------------------------------------------
(* Properties. *)

\* The networks that can be opened were listed by the owner the panel is connected to,
\* whichever owner's answer arrives last (client/openbkn-ui-controller.ts:232).
ReadyIsCurrent ==
  ui.phase \in {"ready", "binding"} => conn # 0 /\ ui.networks = conn

Resting == ui.open => /\ ui.phase \notin {"idle", "loading"}
                      /\ op.at \notin {"settings", "saving", "binding"}

\* The panel does not stay busy: whatever is replaced or supersedes what, it comes to
\* show something the user can act on (client/openbkn-ui-controller.ts:170).
ComesToRest == ~Resting ~> Resting
==============================================================================
