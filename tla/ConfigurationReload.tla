------------------------- MODULE ConfigurationReload -------------------------
(* Saving the settings: configuration-service.ts writes the profile through the
   host's editor, which replaces the business owner (the service's instance), and
   business-context-service.ts keeps turns and binding writes away from that. A
   binding is abstracted to its platform; SessionBinding models the record. The
   parents of forks are sessions outside this model, bound to any platform. *)
EXTENDS Integers, Sequences

CONSTANTS Agents, Platforms, Savers,   \* sessions, configured addresses, panels
          NULL,                        \* an unbound session, no operation
          MaxOwners, MaxPreviews       \* bounds: replaced owners, previews shown

ASSUME ReloadAssumption ==
  /\ MaxOwners \in Nat \ {0} /\ MaxPreviews \in Nat

VARIABLES
  saving,      \* the fence, isChanging
  save,        \* per panel: where its save is, and what was submitted
  profile,     \* the stored entry: platform, and trust (a preview's number, or 0)
  owner,       \* the business owner: number, state, and the profile it was given
  preview,     \* the one preview that may be confirmed, or 0
  shown,       \* history: the platforms of the previews shown so far
  installing,  \* the CLI installation: none, approved (editable was read), running
  live,        \* the live agents
  atStart,     \* history: the agents that were live when the owner was made
  binding,     \* the platform each session is bound to
  op,          \* per session: its restoration and its user's bind
  turn         \* the turn of each session

settingsVars == <<saving, save, profile, preview, shown>>
agentVars    == <<live, binding, op, turn>>
vars == <<settingsVars, owner, installing, atStart, agentVars>>

Owners   == 1..MaxOwners
Profiles == [platform : Platforms, trust : 0..MaxPreviews]
Inputs   == [platform : Platforms, remove : BOOLEAN, confirm : 0..MaxPreviews]
Saves    == [at : {"validating", "editing"}, input : Inputs]
            \cup [at : {"writing"}, confirm : 0..MaxPreviews, next : Profiles]
            \cup [at : {"replacing"}]
NoTurn   == [at |-> "idle", by |-> 0]
Turns    == [at : {"idle", "beginning", "reconciling", "stepping", "asking"}, by : 0..MaxOwners]
Kinds    == {"restore", "bind"}
Ops      == [at : {"asked", "inheriting", "reading", "writing"}, by : Owners,
             platform : Platforms, exempt : BOOLEAN]
ASSUME NullIsNoRecord == NULL \notin Platforms \cup Saves \cup Ops

\* An operation counts in bindingMutations once configurationMutation admitted it.
Mutating(a, k) == op[a][k] # NULL /\ op[a][k].at # "asked"

\* Nothing of an owner runs once its disposal began: its state and its lifetime say so.
Alive(n) == owner.number = n /\ owner.state = "active"

\* The session is bound to the platform of the owner, which is what its hooks ask.
Current(a) == binding[a] = owner.profile.platform

\* Mutant: binding writes under way are not counted.
HasRunningTurn_Turns == \E a \in live : turn[a].at # "idle" /\ Current(a)
\* hasRunningTurn: the instance's own mutations, and running turns of its platform.
HasRunningTurn ==
  \/ \E a \in Agents, k \in Kinds : Mutating(a, k) /\ op[a][k].by = owner.number
  \/ \E a \in live : turn[a].at # "idle" /\ Current(a)

Busy == owner.state = "active" /\ HasRunningTurn
Editable == owner.state = "active" /\ ~saving /\ ~Busy

\* validatePlatformTrust: a certificate is good for the platform it was shown for.
TrustValid(platform, n) == n # 0 /\ shown[n] = platform

------------------------------------------------------------------------------
Init ==
  /\ saving = FALSE
  /\ save = [s \in Savers |-> NULL]
  /\ profile \in [platform : Platforms, trust : {0}]
  /\ owner = [number |-> 1, state |-> "active", profile |-> profile]
  /\ preview = 0 /\ shown = <<>>
  /\ installing = "none"
  /\ live \in SUBSET Agents /\ atStart = live
  /\ binding \in [Agents -> Platforms \cup {NULL}]
  /\ op = [a \in Agents |-> [k \in Kinds |-> NULL]]
  /\ turn = [a \in Agents |-> NoTurn]

------------------------------------------------------------------------------
(* The settings panels. *)

\* Mutant: the preview is remembered before its certificate was read, which may fail.
PreviewCertificate_Early(p) ==
  /\ Len(shown) < MaxPreviews
  /\ shown' \in {shown, Append(shown, p)}
  /\ preview' = Len(shown) + 1
  /\ UNCHANGED <<saving, save, profile, owner, installing, atStart, agentVars>>
\* previewCertificate: shows a certificate and remembers it as the one to confirm.
PreviewCertificate(p) ==
  /\ Len(shown) < MaxPreviews
  /\ shown' = Append(shown, p)
  /\ preview' = Len(shown) + 1
  /\ UNCHANGED <<saving, save, profile, owner, installing, atStart, agentVars>>

\* A certificate is refused (the last preview is forgotten first), or five minutes pass.
PreviewLapses ==
  /\ preview # 0
  /\ preview' = 0
  /\ UNCHANGED <<saving, save, profile, shown, owner, installing, atStart, agentVars>>

\* saveConfiguration, up to the await of the validation. CertificateControl submits a
\* confirmation of what it was shown, or a removal, and never both.
SaveSubmit(s, i) ==
  /\ save[s] = NULL
  /\ i.confirm <= Len(shown) /\ (i.remove => i.confirm = 0)
  /\ save' = [save EXCEPT ![s] = [at |-> "validating", input |-> i]]
  /\ UNCHANGED <<saving, profile, preview, shown, owner, installing, atStart, agentVars>>

\* Mutant: the fence itself is not asked.
Admissible_Twice == ~Busy /\ installing # "running" /\ owner.state = "active"
\* The admission: one save at a time, no bound turn or mutation, no installation.
Admissible == ~saving /\ ~Busy /\ installing # "running" /\ owner.state = "active"

SaveAdmit(s) ==
  /\ save[s] # NULL /\ save[s].at = "validating"
  /\ owner.number < MaxOwners
  /\ IF Admissible
     THEN /\ saving' = TRUE
          /\ save' = [save EXCEPT ![s].at = "editing"]
     ELSE /\ save' = [save EXCEPT ![s] = NULL]
          /\ UNCHANGED saving
  /\ UNCHANGED <<profile, preview, shown, owner, installing, atStart, agentVars>>

\* What the change callback makes of the certificate.
NextTrust(i) ==
  IF i.confirm # 0 THEN preview
  ELSE IF ~i.remove /\ TrustValid(i.platform, profile.trust) THEN profile.trust
  ELSE 0

\* When it refuses to: the confirmation is not of the preview that is held.
\* Mutant: what is confirmed is the last preview, not the one this panel was shown.
ConfirmationHolds_Last(i) == i.confirm # 0 => ~i.remove /\ TrustValid(i.platform, preview)
ConfirmationHolds(i) ==
  i.confirm # 0 => ~i.remove /\ preview = i.confirm /\ TrustValid(i.platform, preview)

\* The editor calls the change callback, which looks at the turns once more.
SaveChange(s) ==
  /\ save[s] # NULL /\ save[s].at = "editing"
  /\ ~Busy
  /\ ConfirmationHolds(save[s].input)
  /\ save' = [save EXCEPT ![s] = [at |-> "writing", confirm |-> @.input.confirm,
       next |-> [platform |-> @.input.platform, trust |-> NextTrust(@.input)]]]
  /\ UNCHANGED <<saving, profile, preview, shown, owner, installing, atStart, agentVars>>

\* The editor wrote the entry, and begins to take its owner down.
SaveWritten(s) ==
  /\ save[s] # NULL /\ save[s].at = "writing"
  /\ profile' = save[s].next
  /\ owner' = [owner EXCEPT !.state = "unloading"]
  /\ save' = [save EXCEPT ![s] = [at |-> "replacing"]]
  /\ UNCHANGED <<saving, preview, shown, installing, atStart, agentVars>>

\* The callback threw (busy, aborted, a confirmation that does not hold), the editor
\* refused the write, or the new owner did not start.
SaveFails(s) ==
  /\ save[s] # NULL
  /\ save[s].at \in {"editing", "writing"} \/ (save[s].at = "replacing" /\ owner.state = "failed")
  /\ save' = [save EXCEPT ![s] = NULL]
  /\ saving' = FALSE
  /\ UNCHANGED <<profile, preview, shown, owner, installing, atStart, agentVars>>

SaveDone(s) ==
  /\ save[s] # NULL /\ save[s].at = "replacing" /\ owner.state = "active"
  /\ save' = [save EXCEPT ![s] = NULL]
  /\ saving' = FALSE
  /\ preview' = 0
  /\ UNCHANGED <<profile, shown, owner, installing, atStart, agentVars>>

------------------------------------------------------------------------------
(* installCli: reads whether settings may be changed, and then installs. *)

InstallApproved ==
  /\ installing = "none" /\ Editable
  /\ installing' = "approved"
  /\ UNCHANGED <<settingsVars, owner, atStart, agentVars>>

InstallStarts ==
  /\ installing = "approved"
  /\ installing' = "running"
  /\ UNCHANGED <<settingsVars, owner, atStart, agentVars>>

InstallEnds ==
  /\ installing = "running"
  /\ installing' = "none"
  /\ UNCHANGED <<settingsVars, owner, atStart, agentVars>>

------------------------------------------------------------------------------
(* The business owner. *)

\* Mutant: the fence is not asked before a binding is written.
MutationAdmitted_Unfenced(n, exempt) == Alive(n)
\* configurationMutation: admitted by an owner that lives, outside a save unless exempt.
MutationAdmitted(n, exempt) == Alive(n) /\ (saving => exempt)

NewOp(at, exempt) == [at |-> at, by |-> owner.number, platform |-> owner.profile.platform,
                      exempt |-> exempt]

\* The lifetime effect of the owner ran, its listeners are gone.
OwnerDisposed ==
  /\ owner.state = "unloading"
  /\ owner' = [owner EXCEPT !.state = "gone"]
  /\ UNCHANGED <<settingsVars, installing, atStart, agentVars>>

\* The constructor restores the live agents, exempt from the save it is made in.
OwnerReplaced ==
  /\ owner.state = "gone"
  /\ owner' = [number |-> owner.number + 1, state |-> "active", profile |-> profile]
  /\ atStart' = live
  /\ op' = [a \in Agents |-> [k \in Kinds |->
       IF a \in live /\ k = "restore"
       THEN [at |-> "inheriting", by |-> owner'.number, platform |-> profile.platform, exempt |-> saving]
       ELSE op[a][k]]]
  /\ UNCHANGED <<settingsVars, installing, live, binding, turn>>

OwnerFails ==
  /\ owner.state = "gone"
  /\ owner' = [owner EXCEPT !.state = "failed"]
  /\ UNCHANGED <<settingsVars, installing, atStart, agentVars>>

\* agent/created: a new or reopened session is restored, unless a save keeps it unbound.
Create(a) ==
  /\ a \notin live /\ op[a]["restore"] = NULL
  /\ live' = live \cup {a}
  /\ op' = IF MutationAdmitted(owner.number, FALSE)
           THEN [op EXCEPT ![a]["restore"] = NewOp("inheriting", FALSE)] ELSE op
  /\ UNCHANGED <<settingsVars, owner, installing, atStart, binding, turn>>

Close(a) ==
  /\ a \in live /\ turn[a] = NoTurn
  /\ live' = live \ {a}
  /\ UNCHANGED <<settingsVars, owner, installing, atStart, binding, op, turn>>

\* inheritForkedBusinessNetwork: an unbound fork takes its parent's record, whatever
\* platform that names, if there is one and the fork's log reaches it; the write may fail.
RestoreInherits(a) ==
  LET o == op[a]["restore"] IN
  /\ o # NULL /\ o.at = "inheriting"
  /\ \/ /\ op' = [op EXCEPT ![a]["restore"].at = "reading"]
        /\ \/ UNCHANGED binding
           \/ binding[a] = NULL /\ \E p \in Platforms : binding' = [binding EXCEPT ![a] = p]
     \/ op' = [op EXCEPT ![a]["restore"] = NULL] /\ UNCHANGED binding
  /\ UNCHANGED <<settingsVars, owner, installing, atStart, live, turn>>

\* restoreBinding after its first await: the workspace's network, if any, for a session
\* without a binding, in a mutation of its own.
RestoreDecides(a) ==
  LET o == op[a]["restore"] IN
  /\ o # NULL /\ o.at = "reading"
  /\ \/ op' = [op EXCEPT ![a]["restore"] = NULL]
     \/ /\ binding[a] = NULL /\ a \in live /\ MutationAdmitted(o.by, o.exempt)
        /\ op' = [op EXCEPT ![a]["restore"].at = "writing"]
  /\ UNCHANGED <<settingsVars, owner, installing, atStart, live, binding, turn>>

\* remoteBindNetwork reads the platform under its owner's address, and binds afterwards.
UserBindAsks(a) ==
  /\ a \in live /\ owner.state = "active" /\ op[a]["bind"] = NULL
  /\ op' = [op EXCEPT ![a]["bind"] = NewOp("asked", FALSE)]
  /\ UNCHANGED <<settingsVars, owner, installing, atStart, live, binding, turn>>

UserBindProceeds(a) ==
  LET o == op[a]["bind"] IN
  /\ o # NULL /\ o.at = "asked"
  /\ op' = [op EXCEPT ![a]["bind"] =
       IF a \in live /\ MutationAdmitted(o.by, FALSE) THEN [o EXCEPT !.at = "writing"] ELSE NULL]
  /\ UNCHANGED <<settingsVars, owner, installing, atStart, live, binding, turn>>

\* The record is written, unless the session is bound by now or the write failed.
MutationEnds(a, k) ==
  LET o == op[a][k] IN
  /\ o # NULL /\ o.at = "writing"
  /\ op' = [op EXCEPT ![a][k] = NULL]
  /\ binding' \in {binding} \cup
       (IF binding[a] = NULL THEN {[binding EXCEPT ![a] = o.platform]} ELSE {})
  /\ UNCHANGED <<settingsVars, owner, installing, atStart, live, turn>>

------------------------------------------------------------------------------
(* Turns: DSH marks the agent running, and asks the pre-step hook before each step. *)

TurnStart(a) ==
  /\ a \in live /\ turn[a] = NoTurn
  /\ turn' = [turn EXCEPT ![a] = [at |-> "beginning", by |-> 0]]
  /\ UNCHANGED <<settingsVars, owner, installing, atStart, live, binding, op>>

Asking(a) == turn[a].at \in {"beginning", "asking"}

\* Mutant: only a first step is refused during a save.
PreStep_Later(a) ==
  /\ Asking(a) /\ owner.state \in {"active", "unloading"}
  /\ turn' = [turn EXCEPT ![a] =
       IF Current(a) /\ saving /\ @.at = "beginning" THEN NoTurn
       ELSE [at |-> IF @.at = "beginning" /\ Current(a) THEN "reconciling" ELSE "stepping",
             by |-> owner.number]]
  /\ UNCHANGED <<settingsVars, owner, installing, atStart, live, binding, op>>
\* refreshManagedMcpAtTurnStart: refuses during a save, reconciles before the first step.
PreStep(a) ==
  /\ Asking(a) /\ owner.state \in {"active", "unloading"}
  /\ turn' = [turn EXCEPT ![a] =
       IF ~Current(a) THEN [at |-> "stepping", by |-> owner.number]
       ELSE IF saving THEN NoTurn
       ELSE [at |-> IF @.at = "beginning" THEN "reconciling" ELSE "stepping",
             by |-> owner.number]]
  /\ UNCHANGED <<settingsVars, owner, installing, atStart, live, binding, op>>

\* Nobody listens between the disposal of an owner and its replacement.
PreStepUnheard(a) ==
  /\ Asking(a) /\ owner.state # "active"
  /\ turn' = [turn EXCEPT ![a] = [at |-> "stepping", by |-> 0]]
  /\ UNCHANGED <<settingsVars, owner, installing, atStart, live, binding, op>>

\* remoteStatus returned.
Reconciled(a) ==
  /\ turn[a].at = "reconciling"
  /\ turn' = [turn EXCEPT ![a].at = "stepping"]
  /\ UNCHANGED <<settingsVars, owner, installing, atStart, live, binding, op>>

NextStep(a) ==
  /\ turn[a].at = "stepping"
  /\ turn' = [turn EXCEPT ![a] = [at |-> "asking", by |-> 0]]
  /\ UNCHANGED <<settingsVars, owner, installing, atStart, live, binding, op>>

\* The turn is over, was cancelled, or its reconciliation threw.
TurnEnd(a) ==
  /\ turn[a] # NoTurn
  /\ turn' = [turn EXCEPT ![a] = NoTurn]
  /\ UNCHANGED <<settingsVars, owner, installing, atStart, live, binding, op>>

------------------------------------------------------------------------------
PanelStep ==
  \/ \E p \in Platforms : PreviewCertificate(p)
  \/ PreviewLapses
  \/ \E s \in Savers : \/ \E i \in Inputs : SaveSubmit(s, i)
                       \/ SaveAdmit(s) \/ SaveChange(s)
                       \/ SaveWritten(s) \/ SaveFails(s) \/ SaveDone(s)
  \/ InstallApproved \/ InstallStarts \/ InstallEnds

OwnerStep ==
  \/ OwnerDisposed \/ OwnerReplaced \/ OwnerFails
  \/ \E a \in Agents : \/ Create(a) \/ Close(a)
                       \/ RestoreInherits(a) \/ RestoreDecides(a)
                       \/ UserBindAsks(a) \/ UserBindProceeds(a)
                       \/ \E k \in Kinds : MutationEnds(a, k)

TurnStep ==
  \E a \in Agents : \/ TurnStart(a) \/ PreStep(a) \/ PreStepUnheard(a)
                    \/ Reconciled(a) \/ NextStep(a) \/ TurnEnd(a)

Next == PanelStep \/ OwnerStep \/ TurnStep
Spec == Init /\ [][Next]_vars

------------------------------------------------------------------------------
(* Properties. *)

\* Every variable has its type.
ReloadTypeOK ==
  /\ saving \in BOOLEAN
  /\ save \in [Savers -> {NULL} \cup Saves]
  /\ profile \in Profiles
  /\ owner \in [number : Owners, state : {"active", "unloading", "gone", "failed"}, profile : Profiles]
  /\ preview \in 0..Len(shown) /\ shown \in Seq(Platforms) /\ Len(shown) <= MaxPreviews
  /\ installing \in {"none", "approved", "running"}
  /\ live \subseteq Agents /\ atStart \subseteq Agents
  /\ binding \in [Agents -> Platforms \cup {NULL}]
  /\ op \in [Agents -> [Kinds -> {NULL} \cup Ops]]
  /\ turn \in [Agents -> Turns]

\* An owner is only taken down while it is quiet: no binding write of its own is under
\* way, and no turn of its platform that it let through (business-context-service.ts:157).
OwnerRetiresQuietly ==
  owner.state # "active" =>
    /\ \A a \in Agents, k \in Kinds : ~Mutating(a, k)
    /\ \A a \in live : Current(a) /\ turn[a].by = owner.number
                         => turn[a].at \notin {"reconciling", "stepping"}

\* While settings are applied the only binding work is the new owner's restoration of
\* the sessions that were live when it was made (business-context-service.ts:183).
ExemptionIsTheRestorations ==
  \A a \in Agents, k \in Kinds :
    Mutating(a, k) /\ (saving \/ op[a][k].exempt) =>
      op[a][k].exempt /\ k = "restore" /\ a \in atStart /\ op[a][k].by = owner.number

\* A network that is chosen, by the user or for the workspace, is bound under the address
\* the profile has when it is written. A fork's inherited binding alone may name another,
\* and neither is written while an owner is taken down (business-context-service.ts:183).
Inherits(a) == op[a]["restore"] # NULL /\ op[a]["restore"].at = "inheriting"
               /\ op'[a]["restore"] # op[a]["restore"]
BoundForTheProfile ==
  [][\A a \in Agents : binding'[a] # binding[a] =>
       owner.state = "active" /\ (binding'[a] = profile.platform \/ Inherits(a))]_vars

\* A stored certificate was shown for the stored address, and the save that stores one
\* stores what its own panel confirmed, however previews, panels and addresses changed
\* since (configuration-service.ts:161).
TrustIsConfirmed ==
  /\ profile.trust # 0 => shown[profile.trust] = profile.platform
  /\ \A s \in Savers :
       save[s] # NULL /\ save[s].at = "writing" /\ save[s].next.trust \notin {0, profile.trust}
         => save[s].next.trust = save[s].confirm

\* The fence is up exactly while one save is in the editor, whichever way the saves of
\* several panels fail and end (configuration-service.ts:145 and 181).
InEditor(s) == save[s] # NULL /\ save[s].at # "validating"
FenceIsTheSaves ==
  /\ saving <=> \E s \in Savers : InEditor(s)
  /\ \A s, z \in Savers : InEditor(s) /\ InEditor(z) => s = z
==============================================================================
