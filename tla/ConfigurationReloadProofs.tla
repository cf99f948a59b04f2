---------------------- MODULE ConfigurationReloadProofs ----------------------
(* Theorems about ConfigurationReload, for any sets of sessions, panels and
   platforms. *)
EXTENDS ConfigurationReload, TLAPS

------------------------------------------------------------------------------
(* The inductive invariant. *)

\* Where an owner is between two profiles there is a save that waits for it.
ChangingWithSaves ==
  /\ owner.state \in {"unloading", "gone"} =>
       /\ \E s \in Savers : save[s] # NULL /\ save[s].at = "replacing"
       /\ owner.number < MaxOwners
  /\ \A s \in Savers : save[s] # NULL /\ save[s].at \in {"editing", "writing"} =>
       owner.state = "active" /\ owner.number < MaxOwners
  /\ owner.state = "active" => owner.profile = profile

\* What a restoration or a bind under way knows of the owner it was started under.
OpsOfTheOwner ==
  \A a \in Agents, k \in Kinds : op[a][k] # NULL =>
    /\ op[a][k].by <= owner.number
    /\ op[a][k].by = owner.number => op[a][k].platform = owner.profile.platform
    /\ op[a][k].exempt => /\ k = "restore" /\ a \in atStart /\ op[a][k].at # "asked"
                          /\ op[a][k].by = owner.number
    /\ op[a][k].at # "asked" => /\ op[a][k].by = owner.number /\ owner.state = "active"
                                /\ saving => op[a][k].exempt

\* While the editor has not written yet, nothing of the owner is under way.
QuietBeforeTheWrite ==
  \A s \in Savers : save[s] # NULL /\ save[s].at \in {"editing", "writing"} =>
    /\ \A a \in Agents, k \in Kinds : ~Mutating(a, k)
    /\ \A a \in Agents : Current(a) => turn[a].at \notin {"reconciling", "stepping"}

\* A session that is not live has no turn, and a turn was let through by an owner so far.
TurnsOfTheLiving == \A a \in Agents : a \notin live => turn[a] = NoTurn

\* The certificate about to be written was shown for the address written with it.
WritesWhatWasShown ==
  /\ profile.trust <= Len(shown)
  /\ \A s \in Savers : save[s] # NULL /\ save[s].at = "writing" =>
       /\ save[s].next.trust <= Len(shown)
       /\ save[s].next.trust # 0 => shown[save[s].next.trust] = save[s].next.platform

IInv ==
  /\ ReloadTypeOK
  /\ FenceIsTheSaves
  /\ ChangingWithSaves
  /\ OpsOfTheOwner
  /\ QuietBeforeTheWrite
  /\ TurnsOfTheLiving
  /\ OwnerRetiresQuietly
  /\ WritesWhatWasShown
  /\ TrustIsConfirmed




------------------------------------------------------------------------------
(* Each part of the invariant is kept by every step. *)

(* What the change callback hands to the editor. *)
LEMMA ChangeWrites ==
  ASSUME ReloadTypeOK, NEW s \in Savers, SaveChange(s)
  PROVE  /\ save' = [save EXCEPT ![s] = save'[s]]
         /\ save'[s] \in Saves \ {NULL} /\ save'[s].at = "writing"
         /\ save'[s].confirm = save[s].input.confirm
         /\ save'[s].next.platform = save[s].input.platform
         /\ save'[s].next.trust = NextTrust(save[s].input)
         /\ save[s].input \in Inputs /\ NextTrust(save[s].input) \in 0..MaxPreviews
<1>1. save \in [Savers -> {NULL} \cup Saves]
  BY DEF ReloadTypeOK
<1>2. save[s].input \in Inputs
  BY <1>1 DEF SaveChange, Saves
<1>3. NextTrust(save[s].input) \in 0..MaxPreviews
  BY <1>2, ReloadAssumption DEF ReloadTypeOK, NextTrust, Profiles
<1>4. save' = [save EXCEPT ![s] = [at |-> "writing", confirm |-> save[s].input.confirm,
                 next |-> [platform |-> save[s].input.platform,
                           trust |-> NextTrust(save[s].input)]]]
  BY DEF SaveChange
<1>5. save'[s] \in Saves
  BY <1>1, <1>2, <1>3, <1>4 DEF Saves, Inputs, Profiles
<1> QED
  BY <1>1, <1>2, <1>3, <1>4, <1>5, NullIsNoRecord

(* Types. *)
LEMMA TypeStep ==
  ASSUME ReloadTypeOK, ChangingWithSaves, [Next]_vars
  PROVE  ReloadTypeOK'
<1> USE DEF settingsVars, agentVars
<1>1. ASSUME NEW p \in Platforms, PreviewCertificate(p) PROVE ReloadTypeOK'
  BY <1>1, ReloadAssumption DEF PreviewCertificate, ReloadTypeOK
<1>2. CASE PreviewLapses
  BY <1>2 DEF PreviewLapses, ReloadTypeOK
<1>3. ASSUME NEW s \in Savers, NEW i \in Inputs, SaveSubmit(s, i) PROVE ReloadTypeOK'
  BY <1>3 DEF SaveSubmit, Saves, ReloadTypeOK
<1>4. ASSUME NEW s \in Savers, SaveAdmit(s) PROVE ReloadTypeOK'
  <2>1. save \in [Savers -> {NULL} \cup Saves]
    BY DEF ReloadTypeOK
  <2>2. save'[s] \in {NULL} \cup Saves
    BY <1>4, <2>1 DEF SaveAdmit, Saves
  <2>3. save' = [save EXCEPT ![s] = save'[s]]
    BY <1>4, <2>1 DEF SaveAdmit
  <2> QED
    BY <1>4, <2>2, <2>3 DEF SaveAdmit, ReloadTypeOK
<1>5. ASSUME NEW s \in Savers, SaveChange(s) PROVE ReloadTypeOK'
  BY <1>5, ChangeWrites DEF SaveChange, ReloadTypeOK
<1>6. ASSUME NEW s \in Savers, SaveWritten(s) PROVE ReloadTypeOK'
  BY <1>6 DEF SaveWritten, Saves, Profiles, Owners, ReloadTypeOK
<1>7. ASSUME NEW s \in Savers, SaveFails(s) PROVE ReloadTypeOK'
  <2>1. save'[s] \in {NULL} \cup Saves
    BY <1>7 DEF SaveFails, Saves, ReloadTypeOK
  <2>2. save' = [save EXCEPT ![s] = save'[s]]
    BY <1>7 DEF SaveFails, ReloadTypeOK
  <2> QED
    BY <1>7, <2>1, <2>2 DEF SaveFails, ReloadTypeOK
<1>8. ASSUME NEW s \in Savers, SaveDone(s) PROVE ReloadTypeOK'
  <2>1. preview' \in 0..Len(shown')
    BY <1>8 DEF SaveDone, ReloadTypeOK
  <2> QED
    BY <1>8, <2>1 DEF SaveDone, ReloadTypeOK
<1>9. CASE OwnerDisposed
  BY <1>9 DEF OwnerDisposed, ReloadTypeOK
<1>10. CASE OwnerReplaced
  BY <1>10, ReloadAssumption DEF OwnerReplaced, ChangingWithSaves, Owners, Kinds, Ops,
      Profiles, ReloadTypeOK
<1>11. CASE OwnerFails
  BY <1>11 DEF OwnerFails, ReloadTypeOK
<1>12. ASSUME NEW a \in Agents, Create(a) PROVE ReloadTypeOK'
  BY <1>12 DEF Create, NewOp, Kinds, Ops, Profiles, ReloadTypeOK
<1>13. ASSUME NEW a \in Agents, RestoreDecides(a) PROVE ReloadTypeOK'
  <2>1. op \in [Agents -> [Kinds -> {NULL} \cup Ops]]
    BY DEF ReloadTypeOK
  <2>2. op[a]["restore"] \in Ops
    BY <1>13, <2>1 DEF RestoreDecides, Kinds
  <2>3. [op[a]["restore"] EXCEPT !.at = "writing"] \in Ops
    BY <2>2 DEF Ops
  <2>4. PICK o \in {NULL, [op[a]["restore"] EXCEPT !.at = "writing"]} :
          op' = [op EXCEPT ![a]["restore"] = o]
    BY <1>13 DEF RestoreDecides
  <2>5. op' \in [Agents -> [Kinds -> {NULL} \cup Ops]]
    BY <2>1, <2>3, <2>4 DEF Kinds
  <2> QED
    BY <1>13, <2>5 DEF RestoreDecides, ReloadTypeOK
<1>14. ASSUME NEW a \in Agents, UserBindAsks(a) PROVE ReloadTypeOK'
  BY <1>14 DEF UserBindAsks, NewOp, Kinds, Ops, Profiles, ReloadTypeOK
<1>15. ASSUME NEW a \in Agents, UserBindProceeds(a) PROVE ReloadTypeOK'
  <2>1. op \in [Agents -> [Kinds -> {NULL} \cup Ops]]
    BY DEF ReloadTypeOK
  <2>2. op[a]["bind"] \in Ops
    BY <1>15, <2>1 DEF UserBindProceeds, Kinds
  <2>3. [op[a]["bind"] EXCEPT !.at = "writing"] \in Ops
    BY <2>2 DEF Ops
  <2>4. PICK o \in {NULL, [op[a]["bind"] EXCEPT !.at = "writing"]} :
          op' = [op EXCEPT ![a]["bind"] = o]
    BY <1>15 DEF UserBindProceeds
  <2>5. op' \in [Agents -> [Kinds -> {NULL} \cup Ops]]
    BY <2>1, <2>3, <2>4 DEF Kinds
  <2> QED
    BY <1>15, <2>5 DEF UserBindProceeds, ReloadTypeOK
<1>16. ASSUME NEW a \in Agents, NEW k \in Kinds, MutationEnds(a, k) PROVE ReloadTypeOK'
  <2>1. op' \in [Agents -> [Kinds -> {NULL} \cup Ops]]
    BY <1>16 DEF MutationEnds, ReloadTypeOK
  <2>2. binding' \in [Agents -> Platforms \cup {NULL}]
    <3>1. op[a][k] # NULL /\ op[a][k] \in {NULL} \cup Ops
      BY <1>16 DEF MutationEnds, ReloadTypeOK
    <3>2. op[a][k].platform \in Platforms
      BY <3>1 DEF Ops
    <3> QED
      BY <1>16, <3>2 DEF MutationEnds, ReloadTypeOK
  <2> QED
    BY <1>16, <2>1, <2>2 DEF MutationEnds, ReloadTypeOK
<1>17. ASSUME NEW a \in Agents, TurnStart(a) PROVE ReloadTypeOK'
  <2>1. turn'[a] \in Turns
    BY <1>17, ReloadAssumption DEF TurnStart, Turns, NoTurn, Owners, ReloadTypeOK
  <2>2. turn' = [turn EXCEPT ![a] = turn'[a]]
    BY <1>17 DEF TurnStart, ReloadTypeOK
  <2> QED
    BY <1>17, <2>1, <2>2 DEF TurnStart, ReloadTypeOK
<1>18. ASSUME NEW a \in Agents, PreStep(a) PROVE ReloadTypeOK'
  <2>1. turn'[a] \in Turns
    BY <1>18, ReloadAssumption DEF PreStep, Turns, NoTurn, Owners, Asking, ReloadTypeOK
  <2>2. turn' = [turn EXCEPT ![a] = turn'[a]]
    BY <1>18 DEF PreStep, ReloadTypeOK
  <2> QED
    BY <1>18, <2>1, <2>2 DEF PreStep, ReloadTypeOK
<1>19. ASSUME NEW a \in Agents, PreStepUnheard(a) PROVE ReloadTypeOK'
  <2>1. turn'[a] \in Turns
    BY <1>19, ReloadAssumption DEF PreStepUnheard, Turns, NoTurn, Owners, Asking, ReloadTypeOK
  <2>2. turn' = [turn EXCEPT ![a] = turn'[a]]
    BY <1>19 DEF PreStepUnheard, ReloadTypeOK
  <2> QED
    BY <1>19, <2>1, <2>2 DEF PreStepUnheard, ReloadTypeOK
<1>20. ASSUME NEW a \in Agents, Reconciled(a) PROVE ReloadTypeOK'
  <2>1. turn'[a] \in Turns
    BY <1>20, ReloadAssumption DEF Reconciled, Turns, NoTurn, Owners, ReloadTypeOK
  <2>2. turn' = [turn EXCEPT ![a] = turn'[a]]
    BY <1>20 DEF Reconciled, ReloadTypeOK
  <2> QED
    BY <1>20, <2>1, <2>2 DEF Reconciled, ReloadTypeOK
<1>21. ASSUME NEW a \in Agents, NextStep(a) PROVE ReloadTypeOK'
  <2>1. turn'[a] \in Turns
    BY <1>21, ReloadAssumption DEF NextStep, Turns, NoTurn, Owners, ReloadTypeOK
  <2>2. turn' = [turn EXCEPT ![a] = turn'[a]]
    BY <1>21 DEF NextStep, ReloadTypeOK
  <2> QED
    BY <1>21, <2>1, <2>2 DEF NextStep, ReloadTypeOK
<1>22. ASSUME NEW a \in Agents, TurnEnd(a) PROVE ReloadTypeOK'
  <2>1. turn'[a] \in Turns
    BY <1>22, ReloadAssumption DEF TurnEnd, Turns, NoTurn, Owners, ReloadTypeOK
  <2>2. turn' = [turn EXCEPT ![a] = turn'[a]]
    BY <1>22 DEF TurnEnd, ReloadTypeOK
  <2> QED
    BY <1>22, <2>1, <2>2 DEF TurnEnd, ReloadTypeOK
<1>23. CASE
          \/ InstallApproved
          \/ InstallStarts
          \/ InstallEnds
          \/ \E a \in Agents : Close(a)
  BY <1>23 DEF InstallApproved, InstallStarts, InstallEnds, Close, ReloadTypeOK
<1>24. CASE UNCHANGED vars
  BY <1>24 DEF vars, ReloadTypeOK
<1>25. ASSUME NEW a \in Agents, RestoreInherits(a) PROVE ReloadTypeOK'
  <2>1. op \in [Agents -> [Kinds -> {NULL} \cup Ops]]
    BY DEF ReloadTypeOK
  <2>2. op[a]["restore"] \in Ops
    BY <1>25, <2>1 DEF RestoreInherits, Kinds
  <2>3. [op[a]["restore"] EXCEPT !.at = "reading"] \in Ops
    BY <2>2 DEF Ops
  <2>4. PICK o \in {NULL, [op[a]["restore"] EXCEPT !.at = "reading"]} :
          op' = [op EXCEPT ![a]["restore"] = o]
    BY <1>25 DEF RestoreInherits
  <2>5. op' \in [Agents -> [Kinds -> {NULL} \cup Ops]]
    BY <2>1, <2>3, <2>4 DEF Kinds
  <2>6. binding' \in [Agents -> Platforms \cup {NULL}]
    BY <1>25 DEF RestoreInherits, ReloadTypeOK
  <2> QED
    BY <1>25, <2>5, <2>6 DEF RestoreInherits, ReloadTypeOK
<1> QED
  BY <1>1, <1>2, <1>3, <1>4, <1>5, <1>6, <1>7, <1>8, <1>9, <1>10, <1>11, <1>12,
     <1>13, <1>14, <1>15, <1>16, <1>17, <1>18, <1>19, <1>20, <1>21, <1>22, <1>23, <1>24,
     <1>25
  DEF Next, PanelStep, OwnerStep, TurnStep

(* The fence goes up with the one save it admits, and down with it. *)
LEMMA FenceStep ==
  ASSUME ReloadTypeOK, FenceIsTheSaves, [Next]_vars
  PROVE  FenceIsTheSaves'
<1>1. save \in [Savers -> {NULL} \cup Saves]
  BY DEF ReloadTypeOK
<1>2. ASSUME NEW s \in Savers, NEW i \in Inputs, SaveSubmit(s, i) PROVE FenceIsTheSaves'
  BY <1>2, <1>1, NullIsNoRecord DEF SaveSubmit, FenceIsTheSaves, InEditor, settingsVars,
     agentVars, Saves
<1>3. ASSUME NEW s \in Savers, SaveAdmit(s) PROVE FenceIsTheSaves'
  BY <1>3, <1>1, NullIsNoRecord DEF SaveAdmit, FenceIsTheSaves, InEditor, settingsVars,
     agentVars, Saves, Admissible
<1>4. ASSUME NEW s \in Savers, SaveChange(s) PROVE FenceIsTheSaves'
  <2>1. /\ saving' = saving /\ InEditor(s)
        /\ save'[s] \in Saves \ {NULL} /\ save'[s].at = "writing"
        /\ save' = [save EXCEPT ![s] = save'[s]]
    BY <1>1, <1>4, ChangeWrites DEF SaveChange, InEditor
  <2>2. \A z \in Savers : InEditor(z)' <=> InEditor(z)
    BY <1>1, <2>1 DEF InEditor, ReloadTypeOK
  <2> QED
    BY <1>1, <2>1, <2>2 DEF FenceIsTheSaves
<1>5. ASSUME NEW s \in Savers, SaveWritten(s) PROVE FenceIsTheSaves'
  BY <1>5, <1>1, NullIsNoRecord DEF SaveWritten, FenceIsTheSaves, InEditor, settingsVars,
     agentVars, Saves
<1>6. ASSUME NEW s \in Savers, SaveFails(s) PROVE FenceIsTheSaves'
  BY <1>6, <1>1, NullIsNoRecord DEF SaveFails, FenceIsTheSaves, InEditor, settingsVars,
     agentVars, Saves
<1>7. ASSUME NEW s \in Savers, SaveDone(s) PROVE FenceIsTheSaves'
  BY <1>7, <1>1, NullIsNoRecord DEF SaveDone, FenceIsTheSaves, InEditor, settingsVars,
     agentVars, Saves
<1>8. CASE
          \/ \E p \in Platforms : PreviewCertificate(p)
          \/ PreviewLapses
          \/ InstallApproved
          \/ InstallStarts
          \/ InstallEnds
          \/ OwnerDisposed
          \/ OwnerReplaced
          \/ OwnerFails
          \/ \E a \in Agents : Create(a)
          \/ \E a \in Agents : Close(a)
          \/ \E a \in Agents : RestoreInherits(a)
          \/ \E a \in Agents : RestoreDecides(a)
          \/ \E a \in Agents : UserBindAsks(a)
          \/ \E a \in Agents : UserBindProceeds(a)
          \/ \E a \in Agents, k \in Kinds : MutationEnds(a, k)
          \/ \E a \in Agents : TurnStart(a)
          \/ \E a \in Agents : PreStep(a)
          \/ \E a \in Agents : PreStepUnheard(a)
          \/ \E a \in Agents : Reconciled(a)
          \/ \E a \in Agents : NextStep(a)
          \/ \E a \in Agents : TurnEnd(a)
  <2>1. UNCHANGED <<saving, save>>
    BY <1>8 DEF settingsVars, agentVars, PreviewCertificate, PreviewLapses, InstallApproved,
       InstallStarts, InstallEnds, OwnerDisposed, OwnerReplaced, OwnerFails, Create, Close,
       RestoreInherits, RestoreDecides, UserBindAsks, UserBindProceeds, MutationEnds,
       TurnStart, PreStep, PreStepUnheard, Reconciled, NextStep, TurnEnd
  <2> QED
    BY <2>1 DEF FenceIsTheSaves, InEditor, settingsVars, agentVars
<1>9. CASE UNCHANGED vars
  BY <1>9 DEF vars, FenceIsTheSaves, InEditor, settingsVars, agentVars
<1> QED
  BY <1>2, <1>3, <1>4, <1>5, <1>6, <1>7, <1>8, <1>9 DEF Next, PanelStep, OwnerStep, TurnStep

(* An owner is replaced only within a save. *)
LEMMA ChangingStep ==
  ASSUME ReloadTypeOK, FenceIsTheSaves, ChangingWithSaves, [Next]_vars
  PROVE  ChangingWithSaves'
<1>1. save \in [Savers -> {NULL} \cup Saves]
  BY DEF ReloadTypeOK
<1>2. owner.number \in Owners /\ owner.state \in {"active", "unloading", "gone", "failed"}
       /\ owner = [number |-> owner.number, state |-> owner.state, profile |-> owner.profile]
  BY DEF ReloadTypeOK
<1>3. ASSUME NEW s \in Savers, NEW i \in Inputs, SaveSubmit(s, i) PROVE ChangingWithSaves'
  BY <1>3, <1>1, <1>2, NullIsNoRecord, ReloadAssumption DEF SaveSubmit, ChangingWithSaves,
     settingsVars, agentVars, Saves
<1>4. ASSUME NEW s \in Savers, SaveAdmit(s) PROVE ChangingWithSaves'
  BY <1>4, <1>1, <1>2, NullIsNoRecord, ReloadAssumption DEF SaveAdmit, ChangingWithSaves,
     settingsVars, agentVars, Saves, Admissible
<1>5. ASSUME NEW s \in Savers, SaveChange(s) PROVE ChangingWithSaves'
  BY <1>5, ChangeWrites DEF SaveChange, ChangingWithSaves, settingsVars
<1>6. ASSUME NEW s \in Savers, SaveWritten(s) PROVE ChangingWithSaves'
  BY <1>6, <1>1, <1>2, NullIsNoRecord, ReloadAssumption DEF SaveWritten, ChangingWithSaves,
     settingsVars, agentVars, Saves, FenceIsTheSaves, InEditor
<1>7. ASSUME NEW s \in Savers, SaveFails(s) PROVE ChangingWithSaves'
  BY <1>7, <1>1, <1>2, NullIsNoRecord, ReloadAssumption DEF SaveFails, ChangingWithSaves,
     settingsVars, agentVars, Saves, FenceIsTheSaves, InEditor
<1>8. ASSUME NEW s \in Savers, SaveDone(s) PROVE ChangingWithSaves'
  BY <1>8, <1>1, <1>2, NullIsNoRecord, ReloadAssumption DEF SaveDone, ChangingWithSaves,
     settingsVars, agentVars, Saves, FenceIsTheSaves, InEditor
<1>9. CASE OwnerDisposed
  BY <1>9, <1>1, <1>2, NullIsNoRecord, ReloadAssumption DEF OwnerDisposed, ChangingWithSaves,
     settingsVars, agentVars
<1>10. CASE OwnerReplaced
  BY <1>10, <1>1, <1>2, NullIsNoRecord, ReloadAssumption DEF OwnerReplaced, ChangingWithSaves,
     settingsVars, agentVars, FenceIsTheSaves, InEditor
<1>11. CASE OwnerFails
  BY <1>11, <1>1, <1>2, NullIsNoRecord, ReloadAssumption DEF OwnerFails, ChangingWithSaves,
     settingsVars, agentVars
<1>12. CASE
          \/ \E p \in Platforms : PreviewCertificate(p)
          \/ PreviewLapses
          \/ InstallApproved
          \/ InstallStarts
          \/ InstallEnds
          \/ \E a \in Agents : Create(a)
          \/ \E a \in Agents : Close(a)
          \/ \E a \in Agents : RestoreInherits(a)
          \/ \E a \in Agents : RestoreDecides(a)
          \/ \E a \in Agents : UserBindAsks(a)
          \/ \E a \in Agents : UserBindProceeds(a)
          \/ \E a \in Agents, k \in Kinds : MutationEnds(a, k)
          \/ \E a \in Agents : TurnStart(a)
          \/ \E a \in Agents : PreStep(a)
          \/ \E a \in Agents : PreStepUnheard(a)
          \/ \E a \in Agents : Reconciled(a)
          \/ \E a \in Agents : NextStep(a)
          \/ \E a \in Agents : TurnEnd(a)
  <2>1. UNCHANGED <<saving, save, owner, profile>>
    BY <1>12 DEF settingsVars, agentVars, PreviewCertificate, PreviewLapses, InstallApproved,
       InstallStarts, InstallEnds, Create, Close, RestoreInherits, RestoreDecides,
       UserBindAsks, UserBindProceeds, MutationEnds, TurnStart, PreStep, PreStepUnheard,
       Reconciled, NextStep, TurnEnd
  <2> QED
    BY <2>1 DEF ChangingWithSaves, settingsVars, agentVars
<1>13. CASE UNCHANGED vars
  BY <1>13 DEF vars, ChangingWithSaves, settingsVars, agentVars
<1> QED
  BY <1>3, <1>4, <1>5, <1>6, <1>7, <1>8, <1>9, <1>10, <1>11, <1>12, <1>13 DEF Next, PanelStep,
     OwnerStep, TurnStep

(* A binding write is admitted by the living owner, and in a save only for its restoration. *)
LEMMA OpsStep ==
  ASSUME ReloadTypeOK, FenceIsTheSaves, ChangingWithSaves, OpsOfTheOwner,
         QuietBeforeTheWrite, [Next]_vars
  PROVE  OpsOfTheOwner'
<1>1. op \in [Agents -> [Kinds -> {NULL} \cup Ops]]
  BY DEF ReloadTypeOK
<1>2. owner.number \in Owners /\ owner.state \in {"active", "unloading", "gone", "failed"}
       /\ owner = [number |-> owner.number, state |-> owner.state, profile |-> owner.profile]
  BY DEF ReloadTypeOK
<1>3. ASSUME NEW s \in Savers, SaveAdmit(s) PROVE OpsOfTheOwner'
  BY <1>3, <1>1, <1>2, NullIsNoRecord, ReloadAssumption DEF SaveAdmit, OpsOfTheOwner, Kinds,
     settingsVars, agentVars, Admissible, Busy, HasRunningTurn, Mutating
<1>4. ASSUME NEW s \in Savers, SaveWritten(s) PROVE OpsOfTheOwner'
  BY <1>4, <1>1, <1>2, NullIsNoRecord, ReloadAssumption DEF SaveWritten, OpsOfTheOwner, Kinds,
     settingsVars, agentVars, QuietBeforeTheWrite, Mutating
<1>5. ASSUME NEW s \in Savers, SaveFails(s) PROVE OpsOfTheOwner'
  BY <1>5, <1>1, <1>2, NullIsNoRecord, ReloadAssumption DEF SaveFails, OpsOfTheOwner, Kinds,
     settingsVars, agentVars
<1>6. ASSUME NEW s \in Savers, SaveDone(s) PROVE OpsOfTheOwner'
  BY <1>6, <1>1, <1>2, NullIsNoRecord, ReloadAssumption DEF SaveDone, OpsOfTheOwner, Kinds,
     settingsVars, agentVars
<1>7. CASE OwnerDisposed
  BY <1>7, <1>1, <1>2, NullIsNoRecord, ReloadAssumption DEF OwnerDisposed, OpsOfTheOwner, Kinds,
     settingsVars, agentVars
<1>8. CASE OwnerReplaced
  <2>1. saving
    BY <1>8 DEF OwnerReplaced, ChangingWithSaves, FenceIsTheSaves, InEditor
  <2>2. \A a \in Agents, k \in Kinds : op[a][k] # NULL => op[a][k].at = "asked" /\ ~op[a][k].exempt
    BY <1>8 DEF OwnerReplaced, OpsOfTheOwner
  <2>3. owner'.number = owner.number + 1 /\ owner'.state = "active" /\ owner'.profile = profile
    BY <1>8 DEF OwnerReplaced
  <2>4. \A a \in Agents, k \in Kinds :
           op'[a][k] = IF a \in live /\ k = "restore"
                       THEN [at |-> "inheriting", by |-> owner.number + 1,
                             platform |-> profile.platform, exempt |-> TRUE]
                       ELSE op[a][k]
    BY <1>8, <2>1, <2>3 DEF OwnerReplaced
  <2> QED
    BY <1>8, <1>1, <1>2, <2>1, <2>2, <2>3, <2>4 DEF OwnerReplaced, OpsOfTheOwner, Owners, Ops,
       settingsVars
<1>9. CASE OwnerFails
  BY <1>9, <1>1, <1>2, NullIsNoRecord, ReloadAssumption DEF OwnerFails, OpsOfTheOwner, Kinds,
     settingsVars, agentVars
<1>10. ASSUME NEW a \in Agents, Create(a) PROVE OpsOfTheOwner'
  <2>1. CASE ~MutationAdmitted(owner.number, FALSE)
    BY <1>10, <2>1 DEF Create, OpsOfTheOwner, settingsVars
  <2>2. CASE MutationAdmitted(owner.number, FALSE)
    <3>1. owner.state = "active" /\ ~saving
      BY <2>2 DEF MutationAdmitted, Alive
    <3>2. \A b \in Agents, j \in Kinds :
             op'[b][j] = IF b = a /\ j = "restore" THEN NewOp("inheriting", FALSE) ELSE op[b][j]
      BY <1>10, <1>1, <2>2 DEF Create, Kinds
    <3>3. \A b \in Agents, j \in Kinds : ~(b = a /\ j = "restore") => op'[b][j] = op[b][j]
      BY <3>2
    <3>4. op'[a]["restore"] = [at |-> "inheriting", by |-> owner.number,
                               platform |-> owner.profile.platform, exempt |-> FALSE]
      BY <3>2 DEF NewOp, Kinds
    <3>5. UNCHANGED <<owner, saving, atStart>>
      BY <1>10 DEF Create, settingsVars
    <3> QED
      BY <1>2, <3>1, <3>3, <3>4, <3>5 DEF OpsOfTheOwner, Owners
  <2> QED
    BY <2>1, <2>2
<1>11. ASSUME NEW a \in Agents, RestoreDecides(a) PROVE OpsOfTheOwner'
  <2>1. \A b \in Agents, j \in Kinds : op'[b][j] # NULL =>
           /\ op[b][j] # NULL
           /\ op[b][j].at # "asked" \/ op'[b][j] = op[b][j]
           /\ op'[b][j].by = op[b][j].by /\ op'[b][j].platform = op[b][j].platform
           /\ op'[b][j].exempt = op[b][j].exempt /\ op'[b][j].at \in {op[b][j].at, "writing"}
    BY <1>11, <1>1 DEF RestoreDecides, Kinds, Ops
  <2> QED
    BY <1>11, <2>1 DEF RestoreDecides, OpsOfTheOwner, settingsVars
<1>12. ASSUME NEW a \in Agents, UserBindAsks(a) PROVE OpsOfTheOwner'
  <2>1. \A b \in Agents, j \in Kinds :
           op'[b][j] = IF b = a /\ j = "bind" THEN NewOp("asked", FALSE) ELSE op[b][j]
    BY <1>12, <1>1 DEF UserBindAsks, Kinds
  <2> QED
    BY <1>12, <1>2, <2>1 DEF UserBindAsks, OpsOfTheOwner, NewOp, settingsVars, Owners
<1>13. ASSUME NEW a \in Agents, UserBindProceeds(a) PROVE OpsOfTheOwner'
  BY <1>13, <1>1, <1>2, NullIsNoRecord, ReloadAssumption DEF UserBindProceeds, OpsOfTheOwner,
     Kinds, settingsVars, agentVars, MutationAdmitted, Alive
<1>14. ASSUME NEW a \in Agents, NEW k \in Kinds, MutationEnds(a, k) PROVE OpsOfTheOwner'
  BY <1>14, <1>1, <1>2, NullIsNoRecord, ReloadAssumption DEF MutationEnds, OpsOfTheOwner, Kinds,
     settingsVars, agentVars
<1>15. CASE
          \/ \E p \in Platforms : PreviewCertificate(p)
          \/ PreviewLapses
          \/ \E s \in Savers, i \in Inputs : SaveSubmit(s, i)
          \/ \E s \in Savers : SaveChange(s)
          \/ InstallApproved
          \/ InstallStarts
          \/ InstallEnds
          \/ \E a \in Agents : Close(a)
          \/ \E a \in Agents : TurnStart(a)
          \/ \E a \in Agents : PreStep(a)
          \/ \E a \in Agents : PreStepUnheard(a)
          \/ \E a \in Agents : Reconciled(a)
          \/ \E a \in Agents : NextStep(a)
          \/ \E a \in Agents : TurnEnd(a)
  <2>1. UNCHANGED <<saving, owner, op, atStart>>
    BY <1>15 DEF settingsVars, agentVars, PreviewCertificate, PreviewLapses, SaveSubmit,
       SaveChange, InstallApproved, InstallStarts, InstallEnds, Close, TurnStart, PreStep,
       PreStepUnheard, Reconciled, NextStep, TurnEnd
  <2> QED
    BY <2>1 DEF OpsOfTheOwner, Kinds, settingsVars, agentVars
<1>16. CASE UNCHANGED vars
  BY <1>16 DEF vars, OpsOfTheOwner, Kinds, settingsVars, agentVars
<1>17. ASSUME NEW a \in Agents, RestoreInherits(a) PROVE OpsOfTheOwner'
  <2>1. \A b \in Agents, j \in Kinds : op'[b][j] # NULL =>
           /\ op[b][j] # NULL
           /\ op[b][j].at # "asked" \/ op'[b][j] = op[b][j]
           /\ op'[b][j].by = op[b][j].by /\ op'[b][j].platform = op[b][j].platform
           /\ op'[b][j].exempt = op[b][j].exempt /\ op'[b][j].at \in {op[b][j].at, "reading"}
    BY <1>17, <1>1 DEF RestoreInherits, Kinds, Ops
  <2> QED
    BY <1>17, <2>1 DEF RestoreInherits, OpsOfTheOwner, settingsVars
<1> QED
  BY <1>3, <1>4, <1>5, <1>6, <1>7, <1>8, <1>9, <1>10, <1>11, <1>12, <1>13, <1>14, <1>15, <1>16,
     <1>17 DEF Next, PanelStep, OwnerStep, TurnStep

(* An admitted save finds its owner quiet, and the fence keeps it so. *)
LEMMA QuietStep ==
  ASSUME ReloadTypeOK, FenceIsTheSaves, ChangingWithSaves, OpsOfTheOwner,
         QuietBeforeTheWrite, TurnsOfTheLiving, [Next]_vars
  PROVE  QuietBeforeTheWrite'
<1>1. save \in [Savers -> {NULL} \cup Saves]
  BY DEF ReloadTypeOK
<1>2. op \in [Agents -> [Kinds -> {NULL} \cup Ops]]
  BY DEF ReloadTypeOK
<1>3. turn \in [Agents -> Turns]
  BY DEF ReloadTypeOK
<1>4. owner.state # "active" =>
        \A s \in Savers : ~(save[s] # NULL /\ save[s].at \in {"editing", "writing"})
  BY DEF ChangingWithSaves
<1>5. ASSUME NEW s \in Savers, NEW i \in Inputs, SaveSubmit(s, i) PROVE QuietBeforeTheWrite'
  BY <1>5, <1>1, <1>2, <1>3, <1>4, NullIsNoRecord DEF SaveSubmit, QuietBeforeTheWrite, Mutating,
     Current, Kinds, settingsVars, agentVars
<1>6. ASSUME NEW s \in Savers, SaveAdmit(s) PROVE QuietBeforeTheWrite'
  BY <1>6, <1>1, <1>2, <1>3, <1>4, NullIsNoRecord DEF SaveAdmit, QuietBeforeTheWrite, Mutating,
     Current, Kinds, settingsVars, agentVars, Admissible, Busy, HasRunningTurn, OpsOfTheOwner,
     TurnsOfTheLiving, NoTurn
<1>7. ASSUME NEW s \in Savers, SaveChange(s) PROVE QuietBeforeTheWrite'
  BY <1>7, <1>1, ChangeWrites DEF SaveChange, QuietBeforeTheWrite, Mutating, Current, agentVars
<1>8. ASSUME NEW s \in Savers, SaveWritten(s) PROVE QuietBeforeTheWrite'
  BY <1>8, <1>1, <1>2, <1>3, <1>4, NullIsNoRecord DEF SaveWritten, QuietBeforeTheWrite,
     Mutating, Current, Kinds, settingsVars, agentVars, FenceIsTheSaves, InEditor
<1>9. ASSUME NEW s \in Savers, SaveFails(s) PROVE QuietBeforeTheWrite'
  BY <1>9, <1>1, <1>2, <1>3, <1>4, NullIsNoRecord DEF SaveFails, QuietBeforeTheWrite, Mutating,
     Current, Kinds, settingsVars, agentVars
<1>10. ASSUME NEW s \in Savers, SaveDone(s) PROVE QuietBeforeTheWrite'
  BY <1>10, <1>1, <1>2, <1>3, <1>4, NullIsNoRecord DEF SaveDone, QuietBeforeTheWrite, Mutating,
     Current, Kinds, settingsVars, agentVars
<1>11. CASE OwnerDisposed
  BY <1>11, <1>1, <1>2, <1>3, <1>4, NullIsNoRecord DEF OwnerDisposed, QuietBeforeTheWrite,
     Mutating, Current, Kinds, settingsVars, agentVars, ChangingWithSaves
<1>12. CASE OwnerReplaced
  BY <1>12, <1>1, <1>2, <1>3, <1>4, NullIsNoRecord DEF OwnerReplaced, QuietBeforeTheWrite,
     Mutating, Current, Kinds, settingsVars, agentVars, ChangingWithSaves
<1>13. CASE OwnerFails
  BY <1>13, <1>1, <1>2, <1>3, <1>4, NullIsNoRecord DEF OwnerFails, QuietBeforeTheWrite,
     Mutating, Current, Kinds, settingsVars, agentVars, ChangingWithSaves
<1>14. ASSUME NEW a \in Agents, Create(a) PROVE QuietBeforeTheWrite'
  BY <1>14, <1>1, <1>2, <1>3, <1>4, NullIsNoRecord DEF Create, QuietBeforeTheWrite, Mutating,
     Current, Kinds, settingsVars, agentVars, NewOp, MutationAdmitted, FenceIsTheSaves, InEditor
<1>15. ASSUME NEW a \in Agents, RestoreDecides(a) PROVE QuietBeforeTheWrite'
  BY <1>15, <1>1, <1>2, <1>3, <1>4, NullIsNoRecord DEF RestoreDecides, QuietBeforeTheWrite,
     Mutating, Current, Kinds, settingsVars, agentVars
<1>16. ASSUME NEW a \in Agents, UserBindAsks(a) PROVE QuietBeforeTheWrite'
  BY <1>16, <1>1, <1>2, <1>3, <1>4, NullIsNoRecord DEF UserBindAsks, QuietBeforeTheWrite,
     Mutating, Current, Kinds, settingsVars, agentVars, NewOp
<1>17. ASSUME NEW a \in Agents, UserBindProceeds(a) PROVE QuietBeforeTheWrite'
  BY <1>17, <1>1, <1>2, <1>3, <1>4, NullIsNoRecord DEF UserBindProceeds, QuietBeforeTheWrite,
     Mutating, Current, Kinds, settingsVars, agentVars, MutationAdmitted, FenceIsTheSaves,
     InEditor, OpsOfTheOwner
<1>18. ASSUME NEW a \in Agents, NEW k \in Kinds, MutationEnds(a, k) PROVE QuietBeforeTheWrite'
  BY <1>18, <1>1, <1>2, <1>3, <1>4, NullIsNoRecord DEF MutationEnds, QuietBeforeTheWrite,
     Mutating, Current, Kinds, settingsVars, agentVars
<1>19. ASSUME NEW a \in Agents, TurnStart(a) PROVE QuietBeforeTheWrite'
  BY <1>19, <1>1, <1>2, <1>3, <1>4, NullIsNoRecord DEF TurnStart, QuietBeforeTheWrite, Mutating,
     Current, Kinds, settingsVars, agentVars
<1>20. ASSUME NEW a \in Agents, PreStep(a) PROVE QuietBeforeTheWrite'
  BY <1>20, <1>1, <1>2, <1>3, <1>4, NullIsNoRecord DEF PreStep, QuietBeforeTheWrite, Mutating,
     Current, Kinds, settingsVars, agentVars, Asking, FenceIsTheSaves, InEditor, NoTurn
<1>21. ASSUME NEW a \in Agents, PreStepUnheard(a) PROVE QuietBeforeTheWrite'
  BY <1>21, <1>1, <1>2, <1>3, <1>4, NullIsNoRecord DEF PreStepUnheard, QuietBeforeTheWrite,
     Mutating, Current, Kinds, settingsVars, agentVars, Asking, ChangingWithSaves
<1>22. ASSUME NEW a \in Agents, Reconciled(a) PROVE QuietBeforeTheWrite'
  BY <1>22, <1>1, <1>2, <1>3, <1>4, NullIsNoRecord DEF Reconciled, QuietBeforeTheWrite,
     Mutating, Current, Kinds, settingsVars, agentVars
<1>23. ASSUME NEW a \in Agents, NextStep(a) PROVE QuietBeforeTheWrite'
  BY <1>23, <1>1, <1>2, <1>3, <1>4, NullIsNoRecord DEF NextStep, QuietBeforeTheWrite, Mutating,
     Current, Kinds, settingsVars, agentVars
<1>24. ASSUME NEW a \in Agents, TurnEnd(a) PROVE QuietBeforeTheWrite'
  BY <1>24, <1>1, <1>2, <1>3, <1>4, NullIsNoRecord DEF TurnEnd, QuietBeforeTheWrite, Mutating,
     Current, Kinds, settingsVars, agentVars, NoTurn
<1>25. CASE
          \/ \E p \in Platforms : PreviewCertificate(p)
          \/ PreviewLapses
          \/ InstallApproved
          \/ InstallStarts
          \/ InstallEnds
          \/ \E a \in Agents : Close(a)
  <2>1. UNCHANGED <<save, owner, op, binding, turn>>
    BY <1>25 DEF settingsVars, agentVars, PreviewCertificate, PreviewLapses, InstallApproved,
       InstallStarts, InstallEnds, Close
  <2> QED
    BY <2>1 DEF QuietBeforeTheWrite, Mutating, Current, Kinds, settingsVars, agentVars
<1>26. CASE UNCHANGED vars
  BY <1>26 DEF vars, QuietBeforeTheWrite, Mutating, Current, Kinds, settingsVars, agentVars
<1>27. ASSUME NEW a \in Agents, RestoreInherits(a) PROVE QuietBeforeTheWrite'
  <2>1. Mutating(a, "restore") /\ save' = save
    BY <1>27 DEF RestoreInherits, Mutating, settingsVars
  <2>2. \A s \in Savers : ~(save[s] # NULL /\ save[s].at \in {"editing", "writing"})
    BY <2>1 DEF QuietBeforeTheWrite, Kinds
  <2> QED
    BY <2>1, <2>2 DEF QuietBeforeTheWrite
<1> QED
  BY <1>5, <1>6, <1>7, <1>8, <1>9, <1>10, <1>11, <1>12, <1>13, <1>14, <1>15, <1>16, <1>17,
     <1>18, <1>19, <1>20, <1>21, <1>22, <1>23, <1>24, <1>25, <1>26, <1>27 DEF Next, PanelStep,
     OwnerStep, TurnStep

(* A session is closed between its turns. *)
LEMMA LivingStep ==
  ASSUME ReloadTypeOK, TurnsOfTheLiving, [Next]_vars
  PROVE  TurnsOfTheLiving'
<1>1. turn \in [Agents -> Turns]
  BY DEF ReloadTypeOK
<1>2. ASSUME NEW a \in Agents, Create(a) PROVE TurnsOfTheLiving'
  BY <1>2, <1>1 DEF Create, TurnsOfTheLiving, NoTurn, settingsVars, agentVars
<1>3. ASSUME NEW a \in Agents, Close(a) PROVE TurnsOfTheLiving'
  BY <1>3, <1>1 DEF Close, TurnsOfTheLiving, NoTurn, settingsVars, agentVars
<1>4. ASSUME NEW a \in Agents, TurnStart(a) PROVE TurnsOfTheLiving'
  BY <1>4, <1>1 DEF TurnStart, TurnsOfTheLiving, NoTurn, settingsVars, agentVars
<1>5. ASSUME NEW a \in Agents, PreStep(a) PROVE TurnsOfTheLiving'
  BY <1>5, <1>1 DEF PreStep, TurnsOfTheLiving, NoTurn, settingsVars, agentVars, Asking
<1>6. ASSUME NEW a \in Agents, PreStepUnheard(a) PROVE TurnsOfTheLiving'
  BY <1>6, <1>1 DEF PreStepUnheard, TurnsOfTheLiving, NoTurn, settingsVars, agentVars, Asking
<1>7. ASSUME NEW a \in Agents, Reconciled(a) PROVE TurnsOfTheLiving'
  BY <1>7, <1>1 DEF Reconciled, TurnsOfTheLiving, NoTurn, settingsVars, agentVars
<1>8. ASSUME NEW a \in Agents, NextStep(a) PROVE TurnsOfTheLiving'
  BY <1>8, <1>1 DEF NextStep, TurnsOfTheLiving, NoTurn, settingsVars, agentVars
<1>9. ASSUME NEW a \in Agents, TurnEnd(a) PROVE TurnsOfTheLiving'
  BY <1>9, <1>1 DEF TurnEnd, TurnsOfTheLiving, NoTurn, settingsVars, agentVars
<1>10. CASE
          \/ \E p \in Platforms : PreviewCertificate(p)
          \/ PreviewLapses
          \/ \E s \in Savers, i \in Inputs : SaveSubmit(s, i)
          \/ \E s \in Savers : SaveAdmit(s)
          \/ \E s \in Savers : SaveChange(s)
          \/ \E s \in Savers : SaveWritten(s)
          \/ \E s \in Savers : SaveFails(s)
          \/ \E s \in Savers : SaveDone(s)
          \/ InstallApproved
          \/ InstallStarts
          \/ InstallEnds
          \/ OwnerDisposed
          \/ OwnerReplaced
          \/ OwnerFails
          \/ \E a \in Agents : RestoreInherits(a)
          \/ \E a \in Agents : RestoreDecides(a)
          \/ \E a \in Agents : UserBindAsks(a)
          \/ \E a \in Agents : UserBindProceeds(a)
          \/ \E a \in Agents, k \in Kinds : MutationEnds(a, k)
  <2>1. UNCHANGED <<live, turn>>
    BY <1>10 DEF settingsVars, agentVars, PreviewCertificate, PreviewLapses, SaveSubmit,
       SaveAdmit, SaveChange, SaveWritten, SaveFails, SaveDone, InstallApproved,
       InstallStarts, InstallEnds, OwnerDisposed, OwnerReplaced, OwnerFails, RestoreInherits,
       RestoreDecides, UserBindAsks, UserBindProceeds, MutationEnds
  <2> QED
    BY <2>1 DEF TurnsOfTheLiving, NoTurn, settingsVars, agentVars
<1>11. CASE UNCHANGED vars
  BY <1>11 DEF vars, TurnsOfTheLiving, NoTurn, settingsVars, agentVars
<1> QED
  BY <1>2, <1>3, <1>4, <1>5, <1>6, <1>7, <1>8, <1>9, <1>10, <1>11 DEF Next, PanelStep,
     OwnerStep, TurnStep

(* Between the write and the replacement the fence and the disposal keep it quiet. *)
LEMMA RetireStep ==
  ASSUME ReloadTypeOK, FenceIsTheSaves, ChangingWithSaves, OpsOfTheOwner,
         QuietBeforeTheWrite, TurnsOfTheLiving, OwnerRetiresQuietly, [Next]_vars
  PROVE  OwnerRetiresQuietly'
<1>1. op \in [Agents -> [Kinds -> {NULL} \cup Ops]]
  BY DEF ReloadTypeOK
<1>2. turn \in [Agents -> Turns]
  BY DEF ReloadTypeOK
<1>3. owner.number \in Owners /\ owner.state \in {"active", "unloading", "gone", "failed"}
       /\ owner = [number |-> owner.number, state |-> owner.state, profile |-> owner.profile]
  BY DEF ReloadTypeOK
<1>4. ASSUME NEW s \in Savers, SaveWritten(s) PROVE OwnerRetiresQuietly'
  <2>1. /\ \A a \in Agents, k \in Kinds : ~Mutating(a, k)
        /\ \A a \in Agents : Current(a) => turn[a].at \notin {"reconciling", "stepping"}
    BY <1>4 DEF SaveWritten, QuietBeforeTheWrite
  <2>2. \A a \in Agents, k \in Kinds : ~Mutating(a, k)'
    BY <1>4, <2>1 DEF SaveWritten, Mutating, agentVars
  <2>3. owner'.profile = owner.profile /\ UNCHANGED <<binding, turn>>
    BY <1>4, <1>3 DEF SaveWritten, agentVars
  <2>4. ReloadTypeOK'
    BY TypeStep
  <2> QED
    BY <2>1, <2>2, <2>3, <2>4 DEF OwnerRetiresQuietly, Current, ReloadTypeOK
<1>5. CASE OwnerDisposed
  BY <1>5, <1>1, <1>2, <1>3, NullIsNoRecord DEF OwnerDisposed, OwnerRetiresQuietly, Mutating,
     Current, Kinds, settingsVars, agentVars
<1>6. CASE OwnerReplaced
  BY <1>6, <1>1, <1>2, <1>3, NullIsNoRecord DEF OwnerReplaced, OwnerRetiresQuietly, Mutating,
     Current, Kinds, settingsVars, agentVars
<1>7. CASE OwnerFails
  BY <1>7, <1>1, <1>2, <1>3, NullIsNoRecord DEF OwnerFails, OwnerRetiresQuietly, Mutating,
     Current, Kinds, settingsVars, agentVars
<1>8. ASSUME NEW a \in Agents, Create(a) PROVE OwnerRetiresQuietly'
  BY <1>8, <1>1, <1>2, <1>3, NullIsNoRecord DEF Create, OwnerRetiresQuietly, Mutating, Current,
     Kinds, settingsVars, agentVars, NewOp, MutationAdmitted, Alive, TurnsOfTheLiving, NoTurn
<1>9. ASSUME NEW a \in Agents, Close(a) PROVE OwnerRetiresQuietly'
  BY <1>9, <1>1, <1>2, <1>3, NullIsNoRecord DEF Close, OwnerRetiresQuietly, Mutating, Current,
     Kinds, settingsVars, agentVars
<1>10. ASSUME NEW a \in Agents, RestoreDecides(a) PROVE OwnerRetiresQuietly'
  BY <1>10, <1>1, <1>2, <1>3, NullIsNoRecord DEF RestoreDecides, OwnerRetiresQuietly, Mutating,
     Current, Kinds, settingsVars, agentVars
<1>11. ASSUME NEW a \in Agents, UserBindAsks(a) PROVE OwnerRetiresQuietly'
  BY <1>11, <1>1, <1>2, <1>3, NullIsNoRecord DEF UserBindAsks, OwnerRetiresQuietly, Mutating,
     Current, Kinds, settingsVars, agentVars, NewOp
<1>12. ASSUME NEW a \in Agents, UserBindProceeds(a) PROVE OwnerRetiresQuietly'
  BY <1>12, <1>1, <1>2, <1>3, NullIsNoRecord DEF UserBindProceeds, OwnerRetiresQuietly,
     Mutating, Current, Kinds, settingsVars, agentVars, MutationAdmitted, Alive
<1>13. ASSUME NEW a \in Agents, NEW k \in Kinds, MutationEnds(a, k) PROVE OwnerRetiresQuietly'
  BY <1>13, <1>1, <1>2, <1>3, NullIsNoRecord DEF MutationEnds, OwnerRetiresQuietly, Mutating,
     Current, Kinds, settingsVars, agentVars
<1>14. ASSUME NEW a \in Agents, TurnStart(a) PROVE OwnerRetiresQuietly'
  BY <1>14, <1>1, <1>2, <1>3, NullIsNoRecord DEF TurnStart, OwnerRetiresQuietly, Mutating,
     Current, Kinds, settingsVars, agentVars
<1>15. ASSUME NEW a \in Agents, PreStep(a) PROVE OwnerRetiresQuietly'
  BY <1>15, <1>1, <1>2, <1>3, NullIsNoRecord DEF PreStep, OwnerRetiresQuietly, Mutating,
     Current, Kinds, settingsVars, agentVars, Asking, ChangingWithSaves, FenceIsTheSaves,
     InEditor, NoTurn
<1>16. ASSUME NEW a \in Agents, PreStepUnheard(a) PROVE OwnerRetiresQuietly'
  BY <1>16, <1>1, <1>2, <1>3, NullIsNoRecord DEF PreStepUnheard, OwnerRetiresQuietly, Mutating,
     Current, Kinds, settingsVars, agentVars, Asking, Owners
<1>17. ASSUME NEW a \in Agents, Reconciled(a) PROVE OwnerRetiresQuietly'
  BY <1>17, <1>1, <1>2, <1>3, NullIsNoRecord DEF Reconciled, OwnerRetiresQuietly, Mutating,
     Current, Kinds, settingsVars, agentVars
<1>18. ASSUME NEW a \in Agents, NextStep(a) PROVE OwnerRetiresQuietly'
  BY <1>18, <1>1, <1>2, <1>3, NullIsNoRecord DEF NextStep, OwnerRetiresQuietly, Mutating,
     Current, Kinds, settingsVars, agentVars
<1>19. ASSUME NEW a \in Agents, TurnEnd(a) PROVE OwnerRetiresQuietly'
  BY <1>19, <1>1, <1>2, <1>3, NullIsNoRecord DEF TurnEnd, OwnerRetiresQuietly, Mutating,
     Current, Kinds, settingsVars, agentVars, NoTurn
<1>20. CASE
          \/ \E p \in Platforms : PreviewCertificate(p)
          \/ PreviewLapses
          \/ \E s \in Savers, i \in Inputs : SaveSubmit(s, i)
          \/ \E s \in Savers : SaveAdmit(s)
          \/ \E s \in Savers : SaveChange(s)
          \/ \E s \in Savers : SaveFails(s)
          \/ \E s \in Savers : SaveDone(s)
          \/ InstallApproved
          \/ InstallStarts
          \/ InstallEnds
  <2>1. UNCHANGED <<owner, op, binding, turn, live>>
    BY <1>20 DEF settingsVars, agentVars, PreviewCertificate, PreviewLapses, SaveSubmit,
       SaveAdmit, SaveChange, SaveFails, SaveDone, InstallApproved, InstallStarts, InstallEnds
  <2> QED
    BY <2>1 DEF OwnerRetiresQuietly, Mutating, Current, Kinds, settingsVars, agentVars
<1>21. CASE UNCHANGED vars
  BY <1>21 DEF vars, OwnerRetiresQuietly, Mutating, Current, Kinds, settingsVars, agentVars
<1>22. ASSUME NEW a \in Agents, RestoreInherits(a) PROVE OwnerRetiresQuietly'
  <2>1. Mutating(a, "restore") /\ owner' = owner
    BY <1>22 DEF RestoreInherits, Mutating
  <2>2. owner.state = "active"
    BY <2>1 DEF OwnerRetiresQuietly, Kinds
  <2> QED
    BY <2>1, <2>2 DEF OwnerRetiresQuietly
<1> QED
  BY <1>4, <1>5, <1>6, <1>7, <1>8, <1>9, <1>10, <1>11, <1>12, <1>13, <1>14, <1>15, <1>16, <1>17,
     <1>18, <1>19, <1>20, <1>21, <1>22 DEF Next, PanelStep, OwnerStep, TurnStep

(* A stored certificate, and one about to be, was shown for its address. *)
LEMMA WritesStep ==
  ASSUME ReloadTypeOK, WritesWhatWasShown, TrustIsConfirmed, [Next]_vars
  PROVE  WritesWhatWasShown'
<1>1. save \in [Savers -> {NULL} \cup Saves]
  BY DEF ReloadTypeOK
<1>2. shown \in Seq(Platforms) /\ preview \in 0..Len(shown) /\ profile.trust \in Nat
      /\ Len(shown) \in Nat
  BY ReloadAssumption DEF ReloadTypeOK, Profiles
<1>3. ASSUME NEW p \in Platforms, PreviewCertificate(p) PROVE WritesWhatWasShown'
  <2>1. Len(shown') = Len(shown) + 1 /\ \A n \in 1..Len(shown) : shown'[n] = shown[n]
    BY <1>3, <1>2 DEF PreviewCertificate
  <2>2. UNCHANGED <<save, profile>>
    BY <1>3 DEF PreviewCertificate
  <2>3. \A s \in Savers : save[s] # NULL /\ save[s].at = "writing" => save[s].next.trust \in Nat
    BY <1>1, ReloadAssumption DEF Saves, Profiles
  <2> QED
    BY <1>2, <2>1, <2>2, <2>3 DEF WritesWhatWasShown
<1>4. ASSUME NEW s \in Savers, NEW i \in Inputs, SaveSubmit(s, i) PROVE WritesWhatWasShown'
  BY <1>4, <1>1, <1>2 DEF SaveSubmit, WritesWhatWasShown, settingsVars, agentVars
<1>5. ASSUME NEW s \in Savers, SaveAdmit(s) PROVE WritesWhatWasShown'
  <2>1. save' = [save EXCEPT ![s] = save'[s]] /\ (save'[s] = NULL \/ save'[s].at = "editing")
    BY <1>5, <1>1 DEF SaveAdmit, Saves
  <2> QED
    BY <1>5, <1>1, <2>1 DEF SaveAdmit, WritesWhatWasShown
<1>6. ASSUME NEW s \in Savers, SaveChange(s) PROVE WritesWhatWasShown'
  <2>1. LET n == NextTrust(save[s].input) IN
           n <= Len(shown) /\ (n # 0 => shown[n] = save[s].input.platform)
    BY <1>6, <1>2 DEF SaveChange, NextTrust, ConfirmationHolds, TrustValid, WritesWhatWasShown
  <2> QED
    BY <1>6, <1>1, <2>1, ChangeWrites DEF SaveChange, WritesWhatWasShown
<1>7. ASSUME NEW s \in Savers, SaveWritten(s) PROVE WritesWhatWasShown'
  BY <1>7, <1>1, <1>2 DEF SaveWritten, WritesWhatWasShown, settingsVars, agentVars
<1>8. ASSUME NEW s \in Savers, SaveFails(s) PROVE WritesWhatWasShown'
  BY <1>8, <1>1, <1>2 DEF SaveFails, WritesWhatWasShown, settingsVars, agentVars
<1>9. ASSUME NEW s \in Savers, SaveDone(s) PROVE WritesWhatWasShown'
  BY <1>9, <1>1, <1>2 DEF SaveDone, WritesWhatWasShown, settingsVars, agentVars
<1>10. CASE
          \/ PreviewLapses
          \/ InstallApproved
          \/ InstallStarts
          \/ InstallEnds
          \/ OwnerDisposed
          \/ OwnerReplaced
          \/ OwnerFails
          \/ \E a \in Agents : Create(a)
          \/ \E a \in Agents : Close(a)
          \/ \E a \in Agents : RestoreInherits(a)
          \/ \E a \in Agents : RestoreDecides(a)
          \/ \E a \in Agents : UserBindAsks(a)
          \/ \E a \in Agents : UserBindProceeds(a)
          \/ \E a \in Agents, k \in Kinds : MutationEnds(a, k)
          \/ \E a \in Agents : TurnStart(a)
          \/ \E a \in Agents : PreStep(a)
          \/ \E a \in Agents : PreStepUnheard(a)
          \/ \E a \in Agents : Reconciled(a)
          \/ \E a \in Agents : NextStep(a)
          \/ \E a \in Agents : TurnEnd(a)
  <2>1. UNCHANGED <<save, profile, shown>>
    BY <1>10 DEF settingsVars, agentVars, PreviewLapses, InstallApproved, InstallStarts,
       InstallEnds, OwnerDisposed, OwnerReplaced, OwnerFails, Create, Close, RestoreInherits,
       RestoreDecides, UserBindAsks, UserBindProceeds, MutationEnds, TurnStart, PreStep,
       PreStepUnheard, Reconciled, NextStep, TurnEnd
  <2> QED
    BY <2>1 DEF WritesWhatWasShown, settingsVars, agentVars
<1>11. CASE UNCHANGED vars
  BY <1>11 DEF vars, WritesWhatWasShown, settingsVars, agentVars
<1> QED
  BY <1>3, <1>4, <1>5, <1>6, <1>7, <1>8, <1>9, <1>10, <1>11 DEF Next, PanelStep, OwnerStep, TurnStep

(* What is confirmed is what was previewed. *)
LEMMA TrustStep ==
  ASSUME ReloadTypeOK, FenceIsTheSaves, WritesWhatWasShown, TrustIsConfirmed, [Next]_vars
  PROVE  TrustIsConfirmed'
<1>1. save \in [Savers -> {NULL} \cup Saves]
  BY DEF ReloadTypeOK
<1>2. shown \in Seq(Platforms) /\ preview \in 0..Len(shown) /\ profile.trust \in Nat
      /\ Len(shown) \in Nat
  BY ReloadAssumption DEF ReloadTypeOK, Profiles
<1>3. ASSUME NEW p \in Platforms, PreviewCertificate(p) PROVE TrustIsConfirmed'
  <2>1. \A n \in 1..Len(shown) : shown'[n] = shown[n]
    BY <1>3, <1>2 DEF PreviewCertificate
  <2>2. UNCHANGED <<save, profile>>
    BY <1>3 DEF PreviewCertificate
  <2> QED
    BY <1>2, <2>1, <2>2 DEF TrustIsConfirmed, WritesWhatWasShown
<1>4. ASSUME NEW s \in Savers, NEW i \in Inputs, SaveSubmit(s, i) PROVE TrustIsConfirmed'
  BY <1>4, <1>1, <1>2 DEF SaveSubmit, TrustIsConfirmed, settingsVars, agentVars
<1>5. ASSUME NEW s \in Savers, SaveAdmit(s) PROVE TrustIsConfirmed'
  <2>1. save' = [save EXCEPT ![s] = save'[s]] /\ (save'[s] = NULL \/ save'[s].at = "editing")
    BY <1>5, <1>1 DEF SaveAdmit, Saves
  <2> QED
    BY <1>5, <1>1, <2>1 DEF SaveAdmit, TrustIsConfirmed
<1>6. ASSUME NEW s \in Savers, SaveChange(s) PROVE TrustIsConfirmed'
  <2>1. NextTrust(save[s].input) \in {0, profile.trust, save[s].input.confirm}
    BY <1>6 DEF SaveChange, NextTrust, ConfirmationHolds
  <2> QED
    BY <1>6, <1>1, <2>1, ChangeWrites DEF SaveChange, TrustIsConfirmed
<1>7. ASSUME NEW s \in Savers, SaveWritten(s) PROVE TrustIsConfirmed'
  BY <1>7, <1>1, <1>2 DEF SaveWritten, TrustIsConfirmed, settingsVars, agentVars,
     FenceIsTheSaves, InEditor, WritesWhatWasShown
<1>8. ASSUME NEW s \in Savers, SaveFails(s) PROVE TrustIsConfirmed'
  BY <1>8, <1>1, <1>2 DEF SaveFails, TrustIsConfirmed, settingsVars, agentVars
<1>9. ASSUME NEW s \in Savers, SaveDone(s) PROVE TrustIsConfirmed'
  BY <1>9, <1>1, <1>2 DEF SaveDone, TrustIsConfirmed, settingsVars, agentVars
<1>10. CASE
          \/ PreviewLapses
          \/ InstallApproved
          \/ InstallStarts
          \/ InstallEnds
          \/ OwnerDisposed
          \/ OwnerReplaced
          \/ OwnerFails
          \/ \E a \in Agents : Create(a)
          \/ \E a \in Agents : Close(a)
          \/ \E a \in Agents : RestoreInherits(a)
          \/ \E a \in Agents : RestoreDecides(a)
          \/ \E a \in Agents : UserBindAsks(a)
          \/ \E a \in Agents : UserBindProceeds(a)
          \/ \E a \in Agents, k \in Kinds : MutationEnds(a, k)
          \/ \E a \in Agents : TurnStart(a)
          \/ \E a \in Agents : PreStep(a)
          \/ \E a \in Agents : PreStepUnheard(a)
          \/ \E a \in Agents : Reconciled(a)
          \/ \E a \in Agents : NextStep(a)
          \/ \E a \in Agents : TurnEnd(a)
  <2>1. UNCHANGED <<save, profile, shown>>
    BY <1>10 DEF settingsVars, agentVars, PreviewLapses, InstallApproved, InstallStarts,
       InstallEnds, OwnerDisposed, OwnerReplaced, OwnerFails, Create, Close, RestoreInherits,
       RestoreDecides, UserBindAsks, UserBindProceeds, MutationEnds, TurnStart, PreStep,
       PreStepUnheard, Reconciled, NextStep, TurnEnd
  <2> QED
    BY <2>1 DEF TrustIsConfirmed, settingsVars, agentVars
<1>11. CASE UNCHANGED vars
  BY <1>11 DEF vars, TrustIsConfirmed, settingsVars, agentVars
<1> QED
  BY <1>3, <1>4, <1>5, <1>6, <1>7, <1>8, <1>9, <1>10, <1>11 DEF Next, PanelStep, OwnerStep, TurnStep

------------------------------------------------------------------------------
(* The theorems. *)

LEMMA Initially == Init => IInv
<1> SUFFICES ASSUME Init PROVE IInv
  OBVIOUS
<1>1. ReloadTypeOK
  <2>1. op \in [Agents -> [Kinds -> {NULL} \cup Ops]] /\ save \in [Savers -> {NULL} \cup Saves]
    BY DEF Init
  <2>2. turn \in [Agents -> Turns] /\ owner.number \in Owners /\ profile \in Profiles
    BY ReloadAssumption DEF Init, Turns, NoTurn, Owners, Profiles
  <2>3. owner \in [number : Owners, state : {"active", "unloading", "gone", "failed"},
                   profile : Profiles]
    BY <2>2 DEF Init
  <2>4. preview \in 0..Len(shown) /\ shown \in Seq(Platforms) /\ Len(shown) <= MaxPreviews
    BY ReloadAssumption DEF Init
  <2> QED
    BY <2>1, <2>2, <2>3, <2>4 DEF Init, ReloadTypeOK
<1>2. ChangingWithSaves /\ OpsOfTheOwner /\ QuietBeforeTheWrite /\ FenceIsTheSaves
  BY DEF Init, ChangingWithSaves, OpsOfTheOwner, QuietBeforeTheWrite, FenceIsTheSaves, InEditor
<1>3. TurnsOfTheLiving /\ OwnerRetiresQuietly
  BY DEF Init, TurnsOfTheLiving, OwnerRetiresQuietly
<1>4. WritesWhatWasShown /\ TrustIsConfirmed
  BY DEF Init, WritesWhatWasShown, TrustIsConfirmed, Profiles
<1> QED
  BY <1>1, <1>2, <1>3, <1>4 DEF IInv

LEMMA Inductive == IInv /\ [Next]_vars => IInv'
BY TypeStep, FenceStep, ChangingStep, OpsStep, QuietStep, LivingStep, RetireStep, WritesStep,
   TrustStep DEF IInv

LEMMA Invariantly == Spec => []IInv
BY Initially, Inductive, PTL DEF Spec

(* Every variable of the settings, the owner, the sessions and their turns has its type
   in every reachable state. *)
THEOREM ReloadTypes == Spec => []ReloadTypeOK
<1>1. IInv => ReloadTypeOK
  BY DEF IInv
<1> QED
  BY <1>1, Invariantly, PTL

(* The fence is up exactly while one save is in the editor, however many panels save. *)
THEOREM OneSaveAtATime == Spec => []FenceIsTheSaves
<1>1. IInv => FenceIsTheSaves
  BY DEF IInv
<1> QED
  BY <1>1, Invariantly, PTL

(* The owner is only taken down while no binding write of its own is under way, and no
   turn that it let through runs on its platform. *)
THEOREM QuietRetirement == Spec => []OwnerRetiresQuietly
<1>1. IInv => OwnerRetiresQuietly
  BY DEF IInv
<1> QED
  BY <1>1, Invariantly, PTL

(* The exemption from the fence is used by the restorations of the new owner alone. *)
THEOREM ExemptionIsNarrow == Spec => []ExemptionIsTheRestorations
<1>1. IInv => ExemptionIsTheRestorations
  BY DEF IInv, OpsOfTheOwner, ExemptionIsTheRestorations, Mutating
<1> QED
  BY <1>1, Invariantly, PTL

(* No certificate is stored that was not shown for the stored address and confirmed. *)
THEOREM ConfirmedTrust == Spec => []TrustIsConfirmed
<1>1. IInv => TrustIsConfirmed
  BY DEF IInv
<1> QED
  BY <1>1, Invariantly, PTL

(* A network chosen by the user or for the workspace is bound under the profile's address.
   A fork may inherit another one, and an owner that was replaced, or that is being
   replaced, writes no binding at all. *)
THEOREM BindsForTheProfile == Spec => BoundForTheProfile
<1> DEFINE Bound(a) == owner.state = "active" /\ (binding'[a] = profile.platform \/ Inherits(a))
<1>1. IInv /\ [Next]_vars => [\A a \in Agents : binding'[a] # binding[a] => Bound(a)]_vars
  <2> SUFFICES ASSUME IInv, [Next]_vars, NEW a \in Agents, binding'[a] # binding[a]
               PROVE  Bound(a)
    OBVIOUS
  <2>1. CASE \E b \in Agents : RestoreInherits(b)
    <3>1. PICK b \in Agents : RestoreInherits(b)
      BY <2>1
    <3>2. b = a /\ op[a]["restore"] # NULL /\ op[a]["restore"].at = "inheriting"
      BY <3>1 DEF RestoreInherits, IInv, ReloadTypeOK
    <3>3. op'[a]["restore"].at = "reading" \/ op'[a]["restore"] = NULL
      <4>1. op[a] \in [Kinds -> {NULL} \cup Ops] /\ op[a]["restore"] \in Ops
        BY <3>2 DEF IInv, ReloadTypeOK, Kinds
      <4> QED
        BY <3>1, <3>2, <4>1 DEF RestoreInherits, IInv, ReloadTypeOK, Kinds, Ops
    <3>4. Inherits(a)
      BY <3>2, <3>3 DEF Inherits
    <3>5. owner.state = "active"
      BY <3>2 DEF IInv, OpsOfTheOwner, Kinds
    <3> QED
      BY <3>4, <3>5
  <2>2. CASE \E b \in Agents, k \in Kinds : MutationEnds(b, k)
    <3>1. PICK b \in Agents, k \in Kinds : MutationEnds(b, k)
      BY <2>2
    <3>2. op[b][k] # NULL /\ op[b][k].at = "writing"
      BY <3>1 DEF MutationEnds
    <3>3. op[b][k].platform = profile.platform /\ owner.state = "active"
      BY <3>2 DEF IInv, OpsOfTheOwner, ChangingWithSaves
    <3>4. binding' = [binding EXCEPT ![b] = op[b][k].platform]
      BY <3>1 DEF MutationEnds
    <3> QED
      BY <3>3, <3>4 DEF IInv, ReloadTypeOK
  <2> QED
    BY <2>1, <2>2 DEF Next, PanelStep, OwnerStep, TurnStep, settingsVars, agentVars, vars,
       PreviewCertificate, PreviewLapses, SaveSubmit, SaveAdmit, SaveChange, SaveWritten,
       SaveFails, SaveDone, InstallApproved, InstallStarts, InstallEnds, OwnerDisposed,
       OwnerReplaced, OwnerFails, Create, Close, RestoreDecides, UserBindAsks,
       UserBindProceeds, TurnStart, PreStep, PreStepUnheard, Reconciled, NextStep, TurnEnd
<1> QED
  BY <1>1, Invariantly, PTL DEF Spec, BoundForTheProfile
==============================================================================
