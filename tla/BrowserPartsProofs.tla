------------------------- MODULE BrowserPartsProofs --------------------------
(* Theorems about the parts that serve one browser, for any numbers of panels, owners,
   addresses, operations, chunks and faults.  Each part has an inductive invariant of
   its own. *)
EXTENDS CliSetup, BusinessPanel, Diagnostics, ProvenanceDetail, SequenceTheorems, TLAPS

------------------------------------------------------------------------------
(* CliSetup: the one installation that is not over is the one check() sees. *)

States == {"missing", "blocked", "failed", "ready", "installing"}
Views == [state : States, version : {Absent} \cup Versions]
Probes == [at : {"none", "sent", "probing", "answered"}, view : Views]
Shown == [life : {"new", "open", "closed"}, phase : States \cup {"idle", "checking"},
          clicked : {Absent} \cup Versions, timer : BOOLEAN]
Runs == [at : {"inspecting", "cleared", "npm", "verifying", "over"}, version : Versions,
         users : BOOLEAN]
Requests == [at : {"none", "sent", "waiting", "answered"}, version : {Absent} \cup Versions,
             view : Views]
SetupTypes ==
  /\ cli \in {Absent} \cup Versions
  /\ run \in Seq(Runs) /\ running \in 0 .. Len(run)
  /\ panel \in [Panels -> Shown]
  /\ probe \in [Panels -> Probes]
  /\ asked \in [Panels -> Requests]
  /\ \A p \in Panels : asked[p].at = "sent" => asked[p].version \in Versions
OneUnderWay == \A k \in DOMAIN run : run[k].at # "over" => k = running
NpmOnNothing ==
  \A k \in DOMAIN run : run[k].at \in {"cleared", "npm"} => cli = Absent \/ run[k].users
SetupInv == SetupTypes /\ OneUnderWay /\ NpmOnNothing

\* What the Host says of itself, and what is not asked, have their types.
LEMMA ViewsAreViews ==
  ASSUME cli \in {Absent} \cup Versions
  PROVE  /\ \A s \in States, v \in {Absent} \cup Versions : View(s, v) \in Views
         /\ \A v \in Versions : Ready(v) \in Views
         /\ Missing \in Views /\ Blocked \in Views /\ Failed \in Views
         /\ Inspected \subseteq Views
         /\ Idle \in Probes
<1>1. /\ Absent \in {Absent} \cup Versions /\ Versions \subseteq {Absent} \cup Versions
      /\ States = {"missing", "blocked", "failed", "ready", "installing"}
  BY DEF States
<1>2. ASSUME NEW s \in States, NEW v \in {Absent} \cup Versions PROVE View(s, v) \in Views
  BY DEF View, Views
<1>3. \A v \in Versions : Ready(v) \in Views
  BY <1>1, <1>2 DEF Ready
<1>4. Missing \in Views /\ Blocked \in Views /\ Failed \in Views
  BY <1>1, <1>2 DEF Missing, Blocked, Failed
<1>5. Inspected \subseteq Views
  BY <1>3, <1>4 DEF Inspected
<1>6. Idle \in Probes
  BY <1>4 DEF Idle, Probes
<1> QED
  BY <1>2, <1>3, <1>4, <1>5, <1>6

\* Settling ends one installation, and changes no other.
LEMMA SettlesEndsOne ==
  ASSUME SetupInv, NEW k \in DOMAIN run, NEW view \in Views,
         Settles(k, view)
  PROVE  /\ run' \in Seq(Runs) /\ Len(run') = Len(run) /\ running' \in 0 .. Len(run')
         /\ \A j \in DOMAIN run : run'[j] = IF j = k THEN [run[k] EXCEPT !.at = "over"] ELSE run[j]
         /\ OneUnderWay'
         /\ asked' \in [Panels -> Requests]
         /\ \A p \in Panels : asked'[p].at = "sent" => asked'[p].version \in Versions
<1> DEFINE r == [run[k] EXCEPT !.at = "over"]
<1>1. run \in Seq(Runs) /\ k \in 1 .. Len(run) /\ run[k] \in Runs
  BY ElementOfSeq, LenProperties DEF SetupInv, SetupTypes
<1>2. r \in Runs /\ r.at = "over"
  BY <1>1 DEF Runs
<1>3. run' = [run EXCEPT ![k] = r]
  BY DEF Settles
<1> HIDE DEF r
<1>4. /\ run' \in Seq(Runs) /\ Len(run') = Len(run)
      /\ \A j \in 1 .. Len(run) : run'[j] = IF j = k THEN r ELSE run[j]
  BY <1>1, <1>2, <1>3, ExceptSeq
<1>5. DOMAIN run = 1 .. Len(run) /\ DOMAIN run' = 1 .. Len(run')
  BY <1>1, <1>4, LenProperties
<1>6. running' \in 0 .. Len(run')
  <2>1. Len(run) \in Nat /\ running \in 0 .. Len(run) /\ running' \in {0, running}
    BY <1>1, LenProperties DEF Settles, SetupInv, SetupTypes
  <2> QED
    BY <2>1, <1>4
<1>7. OneUnderWay'
  BY <1>2, <1>4, <1>5 DEF Settles, SetupInv, OneUnderWay
<1>8. \A p \in Panels : asked[p] \in Requests
  BY DEF SetupInv, SetupTypes
<1>9. \A p \in Panels : [asked[p] EXCEPT !.at = "answered", !.view = view] \in Requests
  BY <1>8 DEF Requests
<1>10. \A p \in Panels : [asked[p] EXCEPT !.at = "answered", !.view = view].at = "answered"
  BY <1>8 DEF Requests
<1>11. asked' \in [Panels -> Requests]
  BY <1>8, <1>9 DEF Settles
<1>12. \A p \in Panels : asked'[p].at = "sent" => asked'[p].version \in Versions
  BY <1>10 DEF Settles, SetupInv, SetupTypes
<1> QED
  BY <1>4, <1>5, <1>6, <1>7, <1>11, <1>12 DEF r

LEMMA SetupInitially == SetupInit => SetupInv
<1> SUFFICES ASSUME SetupInit PROVE SetupInv
  OBVIOUS
<1>1. run = <<>> /\ run \in Seq(Runs) /\ DOMAIN run = {} /\ Len(run) = 0
  BY EmptySeq, LenProperties DEF SetupInit
<1>2. Missing \in Views /\ Idle \in Probes
  BY ViewsAreViews DEF SetupInit
<1>3. /\ [life |-> "new", phase |-> "idle", clicked |-> Absent, timer |-> FALSE] \in Shown
      /\ [at |-> "none", version |-> Absent, view |-> Missing] \in Requests
  BY <1>2 DEF Shown, Requests
<1>4. SetupTypes
  BY <1>1, <1>2, <1>3 DEF SetupInit, SetupTypes
<1> QED
  BY <1>1, <1>4 DEF SetupInv, OneUnderWay, NpmOnNothing

\* The steps of the panels leave the installations alone.
LEMMA PanelsLeaveRuns ==
  ASSUME SetupInv, UNCHANGED <<cli, run, running>>,
         panel' \in [Panels -> Shown], probe' \in [Panels -> Probes],
         asked' \in [Panels -> Requests],
         \A p \in Panels : asked'[p].at = "sent" => asked'[p].version \in Versions
  PROVE  SetupInv'
BY DEF SetupInv, SetupTypes, OneUnderWay, NpmOnNothing

LEMMA SetupSteps == SetupInv /\ [SetupNext]_setupVars => SetupInv'
<1> SUFFICES ASSUME SetupInv, [SetupNext]_setupVars PROVE SetupInv'
  OBVIOUS
<1>1. /\ cli \in {Absent} \cup Versions
      /\ run \in Seq(Runs) /\ DOMAIN run = 1 .. Len(run) /\ Len(run) \in Nat
      /\ running \in 0 .. Len(run)
      /\ panel \in [Panels -> Shown] /\ probe \in [Panels -> Probes]
      /\ asked \in [Panels -> Requests]
      /\ \A p \in Panels : asked[p].at = "sent" => asked[p].version \in Versions
      /\ \A k \in DOMAIN run : run[k] \in Runs
  BY LenProperties, ElementOfSeq DEF SetupInv, SetupTypes
<1>2. /\ \A v \in Versions : Ready(v) \in Views
      /\ Missing \in Views /\ Blocked \in Views /\ Failed \in Views
      /\ Inspected \subseteq Views /\ Idle \in Probes
      /\ \A s \in States, v \in {Absent} \cup Versions : View(s, v) \in Views
  BY <1>1, ViewsAreViews
<1>3. ASSUME NEW p \in Panels, NEW clicked \in {Absent} \cup Versions, Inspect(p, clicked)
      PROVE  panel' \in [Panels -> Shown] /\ probe' \in [Panels -> Probes]
  <2> DEFINE r == [panel[p] EXCEPT !.timer = FALSE, !.clicked = clicked,
                             !.phase = IF @ = "installing" THEN @ ELSE "checking"]
             a == [at |-> "sent", view |-> Missing]
  <2>1. panel[p] \in Shown
    BY <1>1
  <2>2. r \in Shown
    BY <2>1 DEF Shown, States
  <2>3. a \in Probes
    BY <1>2 DEF Probes
  <2>4. panel' = [panel EXCEPT ![p] = r] /\ probe' = [probe EXCEPT ![p] = a]
    BY <1>3 DEF Inspect
  <2> HIDE DEF r, a
  <2> QED
    BY <1>1, <2>2, <2>3, <2>4
<1>4. ASSUME NEW r \in Shown, NEW view \in Views
      PROVE  Accept(r, view) \in Shown /\ Accept(r, view).clicked = r.clicked
  BY <1>4 DEF Accept, Shown, Views
<1>5. ASSUME NEW p \in Panels, NEW r \in Shown
      PROVE  [panel EXCEPT ![p] = r] \in [Panels -> Shown]
  BY <1>1
<1>6. ASSUME NEW p \in Panels, NEW a \in Probes
      PROVE  [probe EXCEPT ![p] = a] \in [Panels -> Probes]
  BY <1>1
<1>10. ASSUME NEW p \in Panels, Opens(p) PROVE SetupInv'
  <2>1. panel' \in [Panels -> Shown]
    BY <1>1, <1>10 DEF Opens, Shown
  <2> QED
    BY <1>1, <1>10, <2>1, PanelsLeaveRuns DEF Opens, host
<1>11. ASSUME NEW p \in Panels, Checks(p) PROVE SetupInv'
  BY <1>1, <1>3, <1>11, PanelsLeaveRuns DEF Checks, host
<1>12. ASSUME NEW p \in Panels, CheckAnswered(p) PROVE SetupInv'
  <2> DEFINE view == probe[p].view
             r == Accept(panel[p], view)
  <2>10. panel[p] \in Shown /\ probe[p] \in Probes
    BY <1>1
  <2>11. view \in Views
    BY <2>10 DEF Probes
  <2>1. r \in Shown /\ r.clicked = panel[p].clicked
    BY <1>4, <2>10, <2>11
  <2>2. /\ [r EXCEPT !.phase = "installing"] \in Shown
        /\ [r EXCEPT !.clicked = Absent] \in Shown
    BY <2>1 DEF Shown, States
  <2>3. panel' \in {[panel EXCEPT ![p] = [r EXCEPT !.phase = "installing"]],
                   [panel EXCEPT ![p] = [r EXCEPT !.clicked = Absent]]}
    BY <1>12 DEF CheckAnswered
  <2>4. panel' \in [Panels -> Shown]
    BY <1>5, <2>2, <2>3
  <2>5. probe' \in [Panels -> Probes]
    BY <1>2, <1>6, <1>12 DEF CheckAnswered
  <2>6. CASE Clicking(p) /\ view = Missing
    <3>1. panel[p].clicked \in Versions
      BY <2>6, <2>10 DEF Clicking, Shown
    <3>2. asked' = [asked EXCEPT ![p].at = "sent", ![p].version = panel[p].clicked]
      BY <1>12, <2>6 DEF CheckAnswered
    <3>3. asked[p] \in Requests
      BY <1>1
    <3>4. /\ asked' \in [Panels -> Requests]
          /\ \A q \in Panels : asked'[q].at = "sent" => asked'[q].version \in Versions
      BY <1>1, <3>1, <3>2, <3>3 DEF Requests
    <3> QED
      BY <1>12, <2>4, <2>5, <3>4, PanelsLeaveRuns DEF CheckAnswered, host
  <2>7. CASE ~(Clicking(p) /\ view = Missing)
    <3>1. UNCHANGED asked
      BY <1>12, <2>7 DEF CheckAnswered
    <3> QED
      BY <1>1, <1>12, <2>4, <2>5, <3>1, PanelsLeaveRuns DEF CheckAnswered, host
  <2> QED
    BY <2>6, <2>7
<1>13. ASSUME NEW p \in Panels, CheckFails(p) PROVE SetupInv'
  <2> DEFINE r == [panel[p] EXCEPT !.phase = "failed", !.clicked = Absent]
  <2>2. panel[p] \in Shown
    BY <1>1
  <2>3. r \in Shown
    BY <2>2 DEF Shown, States
  <2>4. panel' = [panel EXCEPT ![p] = r] /\ probe' = [probe EXCEPT ![p] = Idle]
    BY <1>13 DEF CheckFails
  <2> HIDE DEF r
  <2>1. panel' \in [Panels -> Shown] /\ probe' \in [Panels -> Probes]
    BY <1>2, <1>5, <1>6, <2>3, <2>4
  <2> QED
    BY <1>1, <1>13, <2>1, PanelsLeaveRuns DEF CheckFails, host
<1>14. ASSUME NEW p \in Panels, Polls(p) PROVE SetupInv'
  BY <1>1, <1>3, <1>14, PanelsLeaveRuns DEF Polls, host
<1>15. ASSUME NEW p \in Panels, NEW lost \in BOOLEAN, InstallAnswered(p, lost) PROVE SetupInv'
  <2> DEFINE view == IF lost THEN Failed ELSE asked[p].view
             r == Accept(panel[p], view)
  <2>1. asked[p] \in Requests /\ view \in Views /\ panel[p] \in Shown
    BY <1>1, <1>2 DEF Requests
  <2>2. r \in Shown
    BY <1>4, <2>1
  <2>3. [r EXCEPT !.clicked = Absent] \in Shown
    BY <2>2 DEF Shown, States
  <2>4. panel' = [panel EXCEPT ![p] = [r EXCEPT !.clicked = Absent]]
    BY <1>15 DEF InstallAnswered
  <2>5. panel' \in [Panels -> Shown]
    BY <1>5, <2>3, <2>4
  <2>6. /\ asked' \in [Panels -> Requests]
        /\ \A q \in Panels : asked'[q].at = "sent" => asked'[q].version \in Versions
    BY <1>1, <1>15, <2>1 DEF InstallAnswered, Requests
  <2> QED
    BY <1>1, <1>15, <2>5, <2>6, PanelsLeaveRuns DEF InstallAnswered, host
<1>16. ASSUME NEW p \in Panels, Disposes(p) PROVE SetupInv'
  <2> DEFINE r == [life |-> "closed", phase |-> "idle", clicked |-> Absent, timer |-> FALSE]
  <2>2. r \in Shown
    BY DEF Shown, States
  <2>3. panel' = [panel EXCEPT ![p] = r] /\ probe' = [probe EXCEPT ![p] = Idle]
    BY <1>16 DEF Disposes
  <2> HIDE DEF r
  <2>1. panel' \in [Panels -> Shown] /\ probe' \in [Panels -> Probes]
    BY <1>2, <1>5, <1>6, <2>2, <2>3
  <2> QED
    BY <1>1, <1>16, <2>1, PanelsLeaveRuns DEF Disposes, host
<1>17. ASSUME NEW p \in Panels, HostChecks(p) PROVE SetupInv'
  <2>1. running # 0 => run[running] \in Runs
    BY <1>1
  <2>2. running # 0 => run[running].version \in {Absent} \cup Versions
    BY <2>1 DEF Runs
  <2>4. running # 0 => View("installing", run[running].version) \in Views
    BY <1>2, <2>2 DEF States
  <2> DEFINE a == IF running # 0
                  THEN [at |-> "answered", view |-> View("installing", run[running].version)]
                  ELSE [at |-> "probing", view |-> Missing]
  <2>5. a \in Probes
    BY <1>2, <2>4 DEF Probes
  <2>6. probe' = [probe EXCEPT ![p] = a]
    BY <1>17 DEF HostChecks
  <2> HIDE DEF a
  <2>3. probe' \in [Panels -> Probes]
    BY <1>6, <2>5, <2>6
  <2> QED
    BY <1>1, <1>17, <2>3, PanelsLeaveRuns DEF HostChecks, host
<1>18. ASSUME NEW p \in Panels, HostProbes(p) PROVE SetupInv'
  <2>2. PICK view \in Inspected : probe' = [probe EXCEPT ![p] = [at |-> "answered", view |-> view]]
    BY <1>18 DEF HostProbes
  <2>3. [at |-> "answered", view |-> view] \in Probes
    BY <1>2 DEF Probes
  <2>1. probe' \in [Panels -> Probes]
    BY <1>6, <2>2, <2>3
  <2> QED
    BY <1>1, <1>18, <2>1, PanelsLeaveRuns DEF HostProbes, host
\* The only step with which an installation begins; it does while none is under way.
<1>19. ASSUME NEW p \in Panels, HostInstalls(p) PROVE SetupInv'
  <2>1. asked[p] \in Requests /\ asked[p].version \in Versions
    BY <1>1, <1>19 DEF HostInstalls
  <2>2. /\ asked' \in [Panels -> Requests]
        /\ \A q \in Panels : asked'[q].at = "sent" => asked'[q].version \in Versions
    <3> DEFINE r == [asked[p] EXCEPT !.at = "answered", !.view = Blocked]
               w == [asked[p] EXCEPT !.at = "waiting"]
    <3>1. r \in Requests /\ w \in Requests /\ r.at # "sent" /\ w.at # "sent"
      BY <1>2, <2>1 DEF Requests
    <3>2. asked' \in {[asked EXCEPT ![p] = r], [asked EXCEPT ![p] = w]}
      BY <1>19 DEF HostInstalls
    <3> HIDE DEF r, w
    <3> QED
      BY <1>1, <3>1, <3>2
  <2>3. CASE UNCHANGED <<run, running>>
    BY <1>1, <1>19, <2>2, <2>3, PanelsLeaveRuns DEF HostInstalls
  <2>4. CASE running = 0 /\ running' = Len(run')
             /\ run' = Append(run, [at |-> "inspecting", version |-> asked[p].version, users |-> FALSE])
    <3> DEFINE r == [at |-> "inspecting", version |-> asked[p].version, users |-> FALSE]
    <3>1. r \in Runs /\ r.at = "inspecting"
      BY <2>1 DEF Runs
    <3> HIDE DEF r
    <3>2. /\ run' \in Seq(Runs) /\ Len(run') = Len(run) + 1
          /\ \A j \in 1 .. Len(run) : run'[j] = run[j]
          /\ run'[Len(run) + 1] = r
      BY <1>1, <2>4, <3>1 DEF r
    <3>3. DOMAIN run' = 1 .. Len(run) + 1
      BY <3>2, LenProperties
    <3>4. OneUnderWay'
      BY <1>1, <2>4, <3>2, <3>3 DEF SetupInv, OneUnderWay
    <3>5. NpmOnNothing'
      BY <1>1, <1>19, <3>1, <3>2, <3>3 DEF HostInstalls, SetupInv, NpmOnNothing
    <3>6. SetupTypes'
      <4>1. running' \in 0 .. Len(run')
        BY <1>1, <2>4, <3>2
      <4> QED
        BY <1>1, <1>19, <2>2, <3>2, <4>1 DEF HostInstalls, SetupTypes
    <3> QED
      BY <3>4, <3>5, <3>6 DEF SetupInv
  <2> QED
    BY <1>19, <2>3, <2>4 DEF HostInstalls
\* A step of one installation that is not its last.
<1>20. ASSUME NEW k \in DOMAIN run, run[k].at # "over", NEW r \in Runs,
              run' = [run EXCEPT ![k] = r], UNCHANGED <<running, asked, panel, probe>>,
              cli' \in {Absent} \cup Versions,
              r.at \in {"cleared", "npm"} => cli' = Absent \/ r.users
       PROVE  SetupInv'
  <2>3. /\ run' \in Seq(Runs) /\ Len(run') = Len(run)
        /\ \A j \in 1 .. Len(run) : run'[j] = IF j = k THEN r ELSE run[j]
    BY <1>1, <1>20, ExceptSeq
  <2>4. DOMAIN run' = DOMAIN run
    BY <1>1, <2>3, LenProperties
  <2>5. OneUnderWay'
    BY <1>1, <1>20, <2>3, <2>4 DEF SetupInv, OneUnderWay
  <2>6. NpmOnNothing'
    BY <1>1, <1>20, <2>3, <2>4 DEF SetupInv, OneUnderWay, NpmOnNothing
  <2>7. SetupTypes'
    BY <1>1, <1>20, <2>3 DEF SetupTypes
  <2> QED
    BY <2>5, <2>6, <2>7 DEF SetupInv
\* The last step of an installation.
<1>21. ASSUME NEW k \in DOMAIN run, run[k].at # "over", NEW view \in Views, Settles(k, view),
              UNCHANGED <<panel, probe>>, cli' \in {Absent} \cup Versions
       PROVE  SetupInv'
  <2>1. /\ run' \in Seq(Runs) /\ Len(run') = Len(run) /\ running' \in 0 .. Len(run')
        /\ \A j \in DOMAIN run : run'[j] = IF j = k THEN [run[k] EXCEPT !.at = "over"] ELSE run[j]
        /\ OneUnderWay'
        /\ asked' \in [Panels -> Requests]
        /\ \A p \in Panels : asked'[p].at = "sent" => asked'[p].version \in Versions
    BY <1>21, SettlesEndsOne
  <2>2. DOMAIN run' = DOMAIN run
    BY <1>1, <2>1, LenProperties
  <2>3. run[k] \in Runs /\ [run[k] EXCEPT !.at = "over"].at = "over"
    BY <1>1 DEF Runs
  <2>4. \A j \in DOMAIN run' : run'[j].at = "over"
    BY <1>21, <2>1, <2>2, <2>3 DEF SetupInv, OneUnderWay
  <2> QED
    BY <1>1, <1>21, <2>1, <2>4 DEF SetupInv, SetupTypes, NpmOnNothing
<1>22. ASSUME NEW k \in DOMAIN run, LooksAgain(k) PROVE SetupInv'
  <2> DEFINE r == [run[k] EXCEPT !.at = "cleared", !.users = FALSE]
  <2>1. PICK view \in (IF alive THEN Inspected ELSE {Failed}) :
          IF view = Missing THEN run' = [run EXCEPT ![k] = r] /\ UNCHANGED <<running, asked>>
                            ELSE Settles(k, view)
    BY <1>22 DEF LooksAgain
  <2>2. view \in Views /\ (view = Missing => cli = Absent)
    BY <1>1, <1>2, <2>1 DEF Inspected, Missing, Failed, Blocked, Ready, View
  <2>3. r \in Runs
    BY <1>1 DEF Runs
  <2> HIDE DEF r
  <2> QED
    BY <1>1, <1>20, <1>21, <1>22, <2>1, <2>2, <2>3 DEF LooksAgain, Performing
<1>23. ASSUME NEW k \in DOMAIN run, NEW ok \in BOOLEAN, NpmEnds(k, ok) PROVE SetupInv'
  <2> DEFINE r == [run[k] EXCEPT !.at = "verifying"]
  <2>1. cli' \in {Absent} \cup Versions
    BY <1>1, <1>23 DEF NpmEnds, Runs
  <2>2. r \in Runs /\ r.at = "verifying"
    BY <1>1 DEF Runs
  <2>3. IF ok THEN run' = [run EXCEPT ![k] = r] /\ UNCHANGED <<running, asked>>
              ELSE Settles(k, Failed)
    BY <1>23 DEF NpmEnds
  <2> HIDE DEF r
  <2> QED
    BY <1>1, <1>2, <1>20, <1>21, <1>23, <2>1, <2>2, <2>3 DEF NpmEnds, Performing
<1>24. ASSUME NEW k \in DOMAIN run, Verifies(k) PROVE SetupInv'
  <2>1. PICK view :
          view \in {Failed} \cup (IF alive /\ cli = run[k].version THEN {Ready(cli)} ELSE {})
                    /\ Settles(k, view)
    BY <1>24 DEF Verifies
  <2>2. view \in Views
    BY <1>1, <1>2, <2>1 DEF Runs
  <2> QED
    BY <1>1, <1>21, <1>24, <2>1, <2>2 DEF Verifies, Performing
<1>25. ASSUME NEW k \in DOMAIN run, StartsNpm(k) PROVE SetupInv'
  <2> DEFINE r == [run[k] EXCEPT !.at = "npm"]
  <2>1. run[k].at = "cleared" /\ UNCHANGED <<cli, panel, probe>>
    BY <1>25 DEF StartsNpm, Performing
  <2>2. r \in Runs /\ r.users = run[k].users
    BY <1>1 DEF Runs
  <2>3. cli = Absent \/ run[k].users
    BY <2>1 DEF SetupInv, NpmOnNothing
  <2>4. \/ run' = [run EXCEPT ![k] = r] /\ UNCHANGED <<running, asked>>
        \/ Settles(k, Failed)
    BY <1>25 DEF StartsNpm
  <2> HIDE DEF r
  <2> QED
    BY <1>1, <1>2, <1>20, <1>21, <2>1, <2>2, <2>3, <2>4
<1>26. CASE UserChangesCli
  <2>1. \A k \in 1 .. Len(run) : /\ [run[k] EXCEPT !.users = TRUE] \in Runs
                                 /\ [run[k] EXCEPT !.users = TRUE].users
                                 /\ [run[k] EXCEPT !.users = TRUE].at = run[k].at
    BY <1>1 DEF Runs
  <2>2. run' \in [1 .. Len(run) -> Runs]
    BY <1>1, <1>26, <2>1 DEF UserChangesCli
  <2>3. run' \in Seq(Runs) /\ Len(run') = Len(run) /\ DOMAIN run' = DOMAIN run
    BY <1>1, <2>2, SeqDef, LenProperties
  <2>4. \A k \in DOMAIN run : run'[k].users /\ run'[k].at = run[k].at
    BY <1>1, <1>26, <2>1 DEF UserChangesCli
  <2>5. cli' \in {Absent} \cup Versions /\ UNCHANGED <<running, panel, probe, asked>>
    BY <1>26 DEF UserChangesCli
  <2>6. SetupTypes'
    BY <1>1, <2>3, <2>5 DEF SetupTypes
  <2> QED
    BY <2>3, <2>4, <2>5, <2>6 DEF SetupInv, OneUnderWay, NpmOnNothing
<1>27. CASE HostDisposed
  BY <1>1, <1>27, PanelsLeaveRuns DEF HostDisposed
<1>28. CASE UNCHANGED setupVars
  BY <1>1, <1>28, PanelsLeaveRuns DEF setupVars, host
<1> QED
  BY <1>10, <1>11, <1>12, <1>13, <1>14, <1>15, <1>16, <1>17, <1>18, <1>19, <1>22, <1>23, <1>24,
     <1>25, <1>26, <1>27, <1>28
  DEF SetupNext, HostStep, RunStep, PanelStep

\* npm runs alone, and where the installation itself found no CLI, for any number of
\* panels and whatever they saw: performInstall looks again, and install joins what is
\* under way. Only what the user installs after that look may be there.
THEOREM NpmIsCareful == SetupSpec => []NpmRunsAloneOnNothing
<1>1. SetupInv => NpmRunsAloneOnNothing
  BY DEF SetupInv, OneUnderWay, NpmOnNothing, NpmRunsAloneOnNothing
<1> QED
  BY <1>1, SetupInitially, SetupSteps, PTL DEF SetupSpec

------------------------------------------------------------------------------
(* BusinessPanel: while a call that reads the business is under way the owner is the one
   that was called, since every change of it ends the call. *)

Screens == [open : BOOLEAN, networks : Nat,
            phase : {"idle", "loading", "configuration", "authentication-required", "error",
                     "ready", "binding"},
            login : {"none", "waiting", "cancelled", "timed-out", "failed", "succeeded"}]
PanelCalls == [from : Nat, timer : BOOLEAN,
          at : {"none", "configuration", "settings", "saving", "status", "list", "login",
                "loginStatus", "opening", "binding"}]
PanelTypes  == conn \in Nat /\ owners \in Nat /\ ui \in Screens /\ op \in PanelCalls
ShutIsIdle  == ~ui.open => ui.phase = "idle" /\ ui.login # "waiting"
OfTheOwner  == ui.phase \in {"ready", "binding"} => conn # 0 /\ ui.networks = conn
ReadingIs   == op.at \in {"configuration", "status", "list", "login", "loginStatus"} =>
                 ui.phase = "loading"
CallsOwner  == op.at \in {"status", "list", "login", "loginStatus"} => op.from = conn
ListsOwner  == op.at \in {"list", "loginStatus"} => op.from # 0
OpeningIs   == op.at \in {"opening", "binding"} => ui.phase = "binding"
SettingsAre == op.at \in {"settings", "saving"} => ui.phase = "configuration"
TimedLogin  == op.timer => op.at \in {"login", "loginStatus"}
PanelInv == /\ PanelTypes /\ TimedLogin /\ ShutIsIdle /\ OfTheOwner /\ ReadingIs /\ CallsOwner
            /\ ListsOwner /\ OpeningIs /\ SettingsAre

LEMMA PanelInitially == PanelInit => PanelInv
<1> SUFFICES ASSUME PanelInit PROVE PanelInv
  OBVIOUS
<1>1. ui = [open |-> FALSE, phase |-> "idle", login |-> "none", networks |-> 0]
  BY DEF PanelInit, Shut, Fresh, Shows
<1>2. op = [at |-> "none", from |-> 0, timer |-> FALSE]
  BY DEF PanelInit, None
<1>3. ui \in Screens /\ op \in PanelCalls
  BY <1>1, <1>2 DEF Screens, PanelCalls
<1> QED
  BY <1>1, <1>2, <1>3 DEF PanelInit, PanelInv, PanelTypes, ShutIsIdle, OfTheOwner, ReadingIs,
     CallsOwner, ListsOwner, OpeningIs, SettingsAre, TimedLogin

\* Whatever ends the operation under way leaves nothing to be known of it.
LEMMA EndedIsFine ==
  ASSUME conn' \in Nat, owners' \in Nat, ui' \in Screens, op' = None, ShutIsIdle', OfTheOwner'
  PROVE  PanelInv'
BY DEF None, PanelInv, PanelTypes, PanelCalls, ReadingIs, CallsOwner, ListsOwner, OpeningIs,
       SettingsAre, TimedLogin

\* A screen with one phase and no networks.
LEMMA FreshScreens ==
  ASSUME NEW phase \in {"idle", "loading", "configuration", "authentication-required", "error"},
         NEW login \in {"none", "waiting", "failed", "succeeded"}, ui' = Shows(phase, login)
  PROVE  ui' \in Screens /\ ShutIsIdle' /\ OfTheOwner' /\ ui'.phase = phase
BY DEF Shows, Screens, ShutIsIdle, OfTheOwner

\* The steps that end what is under way.
LEMMA EndingSteps ==
  ASSUME PanelInv,
         Connects \/ Disconnects \/ ConfigurationChanges \/ Open \/ Close
         \/ CancelLogin \/ LoginTimesOut \/ SettingsRead \/ NetworkBound
  PROVE  PanelInv'
<1>1. conn \in Nat /\ owners \in Nat /\ ui \in Screens /\ op \in PanelCalls
  BY DEF PanelInv, PanelTypes
<1>2. ASSUME conn' \in Nat, owners' \in Nat, BusinessChanged PROVE PanelInv'
  <2>1. CASE ui.open /\ ui.phase # "configuration"
    <3>1. ui' = Shows("idle", "none") /\ op' = None
      BY <1>2, <2>1 DEF BusinessChanged, Ends, Fresh
    <3> QED
      BY <1>2, <3>1, FreshScreens, EndedIsFine
  <2>2. CASE ~(ui.open /\ ui.phase # "configuration")
    BY <1>1, <1>2, <2>2 DEF BusinessChanged, PanelInv, PanelTypes, ShutIsIdle, OfTheOwner,
       ReadingIs, CallsOwner, ListsOwner, OpeningIs, SettingsAre, TimedLogin
  <2> QED
    BY <2>1, <2>2
<1>3. CASE Connects
  BY <1>1, <1>2, <1>3 DEF Connects
<1>4. CASE Disconnects
  BY <1>1, <1>2, <1>4 DEF Disconnects
<1>5. CASE ConfigurationChanges
  <2>1. CASE ui.open
    <3>1. ui' = Shows("idle", "none") /\ op' = None
      BY <1>5, <2>1 DEF ConfigurationChanges, Ends, Fresh
    <3> QED
      BY <1>1, <1>5, <3>1, FreshScreens, EndedIsFine DEF ConfigurationChanges
  <2>2. CASE ~ui.open
    BY <1>1, <1>5, <2>2 DEF ConfigurationChanges, PanelInv, PanelTypes, ShutIsIdle, OfTheOwner,
       ReadingIs, CallsOwner, ListsOwner, OpeningIs, SettingsAre, TimedLogin
  <2> QED
    BY <2>1, <2>2
<1>6. CASE Open
  BY <1>1, <1>6, FreshScreens, EndedIsFine DEF Open, Ends, Steady, Fresh
<1>7. ASSUME ui' = Shut PROVE ui' \in Screens /\ ShutIsIdle' /\ OfTheOwner'
  BY <1>7 DEF Shut, Fresh, Shows, Screens, ShutIsIdle, OfTheOwner
<1>8. CASE Close
  BY <1>1, <1>7, <1>8, EndedIsFine DEF Close, Ends, Steady
<1>9. ASSUME NEW login \in {"cancelled", "timed-out"}, FinishLoginWait(login),
             ui.login = "waiting" \/ op.timer
      PROVE  PanelInv'
  BY <1>1, <1>9, EndedIsFine
  DEF FinishLoginWait, Ends, Steady, Screens, ShutIsIdle, OfTheOwner, PanelInv,
      TimedLogin, ReadingIs
<1>10. CASE CancelLogin
  BY <1>9, <1>10 DEF CancelLogin
<1>11. CASE LoginTimesOut
  BY <1>9, <1>11 DEF LoginTimesOut
<1>12. CASE SettingsRead
  BY <1>1, <1>12, EndedIsFine
  DEF SettingsRead, Ends, Steady, PanelInv, ShutIsIdle, OfTheOwner
<1>13. CASE NetworkBound
  <2>1. CASE ui' = Shut
    BY <1>1, <1>7, <1>13, <2>1, EndedIsFine DEF NetworkBound, Ends, Steady
  <2>2. CASE ui' = [ui EXCEPT !.phase = "error"]
    <3>1. ui.phase = "binding"
      BY <1>13 DEF NetworkBound, Answers, PanelInv, OpeningIs
    <3>2. ui' \in Screens /\ ShutIsIdle' /\ OfTheOwner'
      BY <1>1, <2>2, <3>1 DEF Screens, PanelInv, ShutIsIdle, OfTheOwner
    <3> QED
      BY <1>1, <1>13, <3>2, EndedIsFine DEF NetworkBound, Ends, Steady
  <2> QED
    BY <1>13, <2>1, <2>2 DEF NetworkBound
<1> QED
  BY <1>3, <1>4, <1>5, <1>6, <1>8, <1>10, <1>11, <1>12, <1>13

\* The answers that lead to the next call, and the calls of the user.
LEMMA CallingSteps ==
  ASSUME PanelInv,
         (\E phase \in {"idle", "authentication-required", "error"} : Refresh(phase))
         \/ ShowSettings \/ SaveConfiguration \/ BeginLogin \/ OpenNetwork
         \/ (\E pending \in BOOLEAN : ConfigurationRead(pending)) \/ Saved \/ StatusRead
         \/ Listed \/ LoggedIn \/ LoginConfirmed \/ NetworkOpened
  PROVE  PanelInv'
<1>1. conn \in Nat /\ owners \in Nat /\ ui \in Screens /\ op \in PanelCalls
  BY DEF PanelInv, PanelTypes
<1>2. ASSUME NEW login \in {"none", "failed"}, ConnectionFailed(login), Steady PROVE PanelInv'
  BY <1>1, <1>2, FreshScreens, EndedIsFine DEF ConnectionFailed, Ends, Steady
\* A call of the owner while the panel loads.
<1>3. ASSUME Steady, ui' \in Screens, ui'.phase = "loading", ui'.open,
             NEW at \in {"configuration", "status", "login"}, NEW timer \in BOOLEAN,
             timer => at = "login", op' = [at |-> at, from |-> conn, timer |-> timer]
      PROVE  PanelInv'
  BY <1>1, <1>3 DEF Steady, PanelInv, PanelTypes, PanelCalls, ShutIsIdle, OfTheOwner, ReadingIs,
     CallsOwner, ListsOwner, OpeningIs, SettingsAre, TimedLogin
<1>4. ASSUME NEW screen \in Screens, screen.open, StartLogin(screen), Steady PROVE PanelInv'
  <2>1. ui' \in Screens /\ ui'.phase = "loading" /\ ui'.open
    BY <1>4 DEF StartLogin, Screens
  <2>2. op' = [at |-> "login", from |-> conn, timer |-> TRUE]
    BY <1>4 DEF StartLogin, Call
  <2> QED
    BY <1>3, <1>4, <2>1, <2>2
<1>5. \A at : Call(at) = [at |-> at, from |-> conn, timer |-> FALSE]
  BY DEF Call
<1>6. ASSUME ui' = Fresh("loading"), Steady, NEW at \in {"configuration", "status"}, op' = Call(at)
      PROVE  PanelInv'
  <2>1. ui' \in Screens /\ ui'.phase = "loading" /\ ui'.open
    BY <1>6 DEF Fresh, Shows, Screens
  <2> QED
    BY <1>3, <1>5, <1>6, <2>1
<1>10. ASSUME NEW phase \in {"idle", "authentication-required", "error"}, Refresh(phase)
       PROVE  PanelInv'
  BY <1>6, <1>10 DEF Refresh
<1>11. CASE ShowSettings
  BY <1>1, <1>11 DEF ShowSettings, Fresh, Shows, Call, Steady, PanelInv, PanelTypes, Screens,
     PanelCalls, ShutIsIdle, OfTheOwner, ReadingIs, CallsOwner, ListsOwner, OpeningIs,
       SettingsAre, TimedLogin
<1>12. CASE SaveConfiguration
  BY <1>1, <1>12 DEF SaveConfiguration, Call, Steady, PanelInv, PanelTypes,
     PanelCalls, ShutIsIdle, OfTheOwner, ReadingIs, CallsOwner, ListsOwner, OpeningIs,
       SettingsAre, TimedLogin
<1>13. CASE BeginLogin
  BY <1>1, <1>4, <1>13 DEF BeginLogin
<1>14. CASE OpenNetwork
  BY <1>1, <1>14 DEF OpenNetwork, Call, Steady, PanelInv, PanelTypes, Screens,
     PanelCalls, ShutIsIdle, OfTheOwner, ReadingIs, CallsOwner, ListsOwner, OpeningIs,
       SettingsAre, TimedLogin
<1>15. ASSUME NEW pending \in BOOLEAN, ConfigurationRead(pending) PROVE PanelInv'
  <2>1. CASE pending
    <3>1. ui' = Shows("configuration", "none") /\ op' = None /\ Steady
      BY <1>15, <2>1 DEF ConfigurationRead, Ends, Fresh
    <3> QED
      BY <1>1, <3>1, FreshScreens, EndedIsFine DEF Steady
  <2>2. CASE ~pending
    <3>1. op' = Call("status") /\ ui' = ui /\ Steady
      BY <1>15, <2>2 DEF ConfigurationRead
    <3>2. ui.phase = "loading" /\ ui.open
      BY <1>1, <1>15 DEF ConfigurationRead, Answers, PanelInv, ReadingIs, ShutIsIdle, Screens
    <3> QED
      BY <1>1, <1>3, <1>5, <3>1, <3>2
  <2> QED
    BY <2>1, <2>2
<1>16. CASE Saved
  <2>1. CASE Ends /\ UNCHANGED ui
    BY <1>1, <1>16, <2>1, EndedIsFine
    DEF Saved, Ends, Steady, PanelInv, ShutIsIdle, OfTheOwner
  <2>2. CASE ui' = Fresh("loading") /\ op' = Call("status")
    BY <1>6, <1>16, <2>2 DEF Saved
  <2> QED
    BY <1>16, <2>1, <2>2 DEF Saved
<1>17. CASE StatusRead
  <2>1. CASE op.from # 0 /\ op' = Call("list") /\ UNCHANGED ui
    BY <1>1, <1>17, <2>1 DEF StatusRead, Answers, Call, Steady, PanelInv, PanelTypes,
       PanelCalls, ShutIsIdle, OfTheOwner, ReadingIs, CallsOwner, ListsOwner, OpeningIs,
       SettingsAre, TimedLogin
  <2>2. CASE StartLogin(Fresh("authentication-required"))
    <3>1. Fresh("authentication-required") \in Screens /\ Fresh("authentication-required").open
      BY DEF Fresh, Shows, Screens
    <3> QED
      BY <1>4, <1>17, <2>2, <3>1 DEF StatusRead
  <2>3. CASE ConnectionFailed("none")
    BY <1>2, <1>17, <2>3 DEF StatusRead
  <2> QED
    BY <1>17, <2>1, <2>2, <2>3 DEF StatusRead
\* The networks that are listed are those of the owner that is still connected.
<1>18. ASSUME NEW login \in {"none", "succeeded"}, Ends, Steady, op.at \in {"list", "loginStatus"},
              ui' = [Shows("ready", login) EXCEPT !.networks = op.from]
       PROVE  PanelInv'
  <2>1. op.from = conn /\ conn # 0 /\ conn' = conn /\ owners' = owners /\ op' = None
    BY <1>18 DEF PanelInv, CallsOwner, ListsOwner, Ends, Steady
  <2>2. ui' = [open |-> TRUE, phase |-> "ready", login |-> login, networks |-> conn]
    BY <1>18, <2>1 DEF Shows
  <2>3. ui' \in Screens /\ ShutIsIdle' /\ OfTheOwner'
    BY <1>1, <2>1, <2>2 DEF Screens, ShutIsIdle, OfTheOwner
  <2> QED
    BY <1>1, <2>1, <2>3, EndedIsFine
<1>19. CASE Listed
  BY <1>2, <1>18, <1>19 DEF Listed, Answers, Fresh
<1>20. CASE LoggedIn
  <2>1. CASE op.from # 0 /\ op' = [op EXCEPT !.at = "loginStatus"] /\ UNCHANGED ui
    BY <1>1, <1>20, <2>1 DEF LoggedIn, Answers, Steady, PanelInv, PanelTypes,
       PanelCalls, ShutIsIdle, OfTheOwner, ReadingIs, CallsOwner, ListsOwner, OpeningIs,
       SettingsAre, TimedLogin
  <2> QED
    BY <1>2, <1>20, <2>1 DEF LoggedIn
<1>21. CASE LoginConfirmed
  BY <1>2, <1>18, <1>21 DEF LoginConfirmed, Answers
<1>22. CASE NetworkOpened
  <2>1. ui.phase = "binding" /\ ui.open
    BY <1>1, <1>22 DEF NetworkOpened, Answers, PanelInv, OpeningIs, ShutIsIdle, Screens
  <2>2. CASE op' = Call("binding") /\ UNCHANGED ui
    BY <1>1, <1>22, <2>1, <2>2 DEF NetworkOpened, Call, Steady, PanelInv, PanelTypes,
       PanelCalls, ShutIsIdle, OfTheOwner, ReadingIs, CallsOwner, ListsOwner, OpeningIs,
       SettingsAre, TimedLogin
  <2>3. ASSUME NEW phase \in {"ready", "error"}, Ends, ui' = [ui EXCEPT !.phase = phase]
        PROVE  PanelInv'
    <3>1. ui' \in Screens /\ ShutIsIdle' /\ OfTheOwner'
      BY <1>1, <1>22, <2>1, <2>3
      DEF NetworkOpened, Steady, Screens, PanelInv, ShutIsIdle, OfTheOwner
    <3> QED
      BY <1>1, <1>22, <2>3, <3>1, EndedIsFine DEF NetworkOpened, Ends, Steady
  <2> QED
    BY <1>22, <2>2, <2>3 DEF NetworkOpened
<1> QED
  BY <1>10, <1>11, <1>12, <1>13, <1>14, <1>15, <1>16, <1>17, <1>19, <1>20, <1>21, <1>22

LEMMA PanelSteps == PanelInv /\ [PanelNext]_panelVars => PanelInv'
<1>1. CASE PanelInv /\ PanelNext
  BY <1>1, EndingSteps, CallingSteps DEF PanelNext, HostAnswers
<1>2. CASE PanelInv /\ UNCHANGED panelVars
  BY <1>2 DEF panelVars, PanelInv, PanelTypes, ShutIsIdle, OfTheOwner, ReadingIs, CallsOwner,
     ListsOwner, OpeningIs, SettingsAre, TimedLogin
<1> QED
  BY <1>1, <1>2

\* The networks shown are those of the connected owner, however often it is replaced.
THEOREM PanelIsCurrent == PanelSpec => []ReadyIsCurrent
<1>1. PanelInv => ReadyIsCurrent
  BY DEF PanelInv, OfTheOwner, ReadyIsCurrent
<1> QED
  BY <1>1, PanelInitially, PanelSteps, PTL DEF PanelSpec

------------------------------------------------------------------------------
(* Diagnostics: the checks in the buffer are of its generation, since a writer of an
   earlier one admits nothing; so what the panel asked for cannot be older. *)

Checked == [subject : Subjects, of : Nat]
DiagTypes ==
  /\ buffer \in [configuration : {Unselected} \cup Addresses, generation : Nat,
                 checks : SUBSET Checked]
  /\ owner \in [number : Nat, alive : BOOLEAN]
  /\ doing \in [Operations -> [owner : Nat, generation : Nat]]
  /\ load \in [1 .. Loads -> [at : {"none", "sent", "answered", "over"}, report : SUBSET Checked]]
  /\ shown \in [load : 0 .. Loads, began : Nat, phase : {"idle", "loading", "ready", "unavailable"},
                report : SUBSET Checked]
ChecksAreNow == \A check \in buffer.checks : check.of = buffer.generation
WritersAreNow ==
  \A c \in Operations :
    /\ doing[c].owner <= owner.number
    /\ doing[c].owner # 0 /\ doing[c].owner = owner.number /\ owner.alive =>
         doing[c].generation = buffer.generation
LoadsAreLater ==
  /\ shown.began <= buffer.generation
  /\ \A k \in 1 .. Loads :
       /\ k > shown.load => load[k].at = "none"
       /\ k = shown.load /\ load[k].at = "answered" =>
            \A check \in load[k].report : check.of >= shown.began
DiagInv == DiagTypes /\ ChecksAreNow /\ WritersAreNow /\ LoadsAreLater /\ ReportsThePlatformAsked

LEMMA DiagInitially == DiagInit => DiagInv
<1> SUFFICES ASSUME DiagInit PROVE DiagInv
  OBVIOUS
<1>1. buffer \in [configuration : {Unselected} \cup Addresses, generation : Nat,
                  checks : SUBSET Checked]
  BY DEF DiagInit
<1>2. owner \in [number : Nat, alive : BOOLEAN]
  BY DEF DiagInit
<1>3. doing \in [Operations -> [owner : Nat, generation : Nat]]
  BY DEF DiagInit
<1>4. load \in [1 .. Loads -> [at : {"none", "sent", "answered", "over"}, report : SUBSET Checked]]
  BY DEF DiagInit
<1>5. shown \in [load : 0 .. Loads, began : Nat,
                phase : {"idle", "loading", "ready", "unavailable"},
                 report : SUBSET Checked]
  BY DiagnosticsAssumption DEF DiagInit
<1> QED
  BY <1>1, <1>2, <1>3, <1>4, <1>5 DEF DiagInit, DiagInv, DiagTypes, ChecksAreNow, WritersAreNow,
     LoadsAreLater, ReportsThePlatformAsked

LEMMA DiagSteps == DiagInv /\ [DiagNext]_diagVars => DiagInv'
<1> SUFFICES ASSUME DiagInv, [DiagNext]_diagVars PROVE DiagInv'
  OBVIOUS
<1> DEFINE Buffers == [configuration : {Unselected} \cup Addresses, generation : Nat,
                       checks : SUBSET Checked]
           Reports == [at : {"none", "sent", "answered", "over"}, report : SUBSET Checked]
           Panes   == [load : 0 .. Loads, began : Nat,
                       phase : {"idle", "loading", "ready", "unavailable"},
                       report : SUBSET Checked]
<1>1. /\ buffer \in Buffers /\ owner \in [number : Nat, alive : BOOLEAN]
      /\ doing \in [Operations -> [owner : Nat, generation : Nat]]
      /\ load \in [1 .. Loads -> Reports] /\ shown \in Panes
  BY DEF DiagInv, DiagTypes
<1>2. /\ buffer.generation \in Nat /\ buffer.checks \subseteq Checked /\ owner.number \in Nat
      /\ shown.load \in 0 .. Loads /\ shown.began \in Nat
      /\ \A k \in 1 .. Loads : load[k] \in Reports
      /\ \A c \in Operations : doing[c].owner \in Nat /\ doing[c].generation \in Nat
  BY <1>1
<1>3. ASSUME buffer' \in Buffers, owner' \in [number : Nat, alive : BOOLEAN],
             doing' \in [Operations -> [owner : Nat, generation : Nat]],
             load' \in [1 .. Loads -> Reports], shown' \in Panes
      PROVE  DiagTypes'
  BY <1>3 DEF DiagTypes
<1> HIDE DEF Buffers, Reports, Panes
\* Steps that leave the panel and its loads alone.
<1>4. ASSUME UNCHANGED <<load, shown>>, buffer' \in Buffers,
             buffer'.generation >= buffer.generation
      PROVE  LoadsAreLater' /\ ReportsThePlatformAsked' /\ buffer'.generation \in Nat
  <2>1. buffer'.generation \in Nat
    BY <1>4 DEF Buffers
  <2> QED
    BY <1>2, <1>4, <2>1 DEF DiagInv, LoadsAreLater, ReportsThePlatformAsked
\* Steps that leave the Host's part alone.
<1>5. ASSUME UNCHANGED <<buffer, owner, doing>> PROVE ChecksAreNow' /\ WritersAreNow'
  BY <1>5 DEF DiagInv, ChecksAreNow, WritersAreNow
<1>10. CASE OwnerDisposed
  <2>1. owner' \in [number : Nat, alive : BOOLEAN] /\ owner'.number = owner.number /\ ~owner'.alive
    BY <1>1, <1>10 DEF OwnerDisposed
  <2>2. ChecksAreNow' /\ WritersAreNow'
    BY <1>10, <2>1 DEF OwnerDisposed, DiagInv, ChecksAreNow, WritersAreNow
  <2> QED
    BY <1>1, <1>2, <1>3, <1>4, <1>10, <2>1, <2>2 DEF OwnerDisposed, DiagInv
\* A new owner: no operation under way is its own.
<1>11. ASSUME NEW a \in Addresses, OwnerApplied(a) PROVE DiagInv'
  <2>1. owner' \in [number : Nat, alive : BOOLEAN] /\ owner'.number = owner.number + 1
    BY <1>2, <1>11 DEF OwnerApplied
  <2>2. buffer' \in Buffers /\ buffer'.generation >= buffer.generation /\ ChecksAreNow'
    <3>1. CASE a = buffer.configuration
      BY <1>1, <1>2, <1>11, <3>1 DEF OwnerApplied, DiagInv, ChecksAreNow
    <3>2. CASE a # buffer.configuration
      <4>1. buffer' = [configuration |-> a, generation |-> buffer.generation + 1, checks |-> {}]
        BY <1>11, <3>2 DEF OwnerApplied
      <4> QED
        BY <1>2, <4>1 DEF ChecksAreNow, Buffers
    <3> QED
      BY <3>1, <3>2
  <2>3. \A c \in Operations : doing'[c].owner <= owner.number /\ doing'[c].owner \in Nat
    BY <1>2, <1>11 DEF OwnerApplied, DiagInv, WritersAreNow
  <2>4. WritersAreNow'
    BY <1>2, <2>1, <2>3 DEF WritersAreNow
  <2> QED
    BY <1>1, <1>3, <1>4, <1>11, <2>1, <2>2, <2>4 DEF OwnerApplied, DiagInv
<1>12. ASSUME NEW c \in Operations, OperationStarts(c) PROVE DiagInv'
  <2> DEFINE r == [owner |-> owner.number, generation |-> buffer.generation]
  <2>1. r \in [owner : Nat, generation : Nat] /\ r.owner = owner.number
        /\ r.generation = buffer.generation
    BY <1>2
  <2>2. doing' = [doing EXCEPT ![c] = r]
    BY <1>12 DEF OperationStarts
  <2> HIDE DEF r
  <2>3. doing' \in [Operations -> [owner : Nat, generation : Nat]]
    BY <1>1, <2>1, <2>2
  <2>4. \A d \in Operations : doing'[d] = IF d = c THEN r ELSE doing[d]
    BY <1>1, <2>2
  <2>5. ChecksAreNow' /\ WritersAreNow'
    BY <1>2, <1>12, <2>1, <2>4 DEF OperationStarts, DiagInv, ChecksAreNow, WritersAreNow
  <2> QED
    BY <1>1, <1>2, <1>3, <1>4, <1>12, <2>3, <2>5 DEF OperationStarts, DiagInv
\* An outcome that is admitted is of the buffer's generation.
<1>13. ASSUME NEW c \in Operations, OperationEnds(c) PROVE DiagInv'
  <2> DEFINE r == [doing[c] EXCEPT !.owner = 0]
  <2>1. doing[c] \in [owner : Nat, generation : Nat]
    BY <1>1
  <2>2. r \in [owner : Nat, generation : Nat] /\ r.owner = 0
    BY <2>1
  <2>3. doing' = [doing EXCEPT ![c] = r]
    BY <1>13 DEF OperationEnds
  <2> HIDE DEF r
  <2>4. doing' \in [Operations -> [owner : Nat, generation : Nat]]
    BY <1>1, <2>2, <2>3
  <2>5. \A d \in Operations : doing'[d] = IF d = c THEN r ELSE doing[d]
    BY <1>1, <2>3
  <2>6. ASSUME NEW s \in Subjects, Admits(c, s) PROVE doing[c].generation = buffer.generation
    BY <1>13, <2>6 DEF OperationEnds, Admits, Aborted, DiagInv, WritersAreNow
  <2>7. ASSUME NEW s \in Subjects, Admits(c, s), buffer' = Recorded(c, s)
        PROVE  buffer' \in Buffers /\ buffer'.generation = buffer.generation /\ ChecksAreNow'
    <3> DEFINE others == {check \in buffer.checks : check.subject # s}
               new    == others \cup {[subject |-> s, of |-> doing[c].generation]}
    <3>1. new \subseteq Checked
      BY <1>2 DEF Checked
    <3>2. \A check \in new : check.of = buffer.generation
      BY <2>6, <2>7 DEF DiagInv, ChecksAreNow
    <3> HIDE DEF new
    <3>3. buffer' \in {buffer, [buffer EXCEPT !.checks = new]}
      BY <2>7 DEF Recorded, new
    <3> QED
      BY <1>1, <3>1, <3>2, <3>3 DEF Buffers, DiagInv, ChecksAreNow
  <2>8. buffer' \in Buffers /\ buffer'.generation = buffer.generation /\ ChecksAreNow'
    BY <1>1, <1>13, <2>7 DEF OperationEnds, DiagInv, ChecksAreNow
  <2>9. WritersAreNow'
    BY <1>2, <1>13, <2>2, <2>5, <2>8 DEF OperationEnds, DiagInv, WritersAreNow
  <2> QED
    BY <1>1, <1>2, <1>3, <1>4, <1>13, <2>4, <2>8, <2>9 DEF OperationEnds, DiagInv
\* What becomes of one load: where it is, and its report.
<1>14. ASSUME NEW k \in 1 .. Loads, NEW r \in Reports, load' = [load EXCEPT ![k] = r],
              UNCHANGED <<buffer, owner, doing>>, shown' \in Panes,
              shown'.load \in {shown.load, k}, shown'.load >= shown.load, k <= shown'.load,
              shown'.began <= buffer.generation,
              k # shown'.load => shown'.began = shown.began,
              k = shown'.load /\ r.at = "answered" =>
                \A check \in r.report : check.of >= shown'.began,
              ReportsThePlatformAsked'
       PROVE  DiagInv'
  <2>1. /\ load' \in [1 .. Loads -> Reports]
        /\ \A j \in 1 .. Loads : load'[j] = IF j = k THEN r ELSE load[j]
    BY <1>1, <1>14
  <2>2. shown'.load \in 0 .. Loads
    BY <1>14 DEF Panes
  <2>3. LoadsAreLater'
    BY <1>2, <1>14, <2>1, <2>2 DEF DiagInv, LoadsAreLater
  <2> QED
    BY <1>1, <1>3, <1>5, <1>14, <2>1, <2>3 DEF DiagInv
<1>15. ASSUME NEW k \in 1 .. Loads, load[k].at # "none" PROVE k <= shown.load
  BY <1>2, <1>15 DEF DiagInv, LoadsAreLater
<1>16. CASE Load
  <2> DEFINE k == shown.load + 1
             r == [load[k] EXCEPT !.at = "sent"]
             s == [shown EXCEPT !.load = k, !.began = buffer.generation, !.phase = "loading"]
  <2>1. k \in 1 .. Loads /\ load[k] \in Reports
    BY <1>2, <1>16, DiagnosticsAssumption DEF Load
  <2>2. r \in Reports /\ r.at = "sent"
    BY <2>1 DEF Reports
  <2>3. s \in Panes /\ s.load = k /\ s.began = buffer.generation /\ s.phase = "loading"
    <3> DEFINE g == buffer.generation
    <3>1. k \in 0 .. Loads /\ g \in Nat
      BY <1>2, <2>1
    <3> HIDE DEF k, g
    <3>2. [shown EXCEPT !.load = k, !.began = g, !.phase = "loading"] \in Panes
      BY <1>1, <3>1 DEF Panes
    <3>3. shown \in Panes
      BY <1>1
    <3>4. /\ [shown EXCEPT !.load = k, !.began = g, !.phase = "loading"].load = k
          /\ [shown EXCEPT !.load = k, !.began = g, !.phase = "loading"].began = g
          /\ [shown EXCEPT !.load = k, !.began = g, !.phase = "loading"].phase = "loading"
      BY <3>3 DEF Panes
    <3> QED
      BY <3>2, <3>4 DEF g
  <2>4. load' = [load EXCEPT ![k] = r] /\ shown' = s /\ UNCHANGED <<buffer, owner, doing>>
    BY <1>16 DEF Load
  <2>5. ReportsThePlatformAsked'
    BY <2>3, <2>4 DEF ReportsThePlatformAsked
  <2> HIDE DEF r, s
  <2>6. /\ k >= shown.load /\ k \in {shown.load, k} /\ k <= k
        /\ buffer.generation <= buffer.generation
    BY <1>2
  <2> HIDE DEF k
  <2>7. shown' = s
    BY <2>4
  <2> QED
    BY <1>14, <2>1, <2>2, <2>3, <2>4, <2>5, <2>6, <2>7
<1>17. ASSUME NEW k \in 1 .. Loads, ReportAnswered(k) PROVE DiagInv'
  <2> DEFINE r == [at |-> "answered", report |-> buffer.checks]
  <2>1. r \in Reports /\ r.report = buffer.checks
    BY <1>2 DEF Reports
  <2>2. load' = [load EXCEPT ![k] = r] /\ UNCHANGED <<buffer, owner, doing, shown>>
    BY <1>17 DEF ReportAnswered
  <2>3. k <= shown.load
    BY <1>15, <1>17 DEF ReportAnswered
  <2>4. \A check \in r.report : check.of >= shown.began
    BY <1>2, <2>1 DEF DiagInv, ChecksAreNow, LoadsAreLater
  <2>5. ReportsThePlatformAsked' /\ shown.began <= buffer.generation
    BY <2>2 DEF DiagInv, ReportsThePlatformAsked, LoadsAreLater
  <2>6. shown.load >= shown.load /\ shown.load \in {shown.load, k} /\ shown' = shown
    BY <1>2, <2>2
  <2> HIDE DEF r
  <2> QED
    BY <1>1, <1>14, <2>1, <2>2, <2>3, <2>4, <2>5, <2>6
<1>18. ASSUME NEW k \in 1 .. Loads, LoadEnds(k) \/ LoadFails(k) PROVE DiagInv'
  <2> DEFINE r == [load[k] EXCEPT !.at = "over"]
  <2>1. load[k] \in Reports
    BY <1>2
  <2>2. r \in Reports /\ r.at = "over" /\ load[k].report \subseteq Checked
    BY <2>1 DEF Reports
  <2>3. load' = [load EXCEPT ![k] = r] /\ UNCHANGED <<buffer, owner, doing>>
    BY <1>18 DEF LoadEnds, LoadFails
  <2>4. k <= shown.load /\ shown.began <= buffer.generation
    BY <1>15, <1>18 DEF LoadEnds, LoadFails, DiagInv, LoadsAreLater
  <2>5. /\ shown' \in Panes /\ shown'.load = shown.load /\ shown'.began = shown.began
        /\ ReportsThePlatformAsked'
    <3>1. CASE UNCHANGED shown
      BY <1>1, <3>1 DEF DiagInv, ReportsThePlatformAsked
    <3>2. CASE LoadEnds(k) /\ k = shown.load
      <4>1. shown' = [shown EXCEPT !.phase = "ready", !.report = load[k].report]
        BY <3>2 DEF LoadEnds
      <4>2. /\ shown' \in Panes /\ shown'.load = shown.load /\ shown'.began = shown.began
            /\ shown'.report = load[k].report
        BY <1>1, <2>2, <4>1 DEF Panes
      <4>3. \A check \in load[k].report : check.of >= shown.began
        BY <3>2 DEF LoadEnds, DiagInv, LoadsAreLater
      <4> QED
        BY <4>2, <4>3 DEF ReportsThePlatformAsked
    <3>3. CASE LoadFails(k) /\ k = shown.load
      <4>1. shown' = [shown EXCEPT !.phase = "unavailable", !.report = {}]
        BY <3>3 DEF LoadFails
      <4> QED
        BY <1>1, <4>1 DEF Panes, ReportsThePlatformAsked
    <3> QED
      BY <1>18, <3>1, <3>2, <3>3 DEF LoadEnds, LoadFails
  <2>6. shown.load >= shown.load /\ shown.load \in {shown.load, k} /\ r.at # "answered"
    BY <1>2, <2>2
  <2> HIDE DEF r
  <2> QED
    BY <1>14, <2>2, <2>3, <2>4, <2>5, <2>6
<1>19. CASE UNCHANGED diagVars
  BY <1>1, <1>2, <1>3, <1>4, <1>5, <1>19 DEF diagVars, DiagInv
<1> QED
  BY <1>10, <1>11, <1>12, <1>13, <1>16, <1>17, <1>18, <1>19 DEF DiagNext

\* No report shows a platform replaced before it was asked for, whatever ends late.
THEOREM ReportsArePresent == DiagSpec => []ReportsThePlatformAsked
<1>1. DiagInv => ReportsThePlatformAsked
  BY DEF DiagInv
<1> QED
  BY <1>1, DiagInitially, DiagSteps, PTL DEF DiagSpec

------------------------------------------------------------------------------
(* ProvenanceDetail: what is under way and what was collected was sent by the generator
   in the state it is in, however often the stream repeats, loses or swaps it. *)

Events  == [kind : {"context", "chunk", "end", "result", "analysis", "failure"},
            index : Nat, of : Nat]
Senders == [at : {"start", "member", "context", "verify", "read", "analyze", "send", "over"},
            scene : Nat, page : Nat, calling : BOOLEAN, chunks : Nat, sent : Nat]
Genuine ==
  {e \in Events :
     /\ e.kind = "chunk" => sender.at \in {"send", "over"} /\ e.of = sender.scene
     /\ e.kind = "end" => sender.at = "over" /\ e.index = sender.chunks
     /\ e.kind = "result" => /\ sender.at = "over" /\ sender.chunks = 0
                             /\ e.index = 0 /\ e.of = sender.scene}
Result == [kind |-> "result", index |-> 0, of |-> sender.scene]
DetailTypes == scene \in Nat /\ sender \in Senders
WireIsGenuine == wire \in Seq(Genuine)
ChunksInOrder ==
  /\ reader = [settled |-> reader.settled, collected |-> reader.collected]
  /\ reader.collected \in Seq(Genuine)
  /\ (reader.settled = "value" => sender.chunks # 0) =>
       \A i \in 1 .. Len(reader.collected) :
         reader.collected[i].kind = "chunk" /\ reader.collected[i].index = i - 1
ValueIsWhole ==
  reader.settled = "value" =>
    /\ sender.at = "over"
    /\ IF sender.chunks = 0 THEN reader.collected = <<Result>>
                            ELSE Len(reader.collected) = sender.chunks
DetailInv == DetailTypes /\ WireIsGenuine /\ ChunksInOrder /\ ValueIsWhole

LEMMA DetailInitially == DetailInit => DetailInv
<1> SUFFICES ASSUME DetailInit PROVE DetailInv
  OBVIOUS
<1>1. sender \in Senders /\ scene \in Nat
  BY DEF DetailInit, Senders
<1>2. /\ <<>> \in Seq(Genuine) /\ Len(<<>>) = 0
  BY EmptySeq
<1> QED
  BY <1>1, <1>2 DEF DetailInit, DetailInv, DetailTypes, WireIsGenuine, ChunksInOrder, ValueIsWhole

\* While the generator goes on, what it has sent stays genuine.
LEMMA SenderMoves ==
  ASSUME DetailInv, sender' \in Senders, UNCHANGED <<scene, reader>>,
         sender.at # "over",
         sender.at = "send" => /\ sender'.at \in {"send", "over"}
                               /\ sender'.chunks = sender.chunks
                               /\ sender'.scene = sender.scene,
         wire' = wire \/ \E e \in Events : e \in Genuine' /\ wire' = Append(wire, e)
  PROVE  DetailInv'
<1>1. Genuine \subseteq Genuine'
  BY DEF Genuine
<1>2. wire \in Seq(Genuine') /\ reader.collected \in Seq(Genuine')
  BY <1>1, SeqMonotonic DEF DetailInv, WireIsGenuine, ChunksInOrder
<1>3. wire' \in Seq(Genuine')
  <2>1. CASE wire' = wire
    BY <1>2, <2>1
  <2>2. ASSUME NEW e \in Events, e \in Genuine', wire' = Append(wire, e)
        PROVE  wire' \in Seq(Genuine')
    BY <1>2, <2>2, AppendProperties
  <2> QED
    BY <2>1, <2>2
<1>4. reader.settled # "value" /\ reader'.settled # "value"
  BY DEF DetailInv, ValueIsWhole
<1>5. ValueIsWhole' /\ scene' \in Nat
  BY <1>4 DEF DetailInv, DetailTypes, ValueIsWhole
<1>6. ChunksInOrder'
  BY <1>2, <1>4 DEF DetailInv, ChunksInOrder
<1> QED
  BY <1>3, <1>5, <1>6 DEF DetailInv, DetailTypes, WireIsGenuine

\* Whatever the stream did, the consumer takes what is genuine.
LEMMA ReaderMoves ==
  ASSUME DetailInv, UNCHANGED <<scene, sender>>, wire' \in Seq(Genuine),
         \/ UNCHANGED reader
         \/ /\ Unsettled
            /\ \E how \in {"invalid", "failed", "null", "incomplete", "cancelled"} : SettlesAs(how)
         \/ /\ Unsettled /\ SettlesAs("value")
            /\ sender.at = "over" /\ sender.chunks # 0 /\ Len(reader.collected) = sender.chunks
         \/ /\ Result \in Genuine
            /\ reader' = [settled |-> "value", collected |-> <<Result>>]
         \/ \E e \in Genuine : /\ e.kind = "chunk" /\ e.index = Len(reader.collected)
                               /\ Unsettled /\ Collected(e)
  PROVE  DetailInv'
<1>1. Genuine' = Genuine
  BY DEF Genuine
<1>2. /\ reader = [settled |-> reader.settled, collected |-> reader.collected]
      /\ reader.collected \in Seq(Genuine) /\ Len(reader.collected) \in Nat
  BY LenProperties DEF DetailInv, ChunksInOrder
<1>3. ASSUME NEW how, SettlesAs(how)
      PROVE  reader' = [settled |-> how, collected |-> reader.collected]
  BY <1>2, <1>3 DEF SettlesAs
<1>4. CASE UNCHANGED reader
  BY <1>1, <1>4 DEF DetailInv, DetailTypes, WireIsGenuine, ChunksInOrder, ValueIsWhole, Result
<1>5. ASSUME NEW how, Unsettled, SettlesAs(how),
             how = "value" => /\ sender.at = "over" /\ sender.chunks # 0
                              /\ Len(reader.collected) = sender.chunks
      PROVE  DetailInv'
  <2>1. reader'.settled = how /\ reader'.collected = reader.collected
        /\ reader' = [settled |-> reader'.settled, collected |-> reader'.collected]
    BY <1>3, <1>5
  <2>2. \A i \in 1 .. Len(reader.collected) :
          reader.collected[i].kind = "chunk" /\ reader.collected[i].index = i - 1
    BY <1>5 DEF Unsettled, DetailInv, ChunksInOrder
  <2> QED
    BY <1>1, <1>2, <1>5, <2>1, <2>2
    DEF DetailInv, DetailTypes, WireIsGenuine, ChunksInOrder, ValueIsWhole
<1>6. ASSUME NEW e \in Genuine, e.kind = "chunk", e.index = Len(reader.collected),
             Unsettled, Collected(e)
      PROVE  DetailInv'
  <2> DEFINE grown == Append(reader.collected, e)
             n == Len(reader.collected)
  <2>1. /\ grown \in Seq(Genuine) /\ Len(grown) = n + 1 /\ n \in Nat
        /\ \A i \in 1 .. n : grown[i] = reader.collected[i]
        /\ grown[n + 1] = e
    BY <1>2, AppendProperties
  <2>2. reader' = [settled |-> "no", collected |-> grown]
    BY <1>2, <1>6 DEF Collected, Unsettled
  <2>3. reader'.settled = "no" /\ reader'.collected = grown
        /\ reader' = [settled |-> reader'.settled, collected |-> reader'.collected]
    BY <2>2
  <2> HIDE DEF grown
  <2>4. \A i \in 1 .. n + 1 : grown[i].kind = "chunk" /\ grown[i].index = i - 1
    BY <1>6, <2>1 DEF Unsettled, DetailInv, ChunksInOrder
  <2>5. ChunksInOrder'
    BY <1>1, <2>1, <2>3, <2>4 DEF ChunksInOrder
  <2> QED
    BY <1>1, <2>3, <2>5 DEF DetailInv, DetailTypes, WireIsGenuine, ValueIsWhole
<1>7. CASE Result \in Genuine /\ reader' = [settled |-> "value", collected |-> <<Result>>]
  <2>1. <<Result>> \in Seq(Genuine)
    BY <1>7
  <2>2. Result.kind = "result" /\ Result' = Result
    BY DEF Result
  <2> HIDE DEF Result
  <2>3. sender.at = "over" /\ sender.chunks = 0
    BY <1>7, <2>2 DEF Genuine
  <2>4. reader'.settled = "value" /\ reader'.collected = <<Result>>
        /\ reader' = [settled |-> reader'.settled, collected |-> reader'.collected]
    BY <1>7
  <2> QED
    BY <1>1, <2>1, <2>2, <2>3, <2>4
    DEF DetailInv, DetailTypes, WireIsGenuine, ChunksInOrder, ValueIsWhole
<1> QED
  BY <1>4, <1>5, <1>6, <1>7

\* Each step of the generator.
LEMMA SenderSteps ==
  ASSUME DetailInv,
         HostFails \/ Accepts \/ Calls \/ MemberPage \/ SendsContext \/ ChecksRecord \/ ReadsText
         \/ SendsResult \/ SendsChunk \/ SendsEnd \/ Analyzes
         \/ \E n \in 0 .. MaxChunks : Reads(n)
  PROVE  DetailInv'
<1> DEFINE Ats == {"start", "member", "context", "verify", "read", "analyze", "send", "over"}
<1>1. sender \in Senders /\ scene \in Nat
  BY DEF DetailInv, DetailTypes
<1>2. /\ sender.at \in Ats /\ sender.scene \in Nat /\ sender.page \in Nat
      /\ sender.calling \in BOOLEAN /\ sender.chunks \in Nat /\ sender.sent \in Nat
  BY <1>1 DEF Senders
\* The forms that a new state of the generator has.
<1>3. ASSUME NEW at \in Ats PROVE [sender EXCEPT !.at = at] \in Senders
      /\ [sender EXCEPT !.at = at].at = at
      /\ [sender EXCEPT !.at = at].scene = sender.scene
      /\ [sender EXCEPT !.at = at].chunks = sender.chunks
  BY <1>1, <1>2, <1>3 DEF Senders
<1>4. ASSUME NEW kind \in {"context", "chunk", "end", "result", "analysis", "failure"},
             NEW index \in Nat
      PROVE  /\ Event(kind, index) \in Events /\ Event(kind, index).kind = kind
             /\ Event(kind, index).index = index /\ Event(kind, index).of = scene
  BY <1>1, <1>4 DEF Event, Events
<1>5. ASSUME NEW kind \in {"context", "analysis", "failure"}, NEW index \in Nat
      PROVE  Event(kind, index) \in Genuine'
  BY <1>4, <1>5 DEF Genuine
\* Steps that send nothing, while no value is sent.
<1>6. ASSUME sender' \in Senders, Silently, sender.at \notin {"send", "over"} PROVE DetailInv'
  BY <1>6, SenderMoves DEF Silently
<1>7. ASSUME sender' \in Senders, NEW kind \in {"context", "analysis", "failure"},
             NEW index \in Nat, Yields(kind, index), sender.at # "over",
             sender.at = "send" => sender' = [sender EXCEPT !.at = "over"]
      PROVE  DetailInv'
  <2>1. Event(kind, index) \in Events /\ Event(kind, index) \in Genuine'
    BY <1>4, <1>5
  <2>2. sender.at = "send" => /\ sender'.at \in {"send", "over"}
                              /\ sender'.chunks = sender.chunks /\ sender'.scene = sender.scene
    BY <1>3, <1>7
  <2> QED
    BY <1>7, <2>1, <2>2, SenderMoves DEF Yields, Sends
<1>10. CASE HostFails
  BY <1>3, <1>7, <1>10 DEF HostFails
<1>11. CASE Accepts
  <2>1. sender' \in Senders
    <3> DEFINE at == IF wanted.other THEN "member" ELSE "context"
    <3>1. at \in Ats
      OBVIOUS
    <3> HIDE DEF at
    <3>2. [sender EXCEPT !.at = at, !.scene = scene] \in Senders
      BY <1>1, <3>1 DEF Senders
    <3> QED
      BY <1>11, <3>2 DEF Accepts, at
  <2> QED
    BY <1>6, <1>11, <2>1 DEF Accepts
<1>12. CASE Calls
  <2>1. [sender EXCEPT !.calling = TRUE] \in Senders
    BY <1>1 DEF Senders
  <2>2. sender' \in Senders /\ Silently /\ sender.at \in {"member", "verify", "read"}
    BY <1>12, <2>1 DEF Calls
  <2> QED
    BY <1>6, <2>2
<1>13. ASSUME NEW at \in Ats PROVE [sender EXCEPT !.at = at, !.calling = FALSE] \in Senders
  BY <1>1, <1>13 DEF Senders
<1>14. CASE MemberPage
  <2>1. [sender EXCEPT !.page = @ + 1, !.calling = FALSE] \in Senders
    <3> DEFINE page == sender.page + 1
    <3>1. page \in Nat
      BY <1>2
    <3> HIDE DEF page
    <3>2. [sender EXCEPT !.page = page, !.calling = FALSE] \in Senders
      BY <1>1, <3>1 DEF Senders
    <3> QED
      BY <3>2 DEF page
  <2>2. [sender EXCEPT !.at = "context", !.calling = FALSE] \in Senders
    BY <1>13
  <2> QED
    BY <1>6, <1>14, <2>1, <2>2 DEF MemberPage, Answered
<1>15. CASE SendsContext
  <2>1. sender' \in Senders
    BY <1>3, <1>15 DEF SendsContext
  <2> QED
    BY <1>7, <1>15, <2>1 DEF SendsContext
<1>16. CASE ChecksRecord
  <2>1. sender' \in Senders
    <3>1. [sender EXCEPT !.calling = FALSE, !.at = "read"] \in Senders
      BY <1>1 DEF Senders
    <3> QED
      BY <1>16, <3>1 DEF ChecksRecord
  <2> QED
    BY <1>6, <1>16, <2>1 DEF ChecksRecord, Answered
<1>17. CASE ReadsText
  BY <1>6, <1>13, <1>17 DEF ReadsText, Answered
<1>18. CASE SendsResult
  <2> DEFINE e == Event("result", 0)
  <2>1. sender' = [sender EXCEPT !.at = "over"] /\ wire' = Append(wire, e)
        /\ UNCHANGED <<scene, reader>> /\ sender.at = "send" /\ sender.chunks = 0
        /\ scene = sender.scene
    BY <1>18 DEF SendsResult, Yields, Sends, Guard
  <2>2. e \in Events /\ e.kind = "result" /\ e.index = 0 /\ e.of = scene
    BY <1>4
  <2>3. sender' \in Senders /\ sender'.at = "over" /\ sender'.chunks = sender.chunks
        /\ sender'.scene = sender.scene
    BY <1>3, <2>1
  <2> HIDE DEF e
  <2>4. e \in Genuine'
    BY <2>1, <2>2, <2>3 DEF Genuine
  <2> QED
    BY <2>1, <2>2, <2>3, <2>4, SenderMoves
\* A chunk is sent in the scene of the request: the guard has just been passed.
<1>19. CASE SendsChunk
  <2> DEFINE e == Event("chunk", sender.sent)
  <2>1. sender' = [sender EXCEPT !.sent = @ + 1] /\ wire' = Append(wire, e)
        /\ UNCHANGED <<scene, reader>> /\ sender.at = "send" /\ scene = sender.scene
    BY <1>19 DEF SendsChunk, Yields, Sends, Guard
  <2>2. e \in Events /\ e.kind = "chunk" /\ e.of = scene
    BY <1>2, <1>4
  <2>3. sender' \in Senders /\ sender'.at = "send" /\ sender'.chunks = sender.chunks
        /\ sender'.scene = sender.scene
    BY <1>1, <1>2, <2>1 DEF Senders
  <2> HIDE DEF e
  <2>4. e \in Genuine'
    BY <2>1, <2>2, <2>3 DEF Genuine
  <2> QED
    BY <2>1, <2>2, <2>3, <2>4, SenderMoves
<1>20. CASE SendsEnd
  <2> DEFINE e == Event("end", sender.chunks)
  <2>1. sender' = [sender EXCEPT !.at = "over"] /\ wire' = Append(wire, e)
        /\ UNCHANGED <<scene, reader>> /\ sender.at = "send"
    BY <1>20 DEF SendsEnd, Yields, Sends
  <2>2. e \in Events /\ e.kind = "end" /\ e.index = sender.chunks
    BY <1>2, <1>4
  <2>3. sender' \in Senders /\ sender'.at = "over" /\ sender'.chunks = sender.chunks
        /\ sender'.scene = sender.scene
    BY <1>3, <2>1
  <2> HIDE DEF e
  <2>4. e \in Genuine'
    BY <2>1, <2>2, <2>3 DEF Genuine
  <2> QED
    BY <2>1, <2>2, <2>3, <2>4, SenderMoves
<1>21. CASE Analyzes
  <2>1. CASE sender' = [sender EXCEPT !.sent = @ + 1] /\ Yields("analysis", sender.sent)
    <3>1. sender' \in Senders
      BY <1>1, <1>2, <2>1 DEF Senders
    <3> QED
      BY <1>2, <1>7, <1>21, <2>1, <3>1 DEF Analyzes
  <2>2. CASE sender' = [sender EXCEPT !.at = "over"] /\ Silently
    BY <1>3, <1>6, <1>21, <2>2 DEF Analyzes
  <2> QED
    BY <1>21, <2>1, <2>2 DEF Analyzes
<1>22. ASSUME NEW n \in 0 .. MaxChunks, Reads(n) PROVE DetailInv'
  <2>1. n \in Nat
    BY DetailAssumption
  <2>2. [sender EXCEPT !.at = "send", !.calling = FALSE, !.chunks = n] \in Senders
    BY <1>1, <2>1 DEF Senders
  <2> QED
    BY <1>6, <1>22, <2>2 DEF Reads, Answered
<1> QED
  BY <1>10, <1>11, <1>12, <1>14, <1>15, <1>16, <1>17, <1>18, <1>19, <1>20, <1>21, <1>22

\* A fault makes no event that was not sent.
LEMMA FaultsMakeNothing == ASSUME DetailInv, Faulty PROVE wire' \in Seq(Genuine)
<1>1. wire \in Seq(Genuine) /\ Len(wire) \in Nat /\ DOMAIN wire = 1 .. Len(wire)
      /\ \A i \in 1 .. Len(wire) : wire[i] \in Genuine
  BY LenProperties, ElementOfSeq DEF DetailInv, WireIsGenuine
<1>2. ASSUME NEW m \in 1 .. Len(wire) + 1, NEW n \in 0 .. Len(wire)
      PROVE  SubSeq(wire, m, n) \in Seq(Genuine)
  <2>1. m \in Int /\ n \in Int /\ \A i \in m .. n : wire[i] \in Genuine
    BY <1>1
  <2> QED
    BY <2>1, SubSeqProperties
<1>3. PICK i \in 1 .. Len(wire) :
        \/ wire' = Without(i)
        \/ wire' = SubSeq(wire, 1, i) \o SubSeq(wire, i, Len(wire))
        \/ i < Len(wire) /\ wire' = [wire EXCEPT ![i] = wire[i + 1], ![i + 1] = wire[i]]
  BY <1>1 DEF Faulty
<1>4. /\ SubSeq(wire, 1, i - 1) \in Seq(Genuine) /\ SubSeq(wire, 1, i) \in Seq(Genuine)
      /\ SubSeq(wire, i, Len(wire)) \in Seq(Genuine)
      /\ SubSeq(wire, i + 1, Len(wire)) \in Seq(Genuine)
  <2>1. /\ 1 \in 1 .. Len(wire) + 1 /\ i \in 1 .. Len(wire) + 1 /\ i + 1 \in 1 .. Len(wire) + 1
        /\ i - 1 \in 0 .. Len(wire) /\ i \in 0 .. Len(wire) /\ Len(wire) \in 0 .. Len(wire)
    BY <1>1
  <2> QED
    BY <1>2, <2>1
<1>5. CASE wire' = Without(i)
  BY <1>4, <1>5, ConcatProperties DEF Without
<1>6. CASE wire' = SubSeq(wire, 1, i) \o SubSeq(wire, i, Len(wire))
  BY <1>4, <1>6, ConcatProperties
<1>7. CASE i < Len(wire) /\ wire' = [wire EXCEPT ![i] = wire[i + 1], ![i + 1] = wire[i]]
  <2>1. i + 1 \in 1 .. Len(wire) /\ wire[i] \in Genuine /\ wire[i + 1] \in Genuine
    BY <1>1, <1>7
  <2> DEFINE first == [wire EXCEPT ![i] = wire[i + 1]]
  <2>2. first \in Seq(Genuine) /\ Len(first) = Len(wire)
    BY <1>1, <2>1, ExceptSeq
  <2>3. wire' = [first EXCEPT ![i + 1] = wire[i]]
    BY <1>7
  <2> HIDE DEF first
  <2> QED
    BY <2>1, <2>2, <2>3, ExceptSeq
<1> QED
  BY <1>3, <1>5, <1>6, <1>7

LEMMA DetailSteps == DetailInv /\ [DetailNext]_detailVars => DetailInv'
<1> SUFFICES ASSUME DetailInv, [DetailNext]_detailVars PROVE DetailInv'
  OBVIOUS
<1>1. wire \in Seq(Genuine) /\ scene \in Nat
  BY DEF DetailInv, DetailTypes, WireIsGenuine
<1>2. ASSUME NEW kind, Takes(kind)
      PROVE  /\ Head(wire) \in Genuine /\ Head(wire).kind = kind /\ wire' \in Seq(Genuine)
             /\ Unsettled /\ UNCHANGED <<scene, sender>>
  BY <1>1, <1>2, HeadTailProperties DEF Takes
<1>10. CASE SceneChanges
  <2>1. Genuine' = Genuine
    BY <1>10 DEF SceneChanges, Genuine
  <2> QED
    BY <1>1, <1>10, <2>1
    DEF SceneChanges, DetailInv, DetailTypes, WireIsGenuine, ChunksInOrder, ValueIsWhole, Result
<1>11. CASE Faulty
  BY <1>11, FaultsMakeNothing, ReaderMoves DEF Faulty
<1>12. CASE TakesChunk
  <2>1. Takes("chunk")
    BY <1>12 DEF TakesChunk
  <2> QED
    BY <1>2, <1>12, <2>1, ReaderMoves DEF TakesChunk
<1>13. CASE TakesEnd
  <2>1. /\ Head(wire) \in Genuine /\ Head(wire).kind = "end" /\ wire' \in Seq(Genuine)
        /\ Unsettled /\ UNCHANGED <<scene, sender>>
    BY <1>2, <1>13 DEF TakesEnd
  <2>2. sender.at = "over" /\ Head(wire).index = sender.chunks
    BY <2>1 DEF Genuine
  <2>3. reader.collected # <<>> => Len(reader.collected) # 0
    BY EmptySeq DEF DetailInv, ChunksInOrder
  <2> QED
    BY <1>13, <2>1, <2>2, <2>3, ReaderMoves DEF TakesEnd
<1>14. CASE TakesResult
  <2>1. /\ Head(wire) \in Genuine /\ Head(wire).kind = "result" /\ wire' \in Seq(Genuine)
        /\ Unsettled /\ UNCHANGED <<scene, sender>>
    BY <1>2, <1>14 DEF TakesResult
  <2> DEFINE e == Head(wire)
  <2>2. e \in Events /\ e.kind = "result" /\ e.index = 0 /\ e.of = sender.scene
    BY <2>1 DEF Genuine
  <2>3. e = Result
    BY <2>2 DEF Events, Result
  <2> QED
    BY <1>14, <2>1, <2>3, ReaderMoves DEF TakesResult
<1>15. CASE TakesAnalysis
  <2>1. wire' \in Seq(Genuine) /\ Unsettled /\ UNCHANGED <<scene, sender>>
    BY <1>2, <1>15 DEF TakesAnalysis
  <2> QED
    BY <1>15, <2>1, ReaderMoves DEF TakesAnalysis
<1>16. CASE TakesContext \/ TakesFailure
  <2>1. wire' \in Seq(Genuine) /\ Unsettled /\ UNCHANGED <<scene, sender>>
    BY <1>2, <1>16 DEF TakesContext, TakesFailure
  <2> QED
    BY <1>16, <2>1, ReaderMoves DEF TakesContext, TakesFailure
<1>17. ASSUME NEW broken \in BOOLEAN, StreamEnds(broken) PROVE DetailInv'
  <2>1. \E how \in {"failed", "null", "incomplete"} : SettlesAs(how)
    BY <1>17 DEF StreamEnds
  <2> QED
    BY <1>1, <1>17, <2>1, ReaderMoves DEF StreamEnds
<1>18. CASE Cancels
  BY <1>1, <1>18, ReaderMoves DEF Cancels
<1>19. CASE UNCHANGED detailVars
  <2>1. UNCHANGED <<scene, sender, wire, reader>>
    BY <1>19 DEF detailVars
  <2> QED
    BY <1>1, <2>1, ReaderMoves
<1>20. CASE \/ HostFails \/ Accepts \/ Calls \/ MemberPage \/ SendsContext \/ ChecksRecord
            \/ ReadsText \/ SendsResult \/ SendsChunk \/ SendsEnd \/ Analyzes
            \/ \E n \in 0 .. MaxChunks : Reads(n)
  BY <1>20, SenderSteps
<1> QED
  BY <1>10, <1>11, <1>12, <1>13, <1>14, <1>15, <1>16, <1>17, <1>18, <1>19, <1>20
  DEF DetailNext

\* What the chunks are, when they are genuine, in order and as many as were sent.
LEMMA CollectedIsTheValue ==
  ASSUME DetailInv, reader.settled = "value", sender.chunks # 0
  PROVE  reader.collected = [i \in 1 .. sender.chunks |->
                               [kind |-> "chunk", index |-> i - 1, of |-> sender.scene]]
<1>1. /\ reader.collected \in [1 .. sender.chunks -> Genuine]
      /\ Len(reader.collected) = sender.chunks
  BY LenProperties DEF DetailInv, ChunksInOrder, ValueIsWhole
<1>2. ASSUME NEW i \in 1 .. sender.chunks
      PROVE  reader.collected[i] = [kind |-> "chunk", index |-> i - 1, of |-> sender.scene]
  <2> DEFINE e == reader.collected[i]
  <2>1. e \in Genuine /\ e.kind = "chunk" /\ e.index = i - 1
    BY <1>1 DEF DetailInv, ChunksInOrder
  <2> HIDE DEF e
  <2>2. e \in Events /\ e.of = sender.scene
    BY <2>1 DEF Genuine
  <2>3. e = [kind |-> "chunk", index |-> i - 1, of |-> sender.scene]
    BY <2>1, <2>2 DEF Events
  <2> QED
    BY <2>3 DEF e
<1> QED
  BY <1>1, <1>2

\* A value is whole, in order and of its scene for any chunks, faults and changes, sent
\* at once or in chunks.
THEOREM DetailIsWhole == DetailSpec => []WholeInItsScene
<1>1. DetailInv => WholeInItsScene
  <2>1. DetailInv /\ reader.settled = "value" /\ sender.chunks = 0 => reader.collected = <<Result>>
    BY DEF DetailInv, ValueIsWhole
  <2> QED
    BY <2>1, CollectedIsTheValue DEF WholeInItsScene, Result
<1> QED
  BY <1>1, DetailInitially, DetailSteps, PTL DEF DetailSpec
==============================================================================
