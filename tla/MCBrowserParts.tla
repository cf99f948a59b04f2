--------------------------- MODULE MCBrowserParts ----------------------------
(* The parts that serve one browser and share no state, checked in one run: the part
   that moves is chosen initially, the others stay where nothing is asked of them. *)
EXTENDS CliSetup, BusinessPanel, Diagnostics, ProvenanceDetail

VARIABLE part
vars == <<part, setupVars, panelVars, diagVars, detailVars>>

Parts == {"setup", "panel", "diagnostics", "detail"}

MCInit ==
  /\ part \in Parts
  /\ SetupInit /\ (part # "setup" => cli = Absent)
  /\ PanelInit
  /\ DiagInit
  /\ DetailInit /\ (part # "detail" => wanted.kind = "page" /\ ~wanted.other)

MCNext ==
  /\ UNCHANGED part
  /\ \/ part = "setup"       /\ SetupNext  /\ UNCHANGED <<panelVars, diagVars, detailVars>>
     \/ part = "panel"       /\ PanelNext  /\ UNCHANGED <<setupVars, diagVars, detailVars>>
     \/ part = "diagnostics" /\ DiagNext   /\ UNCHANGED <<setupVars, panelVars, detailVars>>
     \/ part = "detail"      /\ DetailNext /\ UNCHANGED <<setupVars, panelVars, diagVars>>

\* What must happen in a part is not enabled while the part stays initially.
MCSpec == MCInit /\ [][MCNext]_vars /\ SetupFairness /\ PanelFairness
==============================================================================
