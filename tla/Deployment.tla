----------------------------- MODULE Deployment -----------------------------
(***************************************************************************)
(* One server process and its two directories: the match documents it      *)
(* loads and saves (DocumentStore) and the seeker's models it reads when   *)
(* it starts (ModelStore), which seeker_model_init writes from processes   *)
(* of its own.  The server dies and starts again as one.                   *)
(***************************************************************************)
EXTENDS DocumentStore

CONSTANTS Tools, VersionOf, Activates, MaxUpsets
VARIABLES versions, active, tool, policy, upsets

Models == INSTANCE ModelStore

\* A run of the tool and a version are not mistaken for what a file may be instead.
ASSUME NameAssumption ==
  {Models!Absent, Models!Cut, Models!Mixed, Models!Baseline} \cap (Tools \cup Models!Versions) = {}

ASSUME ActivatesAssumption == Activates \subseteq Tools

serverVars == vars
modelVars == <<versions, active, tool, policy, upsets>>
deploymentVars == <<serverVars, modelVars>>

DeploymentInit == Init /\ Models!Init

\* A restart: the cache is gone, and the policy is chosen anew.
Restart == Crash /\ Models!StartServer

\* Between two restarts the server and the tools share nothing.
Serve ==
  /\ \/ \E n \in Names : Load(n) \/ Create(n)
     \/ Leave \/ Update \/ Open \/ OpenFails \/ Write \/ DumpFails \/ Return
  /\ UNCHANGED modelVars

RunTool == Models!ToolStep /\ UNCHANGED serverVars

DeploymentNext == Serve \/ RunTool \/ Restart

DeploymentSpec == DeploymentInit /\ [][DeploymentNext]_deploymentVars

-----------------------------------------------------------------------------
(* The properties of the two parts.                                        *)

\* The server never plays a mixture of two runs' models (ModelStore).
PlaysOneRunsModel == Models!PlaysOneRunsModel

\* Undisturbed tools leave the server a version to load, but for the moment in which
\* one of them rewrites ACTIVE (ModelStore).
ActiveIsLoadable == Models!ActiveIsLoadable

\* A model is played as one run of the tool made it, and tools left alone leave the
\* server without one only while one of them rewrites ACTIVE.
ModelIsTrusted == PlaysOneRunsModel /\ ActiveIsLoadable
=============================================================================
