----------------------------- MODULE ModelStore -----------------------------
(***************************************************************************)
(* The seeker's models on disk: seeker_model_init, the tool that writes a  *)
(* version and may activate it (model_store.cpp), and the server, which    *)
(* picks its policy once, when it starts (SeekerPolicyProvider).           *)
(*                                                                         *)
(* A model is the bytes of its weights, made from a seed.  Every write is  *)
(* an open that truncates and a write whose errors nobody looks at; a tool *)
(* may die anywhere.  Two tools may run at once: each checks that its      *)
(* version does not exist before it creates the directory, and neither     *)
(* check nor creation is exclusive.                                        *)
(***************************************************************************)
EXTENDS Integers

CONSTANTS
  Tools,      \* runs of seeker_model_init
  VersionOf,  \* the --version of each run
  Activates,  \* the runs with --activate
  MaxUpsets   \* bound of the model: tools killed and writes cut short

VARIABLES
  versions,   \* of each version: whether its directory exists, its weights and manifest
  active,     \* the ACTIVE file: absent, empty, or a version
  tool,       \* where each run is
  policy,     \* what the server plays with: the baseline, or a version's model
  upsets

vars == <<versions, active, tool, policy, upsets>>

Absent == "absent"
Cut == "cut"              \* a file opened and not, or only partly, written
Mixed == "mixed"          \* a whole file with the bytes of two runs
Baseline == "baseline"
Versions == {VersionOf[t] : t \in Tools}
Model(t) == t             \* the bytes a run's seed gives: no two runs have the same
Files == {"weights", "manifest"}

\* Where a run is when it opens, or writes, a file of its version.
Opening == [weights |-> "open weights", manifest |-> "open manifest"]
Writing == [weights |-> "write weights", manifest |-> "write manifest"]

Init ==
  /\ versions = [v \in Versions |-> [exists |-> FALSE, weights |-> Absent, manifest |-> Absent]]
  /\ active = Absent /\ upsets = 0
  /\ tool = [t \in Tools |-> "new"]
  /\ policy = [id |-> Baseline, version |-> Absent]

-----------------------------------------------------------------------------
(* writeSeekerModel.                                                       *)

At(t, from, to) == tool[t] = from /\ tool' = [tool EXCEPT ![t] = to]

\* The check of the version directory; an existing one is an error.
CheckVersion(t) ==
  /\ \/ ~ versions[VersionOf[t]].exists /\ At(t, "new", "create")
     \/ versions[VersionOf[t]].exists /\ At(t, "new", "done")
  /\ UNCHANGED <<versions, active, policy, upsets>>

CreateDirectory(t) ==
  /\ At(t, "create", "open weights")
  /\ versions' = [versions EXCEPT ![VersionOf[t]].exists = TRUE]
  /\ UNCHANGED <<active, policy, upsets>>

Stored(t, file, content) ==
  versions' = [versions EXCEPT ![VersionOf[t]][file] = content]

OpenFile(t, file) ==
  /\ At(t, Opening[file], Writing[file])
  /\ Stored(t, file, Cut)
  /\ UNCHANGED <<active, policy, upsets>>

AfterWrite(t, file) ==
  CASE file = "weights" -> "open manifest"
    [] file = "manifest" -> IF t \in Activates THEN "open active" ELSE "done"

\* What a write that is cut short may leave of a file: nothing usable, or, when
\* another run has written the file since it was opened, a mixture of the two; a
\* mixed manifest has nobody's checksum, and is no better than none.
Remains(file, old) ==
  IF old \in {Absent, Cut} THEN {Cut} ELSE {old, IF file = "weights" THEN Mixed ELSE Cut}

\* The manifest holds the checksum of the run's own bytes, not of the file's; over
\* another run's longer one its text leaves a tail, and no longer parses.
WriteFile(t, file) ==
  /\ At(t, Writing[file], AfterWrite(t, file))
  /\ \E old \in {versions[VersionOf[t]][file]} :
       \/ Stored(t, file, Model(t)) /\ UNCHANGED upsets
       \/ file = "manifest" /\ old \notin {Absent, Cut} /\ Stored(t, file, Cut) /\ UNCHANGED upsets
       \/ /\ upsets < MaxUpsets /\ upsets' = upsets + 1
          /\ \E content \in Remains(file, old) : Stored(t, file, content)
  /\ UNCHANGED <<active, policy>>

\* The name of the version is short: it is written whole or not at all, at the head
\* of the file, where the server reads one line.
OpenActive(t) ==
  /\ At(t, "open active", "write active")
  /\ active' = Cut
  /\ UNCHANGED <<versions, policy, upsets>>

WriteActive(t) ==
  /\ At(t, "write active", "done")
  /\ \/ active' = VersionOf[t] /\ UNCHANGED upsets
     \/ upsets < MaxUpsets /\ upsets' = upsets + 1 /\ UNCHANGED active
  /\ UNCHANGED <<versions, policy>>

Killed(t) ==
  /\ tool[t] # "new" /\ At(t, tool[t], "done") /\ tool' # tool
  /\ upsets < MaxUpsets /\ upsets' = upsets + 1
  /\ UNCHANGED <<versions, active, policy>>

-----------------------------------------------------------------------------
(* The server.                                                             *)

\* (mutant) a model whose size is right is taken without a look at the checksum
SizeOnly(v) ==
  /\ versions[v].exists /\ versions[v].manifest \notin {Absent, Cut}
  /\ versions[v].weights \notin {Absent, Cut}

\* loadActiveSeekerModel accepts a version: manifest and weights are there and
\* whole, and the weights have the manifest's checksum.
IsLoadable(v) ==
  /\ versions[v].exists /\ versions[v].manifest \notin {Absent, Cut}
  /\ versions[v].weights \notin {Absent, Cut}
  /\ versions[v].weights = versions[v].manifest

\* SeekerPolicyProvider: the active model, or the baseline for any reason at all.
ChoosePolicy ==
  policy' = IF active \in Versions /\ IsLoadable(active)
            THEN [id |-> versions[active].weights, version |-> active]
            ELSE [id |-> Baseline, version |-> Absent]

StartServer == ChoosePolicy /\ UNCHANGED <<versions, active, tool, upsets>>

ToolStep ==
  \E t \in Tools :
    \/ CheckVersion(t) \/ CreateDirectory(t)
    \/ \E file \in Files : OpenFile(t, file) \/ WriteFile(t, file)
    \/ OpenActive(t) \/ WriteActive(t) \/ Killed(t)

Next == ToolStep \/ StartServer

Spec == Init /\ [][Next]_vars

-----------------------------------------------------------------------------
(* Properties.                                                             *)

\* The server plays the baseline or the model one run made: whatever was cut
\* short, and however two runs on one version overwrote each other, it never takes
\* a mixture of theirs for a model (the checksum, model_store.cpp:206).
PlaysOneRunsModel ==
  policy.id # Baseline => policy.id \in Tools /\ VersionOf[policy.id] = policy.version

\* Nothing is cut short, and no two runs share a version.
Undisturbed ==
  /\ upsets = 0
  /\ \A s, t \in {r \in Tools : tool[r] # "new"} : VersionOf[s] = VersionOf[t] => s = t

HasActivated == \E t \in Activates : tool[t] = "done"
Activating(t) == tool[t] = "write active"

\* Undisturbed runs never make ACTIVE name a version the server cannot load, for the
\* tool writes weights, manifest and ACTIVE in this order (model_store.cpp:48-89);
\* and once one has activated its version there is always one to load, but while
\* another run rewrites ACTIVE: it truncates the file in place, and a server that
\* starts before the name is written finds none, against the "atomic rollback" of
\* the seeker design (hider-seeker-complete-design.md:552).
ActiveIsLoadable ==
  Undisturbed =>
    /\ active \in Versions => IsLoadable(active)
    /\ HasActivated /\ active \notin Versions => \E t \in Tools : Activating(t)
=============================================================================
