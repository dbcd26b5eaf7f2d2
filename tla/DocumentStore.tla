---------------------------- MODULE DocumentStore ----------------------------
(***************************************************************************)
(* FileStore, one JSON file per document, and MatchRepository, its LRU     *)
(* cache: what a handler loads, and what a crash or a full disk leaves.    *)
(*                                                                         *)
(* The server runs its handlers one at a time, so a handler is a load and  *)
(* perhaps a save of the same match.  A save checks the stored document    *)
(* and then truncates and writes the file in place: a process that dies in *)
(* between, or a write error, which the code does not look for, leaves a   *)
(* file that cannot be parsed.                                             *)
(***************************************************************************)
EXTENDS Integers, Sequences, FiniteSets, SequencesExt

CONSTANTS
  Names,     \* match ids
  CacheCap,  \* capacity of the cache (200)
  MaxSaves,  \* bound of the model: documents written
  MaxFaults  \* bound of the model: crashes and write errors

ASSUME StoreAssumption ==
  CacheCap \in Nat \ {0} /\ MaxSaves \in Nat /\ MaxFaults \in Nat

VARIABLES
  file,       \* each match's file
  cache,      \* LRUMap: <<name, document>> pairs, most recently used first
  pc,         \* where the running handler is
  name,       \* the match it serves
  held,       \* the document it loaded, or is saving
  confirmed,  \* history: number of the last save of each match that returned true
  saves,      \* saves begun so far
  faults      \* crashes and write errors so far

vars == <<file, cache, pc, name, held, confirmed, saves, faults>>

Absent == [kind |-> "absent"]
Torn == [kind |-> "torn"]      \* not parsable
\* A document: its version field and, for its content, the save that wrote it.
Document(version, content) == [kind |-> "document", version |-> version, content |-> content]

IsReadable(n) == file[n].kind = "document"

Init ==
  /\ file = [n \in Names |-> Absent]
  /\ cache = <<>>
  /\ pc = "idle" /\ name \in Names /\ held = Absent
  /\ confirmed = [n \in Names |-> 0]
  /\ saves = 0 /\ faults = 0

-----------------------------------------------------------------------------
(* LRUMap.                                                                 *)

\* Where the map finds a match in the list.
Nodes(n) == {i \in DOMAIN cache : cache[i][1] = n}
Without(n) ==
  IF Nodes(n) = {} THEN cache ELSE RemoveAt(cache, CHOOSE i \in Nodes(n) : TRUE)
Cached(n) == {cache[i][2] : i \in Nodes(n)}
Cache(n, document) ==
  LET all == <<<<n, document>>>> \o Without(n)
  IN IF Len(all) > CacheCap THEN Front(all) ELSE all

-----------------------------------------------------------------------------
(* MatchRepository.load: the cache first, then the store.                  *)

Load(n) ==
  /\ pc = "idle"
  /\ \E document \in IF Cached(n) # {} THEN Cached(n)
                     ELSE IF IsReadable(n) THEN {file[n]} ELSE {} :
       held' = document /\ cache' = Cache(n, document)
  /\ pc' = "loaded" /\ name' = n
  /\ UNCHANGED <<file, confirmed, saves, faults>>

\* A handler that found nothing to change returns.
Leave ==
  /\ pc = "loaded" /\ pc' = "idle" /\ held' = Absent
  /\ UNCHANGED <<file, cache, name, confirmed, saves, faults>>

-----------------------------------------------------------------------------
(* FileStore.save.                                                         *)

Begin(n, version) ==
  /\ saves < MaxSaves /\ saves' = saves + 1
  /\ pc' = "open" /\ name' = n /\ held' = Document(version, saves')
  /\ UNCHANGED <<file, cache, confirmed, faults>>

\* The initial save of a match; a file that cannot be parsed does not count as
\* existing.
Create(n) == pc = "idle" /\ ~ IsReadable(n) /\ Begin(n, 0)

\* A later save needs the stored document and its version; it is refused
\* otherwise, and the handler returns.
CanUpdate == IsReadable(name) /\ file[name].version = held.version
Update == pc = "loaded" /\ CanUpdate /\ Begin(name, held.version + 1)

\* The output stream truncates the file when it opens it.
Open ==
  /\ pc = "open" /\ pc' = "write"
  /\ file' = [file EXCEPT ![name] = Torn]
  /\ UNCHANGED <<cache, name, held, confirmed, saves, faults>>

OpenFails ==
  /\ pc = "open" /\ faults < MaxFaults /\ faults' = faults + 1
  /\ pc' = "idle" /\ held' = Absent
  /\ UNCHANGED <<file, cache, name, confirmed, saves>>

\* The content is written, or only a part of it: the stream reports neither.
Write ==
  /\ pc = "write" /\ pc' = "saved"
  /\ \/ file' = [file EXCEPT ![name] = held] /\ UNCHANGED faults
     \/ faults < MaxFaults /\ faults' = faults + 1 /\ UNCHANGED file
  /\ UNCHANGED <<cache, name, held, confirmed, saves>>

\* The document cannot be turned into text: the save fails with the file already
\* truncated, and the cached match stays (MatchRepository.cpp:23).
DumpFails ==
  /\ pc = "write" /\ faults < MaxFaults /\ faults' = faults + 1
  /\ pc' = "idle" /\ held' = Absent
  /\ UNCHANGED <<file, cache, name, confirmed, saves>>

-----------------------------------------------------------------------------
(* MatchRepository.save and init drop the cached match after the save.     *)

\* (mutant) the cached match is kept
KeepCached == cache
DropCached == Without(name)

Return ==
  /\ pc = "saved" /\ pc' = "idle" /\ held' = Absent
  /\ cache' = DropCached
  /\ confirmed' = [confirmed EXCEPT ![name] = held.content]
  /\ UNCHANGED <<file, name, saves, faults>>

\* The process dies and is started again.
Crash ==
  /\ faults < MaxFaults /\ faults' = faults + 1
  /\ pc' = "idle" /\ held' = Absent /\ cache' = <<>>
  /\ UNCHANGED <<file, name, confirmed, saves>>

Next ==
  \/ \E n \in Names : Load(n) \/ Create(n)
  \/ Leave \/ Update \/ Open \/ OpenFails \/ Write \/ DumpFails \/ Return \/ Crash

Spec == Init /\ [][Next]_vars

-----------------------------------------------------------------------------
(* Properties.                                                             *)

\* A handler never works on a document older than the last acknowledged save of
\* its match, whatever was cached, evicted, torn or lost before
\* (MatchRepository.cpp:10-37): clients that act on an answer find it.
LoadsLatest == pc = "loaded" => held.content >= confirmed[name]

\* A handler works on the document its file holds, and can save it, or the file is
\* torn: no save is refused for its version (FileStore.cpp:140-143).  The cache does
\* serve a match whose file is torn, after a save that failed in the writing, and
\* then every save of it is refused until it is evicted (MatchRepository.cpp:23, 30).
WorksOnTheFile == pc = "loaded" /\ IsReadable(name) => held = file[name]

\* The cache in front of the files is as good as the files: a handler neither
\* misses an acknowledged save nor works on a version the file no longer has.
CacheIsCurrent == LoadsLatest /\ WorksOnTheFile

Lost == {n \in Names : confirmed[n] > 0 /\ ~ IsReadable(n)}

\* Saving in place, "atomically" in the design (hider-seeker-complete-design.md:681),
\* costs a match that was acknowledged its only copy when the process dies or a
\* write fails; but only then, and one match at a time (FileStore.cpp:148-160).
EachLossIsAFault == pc = "idle" => Cardinality(Lost) <= faults

\* What was acknowledged is served from then on, until a fault in the middle of a
\* save takes it: by the cache, by the file, or by the one in front of the other.
MatchesAreKept == CacheIsCurrent /\ EachLossIsAFault
=============================================================================
