----------------------------- MODULE LspProperties -----------------------------
(***************************************************************************)
(* What is checked of LspServer.  Unless a comment says otherwise a        *)
(* property is meant for clients that never reuse a version number of a    *)
(* URI (VersionsRestart = FALSE).                                          *)
(***************************************************************************)
EXTENDS LspServer

\* A task that has not ended and was not aborted.
Live(task) == task.stage \notin {"none", "finished"} /\ ~task.aborted

Closing(u) == handler.uri = u /\ handler.at \in {"closed", "cancelled", "unsaved"}

\* The analysis that hover, completion and code actions read is the analysis of
\* the text in the buffer, although it was computed without any lock from a
\* snapshot taken earlier (document.rs: cached_analysis).
CacheMatchesBuffer ==
  \A u \in Uris : documents[u].cached \in {None, documents[u].text}

\* Cross-file answers and in-file answers agree: once a file's buffer has an
\* analysis, the workspace index holds the same analysis as an open buffer,
\* whatever saves, scans and file events do to the index (analysis.rs commits
\* both under the document lock).
IndexAgreesWithCache ==
  \A u \in FileUris :
    documents[u].cached # None =>
      units[u] = [text |-> documents[u].cached, open |-> TRUE]

\* No ghost buffers: a unit is marked from_open_buffer only while its document
\* is open or its did_close handler has not reached note_closed yet.
OpenUnitHasBuffer ==
  \A u \in Uris : units[u].open => IsOpen(documents, u) \/ Closing(u)

\* The scheduler's map holds exactly the live analysis tasks, so at most one
\* per URI, and a task's cleanup never evicts the entry of a newer generation.
PendingIsTheLiveTask ==
  \A u \in Uris, g \in Generations :
    pending[u] = g <=> Live(analyses[g]) /\ analyses[g].uri = u

\* Every save task in flight can be aborted by close and shutdown: it is in
\* save_tasks, or the handler that spawned it is about to put it there.
LiveSavesAreCancellable ==
  \A g \in SaveGenerations :
    Live(saves[g]) => \/ save_tasks[saves[g].uri] = g
                      \/ handler.at = "spawned" /\ handler.generation = g

\* Nothing is left running unaborted for a closed buffer after its did_close, and "no
\* analysis work outlives the server" after shutdown.
NoOrphanTask ==
  \A u \in Uris :
    down \/ (~IsOpen(documents, u) /\ ~Closing(u)) =>
      /\ \A g \in Generations : analyses[g].uri = u => ~Live(analyses[g])
      /\ \A g \in SaveGenerations : saves[g].uri = u => ~Live(saves[g])

\* Published diagnostics carry the version of the text they are about: a client
\* that compares versions never shows them on another text.
DiagnosticsMatchVersion ==
  \A u \in Uris :
    /\ IsOpen(documents, u)
    /\ diagnostics[u].text # None
    /\ diagnostics[u].version = documents[u].version
    => diagnostics[u].text = documents[u].text

\* When the scan is over and every file event is handled, a unit no buffer owns
\* is what the file holds.
IndexFollowsDisk ==
  HandlerIdle /\ scan.stage = "finished" /\ events = <<>> =>
    \A u \in ScannedUris :
      ~units[u].open /\ disk[u] # Unreadable => units[u].text = disk[u]

\* The server keeps the promise of BufferOwnership.  In its terms: a commit of a save or an
\* analysis writes the text the buffer has at that moment, and one that finished for an
\* older version, or after close, writes nothing (workspace.rs: commit_open_analysis); an
\* open buffer is not replaced by a disk event, a rescan or a save of another text.
Ownership == INSTANCE BufferOwnership WITH
  buffer <- [u \in Uris |-> documents[u].text],
  intel  <- [u \in Uris |-> documents[u].cached],
  index  <- units

KeepsOwnership == Ownership!Spec

--------------------------------------------------------------------------------
(* The strengthenings that make the invariants inductive (see LspProofs).      *)

Active(task) == task.stage \notin {"none", "finished"}
HasText(task) == task.stage \in {"analyzing", "analyzed", "publishing"}

\* A handler past its first section knows its URI, and one about to insert a
\* save task knows its generation.
HandlerWellFormed ==
  /\ ~HandlerIdle => handler.uri \in Uris
  /\ handler.at = "spawned" => handler.generation \in SaveGenerations

\* A task that has not ended knows its URI, and its text once it has one.
TaskWellFormed(task) ==
  /\ Active(task) => task.uri \in Uris
  /\ HasText(task) => task.text \in Texts

Typing ==
  /\ TypeOK
  /\ HandlerWellFormed
  /\ \A g \in Generations : TaskWellFormed(analyses[g])
  /\ \A g \in SaveGenerations : TaskWellFormed(saves[g])

\* Generations that have not been given out have no task.
FreshGenerations ==
  \A g \in Generations : g >= next_generation => analyses[g].stage = "none"

PendingInv == Typing /\ FreshGenerations /\ PendingIsTheLiveTask

\* What a task holds is the text its version has: no later text of the buffer
\* can be numbered like it.  docs and last stand for documents, client_version.
CurrentText(task, docs, last) ==
  HasText(task) =>
    /\ task.version <= last[task.uri]
    /\ IsCurrentVersion(docs, task.uri, task.version) =>
         task.text = docs[task.uri].text

TasksHoldCurrentTexts ==
  /\ \A g \in Generations : CurrentText(analyses[g], documents, client_version)
  /\ \A g \in SaveGenerations : CurrentText(saves[g], documents, client_version)

\* Versions in use are versions the client has given.
VersionsWereGiven ==
  \A u \in Uris :
    /\ IsOpen(documents, u) => documents[u].version <= client_version[u]
    /\ diagnostics[u].text # None => diagnostics[u].version <= client_version[u]

\* No handler closes a document another one has opened, and none runs after
\* shutdown.
HandlerKnowsItsBuffer ==
  /\ handler.at \in {"opened", "spawned"} => IsOpen(documents, handler.uri)
  /\ handler.at \in {"closed", "cancelled", "unsaved", "released"} =>
       ~IsOpen(documents, handler.uri)
  /\ ~HandlerIdle => ~down

DocumentInv ==
  /\ Typing /\ TasksHoldCurrentTexts /\ VersionsWereGiven /\ HandlerKnowsItsBuffer
  /\ CacheMatchesBuffer /\ IndexAgreesWithCache /\ OpenUnitHasBuffer
  /\ DiagnosticsMatchVersion

\* What the scan has read is still on disk.
ScanReadTheDisk ==
  scan.stage = "reading" =>
    \A u \in ScannedUris \ scan.left : scan.found[u] = disk[u]

\* The last event of a file tells whether the file is there.
LastEventIsTrue ==
  \A i \in 1 .. Len(events) :
    (\A j \in 1 .. Len(events) : j > i => events[j].uri # events[i].uri) =>
      (events[i].kind = "deleted" <=> disk[events[i].uri] = None)

\* A unit that is not what its file holds has an event on its way.
StaleUnitsAreReported ==
  scan.stage = "finished" =>
    \A u \in ScannedUris :
      ~units[u].open /\ disk[u] # Unreadable =>
        \/ units[u].text = disk[u]
        \/ \E i \in 1 .. Len(events) : events[i].uri = u

DiskInv == Typing /\ ScanReadTheDisk /\ LastEventIsTrue /\ StaleUnitsAreReported

\* The server's map of save tasks has entries only for tasks it was given, and
\* a task in it is a task of that URI.
FreshSaves ==
  /\ \A g \in SaveGenerations : g >= save_generation => saves[g].stage = "none"
  /\ \A u \in Uris : save_tasks[u] # NoTask =>
       /\ save_tasks[u] < save_generation
       /\ saves[save_tasks[u]].uri \in {u, None}
  /\ handler.at = "spawned" =>
       /\ handler.generation < save_generation
       /\ saves[handler.generation].uri \in {handler.uri, None}

\* A closed buffer has no entry in either map, except while it is being closed.
EntriesHaveBuffers ==
  \A u \in Uris :
    /\ pending[u] # NoTask => IsOpen(documents, u) \/ (handler.uri = u /\ handler.at = "closed")
    /\ save_tasks[u] # NoTask =>
         IsOpen(documents, u) \/ (handler.uri = u /\ handler.at \in {"closed", "cancelled"})
    /\ down => pending[u] = NoTask /\ save_tasks[u] = NoTask

OrphanInv ==
  /\ PendingInv /\ HandlerKnowsItsBuffer /\ FreshSaves /\ LiveSavesAreCancellable
  /\ EntriesHaveBuffers

--------------------------------------------------------------------------------
(* Liveness, under FairSpec.                                                   *)

\* Every buffer that stays open gets an analysis, however often edits abort
\* the task on its way (unless the analyzer panics on its text).
EventuallyAnalyzed ==
  \A u \in Uris :
    IsOpen(documents, u) ~>
      \/ ~IsOpen(documents, u) \/ down
      \/ documents[u].cached # None \/ documents[u].text \in Panics

\* When the client stops editing, the diagnostics it ends up with are those of
\* the text it has (with DebounceOutlasts).
DiagnosticsConverge ==
  <>[](down \/ \A u \in Uris :
         IsOpen(documents, u) => \/ diagnostics[u].text = documents[u].text
                                 \/ documents[u].text \in Panics)

\* "a quiescent scheduler reports zero": no entry stays in the map for ever.
PendingSettles == <>[](\A u \in Uris : pending[u] = NoTask)

--------------------------------------------------------------------------------
(* A claim of the repository that a run refutes.                               *)

\* "a stale debounced analysis never publishes diagnostics for a closed
\* document" (analysis.rs, cancel_analysis).
ClosedHasNoDiagnostics ==
  HandlerIdle =>
    \A u \in Uris : ~IsOpen(documents, u) => diagnostics[u].text = None
================================================================================
