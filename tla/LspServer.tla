-------------------------------- MODULE LspServer --------------------------------
(***************************************************************************)
(* The Quon language server: document store, debounced analysis scheduler, *)
(* didSave indexing, workspace scan, file watcher and published            *)
(* diagnostics (quon_lsp/src/server.rs and quon_lsp/src/analysis.rs).      *)
(*                                                                         *)
(* tower-lsp polls the handlers from one task and none of them awaits      *)
(* before its last statement, so handlers do not interleave with each      *)
(* other.  They interleave with the tokio tasks they spawn: one action is  *)
(* one lock section, or the code between two awaits of a task.             *)
(***************************************************************************)
EXTENDS WorkspaceIndex, Sequences, FiniteSets

CONSTANTS
  Panics,          \* texts on which the analyzer panics in its blocking thread
  MaxAnalyses,     \* bound: analysis tasks spawned
  MaxSaves,        \* bound: save-index tasks spawned
  MaxVersion,      \* bound: versions a client numbers for one URI
  MaxEvents,       \* bound: undelivered file events
  VersionsRestart, \* TRUE: a reopened buffer is numbered from 1 again
  QuietScan,       \* TRUE: no file changes while the workspace scan runs
  QuietUntilWatched, \* TRUE: no file changes before the watcher is registered
  DebounceOutlasts \* TRUE: the debounce outlasts the code between two awaits

ASSUME ServerAssumption ==
  /\ Panics \subseteq Texts
  /\ MaxAnalyses \in Nat /\ MaxSaves \in Nat
  /\ MaxVersion \in Nat /\ MaxEvents \in Nat
  /\ {VersionsRestart, QuietScan, QuietUntilWatched, DebounceOutlasts} \subseteq BOOLEAN

VARIABLES
  documents,        \* the document store
  client_version,   \* the last version the client numbered for each URI
  pending,          \* the scheduler's map from URI to task generation
  next_generation,  \* the next generation of an analysis task
  analyses,         \* the analysis tasks by generation
  save_tasks,       \* the server's map from URI to save task generation
  save_generation,  \* the next generation of a save task
  saves,            \* the save-index tasks by generation
  units,            \* the workspace index
  handler,          \* where the handler being run is
  scan,             \* the workspace scan task
  disk,             \* the .qn files under the roots
  watching,         \* the client has the **/*.qn watcher
  events,           \* file events sent and not yet handled
  diagnostics,      \* the diagnostics last published for each URI
  down              \* shutdown was requested

docVars == <<documents, client_version>>
schedulerVars == <<pending, next_generation, analyses>>
saveVars == <<save_tasks, save_generation, saves>>
diskVars == <<scan, disk, watching, events>>
vars == <<docVars, schedulerVars, saveVars, units, handler, diskVars,
          diagnostics, down>>

NoTask == -1
Generations == 0 .. MaxAnalyses - 1
SaveGenerations == 0 .. MaxSaves - 1

\* A task: at an await point (sleeping, analyzing) or running to the
\* next one (woken, analyzed, publishing, cleaning).
Running == {"woken", "analyzed", "publishing", "cleaning"}
Awaiting == {"sleeping", "analyzing"}
Stages == Running \cup Awaiting \cup {"none", "finished"}

Task == [uri : Uris \cup {None}, stage : Stages, aborted : BOOLEAN,
         text : MaybeText, version : Int]
Blank(stage) == [uri |-> None, stage |-> stage, aborted |-> FALSE,
                 text |-> None, version |-> 0]
NotSpawned == Blank("none")
Finished == Blank("finished")

\* The sections of a handler that are left to run.
Sections == {"idle", "opened", "closed", "cancelled", "unsaved", "released",
             "spawned"}
Idle == [at |-> "idle", uri |-> None, generation |-> NoTask]
HandlerIdle == handler.at = "idle"

Diagnostics == [text : MaybeText, version : Int]
NoDiagnostics == [text |-> None, version |-> 0]

TypeOK ==
  /\ documents \in [Uris -> Document]
  /\ client_version \in [Uris -> 0 .. MaxVersion]
  /\ pending \in [Uris -> Generations \cup {NoTask}]
  /\ next_generation \in 0 .. MaxAnalyses
  /\ analyses \in [Generations -> Task]
  /\ save_tasks \in [Uris -> SaveGenerations \cup {NoTask}]
  /\ save_generation \in 0 .. MaxSaves
  /\ saves \in [SaveGenerations -> Task]
  /\ units \in [Uris -> Unit]
  /\ handler \in [at : Sections, uri : Uris \cup {None},
                  generation : SaveGenerations \cup {NoTask}]
  /\ scan \in [stage : {"reading", "finished"}, left : SUBSET Uris,
               found : [Uris -> FileContent]]
  /\ disk \in [Uris -> FileContent]
  /\ watching \in BOOLEAN
  /\ events \in Seq([uri : Uris, kind : {"changed", "deleted"}])
  /\ diagnostics \in [Uris -> Diagnostics]
  /\ down \in BOOLEAN

ScannedUris == FileUris \ SkippedUris

\* What the file of a URI may hold.  Analysing a file happens inside handlers,
\* where a panic ends the process, so no file makes the analyzer panic.
Contents(u) == IF u \in FileUris THEN FileContent \ Panics ELSE {None}

\* The state in which `initialized` has spawned the scan and asked for the
\* watcher.  A client with no watcher support never reaches watching = TRUE.
Init ==
  /\ documents = [u \in Uris |-> NoDocument]
  /\ client_version = [u \in Uris |-> 0]
  /\ pending = [u \in Uris |-> NoTask]
  /\ next_generation = 0
  /\ analyses = [g \in Generations |-> NotSpawned]
  /\ save_tasks = [u \in Uris |-> NoTask]
  /\ save_generation = 0
  /\ saves = [g \in SaveGenerations |-> NotSpawned]
  /\ units = [u \in Uris |-> NoUnit]
  /\ handler = Idle
  /\ scan = [stage |-> "reading", left |-> ScannedUris,
             found |-> [u \in Uris |-> None]]
  /\ disk \in [Uris -> FileContent]
  /\ \A u \in Uris : disk[u] \in Contents(u)
  /\ watching = FALSE
  /\ events = <<>>
  /\ diagnostics = [u \in Uris |-> NoDiagnostics]
  /\ down = FALSE

--------------------------------------------------------------------------------
(* Tasks.  abort() drops a task at an await; a running task is flagged and     *)
(* keeps running until it awaits again.                                        *)

Abort(tasks, g) ==
  IF g = NoTask THEN tasks
  ELSE IF tasks[g].stage \in Awaiting
  THEN [tasks EXCEPT ![g] = Finished]
  ELSE IF tasks[g].stage \in Running
  THEN [tasks EXCEPT ![g].aborted = TRUE]
  ELSE tasks

NewTask(u, stage, t, v) ==
  [uri |-> u, stage |-> stage, aborted |-> FALSE, text |-> t, version |-> v]

\* Mutant: the entry is tagged with the generation after the increment.
RequestAnalysisLateTag(u) ==
  /\ next_generation < MaxAnalyses
  /\ analyses' = [Abort(analyses, pending[u]) EXCEPT
                    ![next_generation] = NewTask(u, "sleeping", None, 0)]
  /\ pending' = [pending EXCEPT ![u] = next_generation + 1]
  /\ next_generation' = next_generation + 1

\* request_analysis, one critical section of the scheduler's mutex: the old
\* task is removed and aborted, the new one spawned and inserted.
RequestAnalysis(u) ==
  /\ next_generation < MaxAnalyses
  /\ analyses' = [Abort(analyses, pending[u]) EXCEPT
                    ![next_generation] = NewTask(u, "sleeping", None, 0)]
  /\ pending' = [pending EXCEPT ![u] = next_generation]
  /\ next_generation' = next_generation + 1

--------------------------------------------------------------------------------
(* Client notifications and the handlers' sections.                            *)

\* A client sends nothing once it has asked for shutdown.
Accepting == HandlerIdle /\ ~down

NextVersion(u) == client_version[u] + 1

\* did_open, first section.  The protocol opens a buffer only when it is closed.
DidOpen(u, t) ==
  /\ Accepting
  /\ ~IsOpen(documents, u)
  /\ next_generation < MaxAnalyses
  /\ LET v == IF VersionsRestart THEN 1 ELSE NextVersion(u)
     IN /\ v <= MaxVersion
        /\ documents' = OpenDocument(documents, u, t, v)
        /\ client_version' = [client_version EXCEPT ![u] = v]
  /\ handler' = [at |-> "opened", uri |-> u, generation |-> NoTask]
  /\ UNCHANGED <<schedulerVars, saveVars, units, diskVars, diagnostics, down>>

\* Mutant: an opened buffer is analysed only after its first edit.
DidOpenWithoutRequest ==
  /\ handler.at = "opened"
  /\ handler' = Idle
  /\ UNCHANGED <<docVars, schedulerVars, saveVars, units, diskVars, diagnostics,
                 down>>

\* did_open, second section: the document lock has been released.
DidOpenRequest ==
  /\ handler.at = "opened"
  /\ RequestAnalysis(handler.uri)
  /\ handler' = Idle
  /\ UNCHANGED <<docVars, saveVars, units, diskVars, diagnostics, down>>

\* Mutant: an edit is stored but not analysed.
DidChangeWithoutRequest(u, t) ==
  /\ Accepting
  /\ IsOpen(documents, u)
  /\ NextVersion(u) <= MaxVersion
  /\ documents' = ApplyChanges(documents, u, t, NextVersion(u))
  /\ client_version' = [client_version EXCEPT ![u] = NextVersion(u)]
  /\ UNCHANGED <<schedulerVars, saveVars, units, handler, diskVars, diagnostics,
                 down>>

\* did_change holds the document lock across the edit and the request.
DidChange(u, t) ==
  /\ Accepting
  /\ IsOpen(documents, u)
  /\ NextVersion(u) <= MaxVersion
  /\ documents' = ApplyChanges(documents, u, t, NextVersion(u))
  /\ client_version' = [client_version EXCEPT ![u] = NextVersion(u)]
  /\ RequestAnalysis(u)
  /\ UNCHANGED <<saveVars, units, handler, diskVars, diagnostics, down>>

\* did_change with an edit out of range: the document keeps text and version
\* while the client has moved on, and no analysis is requested.
DidChangeRejected(u) ==
  /\ Accepting
  /\ IsOpen(documents, u)
  /\ NextVersion(u) <= MaxVersion
  /\ client_version' = [client_version EXCEPT ![u] = NextVersion(u)]
  /\ UNCHANGED <<documents, schedulerVars, saveVars, units, handler, diskVars,
                 diagnostics, down>>

\* did_close, section by section.
DidClose(u) ==
  /\ Accepting
  /\ IsOpen(documents, u)
  /\ documents' = CloseDocument(documents, u)
  /\ handler' = [at |-> "closed", uri |-> u, generation |-> NoTask]
  /\ UNCHANGED <<client_version, schedulerVars, saveVars, units, diskVars,
                 diagnostics, down>>

\* Mutant: the handle is dropped without aborting the task.
ForgetAnalysis ==
  /\ handler.at = "closed"
  /\ pending' = [pending EXCEPT ![handler.uri] = NoTask]
  /\ handler' = [handler EXCEPT !.at = "cancelled"]
  /\ UNCHANGED <<docVars, next_generation, analyses, saveVars, units, diskVars,
                 diagnostics, down>>

CancelAnalysis ==
  /\ handler.at = "closed"
  /\ analyses' = Abort(analyses, pending[handler.uri])
  /\ pending' = [pending EXCEPT ![handler.uri] = NoTask]
  /\ handler' = [handler EXCEPT !.at = "cancelled"]
  /\ UNCHANGED <<docVars, next_generation, saveVars, units, diskVars,
                 diagnostics, down>>

CancelSaveIndex ==
  /\ handler.at = "cancelled"
  /\ saves' = Abort(saves, save_tasks[handler.uri])
  /\ save_tasks' = [save_tasks EXCEPT ![handler.uri] = NoTask]
  /\ handler' = [handler EXCEPT !.at = "unsaved"]
  /\ UNCHANGED <<docVars, schedulerVars, save_generation, units, diskVars,
                 diagnostics, down>>

DidCloseNoteClosed ==
  /\ handler.at = "unsaved"
  /\ units' = NoteClosed(units, handler.uri, disk[handler.uri])
  /\ handler' = [handler EXCEPT !.at = "released"]
  /\ UNCHANGED <<docVars, schedulerVars, saveVars, diskVars, diagnostics, down>>

DidClosePublish ==
  /\ handler.at = "released"
  /\ diagnostics' = [diagnostics EXCEPT ![handler.uri] = NoDiagnostics]
  /\ handler' = Idle
  /\ UNCHANGED <<docVars, schedulerVars, saveVars, units, diskVars, down>>

\* did_save with text, up to the spawn in index_text: only the text that is
\* still in the buffer is indexed.
DidSave(u, t) ==
  /\ Accepting
  /\ documents[u].text = t
  /\ save_generation < MaxSaves
  /\ saves' = [saves EXCEPT ![save_generation] =
                 NewTask(u, "analyzing", t, documents[u].version)]
  /\ save_generation' = save_generation + 1
  /\ handler' = [at |-> "spawned", uri |-> u, generation |-> save_generation]
  /\ UNCHANGED <<docVars, schedulerVars, save_tasks, units, diskVars,
                 diagnostics, down>>

\* Mutant: the save task that is replaced is not aborted.
InsertSaveTaskKeepPrevious ==
  /\ handler.at = "spawned"
  /\ save_tasks' = [save_tasks EXCEPT ![handler.uri] = handler.generation]
  /\ handler' = Idle
  /\ UNCHANGED <<docVars, schedulerVars, save_generation, saves, units, diskVars,
                 diagnostics, down>>

\* index_text inserts the handle of the task it has already spawned.
InsertSaveTask ==
  /\ handler.at = "spawned"
  /\ saves' = Abort(saves, save_tasks[handler.uri])
  /\ save_tasks' = [save_tasks EXCEPT ![handler.uri] = handler.generation]
  /\ handler' = Idle
  /\ UNCHANGED <<docVars, schedulerVars, save_generation, units, diskVars,
                 diagnostics, down>>

\* did_save without text.
DidSaveNoText(u) ==
  /\ Accepting
  /\ IsOpen(documents, u)
  /\ units' = ReloadFromDisk(units, u, disk[u])
  /\ UNCHANGED <<docVars, schedulerVars, saveVars, handler, diskVars,
                 diagnostics, down>>

\* did_change_watched_files, one change at a time.  reload_from_disk repeats
\* the open-buffer check the handler makes before it.
DidChangeWatchedFile ==
  /\ Accepting
  /\ events # <<>>
  /\ LET e == Head(events)
     IN units' = IF e.kind = "deleted" THEN ForgetDeleted(units, e.uri)
                 ELSE ReloadFromDisk(units, e.uri, disk[e.uri])
  /\ events' = Tail(events)
  /\ UNCHANGED <<docVars, schedulerVars, saveVars, handler, scan, disk,
                 watching, diagnostics, down>>

AbortAll(tasks, entries) ==
  [g \in DOMAIN tasks |->
     IF \E u \in Uris : entries[u] = g THEN Abort(tasks, g)[g] ELSE tasks[g]]

\* shutdown drains and aborts both maps, each under its own mutex; the two
\* sections share no state.
Shutdown ==
  /\ Accepting
  /\ analyses' = AbortAll(analyses, pending)
  /\ pending' = [u \in Uris |-> NoTask]
  /\ saves' = AbortAll(saves, save_tasks)
  /\ save_tasks' = [u \in Uris |-> NoTask]
  /\ down' = TRUE
  /\ UNCHANGED <<docVars, next_generation, save_generation, units, handler,
                 diskVars, diagnostics>>

--------------------------------------------------------------------------------
(* The analysis task of generation g.                                          *)

MoveTo(g, stage) == analyses' = [analyses EXCEPT ![g].stage = stage]

\* The debounce of g has elapsed.  With DebounceOutlasts no older task of the
\* same URI is still between two awaits by then.
Wake(g) ==
  /\ analyses[g].stage = "sleeping"
  /\ DebounceOutlasts =>
       \A h \in Generations :
         analyses[h].uri = analyses[g].uri => analyses[h].stage \notin Running
  /\ MoveTo(g, "woken")
  /\ UNCHANGED <<docVars, pending, next_generation, saveVars, units, handler,
                 diskVars, diagnostics, down>>

\* The snapshot of text and version, under the document read lock.  A task
\* aborted before it awaits the analysis ends there, unless the blocking thread
\* has already answered.
Snapshot(g) ==
  LET task == analyses[g]
      doc  == documents[task.uri]
  IN /\ task.stage = "woken"
     /\ \/ /\ ~IsOpen(documents, task.uri)
           /\ MoveTo(g, "cleaning")
        \/ /\ IsOpen(documents, task.uri)
           /\ ~task.aborted \/ doc.text \notin Panics
           /\ analyses' = [analyses EXCEPT ![g] =
                [task EXCEPT !.stage = IF task.aborted THEN "analyzed"
                                       ELSE "analyzing",
                             !.text = doc.text, !.version = doc.version]]
        \/ /\ IsOpen(documents, task.uri) /\ task.aborted
           /\ analyses' = [analyses EXCEPT ![g] = Finished]
     /\ UNCHANGED <<docVars, pending, next_generation, saveVars, units,
                    handler, diskVars, diagnostics, down>>

\* Mutant: a panic in the analyzer skips the task's cleanup.
AnalyzeTextNoCleanup(g) ==
  /\ analyses[g].stage = "analyzing"
  /\ MoveTo(g, IF analyses[g].text \in Panics THEN "finished" ELSE "analyzed")
  /\ UNCHANGED <<docVars, pending, next_generation, saveVars, units, handler,
                 diskVars, diagnostics, down>>

AnalyzeText(g) ==
  /\ analyses[g].stage = "analyzing"
  /\ MoveTo(g, IF analyses[g].text \in Panics THEN "cleaning" ELSE "analyzed")
  /\ UNCHANGED <<docVars, pending, next_generation, saveVars, units, handler,
                 diskVars, diagnostics, down>>

\* The document write lock is held across the cache and the index update.
CommitAnalysis(g) ==
  LET task    == analyses[g]
      current == IsCurrentVersion(documents, task.uri, task.version)
  IN /\ task.stage = "analyzed"
     /\ documents' = StoreCachedAnalysisIfCurrent(
                       documents, task.uri, task.version, task.text)
     /\ units' = IF current
                 THEN CommitOpenAnalysis(units, documents, task.uri,
                                         task.version, task.text)
                 ELSE units
     /\ MoveTo(g, IF current THEN "publishing" ELSE "cleaning")
     /\ UNCHANGED <<client_version, pending, next_generation, saveVars,
                    handler, diskVars, diagnostics, down>>

\* Mutant: the message carries the version the buffer has by now.
PublishWithBufferVersion(g) ==
  LET task == analyses[g]
  IN /\ task.stage = "publishing"
     /\ diagnostics' = [diagnostics EXCEPT
          ![task.uri] = [text |-> task.text,
                         version |-> documents[task.uri].version]]
     /\ MoveTo(g, "cleaning")
     /\ UNCHANGED <<docVars, pending, next_generation, saveVars, units,
                    handler, diskVars, down>>

\* publish_diagnostics enqueues its message before it can be suspended.
PublishAnalysis(g) ==
  LET task == analyses[g]
  IN /\ task.stage = "publishing"
     /\ diagnostics' = [diagnostics EXCEPT
          ![task.uri] = [text |-> task.text, version |-> task.version]]
     /\ MoveTo(g, "cleaning")
     /\ UNCHANGED <<docVars, pending, next_generation, saveVars, units,
                    handler, diskVars, down>>

\* Mutant: the task removes whatever entry its URI has.
CleanUpAnyAnalysis(g) ==
  LET u == analyses[g].uri
  IN /\ analyses[g].stage = "cleaning"
     /\ pending' = [pending EXCEPT ![u] = NoTask]
     /\ analyses' = [analyses EXCEPT ![g] = Finished]
     /\ UNCHANGED <<docVars, next_generation, saveVars, units, handler,
                    diskVars, diagnostics, down>>

\* The task removes its own entry, never that of a newer generation.
CleanUpAnalysis(g) ==
  LET u == analyses[g].uri
  IN /\ analyses[g].stage = "cleaning"
     /\ pending' = IF pending[u] = g THEN [pending EXCEPT ![u] = NoTask]
                   ELSE pending
     /\ analyses' = [analyses EXCEPT ![g] = Finished]
     /\ UNCHANGED <<docVars, next_generation, saveVars, units, handler,
                    diskVars, diagnostics, down>>

AnalysisStep(g) ==
  \/ Wake(g) \/ Snapshot(g) \/ AnalyzeText(g)
  \/ CommitAnalysis(g) \/ PublishAnalysis(g) \/ CleanUpAnalysis(g)

--------------------------------------------------------------------------------
(* The save-index task of generation g.                                        *)

\* A panic ends the task before it can remove its entry.
AnalyzeSavedText(g) ==
  /\ saves[g].stage = "analyzing"
  /\ saves' = [saves EXCEPT ![g] =
                 IF @.text \in Panics THEN Finished
                 ELSE [@ EXCEPT !.stage = "analyzed"]]
  /\ UNCHANGED <<docVars, schedulerVars, save_tasks, save_generation, units,
                 handler, diskVars, diagnostics, down>>

\* The document read lock is held across the index update.
CommitSave(g) ==
  LET task == saves[g]
  IN /\ task.stage = "analyzed"
     /\ units' = CommitOpenAnalysis(units, documents, task.uri, task.version,
                                    task.text)
     /\ saves' = [saves EXCEPT ![g].stage = "cleaning"]
     /\ UNCHANGED <<docVars, schedulerVars, save_tasks, save_generation,
                    handler, diskVars, diagnostics, down>>

CleanUpSave(g) ==
  LET u == saves[g].uri
  IN /\ saves[g].stage = "cleaning"
     /\ save_tasks' = IF save_tasks[u] = g
                      THEN [save_tasks EXCEPT ![u] = NoTask] ELSE save_tasks
     /\ saves' = [saves EXCEPT ![g] = Finished]
     /\ UNCHANGED <<docVars, schedulerVars, save_generation, units, handler,
                    diskVars, diagnostics, down>>

SaveStep(g) == AnalyzeSavedText(g) \/ CommitSave(g) \/ CleanUpSave(g)

--------------------------------------------------------------------------------
(* The scan of the roots, and the files on disk.                               *)

\* The scan reads the files one after the other without any lock.
ScanFile(u) ==
  /\ scan.stage = "reading"
  /\ u \in scan.left
  /\ scan' = [scan EXCEPT !.left = @ \ {u}, !.found[u] = disk[u]]
  /\ UNCHANGED <<docVars, schedulerVars, saveVars, units, handler, disk,
                 watching, events, diagnostics, down>>

ScanReplace ==
  /\ scan.stage = "reading"
  /\ scan.left = {}
  /\ units' = ReplaceDiskUnits(units, scan.found)
  /\ scan' = [scan EXCEPT !.stage = "finished"]
  /\ UNCHANGED <<docVars, schedulerVars, saveVars, handler, disk, watching,
                 events, diagnostics, down>>

\* The client has answered the registration of the watcher.
RegisterWatcher ==
  /\ ~watching
  /\ watching' = TRUE
  /\ UNCHANGED <<docVars, schedulerVars, saveVars, units, handler, scan, disk,
                 events, diagnostics, down>>

\* Somebody creates, writes or deletes a file; a registered watcher reports it.
WriteFile(u, content) ==
  /\ QuietScan => scan.stage = "finished"
  /\ QuietUntilWatched => watching
  /\ u \in FileUris /\ content # disk[u]
  /\ Len(events) < MaxEvents
  /\ disk' = [disk EXCEPT ![u] = content]
  /\ events' = IF watching
               THEN Append(events, [uri |-> u, kind |->
                             IF content = None THEN "deleted" ELSE "changed"])
               ELSE events
  /\ UNCHANGED <<docVars, schedulerVars, saveVars, units, handler, scan,
                 watching, diagnostics, down>>

--------------------------------------------------------------------------------

ClientStep ==
  \/ \E u \in Uris, t \in Texts :
       DidOpen(u, t) \/ DidChange(u, t) \/ DidSave(u, t)
  \/ \E u \in Uris : DidChangeRejected(u) \/ DidClose(u) \/ DidSaveNoText(u)
  \/ Shutdown

HandlerStep ==
  \/ DidOpenRequest
  \/ CancelAnalysis \/ CancelSaveIndex \/ DidCloseNoteClosed \/ DidClosePublish
  \/ InsertSaveTask

ScanStep == ScanReplace \/ \E u \in Uris : ScanFile(u)

FileStep == \E u \in Uris : \E content \in Contents(u) : WriteFile(u, content)

Next ==
  \/ ClientStep \/ HandlerStep \/ DidChangeWatchedFile
  \/ \E g \in Generations : AnalysisStep(g)
  \/ \E g \in SaveGenerations : SaveStep(g)
  \/ ScanStep \/ RegisterWatcher \/ FileStep

Spec == Init /\ [][Next]_vars

\* The tokio runtime keeps polling: every task and handler that can run
\* eventually runs.  Nothing is assumed of the client or the file system.
Fairness ==
  /\ WF_vars(HandlerStep)
  /\ \A g \in Generations : WF_vars(AnalysisStep(g))
  /\ \A g \in SaveGenerations : WF_vars(SaveStep(g))
  /\ WF_vars(ScanStep)

FairSpec == Spec /\ Fairness
================================================================================
