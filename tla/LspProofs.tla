-------------------------------- MODULE LspProofs --------------------------------
(***************************************************************************)
(* Theorems about the language server, for every set of URIs and texts and *)
(* every bound.                                                            *)
(***************************************************************************)
EXTENDS LspProperties, TLAPS

(***************************************************************************)
(* The operators the actions are built from keep the types.                *)
(***************************************************************************)

\* A task that has ended is a task, and so is a flagged or moved one.
LEMMA TaskUpdates ==
  /\ Finished \in Task /\ NotSpawned \in Task
  /\ \A task \in Task :
       /\ [task EXCEPT !.aborted = TRUE] \in Task
       /\ \A stage \in Stages : [task EXCEPT !.stage = stage] \in Task
<1>1. {"none", "finished"} \subseteq Stages
  BY DEF Stages
<1>2. Finished \in Task /\ NotSpawned \in Task
  BY <1>1 DEF Finished, NotSpawned, Blank, Task, MaybeText
<1>3. ASSUME NEW task \in Task, NEW stage \in Stages
      PROVE  /\ [task EXCEPT !.aborted = TRUE] \in Task
             /\ [task EXCEPT !.stage = stage] \in Task
  BY DEF Task
<1>4. Stages # {}
  BY DEF Stages
<1>. QED
  BY <1>2, <1>3, <1>4

\* abort() on a map of tasks gives a map of tasks, whatever entry it is given.
LEMMA AbortType ==
  ASSUME NEW G, NEW tasks \in [G -> Task], NEW g \in G \cup {NoTask}
  PROVE  Abort(tasks, g) \in [G -> Task]
<1>1. CASE g = NoTask
  BY <1>1 DEF Abort
<1>2. CASE g \in G
  <2>1. tasks[g] \in Task
    BY <1>2
  <2>2. [tasks EXCEPT ![g] = Finished] \in [G -> Task]
    BY TaskUpdates
  <2>3. [tasks EXCEPT ![g].aborted = TRUE] \in [G -> Task]
    BY <2>1, TaskUpdates
  <2>. QED
    BY <2>2, <2>3 DEF Abort
<1>. QED
  BY <1>1, <1>2

\* A task is the same after an abort, or has been dropped, or is flagged.
LEMMA AbortCases ==
  ASSUME NEW G, NEW tasks \in [G -> Task], NEW g \in G \cup {NoTask}, NEW h \in G,
         NoTask \notin G
  PROVE  \/ Abort(tasks, g)[h] = tasks[h]
         \/ g = h /\ tasks[h].stage \in Awaiting /\ Abort(tasks, g)[h] = Finished
         \/ /\ g = h /\ tasks[h].stage \in Running
            /\ Abort(tasks, g)[h] = [tasks[h] EXCEPT !.aborted = TRUE]
BY DEF Abort
\* An abort keeps every task well formed.
LEMMA AbortWellFormed ==
  ASSUME NEW G, NEW tasks \in [G -> Task], NEW g \in G \cup {NoTask}, NEW h \in G,
         NoTask \notin G, TaskWellFormed(tasks[h])
  PROVE  TaskWellFormed(Abort(tasks, g)[h])
<1>1. TaskWellFormed(Finished)
  BY DEF TaskWellFormed, Active, HasText, Finished, Blank
<1>2. TaskWellFormed([tasks[h] EXCEPT !.aborted = TRUE])
  <2>1. tasks[h] \in Task
    OBVIOUS
  <2>. QED
    BY <2>1 DEF TaskWellFormed, Active, HasText, Task
<1>. QED
  BY <1>1, <1>2, AbortCases

\* Aborting all the entries of a map keeps the tasks well formed.
LEMMA AbortAllTypes ==
  ASSUME NEW G, NoTask \notin G, NEW tasks \in [G -> Task], NEW entries,
         \A g \in G : TaskWellFormed(tasks[g])
  PROVE  /\ AbortAll(tasks, entries) \in [G -> Task]
         /\ \A g \in G : TaskWellFormed(AbortAll(tasks, entries)[g])
<1>1. DOMAIN tasks = G
  OBVIOUS
<1>2. ASSUME NEW g \in G
      PROVE  Abort(tasks, g)[g] \in Task /\ TaskWellFormed(Abort(tasks, g)[g])
  <2>1. Abort(tasks, g) \in [G -> Task]
    BY AbortType
  <2>. QED
    BY <2>1, AbortWellFormed
<1>. QED
  BY <1>1, <1>2 DEF AbortAll

(***************************************************************************)
(* Types.                                                                  *)
(***************************************************************************)

\* The document store's operations give a document store.
LEMMA DocumentOps ==
  ASSUME NEW docs \in [Uris -> Document], NEW u \in Uris, NEW t \in MaybeText,
         NEW v \in Int
  PROVE  /\ OpenDocument(docs, u, t, v) \in [Uris -> Document]
         /\ ApplyChanges(docs, u, t, v) \in [Uris -> Document]
         /\ CloseDocument(docs, u) \in [Uris -> Document]
         /\ StoreCachedAnalysisIfCurrent(docs, u, v, t) \in [Uris -> Document]
<1>1. None \in MaybeText
  BY DEF MaybeText
<1>2. /\ [text |-> t, version |-> v, cached |-> None] \in Document
      /\ NoDocument \in Document
      /\ [docs[u] EXCEPT !.cached = t] \in Document
  BY <1>1 DEF Document, NoDocument
<1>. QED
  BY <1>2 DEF OpenDocument, ApplyChanges, CloseDocument,
              StoreCachedAnalysisIfCurrent

\* The index's operations give an index.
LEMMA IndexOps ==
  ASSUME NEW index \in [Uris -> Unit], NEW docs, NEW u \in Uris,
         NEW t \in MaybeText, NEW open \in BOOLEAN, NEW content \in FileContent,
         NEW v
  PROVE  /\ InsertUnit(index, u, t, open) \in [Uris -> Unit]
         /\ CommitOpenAnalysis(index, docs, u, v, t) \in [Uris -> Unit]
         /\ ReloadFromDisk(index, u, content) \in [Uris -> Unit]
         /\ NoteClosed(index, u, content) \in [Uris -> Unit]
         /\ ForgetDeleted(index, u) \in [Uris -> Unit]
<1>1. /\ NoUnit \in Unit
      /\ \A x \in MaybeText, b \in BOOLEAN : [text |-> x, open |-> b] \in Unit
  BY DEF NoUnit, Unit, MaybeText
<1>2. ASSUME NEW i \in [Uris -> Unit], NEW x \in MaybeText, NEW b \in BOOLEAN
      PROVE  InsertUnit(i, u, x, b) \in [Uris -> Unit]
  BY <1>1 DEF InsertUnit
<1>3. ASSUME NEW i \in [Uris -> Unit]
      PROVE  ReloadFromDisk(i, u, content) \in [Uris -> Unit]
  <2>1. content # Unreadable => content \in MaybeText
    BY DEF FileContent
  <2>. QED
    BY <1>1, <1>2, <2>1 DEF ReloadFromDisk, RemoveUnit
<1>4. [index EXCEPT ![u].open = FALSE] \in [Uris -> Unit]
  BY DEF Unit
<1>. QED
  BY <1>1, <1>2, <1>3, <1>4 DEF CommitOpenAnalysis, NoteClosed, ForgetDeleted,
                                RemoveUnit

\* Replacing the disk units gives an index.
LEMMA ReplaceType ==
  ASSUME NEW index \in [Uris -> Unit], NEW scanned
  PROVE  ReplaceDiskUnits(index, scanned) \in [Uris -> Unit]
BY DEF ReplaceDiskUnits, Unit, NoUnit, MaybeText

\* The server starts well typed.
LEMMA TypingInit == Init => Typing
<1> SUFFICES ASSUME Init PROVE Typing
  OBVIOUS
<1>1. /\ \A g \in Generations : analyses[g] = NotSpawned
      /\ \A g \in SaveGenerations : saves[g] = NotSpawned
  BY DEF Init
<1>2. \A g \in Generations : TaskWellFormed(analyses[g])
  BY <1>1 DEF TaskWellFormed, Active, HasText, NotSpawned, Blank
<1>3. \A g \in SaveGenerations : TaskWellFormed(saves[g])
  BY <1>1 DEF TaskWellFormed, Active, HasText, NotSpawned, Blank
<1>4. documents \in [Uris -> Document] /\ units \in [Uris -> Unit]
  BY DEF Init, NoDocument, Document, NoUnit, Unit, MaybeText
<1>5. analyses \in [Generations -> Task] /\ saves \in [SaveGenerations -> Task]
  BY TaskUpdates DEF Init
<1>6. /\ client_version \in [Uris -> 0 .. MaxVersion]
      /\ pending \in [Uris -> Generations \cup {NoTask}]
      /\ next_generation \in 0 .. MaxAnalyses
      /\ save_tasks \in [Uris -> SaveGenerations \cup {NoTask}]
      /\ save_generation \in 0 .. MaxSaves
  BY ServerAssumption DEF Init
<1>7. /\ handler \in [at : Sections, uri : Uris \cup {None},
                      generation : SaveGenerations \cup {NoTask}]
      /\ HandlerWellFormed
  BY DEF Init, Idle, Sections, HandlerWellFormed, HandlerIdle
<1>8. scan \in [stage : {"reading", "finished"}, left : SUBSET Uris,
                found : [Uris -> FileContent]]
  BY IndexAssumption DEF Init, ScannedUris, FileContent, MaybeText
<1>9. events \in Seq([uri : Uris, kind : {"changed", "deleted"}])
  <2>. DEFINE Event == [uri : Uris, kind : {"changed", "deleted"}]
  <2>1. <<>> \in Seq(Event)
    BY SMT
  <2>. QED
    BY <2>1 DEF Init
<1>10. disk \in [Uris -> FileContent] /\ watching \in BOOLEAN /\ down \in BOOLEAN
  BY DEF Init
<1>11. diagnostics \in [Uris -> Diagnostics]
  BY DEF Init, NoDiagnostics, Diagnostics, MaybeText
<1>. QED
  BY <1>2, <1>3, <1>4, <1>5, <1>6, <1>7, <1>8, <1>9, <1>10, <1>11
     DEF Typing, TypeOK

\* What every step below starts from.
LEMMA TypingFacts ==
  ASSUME Typing
  PROVE  /\ TypeOK /\ HandlerWellFormed
         /\ \A g \in Generations : TaskWellFormed(analyses[g])
         /\ \A g \in SaveGenerations : TaskWellFormed(saves[g])
BY DEF Typing

\* A request leaves the scheduler well typed, and its new task well formed.
LEMMA RequestTypes ==
  ASSUME Typing, NEW u \in Uris, RequestAnalysis(u)
  PROVE  /\ analyses' \in [Generations -> Task]
         /\ pending' \in [Uris -> Generations \cup {NoTask}]
         /\ next_generation' \in 0 .. MaxAnalyses
         /\ \A g \in Generations : TaskWellFormed(analyses'[g])
<1>. USE TypingFacts DEF TypeOK
<1>1. next_generation \in Generations /\ next_generation + 1 \in 0 .. MaxAnalyses
  BY ServerAssumption DEF RequestAnalysis, Generations
<1>. DEFINE new == NewTask(u, "sleeping", None, 0)
            aborted == Abort(analyses, pending[u])
<1>2. new \in Task /\ TaskWellFormed(new)
  BY DEF NewTask, Task, TaskWellFormed, Active, HasText, Stages, Running,
         Awaiting, MaybeText
<1>3. aborted \in [Generations -> Task]
  BY AbortType
<1>4. NoTask \notin Generations
  BY DEF NoTask, Generations
<1>5. \A g \in Generations : TaskWellFormed(aborted[g])
  BY <1>4, AbortWellFormed
<1>6. analyses' = [aborted EXCEPT ![next_generation] = new]
  BY DEF RequestAnalysis
<1>7. pending' = [pending EXCEPT ![u] = next_generation]
      /\ next_generation' = next_generation + 1
  BY DEF RequestAnalysis
<1>. HIDE DEF new, aborted
<1>8. \A g \in Generations : TaskWellFormed(analyses'[g])
  BY <1>1, <1>2, <1>3, <1>5, <1>6
<1>. QED
  BY <1>1, <1>2, <1>3, <1>6, <1>7, <1>8

\* The handlers' sections keep the types.
LEMMA TypingHandlers ==
  ASSUME Typing, ClientStep \/ HandlerStep \/ DidChangeWatchedFile
  PROVE  Typing'
<1>. USE DEF TypeOK, docVars, schedulerVars, saveVars, diskVars
<1>. DEFINE Tasks == /\ \A g \in Generations : TaskWellFormed(analyses[g])
                     /\ \A g \in SaveGenerations : TaskWellFormed(saves[g])
<1>0. TypeOK /\ HandlerWellFormed /\ Tasks
  BY TypingFacts
<1>1. ASSUME NEW u \in Uris, NEW t \in Texts, DidOpen(u, t)
      PROVE  Typing'
  <2>1. t \in MaybeText /\ "opened" \in Sections
    BY DEF MaybeText, Sections
  <2>2. client_version' \in [Uris -> 0 .. MaxVersion]
    BY <1>1, <1>0, ServerAssumption DEF DidOpen, NextVersion
  <2>3. documents' \in [Uris -> Document]
    <3>. DEFINE v == IF VersionsRestart THEN 1 ELSE client_version[u] + 1
    <3>1. v \in Int
      BY <1>0
    <3>2. documents' = OpenDocument(documents, u, t, v)
      BY <1>1 DEF DidOpen, NextVersion
    <3>. HIDE DEF v
    <3>. QED
      BY <1>0, <2>1, <3>1, <3>2, DocumentOps
  <2>4. /\ handler' \in [at : Sections, uri : Uris \cup {None},
                         generation : SaveGenerations \cup {NoTask}]
        /\ HandlerWellFormed'
    BY <1>1, <2>1 DEF DidOpen, HandlerWellFormed, HandlerIdle
  <2>. QED
    BY <1>1, <1>0, <2>2, <2>3, <2>4 DEF DidOpen, Typing
<1>2. ASSUME NEW u \in Uris, NEW t \in Texts, DidChange(u, t)
      PROVE  Typing'
  <2>1. t \in MaybeText
    BY DEF MaybeText
  <2>2. client_version' \in [Uris -> 0 .. MaxVersion]
    BY <1>2, <1>0, ServerAssumption DEF DidChange, NextVersion
  <2>3. documents' \in [Uris -> Document]
    <3>1. NextVersion(u) \in Int
      BY <1>0 DEF NextVersion
    <3>2. documents' = ApplyChanges(documents, u, t, NextVersion(u))
      BY <1>2 DEF DidChange
    <3>. QED
      BY <1>0, <2>1, <3>1, <3>2, DocumentOps
  <2>. QED
    BY <1>2, <1>0, <2>2, <2>3, RequestTypes
    DEF DidChange, Typing, HandlerWellFormed, HandlerIdle
<1>3. ASSUME NEW u \in Uris, NEW t \in Texts, DidSave(u, t)
      PROVE  Typing'
  <2>. DEFINE new == NewTask(u, "analyzing", t, documents[u].version)
  <2>1. save_generation \in SaveGenerations /\ save_generation + 1 \in 0 .. MaxSaves
    BY <1>3, <1>0, ServerAssumption DEF DidSave, SaveGenerations
  <2>2. new \in Task /\ TaskWellFormed(new)
    <3>1. documents[u].version \in Int
      BY <1>0 DEF Document
    <3>. QED
      BY <3>1 DEF NewTask, Task, TaskWellFormed, Stages, Running, Awaiting, MaybeText
  <2>3. saves' = [saves EXCEPT ![save_generation] = new]
    BY <1>3 DEF DidSave
  <2>4. /\ handler' \in [at : Sections, uri : Uris \cup {None},
                         generation : SaveGenerations \cup {NoTask}]
        /\ HandlerWellFormed'
    BY <1>3, <2>1 DEF DidSave, HandlerWellFormed, HandlerIdle, Sections
  <2>. HIDE DEF new
  <2>5. /\ saves' \in [SaveGenerations -> Task]
        /\ \A g \in SaveGenerations : TaskWellFormed(saves'[g])
    BY <1>0, <2>1, <2>2, <2>3
  <2>. QED
    BY <1>3, <1>0, <2>1, <2>4, <2>5 DEF DidSave, Typing
<1>4. ASSUME NEW u \in Uris, DidChangeRejected(u)
      PROVE  Typing'
  BY <1>4, <1>0, ServerAssumption
  DEF DidChangeRejected, NextVersion, Typing, HandlerWellFormed, HandlerIdle
<1>5. ASSUME NEW u \in Uris, DidClose(u)
      PROVE  Typing'
  <2>1. documents' \in [Uris -> Document]
    <3>1. None \in MaybeText /\ 0 \in Int
      BY DEF MaybeText
    <3>. QED
      BY <1>5, <1>0, <3>1, DocumentOps DEF DidClose
  <2>2. /\ handler' \in [at : Sections, uri : Uris \cup {None},
                         generation : SaveGenerations \cup {NoTask}]
        /\ HandlerWellFormed'
    BY <1>5 DEF DidClose, HandlerWellFormed, HandlerIdle, Sections
  <2>. QED
    BY <1>5, <1>0, <2>1, <2>2 DEF DidClose, Typing
<1>6. ASSUME NEW u \in Uris, DidSaveNoText(u)
      PROVE  Typing'
  <2>1. units' \in [Uris -> Unit]
    <3>1. None \in MaybeText /\ TRUE \in BOOLEAN /\ disk[u] \in FileContent
      BY <1>0 DEF MaybeText
    <3>. QED
      BY <1>6, <1>0, <3>1, IndexOps DEF DidSaveNoText
  <2>. QED
    BY <1>6, <1>0, <2>1 DEF DidSaveNoText, Typing, HandlerWellFormed, HandlerIdle
<1>7. CASE Shutdown
  <2>1. /\ analyses' \in [Generations -> Task]
        /\ \A g \in Generations : TaskWellFormed(analyses'[g])
    <3>1. analyses' = AbortAll(analyses, pending)
      BY <1>7 DEF Shutdown
    <3>2. NoTask \notin Generations
      BY DEF Generations, NoTask
    <3>. QED
      BY <1>0, <3>1, <3>2, AbortAllTypes
  <2>2. /\ saves' \in [SaveGenerations -> Task]
        /\ \A g \in SaveGenerations : TaskWellFormed(saves'[g])
    <3>1. saves' = AbortAll(saves, save_tasks)
      BY <1>7 DEF Shutdown
    <3>2. NoTask \notin SaveGenerations
      BY DEF SaveGenerations, NoTask
    <3>. QED
      BY <1>0, <3>1, <3>2, AbortAllTypes
  <2>. QED
    BY <1>7, <1>0, <2>1, <2>2 DEF Shutdown, Typing, HandlerWellFormed, HandlerIdle
<1>8. CASE DidOpenRequest
  <2>1. handler.uri \in Uris /\ RequestAnalysis(handler.uri)
    BY <1>8, <1>0 DEF DidOpenRequest, HandlerWellFormed, HandlerIdle
  <2>2. /\ handler' \in [at : Sections, uri : Uris \cup {None},
                         generation : SaveGenerations \cup {NoTask}]
        /\ HandlerWellFormed'
    BY <1>8 DEF DidOpenRequest, Idle, HandlerWellFormed, HandlerIdle, Sections
  <2>. QED
    BY <1>8, <1>0, <2>1, <2>2, RequestTypes DEF DidOpenRequest, Typing
<1>9. CASE CancelAnalysis
  <2>1. handler.uri \in Uris /\ HandlerWellFormed'
        /\ handler' \in [at : Sections, uri : Uris \cup {None},
                         generation : SaveGenerations \cup {NoTask}]
    BY <1>9, <1>0 DEF CancelAnalysis, HandlerWellFormed, HandlerIdle, Sections
  <2>2. /\ analyses' \in [Generations -> Task]
        /\ \A g \in Generations : TaskWellFormed(analyses'[g])
    <3>1. NoTask \notin Generations /\ pending[handler.uri] \in Generations \cup {NoTask}
      BY <1>0, <2>1 DEF Generations, NoTask
    <3>. QED
      BY <1>9, <1>0, <3>1, AbortType, AbortWellFormed DEF CancelAnalysis
  <2>. QED
    BY <1>9, <1>0, <2>1, <2>2 DEF CancelAnalysis, Typing
<1>10. CASE CancelSaveIndex
  <2>1. handler.uri \in Uris /\ HandlerWellFormed'
        /\ handler' \in [at : Sections, uri : Uris \cup {None},
                         generation : SaveGenerations \cup {NoTask}]
    BY <1>10, <1>0 DEF CancelSaveIndex, HandlerWellFormed, HandlerIdle, Sections
  <2>2. /\ saves' \in [SaveGenerations -> Task]
        /\ \A g \in SaveGenerations : TaskWellFormed(saves'[g])
    <3>1. NoTask \notin SaveGenerations
          /\ save_tasks[handler.uri] \in SaveGenerations \cup {NoTask}
      BY <1>0, <2>1 DEF SaveGenerations, NoTask
    <3>. QED
      BY <1>10, <1>0, <3>1, AbortType, AbortWellFormed DEF CancelSaveIndex
  <2>. QED
    BY <1>10, <1>0, <2>1, <2>2 DEF CancelSaveIndex, Typing
<1>11. CASE DidCloseNoteClosed
  <2>1. handler.uri \in Uris /\ HandlerWellFormed'
        /\ handler' \in [at : Sections, uri : Uris \cup {None},
                         generation : SaveGenerations \cup {NoTask}]
    BY <1>11, <1>0 DEF DidCloseNoteClosed, HandlerWellFormed, HandlerIdle, Sections
  <2>2. units' \in [Uris -> Unit]
    <3>1. None \in MaybeText /\ TRUE \in BOOLEAN /\ disk[handler.uri] \in FileContent
      BY <1>0, <2>1 DEF MaybeText
    <3>. QED
      BY <1>11, <1>0, <2>1, <3>1, IndexOps DEF DidCloseNoteClosed
  <2>. QED
    BY <1>11, <1>0, <2>1, <2>2 DEF DidCloseNoteClosed, Typing
<1>12. CASE DidClosePublish
  <2>1. diagnostics' \in [Uris -> Diagnostics]
    <3>1. NoDiagnostics \in Diagnostics
      BY DEF NoDiagnostics, Diagnostics, MaybeText
    <3>. QED
      BY <1>12, <1>0, <3>1 DEF DidClosePublish
  <2>2. /\ handler' \in [at : Sections, uri : Uris \cup {None},
                         generation : SaveGenerations \cup {NoTask}]
        /\ HandlerWellFormed'
    BY <1>12 DEF DidClosePublish, Idle, HandlerWellFormed, HandlerIdle, Sections
  <2>. QED
    BY <1>12, <1>0, <2>1, <2>2 DEF DidClosePublish, Typing
<1>13. CASE InsertSaveTask
  <2>1. handler.uri \in Uris /\ handler.generation \in SaveGenerations
    BY <1>13, <1>0 DEF InsertSaveTask, HandlerWellFormed, HandlerIdle
  <2>2. /\ saves' \in [SaveGenerations -> Task]
        /\ \A g \in SaveGenerations : TaskWellFormed(saves'[g])
    <3>1. NoTask \notin SaveGenerations
          /\ save_tasks[handler.uri] \in SaveGenerations \cup {NoTask}
      BY <1>0, <2>1 DEF SaveGenerations, NoTask
    <3>. QED
      BY <1>13, <1>0, <3>1, AbortType, AbortWellFormed DEF InsertSaveTask
  <2>3. /\ handler' \in [at : Sections, uri : Uris \cup {None},
                         generation : SaveGenerations \cup {NoTask}]
        /\ HandlerWellFormed'
    BY <1>13 DEF InsertSaveTask, Idle, HandlerWellFormed, HandlerIdle, Sections
  <2>. QED
    BY <1>13, <1>0, <2>1, <2>2, <2>3 DEF InsertSaveTask, Typing
<1>14. CASE DidChangeWatchedFile
  <2>. DEFINE Event == [uri : Uris, kind : {"changed", "deleted"}]
  <2>1. Head(events) \in Event /\ Tail(events) \in Seq(Event)
    <3>1. events \in Seq(Event) /\ events # <<>>
      BY <1>14, <1>0 DEF DidChangeWatchedFile
    <3>. HIDE DEF Event
    <3>. QED
      BY <3>1
  <2>2. units' \in [Uris -> Unit]
    <3>1. None \in MaybeText /\ TRUE \in BOOLEAN
          /\ Head(events).uri \in Uris /\ disk[Head(events).uri] \in FileContent
      BY <1>0, <2>1 DEF MaybeText
    <3>. QED
      BY <1>14, <1>0, <3>1, IndexOps DEF DidChangeWatchedFile
  <2>. QED
    BY <1>14, <1>0, <2>1, <2>2
    DEF DidChangeWatchedFile, Typing, HandlerWellFormed, HandlerIdle
<1>. QED
  BY <1>1, <1>2, <1>3, <1>4, <1>5, <1>6, <1>7, <1>8, <1>9, <1>10, <1>11, <1>12,
     <1>13, <1>14 DEF ClientStep, HandlerStep

\* A task moved on is a well-formed task.
LEMMA MovedTask ==
  ASSUME NEW task \in Task, NEW stage \in Stages, task.uri \in Uris,
         stage \in {"analyzing", "analyzed", "publishing"} => task.text \in Texts
  PROVE  /\ [task EXCEPT !.stage = stage] \in Task
         /\ TaskWellFormed([task EXCEPT !.stage = stage])
BY DEF Task, TaskWellFormed, Active, HasText

\* Moving an analysis task on keeps the map and its tasks well formed.
LEMMA MoveAnalysis ==
  ASSUME Typing, NEW g \in Generations, NEW stage \in Stages, MoveTo(g, stage),
         analyses[g].uri \in Uris,
         stage \in {"analyzing", "analyzed", "publishing"} => analyses[g].text \in Texts
  PROVE  /\ analyses' \in [Generations -> Task]
         /\ \A h \in Generations : TaskWellFormed(analyses'[h])
<1>1. /\ analyses \in [Generations -> Task]
      /\ \A h \in Generations : TaskWellFormed(analyses[h])
  BY TypingFacts DEF TypeOK
<1>. DEFINE moved == [analyses[g] EXCEPT !.stage = stage]
<1>2. moved \in Task /\ TaskWellFormed(moved)
  BY <1>1, MovedTask
<1>3. analyses' = [analyses EXCEPT ![g] = moved]
  BY DEF MoveTo
<1>. HIDE DEF moved
<1>. QED
  BY <1>1, <1>2, <1>3

\* Moving a save task on keeps the map and its tasks well formed.
LEMMA MoveSave ==
  ASSUME Typing, NEW g \in SaveGenerations, NEW stage \in Stages,
         saves' = [saves EXCEPT ![g].stage = stage],
         saves[g].uri \in Uris,
         stage \in {"analyzing", "analyzed", "publishing"} => saves[g].text \in Texts
  PROVE  /\ saves' \in [SaveGenerations -> Task]
         /\ \A h \in SaveGenerations : TaskWellFormed(saves'[h])
<1>1. /\ saves \in [SaveGenerations -> Task]
      /\ \A h \in SaveGenerations : TaskWellFormed(saves[h])
  BY TypingFacts DEF TypeOK
<1>. DEFINE moved == [saves[g] EXCEPT !.stage = stage]
<1>2. moved \in Task /\ TaskWellFormed(moved)
  BY <1>1, MovedTask
<1>3. saves' = [saves EXCEPT ![g] = moved]
  OBVIOUS
<1>. HIDE DEF moved
<1>. QED
  BY <1>1, <1>2, <1>3

\* Ending a task keeps the map and its tasks well formed.
LEMMA FinishTypes ==
  ASSUME NEW G, NEW tasks \in [G -> Task], NEW g \in G,
         \A h \in G : TaskWellFormed(tasks[h]),
         NEW new, new = [tasks EXCEPT ![g] = Finished]
  PROVE  new \in [G -> Task] /\ \A h \in G : TaskWellFormed(new[h])
<1>1. TaskWellFormed(Finished)
  BY DEF TaskWellFormed, Active, HasText, Finished, Blank
<1>. QED
  BY <1>1, TaskUpdates

\* The analysis tasks keep the types.
LEMMA TypingAnalyses ==
  ASSUME Typing, NEW g \in Generations, AnalysisStep(g)
  PROVE  Typing'
<1>. USE DEF TypeOK, docVars, schedulerVars, saveVars, diskVars
<1>0. /\ TypeOK /\ HandlerWellFormed
      /\ \A h \in Generations : TaskWellFormed(analyses[h])
      /\ \A h \in SaveGenerations : TaskWellFormed(saves[h])
  BY TypingFacts
<1>. DEFINE AnalysesOK == /\ analyses' \in [Generations -> Task]
                          /\ \A h \in Generations : TaskWellFormed(analyses'[h])
<1>1. /\ {"woken", "analyzing", "analyzed", "publishing", "cleaning"} \subseteq Stages
      /\ {"sleeping"} \subseteq Stages
  BY DEF Stages, Running, Awaiting
<1>2. CASE Wake(g)
  <2>1. analyses[g].uri \in Uris
    BY <1>2, <1>0 DEF Wake, TaskWellFormed, Active
  <2>2. MoveTo(g, "woken")
    BY <1>2 DEF Wake
  <2>3. AnalysesOK
    BY <1>1, <2>1, <2>2, MoveAnalysis
  <2>. QED
    BY <1>2, <1>0, <2>3 DEF Wake, Typing, HandlerWellFormed, HandlerIdle
<1>3. CASE Snapshot(g)
  <2>1. analyses[g].uri \in Uris /\ analyses[g] \in Task
    BY <1>3, <1>0 DEF Snapshot, TaskWellFormed, Active
  <2>. DEFINE doc == documents[analyses[g].uri]
              taken(stage) == [analyses[g] EXCEPT !.stage = stage, !.text = doc.text,
                                                  !.version = doc.version]
  <2>2. ASSUME MoveTo(g, "cleaning")
        PROVE  AnalysesOK
    BY <2>2, <1>1, <2>1, MoveAnalysis
  <2>3. ASSUME analyses' = [analyses EXCEPT ![g] = Finished]
        PROVE  AnalysesOK
    BY <2>3, <1>0, FinishTypes
  <2>4. ASSUME NEW stage \in {"analyzing", "analyzed"}, IsOpen(documents, analyses[g].uri),
               analyses' = [analyses EXCEPT ![g] = taken(stage)]
        PROVE  AnalysesOK
    <3>1. doc \in Document /\ doc.text \in Texts
      BY <1>0, <2>1, <2>4 DEF IsOpen, Document, MaybeText
    <3>2. taken(stage) \in Task
      BY <1>1, <2>1, <3>1 DEF Task, Document
    <3>3. TaskWellFormed(taken(stage))
      BY <2>1, <3>1 DEF TaskWellFormed, Task
    <3>. HIDE DEF taken
    <3>. QED
      BY <1>0, <2>4, <3>2, <3>3
  <2>5. AnalysesOK
    BY <1>3, <2>2, <2>3, <2>4 DEF Snapshot
  <2>. HIDE DEF AnalysesOK
  <2>. QED
    BY <1>3, <1>0, <2>5
    DEF Snapshot, Typing, HandlerWellFormed, HandlerIdle, AnalysesOK
<1>4. CASE AnalyzeText(g)
  <2>1. analyses[g].uri \in Uris /\ analyses[g].text \in Texts
    BY <1>4, <1>0 DEF AnalyzeText, TaskWellFormed, Active, HasText
  <2>2. PICK stage \in {"cleaning", "analyzed"} : MoveTo(g, stage)
    BY <1>4 DEF AnalyzeText
  <2>3. AnalysesOK
    BY <1>1, <2>1, <2>2, MoveAnalysis
  <2>. QED
    BY <1>4, <1>0, <2>3 DEF AnalyzeText, Typing, HandlerWellFormed, HandlerIdle
<1>5. CASE CommitAnalysis(g)
  <2>1. /\ analyses[g].uri \in Uris /\ analyses[g].text \in Texts
        /\ analyses[g].version \in Int
    BY <1>5, <1>0 DEF CommitAnalysis, TaskWellFormed, Active, HasText, Task
  <2>2. PICK stage \in {"cleaning", "publishing"} : MoveTo(g, stage)
    BY <1>5 DEF CommitAnalysis
  <2>3. AnalysesOK
    BY <1>1, <2>1, <2>2, MoveAnalysis
  <2>4. /\ analyses[g].text \in MaybeText /\ TRUE \in BOOLEAN
        /\ None \in FileContent
    BY <2>1 DEF MaybeText, FileContent
  <2>5. documents' \in [Uris -> Document]
    BY <1>5, <1>0, <2>1, <2>4, DocumentOps DEF CommitAnalysis
  <2>6. units' \in [Uris -> Unit]
    BY <1>5, <1>0, <2>1, <2>4, IndexOps DEF CommitAnalysis
  <2>. QED
    BY <1>5, <1>0, <2>3, <2>5, <2>6
    DEF CommitAnalysis, Typing, HandlerWellFormed, HandlerIdle
<1>6. CASE PublishAnalysis(g)
  <2>1. /\ analyses[g].uri \in Uris /\ analyses[g].text \in Texts
        /\ analyses[g].version \in Int
    BY <1>6, <1>0 DEF PublishAnalysis, TaskWellFormed, Active, HasText, Task
  <2>2. MoveTo(g, "cleaning")
    BY <1>6 DEF PublishAnalysis
  <2>3. AnalysesOK
    BY <1>1, <2>1, <2>2, MoveAnalysis
  <2>4. diagnostics' \in [Uris -> Diagnostics]
    <3>1. [text |-> analyses[g].text, version |-> analyses[g].version] \in Diagnostics
      BY <2>1 DEF Diagnostics, MaybeText
    <3>. QED
      BY <1>6, <1>0, <3>1 DEF PublishAnalysis
  <2>. QED
    BY <1>6, <1>0, <2>3, <2>4 DEF PublishAnalysis, Typing, HandlerWellFormed, HandlerIdle
<1>7. CASE CleanUpAnalysis(g)
  <2>1. analyses[g].uri \in Uris /\ "cleaning" \in Stages
    BY <1>7, <1>0, <1>1 DEF CleanUpAnalysis, TaskWellFormed, Active
  <2>2. analyses' = [analyses EXCEPT ![g] = Finished]
    BY <1>7 DEF CleanUpAnalysis
  <2>3. AnalysesOK
    BY <1>0, <2>2, FinishTypes
  <2>. QED
    BY <1>7, <1>0, <2>3 DEF CleanUpAnalysis, Typing, HandlerWellFormed, HandlerIdle
<1>. QED
  BY <1>2, <1>3, <1>4, <1>5, <1>6, <1>7 DEF AnalysisStep

\* The save tasks, the scan, the watcher and the files keep the types.
LEMMA TypingOthers ==
  ASSUME Typing,
         \/ \E g \in SaveGenerations : SaveStep(g)
         \/ ScanStep \/ RegisterWatcher \/ FileStep
  PROVE  Typing'
<1>. USE DEF TypeOK, docVars, schedulerVars, saveVars, diskVars
<1>0. /\ TypeOK /\ HandlerWellFormed
      /\ \A h \in Generations : TaskWellFormed(analyses[h])
      /\ \A h \in SaveGenerations : TaskWellFormed(saves[h])
  BY TypingFacts
<1>. DEFINE SavesOK == /\ saves' \in [SaveGenerations -> Task]
                       /\ \A h \in SaveGenerations : TaskWellFormed(saves'[h])
<1>1. {"analyzed", "cleaning"} \subseteq Stages
  BY DEF Stages, Running
<1>2. ASSUME NEW g \in SaveGenerations, AnalyzeSavedText(g)
      PROVE  Typing'
  <2>1. analyses = analyses' /\ saves[g].uri \in Uris /\ saves[g].text \in Texts
    BY <1>2, <1>0 DEF AnalyzeSavedText, TaskWellFormed, Active, HasText
  <2>2. \/ saves' = [saves EXCEPT ![g] = Finished]
        \/ saves' = [saves EXCEPT ![g].stage = "analyzed"]
    BY <1>2 DEF AnalyzeSavedText
  <2>3. SavesOK
    <3>1. CASE saves' = [saves EXCEPT ![g] = Finished]
      BY <1>0, <3>1, FinishTypes
    <3>2. CASE saves' = [saves EXCEPT ![g].stage = "analyzed"]
      BY <1>1, <2>1, <3>2, MoveSave
    <3>. QED
      BY <2>2, <3>1, <3>2
  <2>. QED
    BY <1>2, <1>0, <2>3 DEF AnalyzeSavedText, Typing, HandlerWellFormed, HandlerIdle
<1>3. ASSUME NEW g \in SaveGenerations, CommitSave(g)
      PROVE  Typing'
  <2>1. saves[g].uri \in Uris /\ saves[g].text \in Texts
    BY <1>3, <1>0 DEF CommitSave, TaskWellFormed, Active, HasText
  <2>2. saves' = [saves EXCEPT ![g].stage = "cleaning"]
    BY <1>3 DEF CommitSave
  <2>3. SavesOK
    BY <1>1, <2>1, <2>2, MoveSave
  <2>4. /\ saves[g].text \in MaybeText /\ TRUE \in BOOLEAN
        /\ None \in FileContent
    BY <2>1 DEF MaybeText, FileContent
  <2>5. units' \in [Uris -> Unit]
    BY <1>3, <1>0, <2>1, <2>4, IndexOps DEF CommitSave
  <2>. QED
    BY <1>3, <1>0, <2>3, <2>5 DEF CommitSave, Typing, HandlerWellFormed, HandlerIdle
<1>4. ASSUME NEW g \in SaveGenerations, CleanUpSave(g)
      PROVE  Typing'
  <2>1. saves[g].uri \in Uris
    BY <1>4, <1>0 DEF CleanUpSave, TaskWellFormed, Active
  <2>2. saves' = [saves EXCEPT ![g] = Finished]
    BY <1>4 DEF CleanUpSave
  <2>3. SavesOK
    BY <1>0, <2>2, FinishTypes
  <2>. QED
    BY <1>4, <1>0, <2>3 DEF CleanUpSave, Typing, HandlerWellFormed, HandlerIdle
<1>5. ASSUME NEW u \in Uris, ScanFile(u)
      PROVE  Typing'
  <2>1. scan' \in [stage : {"reading", "finished"}, left : SUBSET Uris,
                   found : [Uris -> FileContent]]
    BY <1>5, <1>0 DEF ScanFile
  <2>. QED
    BY <1>5, <1>0, <2>1 DEF ScanFile, Typing, HandlerWellFormed, HandlerIdle
<1>6. CASE ScanReplace
  BY <1>6, <1>0, ReplaceType DEF ScanReplace, Typing, HandlerWellFormed, HandlerIdle
<1>7. CASE RegisterWatcher
  BY <1>7, <1>0 DEF RegisterWatcher, Typing, HandlerWellFormed, HandlerIdle
<1>8. ASSUME NEW u \in Uris, NEW content \in Contents(u), WriteFile(u, content)
      PROVE  Typing'
  <2>1. content \in FileContent
    BY DEF Contents, FileContent, MaybeText
  <2>. DEFINE Event == [uri : Uris, kind : {"changed", "deleted"}]
              event == [uri |-> u, kind |->
                          IF content = None THEN "deleted" ELSE "changed"]
  <2>2. events' \in Seq(Event)
    <3>1. event \in Event
      OBVIOUS
    <3>2. events' = events \/ events' = Append(events, event)
      BY <1>8 DEF WriteFile
    <3>3. events \in Seq(Event)
      BY <1>0
    <3>. HIDE DEF Event, event
    <3>. QED
      BY <3>1, <3>2, <3>3
  <2>. QED
    BY <1>8, <1>0, <2>1, <2>2 DEF WriteFile, Typing, HandlerWellFormed, HandlerIdle
<1>. QED
  BY <1>2, <1>3, <1>4, <1>5, <1>6, <1>7, <1>8 DEF SaveStep, ScanStep, FileStep

\* Every step keeps the types.
LEMMA TypingNext == Typing /\ [Next]_vars => Typing'
<1>. SUFFICES ASSUME Typing, [Next]_vars PROVE Typing'
  OBVIOUS
<1>1. CASE Next
  BY <1>1, TypingHandlers, TypingAnalyses, TypingOthers DEF Next
<1>2. CASE UNCHANGED vars
  BY <1>2 DEF vars, docVars, schedulerVars, saveVars, diskVars, Typing, TypeOK,
              HandlerWellFormed, HandlerIdle
<1>. QED
  BY <1>1, <1>2

\* Type correctness of the language server.
THEOREM TypeCorrect == Spec => []TypeOK
<1>1. Typing => TypeOK
  BY DEF Typing
<1>. QED
  BY <1>1, TypingInit, TypingNext, PTL DEF Spec

(***************************************************************************)
(* The scheduler's map holds exactly the live tasks.                       *)
(***************************************************************************)

\* Nothing is live at an entry that was aborted, and the others are untouched.
LEMMA AbortEnds ==
  ASSUME NEW G, NoTask \notin G, NEW tasks \in [G -> Task], NEW g \in G, NEW h \in G
  PROVE  /\ ~Live(Abort(tasks, g)[g])
         /\ h # g => Abort(tasks, g)[h] = tasks[h]
<1>1. g # NoTask /\ tasks[g] \in Task
  OBVIOUS
<1>2. CASE tasks[g].stage \in Awaiting
  BY <1>1, <1>2 DEF Abort, Finished, Blank, Live
<1>3. CASE tasks[g].stage \in Running
  <2>1. tasks[g].stage \notin Awaiting
    BY <1>3 DEF Running, Awaiting
  <2>2. Abort(tasks, g) = [tasks EXCEPT ![g].aborted = TRUE]
    BY <1>1, <1>3, <2>1 DEF Abort
  <2>. QED
    BY <1>1, <2>2 DEF Live, Task
<1>4. CASE tasks[g].stage \in {"none", "finished"}
  <2>1. tasks[g].stage \notin Awaiting /\ tasks[g].stage \notin Running
    BY <1>4 DEF Running, Awaiting
  <2>2. Abort(tasks, g) = tasks
    BY <1>1, <2>1 DEF Abort
  <2>. QED
    BY <1>4, <2>2 DEF Live
<1>. QED
  BY <1>1, <1>2, <1>3, <1>4 DEF Task, Stages

\* No task is live when the server starts, and the map is empty.
LEMMA PendingInit == Init => FreshGenerations /\ PendingIsTheLiveTask
BY DEF Init, FreshGenerations, PendingIsTheLiveTask, Live, NotSpawned, Blank,
       NoTask, Generations

\* A request replaces the live task of its URI by the new one.
LEMMA PendingRequest ==
  ASSUME PendingInv, NEW u \in Uris, RequestAnalysis(u)
  PROVE  (FreshGenerations /\ PendingIsTheLiveTask)'
<1>0. /\ analyses \in [Generations -> Task]
      /\ pending \in [Uris -> Generations \cup {NoTask}]
      /\ next_generation \in Generations
      /\ NoTask \notin Generations
  BY ServerAssumption
  DEF PendingInv, Typing, TypeOK, RequestAnalysis, Generations, NoTask
<1>. DEFINE new == NewTask(u, "sleeping", None, 0)
            aborted == Abort(analyses, pending[u])
            next == next_generation
<1>1. /\ analyses' = [aborted EXCEPT ![next] = new]
      /\ pending' = [pending EXCEPT ![u] = next]
      /\ next_generation' = next + 1
  BY DEF RequestAnalysis
<1>2. Live(new) /\ new.uri = u
  BY DEF NewTask, Live
<1>3. aborted \in [Generations -> Task]
  BY <1>0, AbortType
<1>4. ASSUME NEW g \in Generations
      PROVE  \/ aborted[g] = analyses[g] /\ pending[u] # g
             \/ pending[u] = g /\ ~Live(aborted[g])
  BY <1>0, AbortEnds DEF Abort
<1>5. \A g \in Generations, v \in Uris :
        pending[v] = g <=> Live(analyses[g]) /\ analyses[g].uri = v
  BY DEF PendingInv, PendingIsTheLiveTask
<1>6. \A g \in Generations : g >= next => analyses[g].stage = "none"
  BY DEF PendingInv, FreshGenerations
<1>7. ~Live(analyses[next])
  BY <1>0, <1>6 DEF Live, Generations
<1>. HIDE DEF new, aborted, next
<1>8. ASSUME NEW g \in Generations, NEW v \in Uris
      PROVE  pending'[v] = g <=> Live(analyses'[g]) /\ analyses'[g].uri = v
  <2>1. CASE g = next
    BY <1>0, <1>1, <1>2, <1>3, <1>5, <1>7, <2>1
  <2>2. CASE g # next
    <3>1. analyses'[g] = aborted[g]
      BY <1>1, <1>3, <2>2
    <3>2. pending'[v] = IF v = u THEN next ELSE pending[v]
      BY <1>0, <1>1
    <3>. QED
      BY <1>4, <1>5, <2>2, <3>1, <3>2
  <2>. QED
    BY <2>1, <2>2
<1>9. ASSUME NEW g \in Generations, g >= next'
      PROVE  analyses'[g].stage = "none"
  <2>1. next \in Int /\ g \in Int /\ next' = next + 1
    BY <1>0, <1>1 DEF Generations, next
  <2>2. g # next /\ g >= next
    BY <1>9, <2>1
  <2>3. analyses'[g] = aborted[g] /\ analyses[g].stage = "none"
    BY <1>1, <1>3, <1>6, <2>2
  <2>4. ~Live(analyses[g])
    BY <2>3 DEF Live
  <2>5. pending[u] # g
    BY <1>5, <2>4
  <2>. QED
    BY <1>4, <2>3, <2>5
<1>. QED
  BY <1>8, <1>9 DEF FreshGenerations, PendingIsTheLiveTask, next

\* A step of a task that only moves it on leaves the map right.
LEMMA PendingMove ==
  ASSUME PendingInv, NEW g \in Generations, NEW new, Active(analyses[g]),
         analyses' = [analyses EXCEPT ![g] = new], Live(new) <=> Live(analyses[g]),
         new.uri = analyses[g].uri \/ ~Live(new),
         UNCHANGED <<pending, next_generation>>
  PROVE  (FreshGenerations /\ PendingIsTheLiveTask)'
<1>1. analyses \in [Generations -> Task]
  BY DEF PendingInv, Typing, TypeOK
<1>. QED
  BY <1>1 DEF PendingInv, PendingIsTheLiveTask, FreshGenerations, Active

\* Every step of an analysis task keeps the map right.
LEMMA PendingAnalyses ==
  ASSUME PendingInv, NEW g \in Generations, AnalysisStep(g)
  PROVE  (FreshGenerations /\ PendingIsTheLiveTask)'
<1>0. analyses \in [Generations -> Task] /\ analyses[g] \in Task
  BY DEF PendingInv, Typing, TypeOK
<1>1. ASSUME NEW stage \in Stages \ {"none", "finished"}, MoveTo(g, stage),
             Active(analyses[g]), UNCHANGED <<pending, next_generation>>
      PROVE  (FreshGenerations /\ PendingIsTheLiveTask)'
  <2>. DEFINE moved == [analyses[g] EXCEPT !.stage = stage]
  <2>1. analyses' = [analyses EXCEPT ![g] = moved]
    BY <1>1 DEF MoveTo
  <2>2. (Live(moved) <=> Live(analyses[g])) /\ moved.uri = analyses[g].uri
    BY <1>0, <1>1 DEF Live, Active, Task
  <2>. HIDE DEF moved
  <2>. QED
    BY <1>1, <2>1, <2>2, PendingMove
<1>2. {"woken", "analyzing", "analyzed", "publishing", "cleaning"}
        \subseteq Stages \ {"none", "finished"}
  BY DEF Stages, Running, Awaiting
<1>3. CASE Wake(g)
  BY <1>3, <1>1, <1>2 DEF Wake, Active
<1>4. CASE Snapshot(g)
  <2>1. Active(analyses[g]) /\ UNCHANGED <<pending, next_generation>>
    BY <1>4 DEF Snapshot, Active
  <2>2. CASE MoveTo(g, "cleaning")
    BY <1>1, <1>2, <2>1, <2>2
  <2>3. CASE analyses[g].aborted /\ analyses' = [analyses EXCEPT ![g] = Finished]
    <3>1. ~Live(Finished) /\ ~Live(analyses[g])
      BY <2>3 DEF Live, Finished, Blank
    <3>. QED
      BY <2>1, <2>3, <3>1, PendingMove
  <2>. DEFINE doc == documents[analyses[g].uri]
              taken(stage) == [analyses[g] EXCEPT !.stage = stage, !.text = doc.text,
                                                  !.version = doc.version]
  <2>4. ASSUME NEW stage \in {"analyzing", "analyzed"},
               analyses' = [analyses EXCEPT ![g] = taken(stage)]
        PROVE  (FreshGenerations /\ PendingIsTheLiveTask)'
    <3>1. /\ Live(taken(stage)) <=> Live(analyses[g])
          /\ taken(stage).uri = analyses[g].uri
      BY <1>0, <2>1 DEF Live, Active, Task
    <3>. HIDE DEF taken
    <3>. QED
      BY <2>1, <2>4, <3>1, PendingMove
  <2>. QED
    BY <1>4, <2>2, <2>3, <2>4 DEF Snapshot
<1>5. CASE AnalyzeText(g)
  BY <1>5, <1>1, <1>2 DEF AnalyzeText, Active
<1>6. CASE CommitAnalysis(g)
  BY <1>6, <1>1, <1>2 DEF CommitAnalysis, Active
<1>7. CASE PublishAnalysis(g)
  BY <1>7, <1>1, <1>2 DEF PublishAnalysis, Active
<1>8. CASE CleanUpAnalysis(g)
  <2>1. /\ analyses' = [analyses EXCEPT ![g] = Finished]
        /\ UNCHANGED next_generation
        /\ Active(analyses[g])
    BY <1>8 DEF CleanUpAnalysis, Active
  <2>2. pending' = IF pending[analyses[g].uri] = g
                   THEN [pending EXCEPT ![analyses[g].uri] = NoTask] ELSE pending
    BY <1>8 DEF CleanUpAnalysis
  <2>3. /\ pending \in [Uris -> Generations \cup {NoTask}]
        /\ NoTask \notin Generations
    BY DEF PendingInv, Typing, TypeOK, NoTask, Generations
  <2>4. ~Live(Finished)
    BY DEF Live, Finished, Blank
  <2>5. \A h \in Generations, v \in Uris :
          pending[v] = h <=> Live(analyses[h]) /\ analyses[h].uri = v
    BY DEF PendingInv, PendingIsTheLiveTask
  <2>6. ASSUME NEW h \in Generations, NEW v \in Uris
        PROVE  pending'[v] = h <=> Live(analyses'[h]) /\ analyses'[h].uri = v
    BY <1>0, <2>1, <2>2, <2>3, <2>4, <2>5
  <2>7. FreshGenerations'
    BY <1>0, <2>1 DEF PendingInv, FreshGenerations, Active
  <2>. QED
    BY <2>6, <2>7 DEF PendingIsTheLiveTask
<1>. QED
  BY <1>3, <1>4, <1>5, <1>6, <1>7, <1>8 DEF AnalysisStep

\* did_close removes and aborts the live task of its URI.
LEMMA PendingCancel ==
  ASSUME PendingInv, CancelAnalysis
  PROVE  (FreshGenerations /\ PendingIsTheLiveTask)'
<1>. DEFINE u == handler.uri
<1>0. /\ analyses \in [Generations -> Task]
      /\ pending \in [Uris -> Generations \cup {NoTask}]
      /\ u \in Uris
      /\ NoTask \notin Generations
  BY DEF PendingInv, Typing, TypeOK, HandlerWellFormed, HandlerIdle, CancelAnalysis,
         NoTask, Generations
<1>1. /\ analyses' = Abort(analyses, pending[u])
      /\ pending' = [pending EXCEPT ![u] = NoTask]
      /\ UNCHANGED next_generation
  BY DEF CancelAnalysis
<1>2. ASSUME NEW g \in Generations
      PROVE  \/ analyses'[g] = analyses[g] /\ pending[u] # g
             \/ pending[u] = g /\ ~Live(analyses'[g])
  BY <1>0, <1>1, AbortEnds DEF Abort
<1>3. \A g \in Generations, v \in Uris :
        pending[v] = g <=> Live(analyses[g]) /\ analyses[g].uri = v
  BY DEF PendingInv, PendingIsTheLiveTask
<1>. HIDE DEF u
<1>4. \A g \in Generations, v \in Uris :
        pending'[v] = g <=> Live(analyses'[g]) /\ analyses'[g].uri = v
  BY <1>0, <1>1, <1>2, <1>3
<1>5. ASSUME NEW g \in Generations, g >= next_generation'
      PROVE  analyses'[g].stage = "none"
  <2>1. analyses[g].stage = "none"
    BY <1>1, <1>5 DEF PendingInv, FreshGenerations
  <2>2. ~Live(analyses[g])
    BY <2>1 DEF Live
  <2>. QED
    BY <1>0, <1>2, <1>3, <2>1, <2>2
<1>. QED
  BY <1>4, <1>5 DEF PendingIsTheLiveTask, FreshGenerations

\* shutdown removes and aborts every live task.
LEMMA PendingShutdown ==
  ASSUME PendingInv, Shutdown
  PROVE  (FreshGenerations /\ PendingIsTheLiveTask)'
<1>0. /\ analyses \in [Generations -> Task]
      /\ NoTask \notin Generations
  BY DEF PendingInv, Typing, TypeOK, NoTask, Generations
<1>1. /\ analyses' = AbortAll(analyses, pending)
      /\ pending' = [v \in Uris |-> NoTask]
      /\ UNCHANGED next_generation
  BY DEF Shutdown
<1>2. \A g \in Generations :
        analyses'[g] = IF \E v \in Uris : pending[v] = g THEN Abort(analyses, g)[g]
                       ELSE analyses[g]
  BY <1>0, <1>1 DEF AbortAll
<1>3. \A g \in Generations, v \in Uris :
        pending[v] = g <=> Live(analyses[g]) /\ analyses[g].uri = v
  BY DEF PendingInv, PendingIsTheLiveTask
<1>4. \A g \in Generations : Live(analyses[g]) => analyses[g].uri \in Uris
  BY DEF PendingInv, Typing, TaskWellFormed, Live, Active
<1>5. \A g \in Generations : ~Live(analyses'[g])
  BY <1>0, <1>2, <1>3, <1>4, AbortEnds
<1>6. ASSUME NEW g \in Generations, g >= next_generation'
      PROVE  analyses'[g].stage = "none"
  <2>1. analyses[g].stage = "none"
    BY <1>1, <1>6 DEF PendingInv, FreshGenerations
  <2>2. ~Live(analyses[g])
    BY <2>1 DEF Live
  <2>. QED
    BY <1>2, <1>3, <2>1, <2>2
<1>. QED
  BY <1>0, <1>1, <1>5, <1>6 DEF PendingIsTheLiveTask, FreshGenerations

\* Every step keeps the invariant.
LEMMA PendingNext == PendingInv /\ [Next]_vars => PendingInv'
<1>. SUFFICES ASSUME PendingInv, [Next]_vars PROVE PendingInv'
  OBVIOUS
<1>. DEFINE Q == FreshGenerations /\ PendingIsTheLiveTask
<1>1. Typing'
  BY TypingNext DEF PendingInv
<1>2. ASSUME UNCHANGED schedulerVars PROVE Q'
  BY <1>2 DEF PendingInv, schedulerVars, FreshGenerations, PendingIsTheLiveTask
<1>3. ASSUME ClientStep PROVE Q'
  <2>1. ASSUME NEW u \in Uris, NEW t \in Texts, DidChange(u, t) PROVE Q'
    BY <2>1, PendingRequest DEF DidChange
  <2>2. ASSUME NEW u \in Uris, NEW t \in Texts, DidOpen(u, t) \/ DidSave(u, t)
        PROVE  UNCHANGED schedulerVars
    BY <2>2 DEF DidOpen, DidSave
  <2>3. ASSUME NEW u \in Uris,
               DidChangeRejected(u) \/ DidClose(u) \/ DidSaveNoText(u)
        PROVE  UNCHANGED schedulerVars
    BY <2>3 DEF DidChangeRejected, DidClose, DidSaveNoText
  <2>. QED
    BY <1>2, <1>3, <2>1, <2>2, <2>3, PendingShutdown DEF ClientStep
<1>4. ASSUME HandlerStep PROVE Q'
  <2>1. ASSUME DidOpenRequest PROVE Q'
    <3>1. handler.uri \in Uris /\ RequestAnalysis(handler.uri)
      BY <2>1 DEF DidOpenRequest, PendingInv, Typing, HandlerWellFormed, HandlerIdle
    <3>. QED
      BY <3>1, PendingRequest
  <2>2. ASSUME CancelSaveIndex \/ DidCloseNoteClosed \/ DidClosePublish \/ InsertSaveTask
        PROVE  UNCHANGED schedulerVars
    BY <2>2 DEF CancelSaveIndex, DidCloseNoteClosed, DidClosePublish, InsertSaveTask
  <2>. QED
    BY <1>2, <1>4, <2>1, <2>2, PendingCancel DEF HandlerStep
<1>5. ASSUME \/ DidChangeWatchedFile
             \/ \E g \in SaveGenerations : SaveStep(g)
             \/ ScanStep \/ RegisterWatcher \/ FileStep
      PROVE  UNCHANGED schedulerVars
  BY <1>5 DEF DidChangeWatchedFile, SaveStep, AnalyzeSavedText, CommitSave, CleanUpSave,
              ScanStep, ScanFile, ScanReplace, RegisterWatcher, FileStep, WriteFile
<1>6. Q'
  <2>1. CASE Next
    BY <2>1, <1>2, <1>3, <1>4, <1>5, PendingAnalyses DEF Next
  <2>2. CASE UNCHANGED vars
    BY <2>2, <1>2 DEF vars
  <2>. QED
    BY <2>1, <2>2
<1>. QED
  BY <1>1, <1>6 DEF PendingInv

\* At any time the scheduler's map holds exactly the analysis tasks that are
\* still live: never two for one URI, never a stale handle, and no cleanup of an
\* old task ever evicts a newer one.
THEOREM PendingCorrect == Spec => []PendingIsTheLiveTask
<1>1. Init => PendingInv
  BY TypingInit, PendingInit DEF PendingInv
<1>2. PendingInv => PendingIsTheLiveTask
  BY DEF PendingInv
<1>. QED
  BY <1>1, <1>2, PendingNext, PTL DEF Spec

================================================================================
