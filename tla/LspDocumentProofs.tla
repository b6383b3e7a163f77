--------------------------- MODULE LspDocumentProofs ---------------------------
(***************************************************************************)
(* What the language server's answers are about: theorems for clients that *)
(* never reuse a version number of a URI; and what goes on beside the      *)
(* client's calls.  For every set of URIs and texts and every bound.       *)
(***************************************************************************)
EXTENDS LspProofs

(***************************************************************************)
(* The texts that tasks hold.                                              *)
(***************************************************************************)

\* What the steps below use of the invariant.
LEMMA DocumentFacts ==
  ASSUME DocumentInv
  PROVE  /\ Typing /\ TypeOK /\ HandlerWellFormed
         /\ documents \in [Uris -> Document]
         /\ client_version \in [Uris -> Int]
         /\ analyses \in [Generations -> Task]
         /\ saves \in [SaveGenerations -> Task]
         /\ units \in [Uris -> Unit]
         /\ diagnostics \in [Uris -> Diagnostics]
         /\ \A g \in Generations : TaskWellFormed(analyses[g])
         /\ \A g \in SaveGenerations : TaskWellFormed(saves[g])
<1>1. Typing /\ TypeOK
  BY DEF DocumentInv, Typing
<1>2. client_version \in [Uris -> Int]
  BY <1>1, ServerAssumption DEF TypeOK
<1>. QED
  BY <1>1, <1>2 DEF Typing, TypeOK

\* A buffer is closed, or opened or edited under a new version number, or its
\* cached analysis is set, or it stays as it is; no version is taken back.
LEMMA DocumentSteps ==
  ASSUME DocumentInv, ~VersionsRestart, [Next]_vars, NEW u \in Uris
  PROVE  /\ client_version'[u] >= client_version[u]
         /\ \/ documents'[u] = documents[u]
            \/ documents'[u] = NoDocument /\ IsOpen(documents, u)
            \/ /\ documents'[u].version = client_version'[u]
               /\ client_version'[u] > client_version[u]
               /\ documents'[u].cached = None /\ documents'[u].text \in Texts
            \/ \E g \in Generations :
                 /\ CommitAnalysis(g) /\ analyses[g].uri = u
                 /\ IsCurrentVersion(documents, u, analyses[g].version)
                 /\ documents'[u] = [documents[u] EXCEPT !.cached = analyses[g].text]
<1>. DEFINE P == /\ client_version'[u] >= client_version[u]
                 /\ \/ documents'[u] = documents[u]
                    \/ documents'[u] = NoDocument /\ IsOpen(documents, u)
                    \/ /\ documents'[u].version = client_version'[u]
                       /\ client_version'[u] > client_version[u]
                       /\ documents'[u].cached = None /\ documents'[u].text \in Texts
                    \/ \E g \in Generations :
                         /\ CommitAnalysis(g) /\ analyses[g].uri = u
                         /\ IsCurrentVersion(documents, u, analyses[g].version)
                         /\ documents'[u] = [documents[u] EXCEPT !.cached = analyses[g].text]
<1>0. documents \in [Uris -> Document] /\ client_version \in [Uris -> Int]
  BY DocumentFacts
<1>1. client_version[u] \in Int
  BY <1>0
<1>2. ASSUME UNCHANGED docVars PROVE P
  BY <1>1, <1>2 DEF docVars
<1>3. ASSUME NEW v \in Uris, NEW t \in Texts, DidOpen(v, t) PROVE P
  <2>1. /\ documents' = OpenDocument(documents, v, t, client_version[v] + 1)
        /\ client_version' = [client_version EXCEPT ![v] = client_version[v] + 1]
    BY <1>3 DEF DidOpen, NextVersion
  <2>. QED
    BY <1>0, <1>1, <2>1 DEF OpenDocument
<1>4. ASSUME NEW v \in Uris, NEW t \in Texts, DidChange(v, t) PROVE P
  <2>1. /\ documents' = ApplyChanges(documents, v, t, client_version[v] + 1)
        /\ client_version' = [client_version EXCEPT ![v] = client_version[v] + 1]
    BY <1>4 DEF DidChange, NextVersion
  <2>. QED
    BY <1>0, <1>1, <2>1 DEF ApplyChanges
<1>5. ASSUME NEW v \in Uris, DidChangeRejected(v) PROVE P
  BY <1>0, <1>1, <1>5 DEF DidChangeRejected, NextVersion
<1>6. ASSUME NEW v \in Uris, DidClose(v) PROVE P
  BY <1>0, <1>1, <1>6 DEF DidClose, CloseDocument
<1>7. ASSUME NEW g \in Generations, CommitAnalysis(g) PROVE P
  <2>1. client_version' = client_version
    BY <1>7 DEF CommitAnalysis
  <2>. DEFINE v == analyses[g].uri
              commits == IsCurrentVersion(documents, v, analyses[g].version)
  <2>2. documents' = IF commits THEN [documents EXCEPT ![v].cached = analyses[g].text]
                     ELSE documents
    BY <1>7 DEF CommitAnalysis, StoreCachedAnalysisIfCurrent
  <2>3. CASE commits /\ u = v
    BY <1>0, <1>1, <1>7, <2>1, <2>2, <2>3
  <2>4. CASE ~(commits /\ u = v)
    BY <1>0, <1>1, <2>1, <2>2, <2>4
  <2>. QED
    BY <2>3, <2>4
<1>8. ASSUME NEW g \in Generations, Wake(g) \/ Snapshot(g) \/ AnalyzeText(g)
                                    \/ PublishAnalysis(g) \/ CleanUpAnalysis(g)
      PROVE  UNCHANGED docVars
  BY <1>8 DEF Wake, Snapshot, AnalyzeText, PublishAnalysis, CleanUpAnalysis
<1>9. ASSUME HandlerStep PROVE UNCHANGED docVars
  BY <1>9 DEF HandlerStep, DidOpenRequest, CancelAnalysis, CancelSaveIndex,
              DidCloseNoteClosed, DidClosePublish, InsertSaveTask
<1>10. ASSUME \/ Shutdown \/ \E v \in Uris, t \in Texts : DidSave(v, t)
              \/ \E v \in Uris : DidSaveNoText(v)
              \/ DidChangeWatchedFile \/ \E g \in SaveGenerations : SaveStep(g)
              \/ ScanStep \/ RegisterWatcher \/ FileStep
       PROVE  UNCHANGED docVars
  BY <1>10 DEF Shutdown, DidSave, DidSaveNoText, DidChangeWatchedFile, SaveStep,
               AnalyzeSavedText, CommitSave, CleanUpSave, ScanStep, ScanFile, ScanReplace,
               RegisterWatcher, FileStep, WriteFile
<1>11. ASSUME UNCHANGED vars PROVE P
  BY <1>2, <1>11 DEF vars, P
<1>. HIDE DEF P
<1>12. ASSUME ClientStep PROVE P
  BY <1>2, <1>3, <1>4, <1>5, <1>6, <1>10, <1>12 DEF ClientStep
<1>13. ASSUME \E g \in Generations : AnalysisStep(g) PROVE P
  <2>1. PICK g \in Generations : AnalysisStep(g)
    BY <1>13
  <2>2. CASE CommitAnalysis(g)
    BY <1>7, <2>2
  <2>3. CASE ~CommitAnalysis(g)
    BY <1>2, <1>8, <2>1, <2>3 DEF AnalysisStep
  <2>. QED
    BY <2>2, <2>3
<1>14. ASSUME Next PROVE P
  BY <1>2, <1>9, <1>10, <1>12, <1>13, <1>14 DEF Next
<1>. QED
  BY <1>11, <1>14 DEF P

\* A text that is current for its version stays so: new texts get new versions.
LEMMA TextStaysCurrent ==
  ASSUME DocumentInv, ~VersionsRestart, [Next]_vars,
         NEW task \in Task, TaskWellFormed(task),
         CurrentText(task, documents, client_version)
  PROVE  CurrentText(task, documents', client_version')
<1>. SUFFICES ASSUME HasText(task) PROVE CurrentText(task, documents', client_version')
  BY DEF CurrentText
<1>. DEFINE u == task.uri
<1>1. u \in Uris /\ task.version \in Int
  BY DEF TaskWellFormed, HasText, Active, Task
<1>2. /\ documents \in [Uris -> Document] /\ client_version \in [Uris -> Int]
      /\ client_version' \in [Uris -> Int]
  <2>1. TypeOK'
    BY TypingNext DEF DocumentInv, Typing
  <2>. QED
    BY <2>1, DocumentFacts, ServerAssumption DEF TypeOK
<1>3. /\ task.version <= client_version[u]
      /\ IsCurrentVersion(documents, u, task.version) => task.text = documents[u].text
  BY DEF CurrentText
<1>4. client_version'[u] >= client_version[u]
  BY <1>1, DocumentSteps
<1>5. task.version <= client_version'[u]
  BY <1>1, <1>2, <1>3, <1>4
<1>6. ASSUME IsCurrentVersion(documents', u, task.version)
      PROVE  task.text = documents'[u].text
  <2>1. documents'[u].text # None /\ documents'[u].version = task.version
    BY <1>6 DEF IsCurrentVersion, IsOpen
  <2>2. CASE documents'[u] = documents[u]
    BY <1>3, <2>1, <2>2 DEF IsCurrentVersion, IsOpen
  <2>3. CASE documents'[u] = NoDocument
    BY <2>1, <2>3 DEF NoDocument
  <2>4. CASE documents'[u].version = client_version'[u] /\ client_version'[u] > client_version[u]
    BY <1>1, <1>2, <1>3, <2>1, <2>4
  <2>5. ASSUME NEW t, documents'[u] = [documents[u] EXCEPT !.cached = t]
        PROVE  task.text = documents'[u].text
    <3>1. documents[u].text = documents'[u].text /\ documents[u].version = documents'[u].version
      BY <1>1, <1>2, <2>5 DEF Document
    <3>. QED
      BY <1>3, <2>1, <3>1 DEF IsCurrentVersion, IsOpen
  <2>. QED
    BY <1>1, <2>2, <2>3, <2>4, <2>5, DocumentSteps
<1>. QED
  BY <1>5, <1>6 DEF CurrentText
\* new has no text, or the one old has.
KeepsText(new, old) ==
  HasText(new) => /\ HasText(old)
                  /\ new.uri = old.uri /\ new.text = old.text /\ new.version = old.version

\* new has just read the text of its buffer.
TakesText(new) ==
  /\ UNCHANGED docVars
  /\ new.uri \in Uris /\ IsOpen(documents, new.uri)
  /\ new.text = documents[new.uri].text /\ new.version = documents[new.uri].version

\* An abort gives no task a text.
LEMMA AbortKeepsText ==
  ASSUME NEW G, NoTask \notin G, NEW tasks \in [G -> Task], NEW g \in G \cup {NoTask},
         NEW h \in G
  PROVE  KeepsText(Abort(tasks, g)[h], tasks[h])
<1>1. tasks[h] \in Task
  OBVIOUS
<1>2. KeepsText([tasks[h] EXCEPT !.aborted = TRUE], tasks[h])
  BY <1>1 DEF KeepsText, HasText, Task
<1>3. KeepsText(Finished, tasks[h]) /\ KeepsText(tasks[h], tasks[h])
  BY DEF KeepsText, HasText, Finished, Blank
<1>. QED
  BY <1>2, <1>3, AbortCases

\* shutdown gives no task a text.
LEMMA AbortAllKeepsText ==
  ASSUME NEW G, NoTask \notin G, NEW tasks \in [G -> Task], NEW entries, NEW h \in G
  PROVE  KeepsText(AbortAll(tasks, entries)[h], tasks[h])
<1>1. AbortAll(tasks, entries)[h] \in {Abort(tasks, h)[h], tasks[h]}
  BY DEF AbortAll
<1>2. KeepsText(tasks[h], tasks[h])
  BY DEF KeepsText
<1>. QED
  BY <1>1, <1>2, AbortKeepsText

\* The snapshot is the only step that gives an analysis task a text.
LEMMA AnalysisTexts ==
  ASSUME DocumentInv, [Next]_vars, NEW h \in Generations
  PROVE  KeepsText(analyses'[h], analyses[h]) \/ TakesText(analyses'[h])
<1>. DEFINE P == KeepsText(analyses'[h], analyses[h]) \/ TakesText(analyses'[h])
<1>0. /\ analyses \in [Generations -> Task]
      /\ pending \in [Uris -> Generations \cup {NoTask}]
      /\ HandlerWellFormed
      /\ \A g \in Generations : TaskWellFormed(analyses[g])
      /\ NoTask \notin Generations
  BY DocumentFacts DEF TypeOK, NoTask, Generations
<1>1. ASSUME analyses'[h] = analyses[h] PROVE P
  BY <1>1 DEF KeepsText
<1>2. ASSUME NEW u \in Uris, RequestAnalysis(u) PROVE P
  <2>. DEFINE new == NewTask(u, "sleeping", None, 0)
              aborted == Abort(analyses, pending[u])
  <2>1. analyses' = [aborted EXCEPT ![next_generation] = new]
    BY <1>2 DEF RequestAnalysis
  <2>2. KeepsText(new, analyses[h])
    BY DEF NewTask, KeepsText, HasText
  <2>3. aborted \in [Generations -> Task] /\ KeepsText(aborted[h], analyses[h])
    BY <1>0, AbortType, AbortKeepsText
  <2>. HIDE DEF new, aborted
  <2>. QED
    BY <2>1, <2>2, <2>3
<1>3. ASSUME CancelAnalysis PROVE P
  <2>1. handler.uri \in Uris /\ analyses' = Abort(analyses, pending[handler.uri])
    BY <1>0, <1>3 DEF CancelAnalysis, HandlerWellFormed, HandlerIdle
  <2>. QED
    BY <1>0, <2>1, AbortKeepsText
<1>4. ASSUME Shutdown PROVE P
  BY <1>0, <1>4, AbortAllKeepsText DEF Shutdown
<1>5. ASSUME NEW g \in Generations, AnalysisStep(g) PROVE P
  <2>. DEFINE task == analyses[g]
  <2>0. task \in Task /\ analyses[h] \in Task
    BY <1>0
  <2>1. CASE g # h
    BY <1>0, <1>1, <1>5, <2>1
    DEF AnalysisStep, Wake, Snapshot, AnalyzeText, CommitAnalysis, PublishAnalysis,
        CleanUpAnalysis, MoveTo
  <2>2. ASSUME NEW stage, MoveTo(g, stage), g = h, HasText(task) \/ stage \in {"woken", "cleaning"}
        PROVE  P
    BY <1>0, <2>0, <2>2 DEF MoveTo, KeepsText, HasText, Task
  <2>3. ASSUME analyses' = [analyses EXCEPT ![g] = Finished], g = h PROVE P
    BY <1>0, <2>3 DEF KeepsText, HasText, Finished, Blank
  <2>4. CASE Snapshot(g) /\ g = h
    <3>1. task.uri \in Uris
      BY <1>0, <2>4 DEF Snapshot, TaskWellFormed, Active
    <3>. DEFINE doc == documents[task.uri]
                taken(stage) == [task EXCEPT !.stage = stage, !.text = doc.text,
                                             !.version = doc.version]
    <3>2. ASSUME NEW stage, IsOpen(documents, task.uri),
                 analyses' = [analyses EXCEPT ![g] = taken(stage)]
          PROVE  P
      <4>1. analyses'[h] = taken(stage) /\ UNCHANGED docVars
        BY <1>0, <2>4, <3>2 DEF Snapshot
      <4>2. taken(stage).uri = task.uri /\ taken(stage).text = doc.text
            /\ taken(stage).version = doc.version
        BY <2>0 DEF Task
      <4>. QED
        BY <3>1, <3>2, <4>1, <4>2 DEF TakesText
    <3>. QED
      BY <2>2, <2>3, <2>4, <3>2 DEF Snapshot
  <2>5. CASE (Wake(g) \/ AnalyzeText(g) \/ CommitAnalysis(g) \/ PublishAnalysis(g)) /\ g = h
    BY <2>2, <2>5 DEF Wake, AnalyzeText, CommitAnalysis, PublishAnalysis, HasText
  <2>6. CASE CleanUpAnalysis(g) /\ g = h
    BY <2>3, <2>6 DEF CleanUpAnalysis
  <2>. HIDE DEF P
  <2>. QED
    BY <1>5, <2>1, <2>4, <2>5, <2>6 DEF AnalysisStep
<1>. HIDE DEF P
<1>6. ASSUME ClientStep PROVE P
  <2>1. ASSUME NEW u \in Uris, NEW t \in Texts, DidOpen(u, t) \/ DidSave(u, t) PROVE P
    BY <1>1, <2>1 DEF DidOpen, DidSave, schedulerVars
  <2>2. ASSUME NEW u \in Uris, NEW t \in Texts, DidChange(u, t) PROVE P
    BY <1>2, <2>2 DEF DidChange
  <2>3. ASSUME NEW u \in Uris, DidChangeRejected(u) \/ DidClose(u) \/ DidSaveNoText(u)
        PROVE  P
    BY <1>1, <2>3 DEF DidChangeRejected, DidClose, DidSaveNoText, schedulerVars
  <2>. QED
    BY <1>4, <1>6, <2>1, <2>2, <2>3 DEF ClientStep
<1>7. ASSUME HandlerStep PROVE P
  <2>1. ASSUME DidOpenRequest PROVE P
    BY <1>0, <1>2, <2>1 DEF DidOpenRequest, HandlerWellFormed, HandlerIdle
  <2>2. ASSUME CancelSaveIndex \/ DidCloseNoteClosed \/ DidClosePublish \/ InsertSaveTask
        PROVE  P
    BY <1>1, <2>2 DEF CancelSaveIndex, DidCloseNoteClosed, DidClosePublish,
                      InsertSaveTask, schedulerVars
  <2>. QED
    BY <1>3, <1>7, <2>1, <2>2 DEF HandlerStep
<1>8. ASSUME \/ DidChangeWatchedFile \/ \E g \in SaveGenerations : SaveStep(g)
             \/ ScanStep \/ RegisterWatcher \/ FileStep \/ UNCHANGED vars
      PROVE  P
  <2>1. analyses' = analyses
    BY <1>8 DEF DidChangeWatchedFile, SaveStep, AnalyzeSavedText, CommitSave, CleanUpSave,
                ScanStep, ScanFile, ScanReplace, RegisterWatcher, FileStep, WriteFile,
                vars, schedulerVars
  <2>. QED
    BY <1>1, <2>1
<1>9. P
  BY <1>5, <1>6, <1>7, <1>8 DEF Next
<1>. QED
  BY <1>9 DEF P
\* did_save is the only step that gives a save task a text.
LEMMA SaveTexts ==
  ASSUME DocumentInv, [Next]_vars, NEW h \in SaveGenerations
  PROVE  KeepsText(saves'[h], saves[h]) \/ TakesText(saves'[h])
<1>. DEFINE P == KeepsText(saves'[h], saves[h]) \/ TakesText(saves'[h])
<1>0. /\ saves \in [SaveGenerations -> Task]
      /\ save_tasks \in [Uris -> SaveGenerations \cup {NoTask}]
      /\ HandlerWellFormed
      /\ \A g \in SaveGenerations : TaskWellFormed(saves[g])
      /\ NoTask \notin SaveGenerations
  BY DocumentFacts DEF TypeOK, NoTask, SaveGenerations
<1>1. ASSUME saves'[h] = saves[h] PROVE P
  BY <1>1 DEF KeepsText
<1>2. ASSUME CancelSaveIndex \/ InsertSaveTask PROVE P
  <2>1. handler.uri \in Uris /\ saves' = Abort(saves, save_tasks[handler.uri])
    BY <1>0, <1>2 DEF CancelSaveIndex, InsertSaveTask, HandlerWellFormed, HandlerIdle
  <2>. QED
    BY <1>0, <2>1, AbortKeepsText
<1>3. ASSUME Shutdown PROVE P
  BY <1>0, <1>3, AbortAllKeepsText DEF Shutdown
<1>4. ASSUME NEW u \in Uris, NEW t \in Texts, DidSave(u, t) PROVE P
  <2>. DEFINE new == NewTask(u, "analyzing", t, documents[u].version)
  <2>1. saves' = [saves EXCEPT ![save_generation] = new] /\ UNCHANGED docVars
    BY <1>4 DEF DidSave
  <2>2. documents[u].text = t /\ t # None
    BY <1>4, NoneAssumption DEF DidSave
  <2>3. /\ new.uri = u /\ new.text = documents[u].text
        /\ new.version = documents[u].version
    BY <2>2 DEF NewTask
  <2>. HIDE DEF new
  <2>4. saves'[h] = saves[h] \/ saves'[h] = new
    BY <1>0, <2>1
  <2>. QED
    BY <1>1, <2>1, <2>2, <2>3, <2>4 DEF TakesText, IsOpen
<1>5. ASSUME NEW g \in SaveGenerations, SaveStep(g) PROVE P
  <2>. DEFINE task == saves[g]
  <2>0. task \in Task /\ saves[h] \in Task
    BY <1>0
  <2>1. CASE g # h
    BY <1>0, <1>1, <1>5, <2>1 DEF SaveStep, AnalyzeSavedText, CommitSave, CleanUpSave
  <2>2. ASSUME NEW stage, saves' = [saves EXCEPT ![g].stage = stage], g = h, HasText(task)
        PROVE  P
    BY <1>0, <2>0, <2>2 DEF KeepsText, HasText, Task
  <2>3. ASSUME saves' = [saves EXCEPT ![g] = Finished], g = h PROVE P
    BY <1>0, <2>3 DEF KeepsText, HasText, Finished, Blank
  <2>4. CASE AnalyzeSavedText(g) /\ g = h
    <3>1. CASE task.text \in Panics
      BY <2>3, <2>4, <3>1 DEF AnalyzeSavedText
    <3>2. CASE task.text \notin Panics
      <4>1. HasText(task)
        BY <2>4 DEF AnalyzeSavedText, HasText
      <4>2. saves' = [saves EXCEPT ![g].stage = "analyzed"]
        BY <2>4, <3>2 DEF AnalyzeSavedText
      <4>. QED
        BY <2>2, <2>4, <4>1, <4>2
    <3>. QED
      BY <3>1, <3>2
  <2>5. CASE CommitSave(g) /\ g = h
    BY <2>2, <2>5 DEF CommitSave, HasText
  <2>6. CASE CleanUpSave(g) /\ g = h
    BY <2>3, <2>6 DEF CleanUpSave
  <2>. HIDE DEF P
  <2>. QED
    BY <1>5, <2>1, <2>4, <2>5, <2>6 DEF SaveStep
<1>. HIDE DEF P
<1>6. ASSUME ClientStep PROVE P
  <2>1. ASSUME NEW u \in Uris, NEW t \in Texts, DidOpen(u, t) \/ DidChange(u, t) PROVE P
    BY <1>1, <2>1 DEF DidOpen, DidChange, saveVars
  <2>2. ASSUME NEW u \in Uris, DidChangeRejected(u) \/ DidClose(u) \/ DidSaveNoText(u)
        PROVE  P
    BY <1>1, <2>2 DEF DidChangeRejected, DidClose, DidSaveNoText, saveVars
  <2>. QED
    BY <1>3, <1>4, <1>6, <2>1, <2>2 DEF ClientStep
<1>7. ASSUME HandlerStep PROVE P
  <2>1. ASSUME DidOpenRequest \/ CancelAnalysis \/ DidCloseNoteClosed \/ DidClosePublish
        PROVE  P
    BY <1>1, <2>1 DEF DidOpenRequest, CancelAnalysis, DidCloseNoteClosed, DidClosePublish,
                      saveVars
  <2>. QED
    BY <1>2, <1>7, <2>1 DEF HandlerStep
<1>8. ASSUME \/ DidChangeWatchedFile \/ \E g \in Generations : AnalysisStep(g)
             \/ ScanStep \/ RegisterWatcher \/ FileStep \/ UNCHANGED vars
      PROVE  P
  <2>1. saves' = saves
    BY <1>8 DEF DidChangeWatchedFile, AnalysisStep, Wake, Snapshot, AnalyzeText,
                CommitAnalysis, PublishAnalysis, CleanUpAnalysis, ScanStep, ScanFile,
                ScanReplace, RegisterWatcher, FileStep, WriteFile, vars, saveVars
  <2>. QED
    BY <1>1, <2>1
<1>9. P
  BY <1>5, <1>6, <1>7, <1>8 DEF Next
<1>. QED
  BY <1>9 DEF P

\* A task that keeps its text, or has just taken it, holds the text of its version.
LEMMA TasksStayCurrent ==
  ASSUME DocumentInv, ~VersionsRestart, [Next]_vars
  PROVE  TasksHoldCurrentTexts'
<1>0. TasksHoldCurrentTexts /\ VersionsWereGiven /\ Typing'
  BY TypingNext DEF DocumentInv
<1>1. ASSUME NEW old \in Task, NEW new \in Task, TaskWellFormed(old), TaskWellFormed(new),
             CurrentText(old, documents, client_version),
             KeepsText(new, old) \/ TakesText(new)
      PROVE  CurrentText(new, documents', client_version')
  <2>1. CASE KeepsText(new, old)
    <3>1. CurrentText(new, documents, client_version)
      BY <1>1, <2>1 DEF KeepsText, CurrentText
    <3>. QED
      BY <1>1, <3>1, TextStaysCurrent
  <2>2. CASE TakesText(new)
    BY <1>0, <2>2 DEF TakesText, CurrentText, VersionsWereGiven, docVars
  <2>. QED
    BY <1>1, <2>1, <2>2
<1>2. /\ \A g \in Generations : analyses'[g] \in Task /\ TaskWellFormed(analyses'[g])
      /\ \A g \in SaveGenerations : saves'[g] \in Task /\ TaskWellFormed(saves'[g])
  BY <1>0 DEF Typing, TypeOK
<1>3. ASSUME NEW g \in Generations
      PROVE  CurrentText(analyses'[g], documents', client_version')
  BY <1>0, <1>1, <1>2, AnalysisTexts, DocumentFacts DEF TasksHoldCurrentTexts
<1>4. ASSUME NEW g \in SaveGenerations
      PROVE  CurrentText(saves'[g], documents', client_version')
  BY <1>0, <1>1, <1>2, SaveTexts, DocumentFacts DEF TasksHoldCurrentTexts
<1>. QED
  BY <1>3, <1>4 DEF TasksHoldCurrentTexts
(***************************************************************************)
(* The index and the cache: every step is one of BufferOwnership.          *)
(***************************************************************************)

\* A disk event, a scan or a deletion leaves the units of open buffers alone
\* and makes no unit one.
SyncsDisk(old, new) ==
  \A u \in Uris : IF old[u].open THEN new[u] = old[u] ELSE ~new[u].open

\* What reads the disk only syncs it.
LEMMA DiskOps ==
  ASSUME NEW index \in [Uris -> Unit], NEW u \in Uris, NEW content \in FileContent
  PROVE  /\ SyncsDisk(index, index)
         /\ SyncsDisk(index, ReloadFromDisk(index, u, content))
         /\ SyncsDisk(index, ForgetDeleted(index, u))
         /\ \A scanned : SyncsDisk(index, ReplaceDiskUnits(index, scanned))
<1>1. SyncsDisk(index, RemoveUnit(index, u)) \/ index[u].open
  BY DEF SyncsDisk, RemoveUnit, NoUnit
<1>2. SyncsDisk(index, InsertUnit(index, u, content, FALSE))
  BY DEF SyncsDisk, InsertUnit, IsOpenBuffer
<1>3. SyncsDisk(index, index)
  BY DEF SyncsDisk, Unit
<1>4. \A scanned : SyncsDisk(index, ReplaceDiskUnits(index, scanned))
  BY DEF SyncsDisk, ReplaceDiskUnits, IsOpenBuffer, NoUnit
<1>. QED
  BY <1>1, <1>2, <1>3, <1>4 DEF ReloadFromDisk, ForgetDeleted, IsOpenBuffer

\* Closing gives the unit of a buffer back, with the file's text, its old text
\* or none.
LEMMA CloseReleases ==
  ASSUME NEW index \in [Uris -> Unit], NEW u \in Uris, NEW content \in FileContent
  PROVE  \/ NoteClosed(index, u, content) = index /\ ~index[u].open
         \/ \E t \in MaybeText :
              NoteClosed(index, u, content) = [index EXCEPT ![u] = [text |-> t, open |-> FALSE]]
<1>. DEFINE given == [index EXCEPT ![u].open = FALSE]
<1>1. CASE ~index[u].open
  BY <1>1 DEF NoteClosed, IsOpenBuffer
<1>2. CASE index[u].open
  <2>1. index[u] \in [text : MaybeText, open : BOOLEAN]
    BY DEF Unit
  <2>2. /\ [index[u] EXCEPT !.open = FALSE] = [text |-> index[u].text, open |-> FALSE]
        /\ index[u].text \in MaybeText
    <3>1. \A f : [index[u] EXCEPT !.open = f] = [text |-> index[u].text, open |-> f]
      BY <2>1
    <3>. QED
      BY <2>1, <3>1
  <2>3. given = [index EXCEPT ![u] = [text |-> index[u].text, open |-> FALSE]]
    BY <2>2
  <2>4. ~given[u].open /\ \A e : [given EXCEPT ![u] = e] = [index EXCEPT ![u] = e]
    BY <2>3
  <2>5. NoteClosed(index, u, content) = ReloadFromDisk(given, u, content)
    BY <1>2 DEF NoteClosed, IsOpenBuffer
  <2>. HIDE DEF given
  <2>6. CASE u \notin FileUris \/ content = None
    <3>1. NoteClosed(index, u, content) = [index EXCEPT ![u] = NoUnit]
      BY <2>4, <2>5, <2>6 DEF ReloadFromDisk, RemoveUnit, IsOpenBuffer
    <3>. QED
      BY <3>1 DEF NoUnit, MaybeText
  <2>7. CASE u \in FileUris /\ content = Unreadable
    <3>1. NoteClosed(index, u, content) = given
      BY <2>4, <2>5, <2>7, IndexAssumption DEF ReloadFromDisk, IsOpenBuffer
    <3>. QED
      BY <2>2, <2>3, <3>1
  <2>8. CASE u \in FileUris /\ content \notin {None, Unreadable}
    <3>1. NoteClosed(index, u, content) =
            [index EXCEPT ![u] = [text |-> content, open |-> FALSE]]
      BY <2>4, <2>5, <2>8 DEF ReloadFromDisk, InsertUnit, IsOpenBuffer
    <3>. QED
      BY <2>8, <3>1 DEF FileContent
  <2>. QED
    BY <2>6, <2>7, <2>8
<1>. QED
  BY <1>1, <1>2

\* A commit of a text that is current claims the unit of its buffer.
LEMMA CommitClaims ==
  ASSUME NEW index \in [Uris -> Unit], NEW docs, NEW task,
         CurrentText(task, docs, client_version), HasText(task),
         IsCurrentVersion(docs, task.uri, task.version)
  PROVE  /\ task.text = docs[task.uri].text
         /\ CommitOpenAnalysis(index, docs, task.uri, task.version, task.text) =
              IF task.uri \in FileUris
              THEN [index EXCEPT ![task.uri] = [text |-> docs[task.uri].text, open |-> TRUE]]
              ELSE index
BY DEF CurrentText, CommitOpenAnalysis, InsertUnit

\* The steps of the buffers, in the terms of BufferOwnership.
LEMMA BufferSteps ==
  ASSUME documents \in [Uris -> Document], NEW u \in Uris
  PROVE  /\ \A t \in Texts : \A v :
              /\ documents' = [documents EXCEPT ![u] =
                                 [text |-> t, version |-> v, cached |-> None]]
              /\ units' = units
              => Ownership!Edit(u, t)
         /\ documents' = [documents EXCEPT ![u] = NoDocument] /\ units' = units
              => Ownership!Close(u)
         /\ \A t :
              /\ IsOpen(documents, u)
              /\ t = documents[u].text
              /\ documents' = [documents EXCEPT ![u].cached = t]
              /\ units' = IF u \in FileUris
                          THEN [units EXCEPT ![u] = [text |-> t, open |-> TRUE]] ELSE units
              => Ownership!Analyze(u)
         /\ /\ IsOpen(documents, u) /\ u \in FileUris
            /\ documents' = documents
            /\ units' = [units EXCEPT ![u] = [text |-> documents[u].text, open |-> TRUE]]
            => Ownership!Save(u)
         /\ \A t \in MaybeText :
              /\ ~IsOpen(documents, u) /\ documents' = documents
              /\ units' = [units EXCEPT ![u] = [text |-> t, open |-> FALSE]]
              => Ownership!Release(u)
<1>1. ASSUME NEW t \in Texts, NEW v, units' = units,
             documents' = [documents EXCEPT ![u] =
                             [text |-> t, version |-> v, cached |-> None]]
      PROVE  Ownership!Edit(u, t)
  BY <1>1 DEF Ownership!Edit
<1>2. ASSUME documents' = [documents EXCEPT ![u] = NoDocument], units' = units
      PROVE  Ownership!Close(u)
  BY <1>2 DEF Ownership!Close, NoDocument
<1>3. ASSUME NEW t, IsOpen(documents, u), t = documents[u].text,
             documents' = [documents EXCEPT ![u].cached = t],
             units' = IF u \in FileUris
                      THEN [units EXCEPT ![u] = [text |-> t, open |-> TRUE]] ELSE units
      PROVE  Ownership!Analyze(u)
  <2>1. \A v \in Uris : /\ documents'[v].text = documents[v].text
                        /\ documents'[v].cached = IF v = u THEN t ELSE documents[v].cached
    BY <1>3 DEF Document
  <2>. QED
    BY <1>3, <2>1 DEF Ownership!Analyze, Ownership!Claim, IsOpen
<1>4. ASSUME IsOpen(documents, u), u \in FileUris, documents' = documents,
             units' = [units EXCEPT ![u] = [text |-> documents[u].text, open |-> TRUE]]
      PROVE  Ownership!Save(u)
  BY <1>4 DEF Ownership!Save, Ownership!Claim, IsOpen
<1>5. ASSUME NEW t \in MaybeText, ~IsOpen(documents, u), documents' = documents,
             units' = [units EXCEPT ![u] = [text |-> t, open |-> FALSE]]
      PROVE  Ownership!Release(u)
  BY <1>5 DEF Ownership!Release, IsOpen, MaybeText
<1>. QED
  BY <1>1, <1>2, <1>3, <1>4, <1>5
\* Syncing with the disk is a step of BufferOwnership.
LEMMA SyncStep ==
  ASSUME units' \in [Uris -> Unit], SyncsDisk(units, units'), documents' = documents
  PROVE  Ownership!SyncDisk
BY DEF Ownership!SyncDisk, Ownership!IndexEntry, Unit, MaybeText, SyncsDisk

\* Every step of the server is a step of BufferOwnership or changes nothing it knows.
LEMMA OwnershipStep ==
  ASSUME DocumentInv, ~VersionsRestart, [Next]_vars
  PROVE  \/ Ownership!SyncDisk
         \/ \E u \in Uris :
              \/ Ownership!Close(u) \/ Ownership!Save(u) \/ Ownership!Analyze(u)
              \/ Ownership!Release(u)
              \/ \E t \in Texts : Ownership!Edit(u, t)
         \/ documents' = documents /\ units' = units
<1>. DEFINE O == \/ Ownership!SyncDisk
                 \/ \E u \in Uris :
                      \/ Ownership!Close(u) \/ Ownership!Save(u) \/ Ownership!Analyze(u)
                      \/ Ownership!Release(u)
                      \/ \E t \in Texts : Ownership!Edit(u, t)
                 \/ documents' = documents /\ units' = units
<1>0. /\ documents \in [Uris -> Document] /\ units \in [Uris -> Unit]
      /\ units' \in [Uris -> Unit] /\ disk \in [Uris -> FileContent]
      /\ HandlerWellFormed /\ HandlerKnowsItsBuffer
  <2>1. TypeOK'
    BY TypingNext DEF DocumentInv, Typing
  <2>. QED
    BY <2>1, DocumentFacts DEF DocumentInv, TypeOK
<1>1. ASSUME documents' = documents, units' = units PROVE O
  BY <1>1
<1>2. ASSUME documents' = documents, SyncsDisk(units, units') PROVE O
  BY <1>0, <1>2, SyncStep
<1>3. ASSUME NEW u \in Uris, NEW t \in Texts, DidOpen(u, t) \/ DidChange(u, t) PROVE O
  <2>1. units' = units
    BY <1>3 DEF DidOpen, DidChange
  <2>2. \E v : documents' = [documents EXCEPT ![u] =
                               [text |-> t, version |-> v, cached |-> None]]
    BY <1>3 DEF DidOpen, DidChange, OpenDocument, ApplyChanges
  <2>3. Ownership!Edit(u, t)
    BY <1>0, <2>1, <2>2, BufferSteps
  <2>. QED
    BY <2>3
<1>4. ASSUME NEW u \in Uris, DidClose(u) PROVE O
  <2>1. Ownership!Close(u)
    BY <1>0, <1>4, BufferSteps DEF DidClose, CloseDocument
  <2>. QED
    BY <2>1
<1>5. ASSUME NEW u \in Uris, DidSaveNoText(u) PROVE O
  BY <1>0, <1>2, <1>5, DiskOps DEF DidSaveNoText, docVars
<1>6. ASSUME DidChangeWatchedFile PROVE O
  <2>1. Head(events).uri \in Uris
    <3>. DEFINE Event == [uri : Uris, kind : {"changed", "deleted"}]
    <3>1. events \in Seq(Event) /\ events # <<>>
      BY <1>6, DocumentFacts DEF TypeOK, DidChangeWatchedFile
    <3>. HIDE DEF Event
    <3>2. Head(events) \in Event
      BY <3>1
    <3>. QED
      BY <3>2 DEF Event
  <2>. QED
    BY <1>0, <1>2, <1>6, <2>1, DiskOps DEF DidChangeWatchedFile, docVars
<1>7. ASSUME ScanReplace PROVE O
  <2>1. None \in FileContent /\ (Uris = {} \/ \E u : u \in Uris)
    BY DEF FileContent, MaybeText
  <2>2. SyncsDisk(units, units')
    BY <1>0, <1>7, <2>1, DiskOps DEF ScanReplace, SyncsDisk
  <2>. QED
    BY <1>2, <1>7, <2>2 DEF ScanReplace, docVars
<1>8. ASSUME DidCloseNoteClosed PROVE O
  <2>. DEFINE u == handler.uri
              content == disk[u]
  <2>1. u \in Uris /\ ~IsOpen(documents, u) /\ documents' = documents
    BY <1>0, <1>8
    DEF DidCloseNoteClosed, HandlerWellFormed, HandlerIdle, HandlerKnowsItsBuffer, docVars
  <2>2. content \in FileContent /\ units' = NoteClosed(units, u, content)
    BY <1>0, <1>8, <2>1 DEF DidCloseNoteClosed
  <2>. HIDE DEF u, content
  <2>3. CASE units' = units
    BY <1>1, <2>1, <2>3
  <2>4. CASE units' # units
    <3>1. PICK t \in MaybeText :
            NoteClosed(units, u, content) = [units EXCEPT ![u] = [text |-> t, open |-> FALSE]]
      BY <1>0, <2>1, <2>2, <2>4, CloseReleases
    <3>2. Ownership!Release(u)
      BY <1>0, <2>1, <2>2, <3>1, BufferSteps
    <3>. QED
      BY <2>1, <3>2
  <2>. QED
    BY <2>3, <2>4
<1>9. ASSUME NEW g \in Generations, CommitAnalysis(g) PROVE O
  <2>. DEFINE task == analyses[g]
  <2>1. HasText(task) /\ CurrentText(task, documents, client_version) /\ task.uri \in Uris
    BY <1>9, DocumentFacts
    DEF CommitAnalysis, HasText, DocumentInv, TasksHoldCurrentTexts, TaskWellFormed, Active
  <2>2. CASE ~IsCurrentVersion(documents, task.uri, task.version)
    BY <1>1, <1>9, <2>2 DEF CommitAnalysis, StoreCachedAnalysisIfCurrent
  <2>3. CASE IsCurrentVersion(documents, task.uri, task.version)
    <3>1. /\ IsOpen(documents, task.uri)
          /\ task.text = documents[task.uri].text
          /\ CommitOpenAnalysis(units, documents, task.uri, task.version, task.text) =
               IF task.uri \in FileUris
               THEN [units EXCEPT ![task.uri] =
                       [text |-> documents[task.uri].text, open |-> TRUE]]
               ELSE units
      BY <1>0, <2>1, <2>3, CommitClaims DEF IsCurrentVersion
    <3>2. /\ documents' = [documents EXCEPT ![task.uri].cached = task.text]
          /\ units' = CommitOpenAnalysis(units, documents, task.uri, task.version, task.text)
      BY <1>9, <2>3 DEF CommitAnalysis, StoreCachedAnalysisIfCurrent
    <3>3. PICK u \in Uris : u = task.uri
      BY <2>1
    <3>4. PICK t : t = task.text
      OBVIOUS
    <3>5. /\ IsOpen(documents, u) /\ t = documents[u].text
          /\ documents' = [documents EXCEPT ![u].cached = t]
          /\ units' = IF u \in FileUris
                      THEN [units EXCEPT ![u] = [text |-> t, open |-> TRUE]] ELSE units
      BY <3>1, <3>2, <3>3, <3>4
    <3>6. Ownership!Analyze(u)
      BY <1>0, <3>5, BufferSteps
    <3>. QED
      BY <3>6
  <2>. QED
    BY <2>2, <2>3
<1>10. ASSUME NEW g \in SaveGenerations, CommitSave(g) PROVE O
  <2>. DEFINE task == saves[g]
  <2>1. HasText(task) /\ CurrentText(task, documents, client_version) /\ task.uri \in Uris
    BY <1>10, DocumentFacts
    DEF CommitSave, HasText, DocumentInv, TasksHoldCurrentTexts, TaskWellFormed, Active
  <2>2. documents' = documents
    BY <1>10 DEF CommitSave, docVars
  <2>3. units' = CommitOpenAnalysis(units, documents, task.uri, task.version, task.text)
    BY <1>10 DEF CommitSave
  <2>4. CASE units' = units
    BY <1>1, <2>2, <2>4
  <2>5. CASE units' # units
    <3>1. IsCurrentVersion(documents, task.uri, task.version)
      BY <2>3, <2>5 DEF CommitOpenAnalysis
    <3>2. /\ IsOpen(documents, task.uri)
          /\ CommitOpenAnalysis(units, documents, task.uri, task.version, task.text) =
               IF task.uri \in FileUris
               THEN [units EXCEPT ![task.uri] =
                       [text |-> documents[task.uri].text, open |-> TRUE]]
               ELSE units
      BY <1>0, <2>1, <3>1, CommitClaims DEF IsCurrentVersion
    <3>. DEFINE u == task.uri
    <3>3. /\ u \in Uris /\ u \in FileUris /\ IsOpen(documents, u)
          /\ units' = [units EXCEPT ![u] = [text |-> documents[u].text, open |-> TRUE]]
      BY <2>1, <2>3, <2>5, <3>2
    <3>. HIDE DEF u
    <3>4. Ownership!Save(u)
      BY <1>0, <2>2, <3>3, BufferSteps
    <3>. QED
      BY <3>3, <3>4
  <2>. QED
    BY <2>4, <2>5
<1>. HIDE DEF O
<1>11. ASSUME ClientStep PROVE O
  <2>1. ASSUME \/ \E u \in Uris, t \in Texts : DidSave(u, t)
               \/ \E u \in Uris : DidChangeRejected(u)
               \/ Shutdown
        PROVE  O
    BY <1>1, <2>1 DEF DidSave, DidChangeRejected, Shutdown, docVars
  <2>. QED
    BY <1>3, <1>4, <1>5, <1>11, <2>1 DEF ClientStep
<1>12. ASSUME HandlerStep PROVE O
  <2>1. ASSUME \/ DidOpenRequest \/ CancelAnalysis \/ CancelSaveIndex \/ DidClosePublish
               \/ InsertSaveTask
        PROVE  O
    BY <1>1, <2>1 DEF DidOpenRequest, CancelAnalysis, CancelSaveIndex, DidClosePublish,
                      InsertSaveTask, docVars
  <2>. QED
    BY <1>8, <1>12, <2>1 DEF HandlerStep
<1>13. ASSUME NEW g \in Generations, AnalysisStep(g) PROVE O
  <2>1. ASSUME Wake(g) \/ Snapshot(g) \/ AnalyzeText(g) \/ PublishAnalysis(g)
               \/ CleanUpAnalysis(g)
        PROVE  O
    BY <1>1, <2>1 DEF Wake, Snapshot, AnalyzeText, PublishAnalysis, CleanUpAnalysis, docVars
  <2>. QED
    BY <1>9, <1>13, <2>1 DEF AnalysisStep
<1>14. ASSUME NEW g \in SaveGenerations, SaveStep(g) PROVE O
  <2>1. ASSUME AnalyzeSavedText(g) \/ CleanUpSave(g) PROVE O
    BY <1>1, <2>1 DEF AnalyzeSavedText, CleanUpSave, docVars
  <2>. QED
    BY <1>10, <1>14, <2>1 DEF SaveStep
<1>15. ASSUME RegisterWatcher \/ FileStep \/ (\E u \in Uris : ScanFile(u)) \/ UNCHANGED vars
       PROVE  O
  BY <1>1, <1>15 DEF RegisterWatcher, FileStep, WriteFile, ScanFile, vars, docVars
<1>16. O
  BY <1>6, <1>7, <1>11, <1>12, <1>13, <1>14, <1>15 DEF Next, ScanStep
<1>. QED
  BY <1>16 DEF O
\* Intelligence and index agree with the buffer after any step of BufferOwnership.
LEMMA AgreementStep ==
  ASSUME DocumentInv, ~VersionsRestart, [Next]_vars
  PROVE  CacheMatchesBuffer' /\ IndexAgreesWithCache'
<1>. DEFINE A(v) == /\ documents'[v].cached \in {None, documents'[v].text}
                    /\ v \in FileUris /\ documents'[v].cached # None =>
                         units'[v] = [text |-> documents'[v].cached, open |-> TRUE]
<1>0. \A v \in Uris :
        /\ documents[v].cached \in {None, documents[v].text}
        /\ v \in FileUris /\ documents[v].cached # None =>
             units[v] = [text |-> documents[v].cached, open |-> TRUE]
  BY DEF DocumentInv, CacheMatchesBuffer, IndexAgreesWithCache
<1>1. units \in [Uris -> Unit]
  BY DocumentFacts
<1>2. ASSUME NEW u \in Uris, Ownership!Close(u) \/ \E t \in Texts : Ownership!Edit(u, t),
             NEW v \in Uris
      PROVE  A(v)
  <2>1. /\ documents'[v].cached = IF v = u THEN None ELSE documents[v].cached
        /\ v # u => documents'[v].text = documents[v].text
        /\ units' = units
    BY <1>2 DEF Ownership!Close, Ownership!Edit
  <2>. QED
    BY <1>0, <2>1
<1>3. ASSUME NEW u \in Uris, Ownership!Save(u), NEW v \in Uris PROVE A(v)
  <2>1. /\ documents'[v].cached = documents[v].cached
        /\ documents'[v].text = documents[v].text
        /\ units'[v] = IF v = u THEN [text |-> documents[u].text, open |-> TRUE] ELSE units[v]
    BY <1>1, <1>3 DEF Ownership!Save, Ownership!Claim
  <2>. QED
    BY <1>0, <2>1
<1>4. ASSUME NEW u \in Uris, Ownership!Analyze(u), NEW v \in Uris PROVE A(v)
  <2>1. /\ documents'[v].cached = IF v = u THEN documents[u].text ELSE documents[v].cached
        /\ documents'[v].text = documents[v].text
        /\ v \in FileUris =>
             units'[v] = IF v = u THEN [text |-> documents[u].text, open |-> TRUE] ELSE units[v]
    BY <1>1, <1>4 DEF Ownership!Analyze, Ownership!Claim
  <2>. QED
    BY <1>0, <2>1
<1>5. ASSUME NEW u \in Uris, Ownership!Release(u), NEW v \in Uris PROVE A(v)
  <2>1. /\ documents'[v].cached = documents[v].cached
        /\ documents'[v].text = documents[v].text
        /\ v # u => units'[v] = units[v]
        /\ documents[u].text = None
    BY <1>1, <1>5 DEF Ownership!Release
  <2>. QED
    BY <1>0, <2>1
<1>6. ASSUME Ownership!SyncDisk, NEW v \in Uris PROVE A(v)
  <2>1. /\ documents'[v].cached = documents[v].cached
        /\ documents'[v].text = documents[v].text
        /\ units[v].open => units'[v] = units[v]
    BY <1>6 DEF Ownership!SyncDisk
  <2>. QED
    BY <1>0, <2>1
<1>7. ASSUME documents' = documents, units' = units, NEW v \in Uris PROVE A(v)
  BY <1>0, <1>7
<1>. HIDE DEF A
<1>8. \A v \in Uris : A(v)
  BY <1>2, <1>3, <1>4, <1>5, <1>6, <1>7, OwnershipStep
<1>9. \A v \in FileUris : v \in Uris
  BY IndexAssumption
<1>. QED
  BY <1>8, <1>9 DEF A, CacheMatchesBuffer, IndexAgreesWithCache

\* A unit becomes an open buffer's only while that buffer is open.
LEMMA OwnedUnits ==
  ASSUME DocumentInv, ~VersionsRestart, [Next]_vars, NEW v \in Uris,
         units'[v].open
  PROVE  units[v].open \/ IsOpen(documents', v)
<1>. DEFINE A == units[v].open \/ documents'[v].text # None
<1>1. units \in [Uris -> Unit]
  BY DocumentFacts
<1>2. ASSUME NEW u \in Uris, Ownership!Close(u) \/ \E t \in Texts : Ownership!Edit(u, t)
      PROVE  A
  BY <1>2 DEF Ownership!Close, Ownership!Edit
<1>3. ASSUME NEW u \in Uris, Ownership!Save(u) PROVE A
  <2>1. /\ documents'[v].text = documents[v].text /\ documents[u].text # None
        /\ v # u => units'[v] = units[v]
    BY <1>1, <1>3 DEF Ownership!Save, Ownership!Claim
  <2>. QED
    BY <2>1
<1>4. ASSUME NEW u \in Uris, Ownership!Analyze(u) PROVE A
  <2>1. /\ documents'[v].text = documents[v].text /\ documents[u].text # None
        /\ v # u => units'[v] = units[v]
    BY <1>1, <1>4 DEF Ownership!Analyze, Ownership!Claim
  <2>. QED
    BY <2>1
<1>5. ASSUME NEW u \in Uris, Ownership!Release(u) PROVE A
  BY <1>1, <1>5 DEF Ownership!Release
<1>6. ASSUME Ownership!SyncDisk PROVE A
  BY <1>6 DEF Ownership!SyncDisk
<1>7. ASSUME units' = units PROVE A
  BY <1>7
<1>. HIDE DEF A
<1>8. A
  BY <1>2, <1>3, <1>4, <1>5, <1>6, <1>7, OwnershipStep
<1>. QED
  BY <1>8 DEF A, IsOpen
\* did_close is the only handler that closes a document, note_closed ends the
\* time in which a closed document may own its unit.
LEMMA HandlerSteps ==
  ASSUME Typing, HandlerKnowsItsBuffer, [Next]_vars
  PROVE  /\ HandlerKnowsItsBuffer'
         /\ \A u \in Uris :
              /\ IsOpen(documents, u) => IsOpen(documents', u) \/ Closing(u)'
              /\ Closing(u) => Closing(u)' \/ (DidCloseNoteClosed /\ handler.uri = u)
<1>. DEFINE Goal == /\ HandlerKnowsItsBuffer'
                    /\ \A u \in Uris :
                         /\ IsOpen(documents, u) => IsOpen(documents', u) \/ Closing(u)'
                         /\ Closing(u) =>
                              Closing(u)' \/ (DidCloseNoteClosed /\ handler.uri = u)
<1>0. /\ documents \in [Uris -> Document] /\ HandlerWellFormed /\ HandlerKnowsItsBuffer
      /\ handler \in [at : Sections, uri : Uris \cup {None},
                      generation : SaveGenerations \cup {NoTask}]
  BY TypingFacts DEF TypeOK
<1>1. ASSUME UNCHANGED <<handler, down>>, \A u \in Uris : IsOpen(documents', u) <=> IsOpen(documents, u)
      PROVE  Goal
  BY <1>0, <1>1 DEF HandlerKnowsItsBuffer, HandlerWellFormed, HandlerIdle, Closing
<1>2. ASSUME UNCHANGED <<handler, down, documents>> PROVE Goal
  BY <1>1, <1>2
<1>3. ASSUME NEW u \in Uris, NEW t \in Texts, DidOpen(u, t) PROVE Goal
  <2>1. /\ handler' = [at |-> "opened", uri |-> u, generation |-> NoTask]
        /\ ~down' /\ handler.at = "idle"
    BY <1>3 DEF DidOpen, Accepting, HandlerIdle
  <2>2. \A v \in Uris : documents'[v].text = IF v = u THEN t ELSE documents[v].text
    BY <1>0, <1>3 DEF DidOpen, OpenDocument
  <2>. QED
    BY <2>1, <2>2, NoneAssumption DEF HandlerKnowsItsBuffer, IsOpen, Closing
<1>4. ASSUME NEW u \in Uris, NEW t \in Texts, DidChange(u, t) PROVE Goal
  <2>1. \A v \in Uris : documents'[v].text = IF v = u THEN t ELSE documents[v].text
    BY <1>0, <1>4 DEF DidChange, ApplyChanges
  <2>2. UNCHANGED <<handler, down>> /\ IsOpen(documents, u)
    BY <1>4 DEF DidChange
  <2>. HIDE DEF Goal
  <2>. QED
    BY <1>1, <2>1, <2>2, NoneAssumption DEF IsOpen
<1>5. ASSUME NEW u \in Uris, DidClose(u) PROVE Goal
  <2>1. /\ handler' = [at |-> "closed", uri |-> u, generation |-> NoTask]
        /\ ~down' /\ handler.at = "idle"
    BY <1>5 DEF DidClose, Accepting, HandlerIdle
  <2>2. \A v \in Uris : documents'[v].text = IF v = u THEN None ELSE documents[v].text
    BY <1>0, <1>5 DEF DidClose, CloseDocument, NoDocument
  <2>. QED
    BY <2>1, <2>2 DEF HandlerKnowsItsBuffer, IsOpen, Closing
<1>6. ASSUME NEW u \in Uris, NEW t \in Texts, DidSave(u, t) PROVE Goal
  <2>1. /\ handler' = [at |-> "spawned", uri |-> u, generation |-> save_generation]
        /\ ~down' /\ handler.at = "idle" /\ documents' = documents /\ documents[u].text = t
    BY <1>6 DEF DidSave, Accepting, HandlerIdle, docVars
  <2>. QED
    BY <2>1, NoneAssumption DEF HandlerKnowsItsBuffer, IsOpen, Closing
<1>7. ASSUME Shutdown PROVE Goal
  <2>1. handler' = handler /\ handler.at = "idle" /\ documents' = documents
    BY <1>7 DEF Shutdown, Accepting, HandlerIdle, docVars
  <2>. QED
    BY <2>1 DEF HandlerKnowsItsBuffer, HandlerIdle, IsOpen, Closing
<1>8. ASSUME HandlerStep PROVE Goal
  <2>1. documents' = documents /\ down' = down /\ handler.uri \in Uris /\ ~down
    BY <1>0, <1>8 DEF HandlerStep, DidOpenRequest, CancelAnalysis, CancelSaveIndex,
      DidCloseNoteClosed, DidClosePublish, InsertSaveTask, docVars, HandlerWellFormed,
      HandlerKnowsItsBuffer, HandlerIdle
  <2>2. ASSUME DidOpenRequest \/ DidClosePublish \/ InsertSaveTask PROVE Goal
    BY <2>1, <2>2 DEF DidOpenRequest, DidClosePublish, InsertSaveTask, Idle,
                      HandlerKnowsItsBuffer, HandlerIdle, IsOpen, Closing
  <2>3. ASSUME CancelAnalysis \/ CancelSaveIndex \/ DidCloseNoteClosed PROVE Goal
    <3>1. PICK at \in {"cancelled", "unsaved", "released"} :
            /\ handler' = [handler EXCEPT !.at = at]
            /\ handler.at \in {"closed", "cancelled", "unsaved"}
            /\ at = "released" => DidCloseNoteClosed
      BY <2>3 DEF CancelAnalysis, CancelSaveIndex, DidCloseNoteClosed
    <3>2. handler'.at = at /\ handler'.uri = handler.uri
      BY <1>0, <3>1
    <3>. QED
      BY <1>0, <2>1, <3>1, <3>2 DEF HandlerKnowsItsBuffer, HandlerIdle, IsOpen, Closing
  <2>. HIDE DEF Goal
  <2>. QED
    BY <1>8, <2>2, <2>3 DEF HandlerStep
<1>9. ASSUME NEW g \in Generations, CommitAnalysis(g) PROVE Goal
  <2>1. \A u \in Uris : documents'[u].text = documents[u].text
    BY <1>0, <1>9 DEF CommitAnalysis, StoreCachedAnalysisIfCurrent, Document
  <2>. HIDE DEF Goal
  <2>. QED
    BY <1>1, <1>9, <2>1 DEF CommitAnalysis, IsOpen
<1>. HIDE DEF Goal
<1>10. ASSUME ClientStep PROVE Goal
  <2>1. ASSUME NEW u \in Uris, DidChangeRejected(u) \/ DidSaveNoText(u) PROVE Goal
    BY <1>2, <2>1 DEF DidChangeRejected, DidSaveNoText, docVars
  <2>. QED
    BY <1>3, <1>4, <1>5, <1>6, <1>7, <1>10, <2>1 DEF ClientStep
<1>11. ASSUME NEW g \in Generations, AnalysisStep(g) PROVE Goal
  <2>1. ASSUME Wake(g) \/ Snapshot(g) \/ AnalyzeText(g) \/ PublishAnalysis(g)
               \/ CleanUpAnalysis(g)
        PROVE  Goal
    BY <1>2, <2>1 DEF Wake, Snapshot, AnalyzeText, PublishAnalysis, CleanUpAnalysis, docVars
  <2>. QED
    BY <1>9, <1>11, <2>1 DEF AnalysisStep
<1>12. ASSUME \/ DidChangeWatchedFile \/ \E g \in SaveGenerations : SaveStep(g)
              \/ ScanStep \/ RegisterWatcher \/ FileStep \/ UNCHANGED vars
       PROVE  Goal
  <2>1. UNCHANGED <<handler, down, documents>>
    BY <1>12 DEF DidChangeWatchedFile, SaveStep, AnalyzeSavedText, CommitSave, CleanUpSave,
                 ScanStep, ScanFile, ScanReplace, RegisterWatcher, FileStep, WriteFile,
                 vars, docVars
  <2>. QED
    BY <1>2, <2>1
<1>13. Goal
  BY <1>8, <1>10, <1>11, <1>12 DEF Next
<1>. QED
  BY <1>13 DEF Goal

\* The units of open buffers have open buffers.
LEMMA OpenUnitsStep ==
  ASSUME DocumentInv, ~VersionsRestart, [Next]_vars
  PROVE  OpenUnitHasBuffer'
<1>. SUFFICES ASSUME NEW u \in Uris, units'[u].open
              PROVE  IsOpen(documents', u) \/ Closing(u)'
  BY DEF OpenUnitHasBuffer
<1>1. CASE ~units[u].open
  BY <1>1, OwnedUnits
<1>2. CASE units[u].open
  <2>1. IsOpen(documents, u) \/ Closing(u)
    BY <1>2 DEF DocumentInv, OpenUnitHasBuffer
  <2>2. ~(DidCloseNoteClosed /\ handler.uri = u)
    <3>1. SUFFICES ASSUME DidCloseNoteClosed, handler.uri = u PROVE FALSE
      OBVIOUS
    <3>2. units' = NoteClosed(units, u, disk[u]) /\ disk[u] \in FileContent
          /\ units \in [Uris -> Unit]
      BY <3>1, DocumentFacts DEF DidCloseNoteClosed, TypeOK
    <3>3. ~NoteClosed(units, u, disk[u])[u].open
      BY <3>2, CloseReleases
    <3>. QED
      BY <3>2, <3>3
  <2>. QED
    BY <2>1, <2>2, HandlerSteps DEF DocumentInv
<1>. QED
  BY <1>1, <1>2
(***************************************************************************)
(* Diagnostics.                                                            *)
(***************************************************************************)

\* Diagnostics change when a document has been closed and when a task
\* publishes the text it holds.
LEMMA DiagnosticsSteps ==
  ASSUME DocumentInv, [Next]_vars, NEW u \in Uris
  PROVE  \/ diagnostics'[u] = diagnostics[u]
         \/ diagnostics'[u] = NoDiagnostics
         \/ /\ UNCHANGED docVars
            /\ \E g \in Generations :
                 /\ HasText(analyses[g]) /\ analyses[g].uri = u
                 /\ diagnostics'[u] = [text |-> analyses[g].text,
                                       version |-> analyses[g].version]
<1>. DEFINE P == \/ diagnostics'[u] = diagnostics[u]
                 \/ diagnostics'[u] = NoDiagnostics
                 \/ /\ UNCHANGED docVars
                    /\ \E g \in Generations :
                         /\ HasText(analyses[g]) /\ analyses[g].uri = u
                         /\ diagnostics'[u] = [text |-> analyses[g].text,
                                               version |-> analyses[g].version]
<1>0. diagnostics \in [Uris -> Diagnostics]
  BY DocumentFacts
<1>1. ASSUME diagnostics' = diagnostics PROVE P
  BY <1>1
<1>2. ASSUME DidClosePublish PROVE P
  BY <1>0, <1>2 DEF DidClosePublish
<1>3. ASSUME NEW g \in Generations, PublishAnalysis(g) PROVE P
  <2>1. HasText(analyses[g]) /\ UNCHANGED docVars
    BY <1>3 DEF PublishAnalysis, HasText
  <2>2. diagnostics' = [diagnostics EXCEPT ![analyses[g].uri] =
                          [text |-> analyses[g].text, version |-> analyses[g].version]]
    BY <1>3 DEF PublishAnalysis
  <2>3. \/ diagnostics'[u] = diagnostics[u]
        \/ /\ analyses[g].uri = u
           /\ diagnostics'[u] = [text |-> analyses[g].text, version |-> analyses[g].version]
    BY <1>0, <2>2
  <2>. QED
    BY <2>1, <2>3
<1>. HIDE DEF P
<1>4. ASSUME ClientStep \/ DidChangeWatchedFile PROVE diagnostics' = diagnostics
  BY <1>4 DEF ClientStep, DidOpen, DidChange, DidSave, DidChangeRejected, DidClose,
              DidSaveNoText, Shutdown, DidChangeWatchedFile
<1>5. ASSUME HandlerStep PROVE diagnostics' = diagnostics \/ DidClosePublish
  BY <1>5 DEF HandlerStep, DidOpenRequest, CancelAnalysis, CancelSaveIndex,
              DidCloseNoteClosed, InsertSaveTask
<1>6. ASSUME NEW g \in Generations, AnalysisStep(g)
      PROVE  diagnostics' = diagnostics \/ PublishAnalysis(g)
  BY <1>6 DEF AnalysisStep, Wake, Snapshot, AnalyzeText, CommitAnalysis, CleanUpAnalysis
<1>7. ASSUME \/ \E g \in SaveGenerations : SaveStep(g)
             \/ ScanStep \/ RegisterWatcher \/ FileStep \/ UNCHANGED vars
      PROVE  diagnostics' = diagnostics
  BY <1>7 DEF SaveStep, AnalyzeSavedText, CommitSave, CleanUpSave, ScanStep, ScanFile,
              ScanReplace, RegisterWatcher, FileStep, WriteFile, vars
<1>8. ASSUME \E g \in Generations : AnalysisStep(g) PROVE P
  <2>1. PICK g \in Generations : AnalysisStep(g)
    BY <1>8
  <2>. QED
    BY <1>1, <1>3, <1>6, <2>1
<1>9. P
  BY <1>1, <1>2, <1>4, <1>5, <1>7, <1>8 DEF Next
<1>. QED
  BY <1>9 DEF P

\* The diagnostics of a URI are about a version that was given, and about its
\* text when the buffer has that version.
LEMMA DiagnosticsStep ==
  ASSUME DocumentInv, ~VersionsRestart, [Next]_vars
  PROVE  VersionsWereGiven' /\ DiagnosticsMatchVersion'
<1>. SUFFICES ASSUME NEW u \in Uris
     PROVE  /\ IsOpen(documents', u) => documents'[u].version <= client_version'[u]
            /\ diagnostics'[u].text # None => diagnostics'[u].version <= client_version'[u]
            /\ (/\ IsOpen(documents', u)
                /\ diagnostics'[u].text # None
                /\ diagnostics'[u].version = documents'[u].version)
               => diagnostics'[u].text = documents'[u].text
  BY DEF VersionsWereGiven, DiagnosticsMatchVersion
<1>0. /\ client_version[u] \in Int /\ client_version'[u] \in Int
      /\ documents[u] \in Document /\ documents[u].version \in Int
      /\ diagnostics[u].version \in Int
  <2>1. TypeOK'
    BY TypingNext DEF DocumentInv, Typing
  <2>2. documents[u] \in Document /\ diagnostics[u] \in Diagnostics
    BY DocumentFacts
  <2>. QED
    BY <2>1, <2>2, DocumentFacts, ServerAssumption DEF TypeOK, Document, Diagnostics
<1>1. /\ IsOpen(documents, u) => documents[u].version <= client_version[u]
      /\ diagnostics[u].text # None => diagnostics[u].version <= client_version[u]
      /\ (/\ IsOpen(documents, u)
          /\ diagnostics[u].text # None
          /\ diagnostics[u].version = documents[u].version)
         => diagnostics[u].text = documents[u].text
  BY DEF DocumentInv, VersionsWereGiven, DiagnosticsMatchVersion
<1>2. /\ client_version'[u] >= client_version[u]
      /\ \/ ~IsOpen(documents', u)
         \/ /\ documents'[u].version = client_version'[u]
            /\ client_version'[u] > client_version[u]
         \/ /\ documents'[u].text = documents[u].text
            /\ documents'[u].version = documents[u].version
  <2>1. ASSUME NEW t, documents'[u] = [documents[u] EXCEPT !.cached = t]
        PROVE  documents'[u].text = documents[u].text
               /\ documents'[u].version = documents[u].version
    BY <1>0, <2>1 DEF Document
  <2>2. documents'[u] = NoDocument => ~IsOpen(documents', u)
    BY DEF NoDocument, IsOpen
  <2>. QED
    BY <2>1, <2>2, DocumentSteps
<1>3. IsOpen(documents', u) => documents'[u].version <= client_version'[u]
  BY <1>0, <1>1, <1>2 DEF IsOpen
<1>4. CASE diagnostics'[u] = diagnostics[u]
  BY <1>0, <1>1, <1>2, <1>3, <1>4 DEF IsOpen
<1>5. CASE diagnostics'[u] = NoDiagnostics
  BY <1>3, <1>5 DEF NoDiagnostics
<1>6. ASSUME NEW g \in Generations, UNCHANGED docVars, HasText(analyses[g]),
             analyses[g].uri = u,
             diagnostics'[u] = [text |-> analyses[g].text, version |-> analyses[g].version]
      PROVE  /\ diagnostics'[u].version <= client_version'[u]
             /\ IsOpen(documents', u) /\ diagnostics'[u].version = documents'[u].version
                  => diagnostics'[u].text = documents'[u].text
  BY <1>6 DEF DocumentInv, TasksHoldCurrentTexts, CurrentText, IsCurrentVersion, docVars
<1>. QED
  BY <1>3, <1>4, <1>5, <1>6, DiagnosticsSteps

(***************************************************************************)
(* The theorems.                                                           *)
(***************************************************************************)

\* The server starts with no buffer, no unit and no task.
LEMMA DocumentInit == Init => DocumentInv
<1>. SUFFICES ASSUME Init PROVE DocumentInv
  OBVIOUS
<1>1. \A u \in Uris : /\ documents[u] = NoDocument /\ units[u] = NoUnit
                      /\ diagnostics[u] = NoDiagnostics
  BY DEF Init
<1>2. CacheMatchesBuffer /\ IndexAgreesWithCache /\ OpenUnitHasBuffer
  BY <1>1, IndexAssumption
  DEF CacheMatchesBuffer, IndexAgreesWithCache, OpenUnitHasBuffer, NoDocument, NoUnit
<1>3. VersionsWereGiven /\ DiagnosticsMatchVersion
  BY <1>1 DEF VersionsWereGiven, DiagnosticsMatchVersion, NoDocument, NoDiagnostics, IsOpen
<1>4. HandlerKnowsItsBuffer
  BY DEF Init, Idle, HandlerKnowsItsBuffer, HandlerIdle
<1>5. TasksHoldCurrentTexts
  BY DEF Init, NotSpawned, Blank, TasksHoldCurrentTexts, CurrentText, HasText
<1>. QED
  BY <1>2, <1>3, <1>4, <1>5, TypingInit DEF DocumentInv

\* Every step of the server keeps its answers about the texts they are for.
LEMMA DocumentNext ==
  ASSUME ~VersionsRestart, DocumentInv, [Next]_vars
  PROVE  DocumentInv'
<1>1. Typing'
  BY TypingNext DEF DocumentInv
<1>2. HandlerKnowsItsBuffer'
  BY HandlerSteps DEF DocumentInv
<1>. QED
  BY <1>1, <1>2, TasksStayCurrent, DiagnosticsStep, AgreementStep, OpenUnitsStep
  DEF DocumentInv

\* If no version number is used twice, the cached analysis of a buffer is that
\* of its text, the index agrees with it, no unit is owned by a closed buffer,
\* and diagnostics of a buffer's version are those of its text.
THEOREM DocumentCorrect ==
  ASSUME ~VersionsRestart
  PROVE  Spec => []DocumentInv
<1>1. DocumentInv /\ [Next]_vars => DocumentInv'
  BY DocumentNext
<1>. QED
  BY <1>1, DocumentInit, PTL DEF Spec

\* An analysis computed without a lock is never kept for another text than the
\* buffer's (document.rs: store_cached_analysis_if_current).
THEOREM CacheCorrect ==
  ASSUME ~VersionsRestart
  PROVE  Spec => []CacheMatchesBuffer
<1>1. DocumentInv => CacheMatchesBuffer
  BY DEF DocumentInv
<1>. QED
  BY <1>1, DocumentCorrect, PTL

\* Once a file's buffer has an analysis, the index holds the same analysis as an
\* open buffer, whatever saves, scans and file events do.
THEOREM IndexCorrect ==
  ASSUME ~VersionsRestart
  PROVE  Spec => []IndexAgreesWithCache
<1>1. DocumentInv => IndexAgreesWithCache
  BY DEF DocumentInv
<1>. QED
  BY <1>1, DocumentCorrect, PTL

\* No unit is marked from_open_buffer once did_close has noted the close.
THEOREM UnitsCorrect ==
  ASSUME ~VersionsRestart
  PROVE  Spec => []OpenUnitHasBuffer
<1>1. DocumentInv => OpenUnitHasBuffer
  BY DEF DocumentInv
<1>. QED
  BY <1>1, DocumentCorrect, PTL

\* A client that compares versions never shows diagnostics on another text.
THEOREM DiagnosticsCorrect ==
  ASSUME ~VersionsRestart
  PROVE  Spec => []DiagnosticsMatchVersion
<1>1. DocumentInv => DiagnosticsMatchVersion
  BY DEF DocumentInv
<1>. QED
  BY <1>1, DocumentCorrect, PTL

\* The server implements BufferOwnership: with every interleaving of handlers,
\* tasks, scan and file events the index takes over exactly the current text of
\* an open buffer, and the disk never replaces it.
THEOREM OwnershipCorrect ==
  ASSUME ~VersionsRestart
  PROVE  Spec => KeepsOwnership
<1>1. Init => Ownership!Init
  BY DEF Init, Ownership!Init, NoDocument, NoUnit
<1>2. DocumentInv /\ [Next]_vars => [Ownership!Next]_(Ownership!vars)
  BY OwnershipStep DEF Ownership!Next, Ownership!vars
<1>. QED
  BY <1>1, <1>2, DocumentCorrect, PTL DEF Spec, KeepsOwnership, Ownership!Spec

(***************************************************************************)
(* What goes on beside the client's calls: save-index tasks, closing and   *)
(* shutdown (no task outlives what it works for), and the workspace index, *)
(* which follows the files.                                                *)
(***************************************************************************)

\* What the steps below use of the invariant.
LEMMA OrphanFacts ==
  ASSUME OrphanInv
  PROVE  /\ Typing /\ HandlerWellFormed /\ HandlerKnowsItsBuffer
         /\ saves \in [SaveGenerations -> Task]
         /\ save_tasks \in [Uris -> SaveGenerations \cup {NoTask}]
         /\ pending \in [Uris -> Generations \cup {NoTask}]
         /\ save_generation \in Int
         /\ NoTask \notin SaveGenerations
         /\ \A g \in SaveGenerations : g \in Int /\ TaskWellFormed(saves[g])
         /\ \A g \in SaveGenerations : g >= save_generation => saves[g].stage = "none"
         /\ \A u \in Uris : save_tasks[u] # NoTask =>
              save_tasks[u] < save_generation /\ saves[save_tasks[u]].uri \in {u, None}
         /\ handler.at = "spawned" =>
              /\ handler.generation < save_generation
              /\ saves[handler.generation].uri \in {handler.uri, None}
         /\ \A g \in SaveGenerations : Live(saves[g]) =>
              \/ save_tasks[saves[g].uri] = g
              \/ handler.at = "spawned" /\ handler.generation = g
<1>1. Typing /\ HandlerWellFormed /\ HandlerKnowsItsBuffer /\ TypeOK
  BY DEF OrphanInv, PendingInv, Typing
<1>2. \A g \in SaveGenerations : g \in Int /\ TaskWellFormed(saves[g])
  BY <1>1 DEF SaveGenerations, Typing
<1>3. NoTask \notin SaveGenerations
  BY DEF SaveGenerations, NoTask
<1>4. save_generation \in Int
  BY <1>1 DEF TypeOK
<1>. QED
  BY <1>1, <1>2, <1>3, <1>4 DEF TypeOK, OrphanInv, FreshSaves, LiveSavesAreCancellable

\* An abort ends no task that has not begun, and keeps the URI of the others.
LEMMA AbortKeeps ==
  ASSUME NEW G, NoTask \notin G, NEW tasks \in [G -> Task], NEW g \in G \cup {NoTask},
         NEW h \in G
  PROVE  /\ tasks[h].stage = "none" => Abort(tasks, g)[h].stage = "none"
         /\ Abort(tasks, g)[h].uri \in {tasks[h].uri, None}
         /\ Live(Abort(tasks, g)[h]) =>
              /\ Live(tasks[h]) /\ g # h /\ Abort(tasks, g)[h].uri = tasks[h].uri
<1>1. tasks[h] \in Task
  OBVIOUS
<1>2. "none" \notin Awaiting /\ "none" \notin Running
  BY DEF Awaiting, Running
<1>3. CASE Abort(tasks, g)[h] = tasks[h]
  BY <1>3, AbortEnds
<1>4. CASE g = h /\ tasks[h].stage \in Awaiting /\ Abort(tasks, g)[h] = Finished
  BY <1>2, <1>4 DEF Finished, Blank, Live
<1>5. CASE /\ g = h /\ tasks[h].stage \in Running
           /\ Abort(tasks, g)[h] = [tasks[h] EXCEPT !.aborted = TRUE]
  BY <1>1, <1>2, <1>5 DEF Live, Task
<1>. QED
  BY <1>3, <1>4, <1>5, AbortCases

(***************************************************************************)
(* Every save task in flight can be aborted.                               *)
(***************************************************************************)

SavesInv == FreshSaves /\ LiveSavesAreCancellable

\* Steps that leave the save tasks and the spawned handler alone.
LEMMA SavesUnchanged ==
  ASSUME OrphanInv, UNCHANGED saveVars,
         handler' = handler \/ (handler.at # "spawned" /\ handler'.at # "spawned")
  PROVE  SavesInv'
BY DEF OrphanInv, SavesInv, FreshSaves, LiveSavesAreCancellable, saveVars

\* did_save spawns a task under a new generation.
LEMMA SavesSpawn ==
  ASSUME OrphanInv, NEW u \in Uris, NEW t \in Texts, DidSave(u, t)
  PROVE  SavesInv'
<1>. DEFINE new == NewTask(u, "analyzing", t, documents[u].version)
            n == save_generation
<1>1. /\ saves' = [saves EXCEPT ![n] = new] /\ save_generation' = n + 1
      /\ save_tasks' = save_tasks
      /\ handler' = [at |-> "spawned", uri |-> u, generation |-> n]
      /\ handler.at = "idle" /\ n < MaxSaves
  BY DEF DidSave, Accepting, HandlerIdle
<1>2. n \in SaveGenerations /\ n \in Int
  <2>1. n \in Nat
    BY DEF OrphanInv, PendingInv, Typing, TypeOK
  <2>. QED
    BY <1>1, <2>1, ServerAssumption DEF SaveGenerations
<1>3. new.uri = u
  BY DEF NewTask
<1>. HIDE DEF new
<1>4. /\ saves'[n] = new
      /\ \A g \in SaveGenerations : g # n => saves'[g] = saves[g]
  BY <1>1, <1>2, OrphanFacts
<1>5. ASSUME NEW g \in SaveGenerations, g >= n + 1 PROVE saves'[g].stage = "none"
  <2>1. g # n /\ g >= n
    BY <1>2, <1>5, OrphanFacts
  <2>. QED
    BY <1>4, <2>1, OrphanFacts
<1>6. ASSUME NEW v \in Uris, save_tasks[v] # NoTask
      PROVE  save_tasks[v] < n + 1 /\ saves'[save_tasks[v]].uri \in {v, None}
  <2>1. save_tasks[v] \in SaveGenerations /\ save_tasks[v] \in Int /\ save_tasks[v] < n
    BY <1>6, OrphanFacts
  <2>2. save_tasks[v] # n
    BY <1>2, <2>1
  <2>. QED
    BY <1>2, <1>4, <1>6, <2>1, <2>2, OrphanFacts
<1>7. ASSUME NEW g \in SaveGenerations, Live(saves'[g])
      PROVE  save_tasks[saves'[g].uri] = g \/ g = n
  BY <1>1, <1>4, <1>7, OrphanFacts
<1>. QED
  BY <1>1, <1>2, <1>3, <1>4, <1>5, <1>6, <1>7 DEF SavesInv, FreshSaves, LiveSavesAreCancellable

\* The insertion and the removal of a handle abort the task that was there.
LEMMA SavesReplace ==
  ASSUME OrphanInv, NEW u \in Uris, NEW n \in SaveGenerations \cup {NoTask},
         saves' = Abort(saves, save_tasks[u]),
         save_tasks' = [save_tasks EXCEPT ![u] = n],
         UNCHANGED save_generation, handler'.at # "spawned",
         IF handler.at = "spawned" THEN handler.uri = u /\ handler.generation = n
         ELSE n = NoTask
  PROVE  SavesInv'
<1>0. save_tasks[u] \in SaveGenerations \cup {NoTask}
  BY OrphanFacts
<1>1. \A g \in SaveGenerations :
        /\ saves[g].stage = "none" => saves'[g].stage = "none"
        /\ saves'[g].uri \in {saves[g].uri, None}
        /\ Live(saves'[g]) => /\ Live(saves[g]) /\ save_tasks[u] # g
                              /\ saves'[g].uri = saves[g].uri
  BY <1>0, AbortKeeps, OrphanFacts
<1>2. \A v \in Uris : save_tasks'[v] = IF v = u THEN n ELSE save_tasks[v]
  BY OrphanFacts
<1>3. \A g \in SaveGenerations : g >= save_generation' => saves'[g].stage = "none"
  BY <1>1, OrphanFacts
<1>4. n # NoTask => n < save_generation /\ saves[n].uri \in {u, None}
  BY OrphanFacts
<1>5. ASSUME NEW v \in Uris, save_tasks'[v] # NoTask
      PROVE  /\ save_tasks'[v] < save_generation'
             /\ saves'[save_tasks'[v]].uri \in {v, None}
  <2>1. CASE v = u
    BY <1>1, <1>2, <1>4, <1>5, <2>1
  <2>2. CASE v # u
    <3>1. save_tasks'[v] = save_tasks[v] /\ save_tasks[v] \in SaveGenerations
      BY <1>2, <1>5, <2>2, OrphanFacts
    <3>. QED
      BY <1>1, <1>5, <3>1, OrphanFacts
  <2>. QED
    BY <2>1, <2>2
<1>6. ASSUME NEW g \in SaveGenerations, Live(saves'[g])
      PROVE  save_tasks'[saves'[g].uri] = g
  <2>1. /\ Live(saves[g]) /\ save_tasks[u] # g /\ saves'[g].uri = saves[g].uri
        /\ saves[g].uri \in Uris
    BY <1>1, <1>6, OrphanFacts DEF TaskWellFormed, Live, Active
  <2>2. CASE save_tasks[saves[g].uri] = g
    BY <1>2, <2>1, <2>2
  <2>3. CASE handler.at = "spawned" /\ handler.generation = g
    <3>1. saves[g].uri = u
      BY <1>4, <2>1, <2>3, NoneAssumption, OrphanFacts
    <3>. QED
      BY <1>2, <2>1, <2>3, <3>1
  <2>. QED
    BY <2>1, <2>2, <2>3, OrphanFacts
<1>. QED
  BY <1>3, <1>5, <1>6 DEF SavesInv, FreshSaves, LiveSavesAreCancellable
\* A task that moves on or ends leaves the others alone; its entry is removed
\* only when it ends.
LEMMA SavesMove ==
  ASSUME OrphanInv, NEW g \in SaveGenerations, Active(saves[g]), NEW new,
         saves' = [saves EXCEPT ![g] = new],
         new.uri \in {saves[g].uri, None},
         Live(new) => /\ Live(saves[g]) /\ new.uri = saves[g].uri
                      /\ save_tasks' = save_tasks,
         \A u \in Uris : save_tasks'[u] \in {save_tasks[u], NoTask}
                         /\ (save_tasks'[u] # save_tasks[u] => save_tasks[u] = g),
         UNCHANGED <<save_generation, handler>>
  PROVE  SavesInv'
<1>1. \A h \in SaveGenerations : saves'[h] = IF h = g THEN new ELSE saves[h]
  BY OrphanFacts
<1>2. g < save_generation
  BY OrphanFacts DEF Active
<1>3. ASSUME NEW h \in SaveGenerations, h >= save_generation' PROVE saves'[h].stage = "none"
  <2>1. h # g
    BY <1>2, <1>3, OrphanFacts
  <2>. QED
    BY <1>1, <1>3, <2>1, OrphanFacts
<1>4. ASSUME NEW u \in Uris, save_tasks'[u] # NoTask
      PROVE  /\ save_tasks'[u] < save_generation'
             /\ saves'[save_tasks'[u]].uri \in {u, None}
  <2>1. save_tasks'[u] = save_tasks[u] /\ save_tasks[u] \in SaveGenerations
    BY <1>4, OrphanFacts
  <2>. QED
    BY <1>1, <1>4, <2>1, OrphanFacts
<1>5. ASSUME handler'.at = "spawned"
      PROVE  /\ handler'.generation < save_generation'
             /\ saves'[handler'.generation].uri \in {handler'.uri, None}
  <2>1. handler.generation \in SaveGenerations
    BY <1>5, OrphanFacts DEF HandlerWellFormed
  <2>. QED
    BY <1>1, <1>5, <2>1, OrphanFacts
<1>6. ASSUME NEW h \in SaveGenerations, Live(saves'[h])
      PROVE  \/ save_tasks'[saves'[h].uri] = h
             \/ handler'.at = "spawned" /\ handler'.generation = h
  <2>1. Live(saves[h]) /\ saves'[h].uri = saves[h].uri
    BY <1>1, <1>6
  <2>2. saves[h].uri \in Uris
    BY <2>1, OrphanFacts DEF TaskWellFormed, Live, Active
  <2>3. h = g => save_tasks' = save_tasks
    BY <1>1, <1>6
  <2>. QED
    BY <2>1, <2>2, <2>3, OrphanFacts
<1>. QED
  BY <1>3, <1>4, <1>5, <1>6 DEF SavesInv, FreshSaves, LiveSavesAreCancellable

\* Every step of a save task keeps the invariant.
LEMMA SavesTaskStep ==
  ASSUME OrphanInv, NEW g \in SaveGenerations, SaveStep(g)
  PROVE  SavesInv'
<1>. DEFINE task == saves[g]
<1>0. /\ task \in Task /\ UNCHANGED <<save_generation, handler>> /\ Active(task)
      /\ task.uri \in Uris
  BY OrphanFacts DEF SaveStep, AnalyzeSavedText, CommitSave, CleanUpSave, Active,
                     TaskWellFormed
<1>1. ~Live(Finished) /\ Finished.uri = None
  BY DEF Live, Finished, Blank
<1>2. ASSUME saves' = [saves EXCEPT ![g] = Finished], save_tasks' = save_tasks PROVE SavesInv'
  BY <1>0, <1>1, <1>2, SavesMove
<1>3. ASSUME NEW stage \in {"analyzed", "cleaning"}, save_tasks' = save_tasks,
             saves' = [saves EXCEPT ![g].stage = stage]
      PROVE  SavesInv'
  <2>. DEFINE moved == [task EXCEPT !.stage = stage]
  <2>1. saves' = [saves EXCEPT ![g] = moved]
    BY <1>3
  <2>2. (Live(moved) => Live(task)) /\ moved.uri = task.uri
    BY <1>0 DEF Live, Active, Task
  <2>. HIDE DEF moved
  <2>. QED
    BY <1>0, <1>3, <2>1, <2>2, SavesMove
<1>4. CASE AnalyzeSavedText(g)
  <2>1. save_tasks' = save_tasks
    BY <1>4 DEF AnalyzeSavedText
  <2>2. CASE task.text \in Panics
    BY <1>2, <1>4, <2>1, <2>2 DEF AnalyzeSavedText
  <2>3. CASE task.text \notin Panics
    <3>1. saves' = [saves EXCEPT ![g].stage = "analyzed"]
      BY <1>4, <2>3 DEF AnalyzeSavedText
    <3>. QED
      BY <1>3, <2>1, <3>1
  <2>. QED
    BY <2>2, <2>3
<1>5. CASE CommitSave(g)
  BY <1>3, <1>5 DEF CommitSave
<1>6. CASE CleanUpSave(g)
  <2>1. /\ saves' = [saves EXCEPT ![g] = Finished]
        /\ save_tasks' = IF save_tasks[task.uri] = g
                         THEN [save_tasks EXCEPT ![task.uri] = NoTask] ELSE save_tasks
    BY <1>6 DEF CleanUpSave
  <2>2. \A u \in Uris : /\ save_tasks'[u] \in {save_tasks[u], NoTask}
                        /\ save_tasks'[u] # save_tasks[u] => save_tasks[u] = g
    BY <1>0, <2>1, OrphanFacts
  <2>. QED
    BY <1>0, <1>1, <2>1, <2>2, SavesMove
<1>. QED
  BY <1>4, <1>5, <1>6 DEF SaveStep

\* shutdown aborts every save task.
LEMMA SavesShutdown ==
  ASSUME OrphanInv, Shutdown
  PROVE  SavesInv' /\ \A g \in SaveGenerations : ~Live(saves'[g])
<1>0. /\ saves' = AbortAll(saves, save_tasks) /\ save_tasks' = [u \in Uris |-> NoTask]
      /\ handler' = handler /\ save_generation' = save_generation /\ handler.at = "idle"
  BY DEF Shutdown, Accepting, HandlerIdle
<1>1. \A g \in SaveGenerations :
        saves'[g] = IF \E u \in Uris : save_tasks[u] = g THEN Abort(saves, g)[g] ELSE saves[g]
  BY <1>0, OrphanFacts DEF AbortAll
<1>2. ASSUME NEW g \in SaveGenerations PROVE ~Live(saves'[g])
  <2>1. CASE \E u \in Uris : save_tasks[u] = g
    BY <1>1, <2>1, AbortEnds, OrphanFacts
  <2>2. CASE ~\E u \in Uris : save_tasks[u] = g
    <3>1. Live(saves[g]) => saves[g].uri \in Uris
      BY OrphanFacts DEF Live, Active, TaskWellFormed
    <3>. QED
      BY <1>0, <1>1, <2>2, <3>1, OrphanFacts
  <2>. QED
    BY <2>1, <2>2
<1>3. ASSUME NEW g \in SaveGenerations, g >= save_generation PROVE saves'[g].stage = "none"
  BY <1>1, <1>3, AbortKeeps, OrphanFacts
<1>. QED
  BY <1>0, <1>2, <1>3 DEF SavesInv, FreshSaves, LiveSavesAreCancellable

\* Every step keeps the save tasks cancellable.
LEMMA SavesNext ==
  ASSUME OrphanInv, [Next]_vars
  PROVE  SavesInv'
<1>0. handler \in [at : Sections, uri : Uris \cup {None},
                   generation : SaveGenerations \cup {NoTask}]
  BY OrphanFacts, TypingFacts DEF TypeOK
<1>1. ASSUME ClientStep PROVE SavesInv'
  <2>1. ASSUME NEW u \in Uris, NEW t \in Texts, DidOpen(u, t) PROVE SavesInv'
    BY <2>1, SavesUnchanged DEF DidOpen, Accepting, HandlerIdle
  <2>2. ASSUME \/ \E u \in Uris, t \in Texts : DidChange(u, t)
               \/ \E u \in Uris : DidChangeRejected(u) \/ DidSaveNoText(u)
        PROVE  SavesInv'
    <3>1. UNCHANGED saveVars /\ handler' = handler
      BY <2>2 DEF DidChange, DidChangeRejected, DidSaveNoText
    <3>. QED
      BY <3>1, SavesUnchanged
  <2>3. ASSUME NEW u \in Uris, DidClose(u) PROVE SavesInv'
    BY <2>3, SavesUnchanged DEF DidClose, Accepting, HandlerIdle
  <2>. QED
    BY <1>1, <2>1, <2>2, <2>3, SavesSpawn, SavesShutdown DEF ClientStep
<1>2. ASSUME HandlerStep PROVE SavesInv'
  <2>1. ASSUME DidOpenRequest \/ DidClosePublish PROVE SavesInv'
    <3>1. UNCHANGED saveVars /\ handler.at # "spawned" /\ handler'.at # "spawned"
      BY <2>1 DEF DidOpenRequest, DidClosePublish, Idle
    <3>. QED
      BY <3>1, SavesUnchanged
  <2>2. ASSUME CancelAnalysis \/ DidCloseNoteClosed PROVE SavesInv'
    <3>1. UNCHANGED saveVars /\ handler.at # "spawned" /\ handler'.at # "spawned"
      BY <1>0, <2>2 DEF CancelAnalysis, DidCloseNoteClosed
    <3>. QED
      BY <3>1, SavesUnchanged
  <2>3. ASSUME CancelSaveIndex PROVE SavesInv'
    <3>1. /\ handler.uri \in Uris /\ handler.at # "spawned" /\ handler'.at # "spawned"
          /\ saves' = Abort(saves, save_tasks[handler.uri])
          /\ save_tasks' = [save_tasks EXCEPT ![handler.uri] = NoTask]
          /\ UNCHANGED save_generation
      BY <1>0, <2>3, OrphanFacts DEF CancelSaveIndex, HandlerWellFormed, HandlerIdle
    <3>. QED
      BY <3>1, SavesReplace
  <2>4. ASSUME InsertSaveTask PROVE SavesInv'
    <3>1. /\ handler.uri \in Uris /\ handler.generation \in SaveGenerations
          /\ handler.at = "spawned" /\ handler'.at # "spawned"
          /\ saves' = Abort(saves, save_tasks[handler.uri])
          /\ save_tasks' = [save_tasks EXCEPT ![handler.uri] = handler.generation]
          /\ UNCHANGED save_generation
      BY <2>4, OrphanFacts DEF InsertSaveTask, HandlerWellFormed, HandlerIdle, Idle
    <3>. QED
      BY <3>1, SavesReplace
  <2>. QED
    BY <1>2, <2>1, <2>2, <2>3, <2>4 DEF HandlerStep
<1>3. ASSUME \/ DidChangeWatchedFile \/ \E g \in Generations : AnalysisStep(g)
             \/ ScanStep \/ RegisterWatcher \/ FileStep \/ UNCHANGED vars
      PROVE  SavesInv'
  <2>1. UNCHANGED saveVars /\ handler' = handler
    BY <1>3 DEF DidChangeWatchedFile, AnalysisStep, Wake, Snapshot, AnalyzeText,
                CommitAnalysis, PublishAnalysis, CleanUpAnalysis, ScanStep, ScanFile,
                ScanReplace, RegisterWatcher, FileStep, WriteFile, vars
  <2>. QED
    BY <2>1, SavesUnchanged
<1>. QED
  BY <1>1, <1>2, <1>3, SavesTaskStep DEF Next
(***************************************************************************)
(* A closed buffer has no task, and nothing outlives shutdown.             *)
(***************************************************************************)

\* Steps that leave both maps alone, and no document but the one they close.
LEMMA EntriesUnchanged ==
  ASSUME OrphanInv, UNCHANGED <<pending, save_tasks>>, down' => down,
         \A u \in Uris :
           /\ IsOpen(documents, u) =>
                IsOpen(documents', u) \/ (handler'.uri = u /\ handler'.at = "closed")
           /\ handler.uri = u /\ handler.at \in {"closed", "cancelled"} =>
                handler'.uri = u /\ handler'.at = handler.at
  PROVE  EntriesHaveBuffers'
BY DEF OrphanInv, EntriesHaveBuffers

\* A request is made for an open buffer before shutdown.
LEMMA EntriesRequest ==
  ASSUME OrphanInv, NEW u \in Uris, RequestAnalysis(u), IsOpen(documents', u),
         ~down', UNCHANGED save_tasks, handler.at \notin {"closed", "cancelled"},
         \A v \in Uris : IsOpen(documents, v) => IsOpen(documents', v)
  PROVE  EntriesHaveBuffers'
<1>1. \A v \in Uris : v # u => pending'[v] = pending[v]
  BY OrphanFacts DEF RequestAnalysis
<1>. QED
  BY <1>1 DEF OrphanInv, EntriesHaveBuffers

\* The sections of the handlers keep the entries to open buffers.
LEMMA EntriesHandlers ==
  ASSUME OrphanInv, HandlerStep
  PROVE  EntriesHaveBuffers'
<1>0. /\ documents' = documents /\ down' = down /\ ~down /\ handler.uri \in Uris
      /\ handler \in [at : Sections, uri : Uris \cup {None},
                      generation : SaveGenerations \cup {NoTask}]
  <2>1. ~HandlerIdle
    BY DEF HandlerStep, DidOpenRequest, CancelAnalysis, CancelSaveIndex,
           DidCloseNoteClosed, DidClosePublish, InsertSaveTask, HandlerIdle
  <2>2. documents' = documents /\ down' = down
    BY DEF HandlerStep, DidOpenRequest, CancelAnalysis, CancelSaveIndex,
           DidCloseNoteClosed, DidClosePublish, InsertSaveTask, docVars
  <2>. QED
    BY <2>1, <2>2, OrphanFacts, TypingFacts
    DEF TypeOK, HandlerWellFormed, HandlerKnowsItsBuffer
<1>1. /\ handler.at \in {"opened", "spawned"} => IsOpen(documents, handler.uri)
      /\ \A u \in Uris :
           /\ pending[u] # NoTask =>
                IsOpen(documents, u) \/ (handler.uri = u /\ handler.at = "closed")
           /\ save_tasks[u] # NoTask =>
                \/ IsOpen(documents, u)
                \/ handler.uri = u /\ handler.at \in {"closed", "cancelled"}
  BY DEF OrphanInv, EntriesHaveBuffers, HandlerKnowsItsBuffer
<1>2. CASE DidOpenRequest
  BY <1>0, <1>1, <1>2, EntriesRequest DEF DidOpenRequest, saveVars
<1>3. CASE CancelAnalysis
  <2>1. /\ pending' = [pending EXCEPT ![handler.uri] = NoTask] /\ save_tasks' = save_tasks
        /\ handler'.at = "cancelled" /\ handler'.uri = handler.uri
    BY <1>0, <1>3 DEF CancelAnalysis, saveVars
  <2>. QED
    BY <1>0, <1>1, <2>1, OrphanFacts DEF EntriesHaveBuffers
<1>4. CASE CancelSaveIndex
  <2>1. /\ save_tasks' = [save_tasks EXCEPT ![handler.uri] = NoTask] /\ pending' = pending
        /\ handler.at = "cancelled" /\ handler'.uri = handler.uri
    BY <1>0, <1>4 DEF CancelSaveIndex, schedulerVars
  <2>. QED
    BY <1>0, <1>1, <2>1, OrphanFacts DEF EntriesHaveBuffers
<1>5. CASE DidCloseNoteClosed \/ DidClosePublish
  <2>1. UNCHANGED <<pending, save_tasks>> /\ handler.at \notin {"closed", "cancelled"}
    BY <1>5 DEF DidCloseNoteClosed, DidClosePublish, schedulerVars, saveVars
  <2>. QED
    BY <1>0, <1>1, <2>1 DEF EntriesHaveBuffers
<1>6. CASE InsertSaveTask
  <2>1. /\ save_tasks' = [save_tasks EXCEPT ![handler.uri] = handler.generation]
        /\ pending' = pending /\ handler.at = "spawned"
    BY <1>6 DEF InsertSaveTask, schedulerVars
  <2>. QED
    BY <1>0, <1>1, <2>1, OrphanFacts DEF EntriesHaveBuffers
<1>. QED
  BY <1>2, <1>3, <1>4, <1>5, <1>6 DEF HandlerStep

\* Every step keeps the entries to open buffers.
LEMMA EntriesNext ==
  ASSUME OrphanInv, [Next]_vars
  PROVE  EntriesHaveBuffers'
<1>0. documents \in [Uris -> Document]
  BY OrphanFacts, TypingFacts DEF TypeOK
<1>1. ASSUME UNCHANGED <<pending, save_tasks, handler>>, down' => down,
             \A u \in Uris : IsOpen(documents, u) => IsOpen(documents', u)
      PROVE  EntriesHaveBuffers'
  BY <1>1, EntriesUnchanged
<1>2. ASSUME NEW u \in Uris, NEW t \in Texts, DidOpen(u, t) PROVE EntriesHaveBuffers'
  <2>1. /\ UNCHANGED <<pending, save_tasks, down>> /\ handler.at = "idle"
        /\ \A v \in Uris : documents'[v].text = IF v = u THEN t ELSE documents[v].text
    BY <1>0, <1>2
    DEF DidOpen, OpenDocument, schedulerVars, saveVars, Accepting, HandlerIdle
  <2>. QED
    BY <2>1, EntriesUnchanged, NoneAssumption DEF IsOpen
<1>3. ASSUME NEW u \in Uris, NEW t \in Texts, DidChange(u, t) PROVE EntriesHaveBuffers'
  <2>1. /\ UNCHANGED <<save_tasks, down>> /\ ~down /\ handler.at = "idle" /\ RequestAnalysis(u)
        /\ \A v \in Uris : documents'[v].text = IF v = u THEN t ELSE documents[v].text
    BY <1>0, <1>3 DEF DidChange, ApplyChanges, saveVars, Accepting, HandlerIdle
  <2>. QED
    BY <2>1, EntriesRequest, NoneAssumption DEF IsOpen
<1>4. ASSUME NEW u \in Uris, DidClose(u) PROVE EntriesHaveBuffers'
  <2>1. /\ UNCHANGED <<pending, save_tasks, down>> /\ handler.at = "idle"
        /\ handler'.at = "closed" /\ handler'.uri = u
        /\ \A v \in Uris : v # u => documents'[v] = documents[v]
    BY <1>0, <1>4
    DEF DidClose, CloseDocument, schedulerVars, saveVars, Accepting, HandlerIdle
  <2>. QED
    BY <2>1, EntriesUnchanged DEF IsOpen
<1>5. ASSUME NEW u \in Uris, NEW t \in Texts, DidSave(u, t) PROVE EntriesHaveBuffers'
  <2>1. UNCHANGED <<documents, pending, save_tasks, down>> /\ handler.at = "idle"
    BY <1>5 DEF DidSave, docVars, schedulerVars, Accepting, HandlerIdle
  <2>. QED
    BY <2>1, EntriesUnchanged
<1>6. ASSUME Shutdown PROVE EntriesHaveBuffers'
  <2>1. /\ pending' = [u \in Uris |-> NoTask] /\ save_tasks' = [u \in Uris |-> NoTask]
    BY <1>6 DEF Shutdown
  <2>. QED
    BY <2>1 DEF EntriesHaveBuffers
<1>7. ASSUME ClientStep PROVE EntriesHaveBuffers'
  <2>1. ASSUME NEW u \in Uris, DidChangeRejected(u) \/ DidSaveNoText(u)
        PROVE  EntriesHaveBuffers'
    <3>1. UNCHANGED <<pending, save_tasks, handler, down, documents>>
      BY <2>1 DEF DidChangeRejected, DidSaveNoText, docVars, schedulerVars, saveVars
    <3>. QED
      BY <1>1, <3>1
  <2>. QED
    BY <1>2, <1>3, <1>4, <1>5, <1>6, <1>7, <2>1 DEF ClientStep
<1>8. ASSUME NEW g \in Generations, AnalysisStep(g), UNCHANGED pending
      PROVE  EntriesHaveBuffers'
  <2>1. UNCHANGED <<save_tasks, handler, down>>
    BY <1>8 DEF AnalysisStep, Wake, Snapshot, AnalyzeText, CommitAnalysis, PublishAnalysis,
                CleanUpAnalysis, saveVars
  <2>2. \A u \in Uris : documents'[u].text = documents[u].text
    <3>1. documents' = documents \/ CommitAnalysis(g)
      BY <1>8 DEF AnalysisStep, Wake, Snapshot, AnalyzeText, PublishAnalysis,
                  CleanUpAnalysis, docVars
    <3>. QED
      BY <1>0, <3>1 DEF CommitAnalysis, StoreCachedAnalysisIfCurrent, Document
  <2>. QED
    BY <1>1, <1>8, <2>1, <2>2 DEF IsOpen
<1>9. ASSUME NEW g \in Generations, AnalysisStep(g), pending' # pending
      PROVE  EntriesHaveBuffers'
  <2>1. CleanUpAnalysis(g)
    BY <1>9 DEF AnalysisStep, Wake, Snapshot, AnalyzeText, CommitAnalysis, PublishAnalysis
  <2>2. /\ UNCHANGED <<save_tasks, handler, down, documents>>
        /\ pending' = [pending EXCEPT ![analyses[g].uri] = NoTask]
    BY <1>9, <2>1 DEF CleanUpAnalysis, saveVars, docVars
  <2>3. \A u \in Uris : pending'[u] \in {pending[u], NoTask}
    BY <2>2, OrphanFacts
  <2>. QED
    BY <2>2, <2>3 DEF OrphanInv, EntriesHaveBuffers
<1>10. ASSUME NEW g \in SaveGenerations, SaveStep(g) PROVE EntriesHaveBuffers'
  <2>1. /\ UNCHANGED <<pending, handler, down, documents>>
        /\ \/ save_tasks' = save_tasks
           \/ save_tasks' = [save_tasks EXCEPT ![saves[g].uri] = NoTask]
    BY <1>10 DEF SaveStep, AnalyzeSavedText, CommitSave, CleanUpSave, schedulerVars, docVars
  <2>2. \A u \in Uris : save_tasks'[u] \in {save_tasks[u], NoTask}
    BY <2>1, OrphanFacts
  <2>. QED
    BY <2>1, <2>2 DEF OrphanInv, EntriesHaveBuffers
<1>11. ASSUME \/ DidChangeWatchedFile \/ ScanStep \/ RegisterWatcher \/ FileStep
              \/ UNCHANGED vars
       PROVE  EntriesHaveBuffers'
  <2>1. UNCHANGED <<pending, save_tasks, handler, down, documents>>
    BY <1>11 DEF DidChangeWatchedFile, ScanStep, ScanFile, ScanReplace, RegisterWatcher,
                 FileStep, WriteFile, vars, docVars, schedulerVars, saveVars
  <2>. QED
    BY <1>1, <2>1
<1>. QED
  BY <1>7, <1>8, <1>9, <1>10, <1>11, EntriesHandlers DEF Next

(***************************************************************************)
(* The theorems.                                                           *)
(***************************************************************************)

\* The server starts with no task and no buffer.
LEMMA OrphanInit == Init => OrphanInv
<1>. SUFFICES ASSUME Init PROVE OrphanInv
  OBVIOUS
<1>1. PendingInv /\ HandlerKnowsItsBuffer
  BY TypingInit, PendingInit, DocumentInit DEF PendingInv, DocumentInv
<1>2. FreshSaves /\ LiveSavesAreCancellable /\ EntriesHaveBuffers
  BY DEF Init, Idle, FreshSaves, LiveSavesAreCancellable, EntriesHaveBuffers, Live,
         NotSpawned, Blank, NoTask
<1>. QED
  BY <1>1, <1>2 DEF OrphanInv

\* Every step of the server keeps the invariant.
LEMMA OrphanNext == OrphanInv /\ [Next]_vars => OrphanInv'
<1>. SUFFICES ASSUME OrphanInv, [Next]_vars PROVE OrphanInv'
  OBVIOUS
<1>1. PendingInv' /\ HandlerKnowsItsBuffer'
  BY PendingNext, HandlerSteps, OrphanFacts DEF OrphanInv
<1>. QED
  BY <1>1, SavesNext, EntriesNext DEF OrphanInv, SavesInv

\* With both maps right, a closed buffer and a server that was shut down have no
\* live task.
LEMMA OrphanConsequence == OrphanInv => NoOrphanTask /\ LiveSavesAreCancellable
<1>. SUFFICES ASSUME OrphanInv, NEW u \in Uris,
                     down \/ (~IsOpen(documents, u) /\ ~Closing(u))
              PROVE  /\ \A g \in Generations : analyses[g].uri = u => ~Live(analyses[g])
                     /\ \A g \in SaveGenerations : saves[g].uri = u => ~Live(saves[g])
  BY DEF NoOrphanTask, OrphanInv
<1>1. pending[u] = NoTask /\ save_tasks[u] = NoTask
  BY DEF OrphanInv, EntriesHaveBuffers, Closing
<1>2. \A g \in Generations : analyses[g].uri = u => ~Live(analyses[g])
  BY <1>1 DEF OrphanInv, PendingInv, PendingIsTheLiveTask, Generations, NoTask
<1>3. ASSUME NEW g \in SaveGenerations, saves[g].uri = u, Live(saves[g]) PROVE FALSE
  <2>1. handler.at = "spawned" /\ handler.generation = g
    BY <1>1, <1>3, OrphanFacts
  <2>2. handler.uri = u
    BY <1>3, <2>1, NoneAssumption, OrphanFacts
  <2>3. IsOpen(documents, u) /\ ~down
    BY <2>1, <2>2 DEF OrphanInv, HandlerKnowsItsBuffer, HandlerIdle
  <2>. QED
    BY <2>3
<1>. QED
  BY <1>2, <1>3

\* did_close and shutdown leave no analysis and no save running unaborted:
\* "no analysis work outlives the server".
THEOREM OrphanCorrect == Spec => []NoOrphanTask
<1>. QED
  BY OrphanInit, OrphanNext, OrphanConsequence, PTL DEF Spec

\* Every save task in flight is in save_tasks, or is about to be inserted by the
\* handler that spawned it: close and shutdown reach them all.
THEOREM SavesCorrect == Spec => []LiveSavesAreCancellable
<1>. QED
  BY OrphanInit, OrphanNext, OrphanConsequence, PTL DEF Spec

--------------------------------------------------------------------------------
(***************************************************************************)
(* The workspace index follows the files: theorems for roots whose files   *)
(* do not change while they are scanned and change only when the client    *)
(* watches them.                                                           *)
(***************************************************************************)

\* What the steps below use of the invariant.
LEMMA DiskFacts ==
  ASSUME DiskInv
  PROVE  /\ Typing /\ TypeOK /\ HandlerWellFormed
         /\ units \in [Uris -> Unit] /\ disk \in [Uris -> FileContent]
         /\ scan.stage \in {"reading", "finished"}
         /\ scan.found \in [Uris -> FileContent]
         /\ events \in Seq([uri : Uris, kind : {"changed", "deleted"}])
         /\ ScannedUris \subseteq FileUris /\ ScannedUris \subseteq Uris
<1>1. Typing /\ TypeOK /\ HandlerWellFormed
  BY DEF DiskInv, Typing
<1>. QED
  BY <1>1, IndexAssumption DEF TypeOK, ScannedUris

\* A unit that is not an open buffer's after its file was reloaded is what the
\* file holds; other units stay.
LEMMA ReloadReads ==
  ASSUME NEW index \in [Uris -> Unit], NEW u \in Uris, NEW content \in FileContent,
         NEW v \in FileUris, content # Unreadable
  PROVE  LET new == ReloadFromDisk(index, u, content)
         IN  IF v = u THEN new[v].open \/ new[v].text = content ELSE new[v] = index[v]
<1>1. v \in Uris
  BY IndexAssumption
<1>. QED
  BY <1>1 DEF ReloadFromDisk, RemoveUnit, InsertUnit, IsOpenBuffer, NoUnit

\* An unreadable file leaves the other units alone as well.
LEMMA ReloadOthers ==
  ASSUME NEW index \in [Uris -> Unit], NEW u \in Uris, NEW content, NEW v \in Uris, v # u
  PROVE  ReloadFromDisk(index, u, content)[v] = index[v]
BY DEF ReloadFromDisk, RemoveUnit, InsertUnit, IsOpenBuffer

\* Steps that leave the files, the events and the scan alone, and change no unit
\* that is not an open buffer's but to what its file holds.
LEMMA DiskUnitsStep ==
  ASSUME DiskInv, UNCHANGED <<disk, events, scan>>,
         \A v \in ScannedUris :
           \/ units'[v] = units[v] \/ units'[v].open
           \/ disk[v] = Unreadable \/ units'[v].text = disk[v]
  PROVE  (ScanReadTheDisk /\ LastEventIsTrue /\ StaleUnitsAreReported)'
BY DEF DiskInv, ScanReadTheDisk, LastEventIsTrue, StaleUnitsAreReported

\* Handling an event reads the file it is about.
LEMMA EventStep ==
  ASSUME DiskInv, DidChangeWatchedFile
  PROVE  (ScanReadTheDisk /\ LastEventIsTrue /\ StaleUnitsAreReported)'
<1>. DEFINE Event == [uri : Uris, kind : {"changed", "deleted"}]
            e == Head(events)
<1>0. /\ events \in Seq(Event) /\ events # <<>>
      /\ units \in [Uris -> Unit] /\ disk \in [Uris -> FileContent]
      /\ ScannedUris \subseteq FileUris /\ ScannedUris \subseteq Uris
  BY DiskFacts DEF DidChangeWatchedFile
<1>1. /\ events' = Tail(events) /\ UNCHANGED <<disk, scan>>
      /\ units' = IF e.kind = "deleted" THEN ForgetDeleted(units, e.uri)
                  ELSE ReloadFromDisk(units, e.uri, disk[e.uri])
  BY DEF DidChangeWatchedFile
<1>. HIDE DEF Event
<1>2. /\ Len(events) \in Nat /\ Len(events) >= 1 /\ e \in Event /\ e = events[1]
      /\ Len(events') = Len(events) - 1
      /\ \A i \in 1 .. Len(events') : events'[i] = events[i + 1]
  BY <1>0, <1>1
<1>3. e.uri \in Uris
  BY <1>2 DEF Event
<1>4. /\ \A i \in 1 .. Len(events') : i + 1 \in 1 .. Len(events)
      /\ \A i \in 1 .. Len(events) : i = 1 \/ (i - 1 \in 1 .. Len(events') /\ (i - 1) + 1 = i)
      /\ 1 \in 1 .. Len(events)
  BY <1>2
<1>. HIDE DEF e
<1>5. LastEventIsTrue'
  <2>1. SUFFICES ASSUME NEW i \in 1 .. Len(events'),
                        \A j \in 1 .. Len(events') : j > i => events'[j].uri # events'[i].uri
                 PROVE  events'[i].kind = "deleted" <=> disk'[events'[i].uri] = None
    BY DEF LastEventIsTrue
  <2>2. ASSUME NEW j \in 1 .. Len(events), j > i + 1 PROVE events[j].uri # events[i + 1].uri
    <3>1. j # 1 /\ j - 1 > i
      BY <1>2, <2>2
    <3>2. j - 1 \in 1 .. Len(events') /\ events'[j - 1] = events[j]
      BY <1>2, <1>4, <2>2, <3>1
    <3>. QED
      BY <1>2, <2>1, <3>1, <3>2
  <2>. QED
    BY <1>1, <1>2, <1>4, <2>2 DEF DiskInv, LastEventIsTrue
<1>6. ASSUME scan.stage = "finished", NEW u \in ScannedUris, ~units'[u].open,
             disk[u] # Unreadable
      PROVE  units'[u].text = disk[u] \/ \E i \in 1 .. Len(events') : events'[i].uri = u
  <2>1. u \in Uris /\ u \in FileUris
    BY <1>0
  <2>2. CASE e.uri # u
    <3>1. units'[u] = units[u]
      BY <1>0, <1>1, <1>3, <2>1, <2>2, ReloadOthers DEF ForgetDeleted, RemoveUnit
    <3>2. CASE \E i \in 1 .. Len(events) : events[i].uri = u
      <4>1. PICK i \in 1 .. Len(events) : events[i].uri = u
        BY <3>2
      <4>2. i - 1 \in 1 .. Len(events') /\ events'[i - 1].uri = u
        BY <1>2, <1>4, <2>2, <4>1
      <4>. QED
        BY <4>2
    <3>. QED
      BY <1>6, <3>1, <3>2 DEF DiskInv, StaleUnitsAreReported
  <2>3. CASE e.uri = u /\ \E j \in 1 .. Len(events) : j > 1 /\ events[j].uri = u
    <3>1. PICK j \in 1 .. Len(events) : j > 1 /\ events[j].uri = u
      BY <2>3
    <3>2. j - 1 \in 1 .. Len(events') /\ events'[j - 1].uri = u
      BY <1>2, <1>4, <3>1
    <3>. QED
      BY <3>2
  <2>4. CASE e.uri = u /\ ~\E j \in 1 .. Len(events) : j > 1 /\ events[j].uri = u
    <3>1. e.kind = "deleted" <=> disk[u] = None
      BY <1>2, <1>4, <2>4 DEF DiskInv, LastEventIsTrue
    <3>2. CASE e.kind = "deleted"
      BY <1>0, <1>1, <1>6, <2>1, <2>4, <3>1, <3>2
      DEF ForgetDeleted, RemoveUnit, IsOpenBuffer, NoUnit
    <3>3. CASE e.kind # "deleted"
      BY <1>0, <1>1, <1>6, <2>1, <2>4, <3>3, ReloadReads
    <3>. QED
      BY <3>2, <3>3
  <2>. QED
    BY <2>2, <2>3, <2>4
<1>7. StaleUnitsAreReported'
  BY <1>1, <1>6 DEF StaleUnitsAreReported
<1>8. ScanReadTheDisk'
  BY <1>1 DEF DiskInv, ScanReadTheDisk
<1>. QED
  BY <1>5, <1>7, <1>8

\* A change of a file is reported.
LEMMA WriteStep ==
  ASSUME DiskInv, QuietScan, QuietUntilWatched,
         NEW u \in Uris, NEW content \in Contents(u), WriteFile(u, content)
  PROVE  (ScanReadTheDisk /\ LastEventIsTrue /\ StaleUnitsAreReported)'
<1>. DEFINE Event == [uri : Uris, kind : {"changed", "deleted"}]
            e == [uri |-> u, kind |-> IF content = None THEN "deleted" ELSE "changed"]
            n == Len(events) + 1
<1>0. events \in Seq(Event) /\ disk \in [Uris -> FileContent]
  BY DiskFacts
<1>1. /\ events' = Append(events, e) /\ disk' = [disk EXCEPT ![u] = content]
      /\ UNCHANGED <<scan, units>> /\ scan.stage = "finished"
  BY DEF WriteFile
<1>2. e \in Event /\ e.uri = u /\ (e.kind = "deleted" <=> content = None)
  OBVIOUS
<1>. HIDE DEF Event, e
<1>3. /\ Len(events) \in Nat /\ Len(events') = n /\ events'[n] = e
      /\ n \in 1 .. Len(events')
      /\ \A i \in 1 .. Len(events) : events'[i] = events[i] /\ n > i
      /\ \A i \in 1 .. Len(events') : i = n \/ i \in 1 .. Len(events)
      /\ \A i \in 1 .. Len(events) : i \in 1 .. Len(events')
      /\ ~(\E i \in 1 .. Len(events') : i > n)
  BY <1>0, <1>1, <1>2
<1>. HIDE DEF n
<1>4. \A v \in Uris : disk'[v] = IF v = u THEN content ELSE disk[v]
  BY <1>0, <1>1
<1>5. \A i \in 1 .. Len(events) : events[i].uri \in Uris
  <2>1. \A i \in 1 .. Len(events) : events[i] \in Event
    BY <1>0
  <2>. QED
    BY <2>1 DEF Event
<1>6. LastEventIsTrue'
  <2>1. SUFFICES ASSUME NEW i \in 1 .. Len(events'),
                        \A j \in 1 .. Len(events') : j > i => events'[j].uri # events'[i].uri
                 PROVE  events'[i].kind = "deleted" <=> disk'[events'[i].uri] = None
    BY DEF LastEventIsTrue
  <2>2. CASE i = n
    BY <1>2, <1>3, <1>4, <2>2
  <2>3. CASE i \in 1 .. Len(events)
    <3>1. events'[i] = events[i] /\ events[i].uri # u
      BY <1>2, <1>3, <2>1, <2>3
    <3>2. \A j \in 1 .. Len(events) : j > i => events[j].uri # events[i].uri
      BY <1>3, <2>1, <3>1
    <3>. QED
      BY <1>4, <1>5, <2>3, <3>1, <3>2 DEF DiskInv, LastEventIsTrue
  <2>. QED
    BY <1>3, <2>2, <2>3
<1>7. StaleUnitsAreReported'
  <2>1. SUFFICES ASSUME NEW v \in ScannedUris, ~units[v].open, disk'[v] # Unreadable
                 PROVE  \/ units[v].text = disk'[v]
                        \/ \E i \in 1 .. Len(events') : events'[i].uri = v
    BY <1>1 DEF StaleUnitsAreReported
  <2>2. CASE v = u
    BY <1>2, <1>3, <2>2
  <2>3. CASE v # u
    <3>1. disk'[v] = disk[v]
      BY <1>4, <2>3, DiskFacts
    <3>. QED
      BY <1>1, <1>3, <2>1, <3>1 DEF DiskInv, StaleUnitsAreReported
  <2>. QED
    BY <2>2, <2>3
<1>8. ScanReadTheDisk'
  BY <1>1 DEF ScanReadTheDisk
<1>. QED
  BY <1>6, <1>7, <1>8

\* Closing reads the file of the unit it gives back.
LEMMA CloseReads ==
  ASSUME NEW index \in [Uris -> Unit], NEW u \in Uris, NEW content \in FileContent,
         NEW v \in FileUris
  PROVE  LET new == NoteClosed(index, u, content)
         IN  \/ new[v] = index[v] \/ new[v].open
             \/ v = u /\ (content = Unreadable \/ new[v].text = content)
<1>. DEFINE given == [index EXCEPT ![u].open = FALSE]
<1>1. v \in Uris
  BY IndexAssumption
<1>2. CASE ~index[u].open
  BY <1>2 DEF NoteClosed, IsOpenBuffer
<1>3. CASE index[u].open
  <2>1. given \in [Uris -> Unit]
    BY DEF Unit
  <2>2. v # u => given[v] = index[v]
    BY <1>1
  <2>3. NoteClosed(index, u, content) = ReloadFromDisk(given, u, content)
    BY <1>3 DEF NoteClosed, IsOpenBuffer
  <2>. HIDE DEF given
  <2>4. CASE v # u
    BY <1>1, <2>1, <2>2, <2>3, <2>4, ReloadOthers
  <2>5. CASE v = u
    BY <2>1, <2>3, <2>5, ReloadReads
  <2>. QED
    BY <2>4, <2>5
<1>. QED
  BY <1>2, <1>3

\* A commit only makes units open buffers'.
LEMMA CommitOpens ==
  ASSUME NEW index \in [Uris -> Unit], NEW docs, NEW u, NEW version, NEW t, NEW v \in Uris
  PROVE  LET new == CommitOpenAnalysis(index, docs, u, version, t)
         IN  new[v] = index[v] \/ new[v].open
BY DEF CommitOpenAnalysis, InsertUnit

\* The scan reads files and then installs what it read.
LEMMA ScanSteps ==
  ASSUME DiskInv, ScanStep
  PROVE  (ScanReadTheDisk /\ LastEventIsTrue /\ StaleUnitsAreReported)'
<1>0. /\ disk \in [Uris -> FileContent] /\ scan.found \in [Uris -> FileContent]
      /\ scan \in [stage : {"reading", "finished"}, left : SUBSET Uris,
                   found : [Uris -> FileContent]]
      /\ ScannedUris \subseteq Uris
  BY DiskFacts DEF TypeOK
<1>1. UNCHANGED <<disk, events>> /\ LastEventIsTrue'
  BY DEF ScanStep, ScanFile, ScanReplace, DiskInv, LastEventIsTrue
<1>2. ASSUME NEW u \in Uris, ScanFile(u) PROVE ScanReadTheDisk' /\ StaleUnitsAreReported'
  <2>1. /\ scan.stage = "reading" /\ scan'.stage = "reading"
        /\ scan'.left = scan.left \ {u}
        /\ \A v \in Uris : scan'.found[v] = IF v = u THEN disk[u] ELSE scan.found[v]
    BY <1>0, <1>2 DEF ScanFile
  <2>. QED
    BY <1>0, <1>1, <2>1 DEF DiskInv, ScanReadTheDisk, StaleUnitsAreReported
<1>3. ASSUME ScanReplace PROVE ScanReadTheDisk' /\ StaleUnitsAreReported'
  <2>1. /\ scan'.stage = "finished"
        /\ \A u \in ScannedUris : scan.found[u] = disk[u]
        /\ units' = ReplaceDiskUnits(units, scan.found)
    BY <1>0, <1>3 DEF ScanReplace, DiskInv, ScanReadTheDisk
  <2>2. ASSUME NEW u \in ScannedUris, ~units'[u].open, disk[u] # Unreadable
        PROVE  units'[u].text = disk[u]
    <3>1. disk[u] \in Texts \/ disk[u] = None
      BY <1>0, <2>2 DEF FileContent, MaybeText
    <3>. QED
      BY <1>0, <2>1, <2>2, <3>1, NoneAssumption DEF ReplaceDiskUnits, IsOpenBuffer, NoUnit
  <2>. QED
    BY <1>1, <2>1, <2>2 DEF ScanReadTheDisk, StaleUnitsAreReported
<1>. QED
  BY <1>1, <1>2, <1>3 DEF ScanStep

\* Every step keeps the invariant.
LEMMA DiskNext ==
  ASSUME QuietScan, QuietUntilWatched, DiskInv, [Next]_vars
  PROVE  DiskInv'
<1>. DEFINE Q == ScanReadTheDisk /\ LastEventIsTrue /\ StaleUnitsAreReported
<1>0. /\ units \in [Uris -> Unit] /\ disk \in [Uris -> FileContent] /\ HandlerWellFormed
      /\ ScannedUris \subseteq FileUris /\ ScannedUris \subseteq Uris
  BY DiskFacts
<1>1. ASSUME UNCHANGED <<units, disk, events, scan>> PROVE Q'
  BY <1>1, DiskUnitsStep
<1>2. ASSUME NEW u \in Uris, DidSaveNoText(u) PROVE Q'
  <2>1. units' = ReloadFromDisk(units, u, disk[u]) /\ UNCHANGED <<disk, events, scan>>
    BY <1>2 DEF DidSaveNoText, diskVars
  <2>2. ASSUME NEW v \in ScannedUris
        PROVE  \/ units'[v] = units[v] \/ units'[v].open
               \/ disk[v] = Unreadable \/ units'[v].text = disk[v]
    BY <1>0, <2>1, ReloadReads, ReloadOthers
  <2>. QED
    BY <2>1, <2>2, DiskUnitsStep
<1>3. ASSUME DidCloseNoteClosed PROVE Q'
  <2>1. /\ units' = NoteClosed(units, handler.uri, disk[handler.uri])
        /\ handler.uri \in Uris /\ UNCHANGED <<disk, events, scan>>
    BY <1>0, <1>3 DEF DidCloseNoteClosed, diskVars, HandlerWellFormed, HandlerIdle
  <2>2. ASSUME NEW v \in ScannedUris
        PROVE  \/ units'[v] = units[v] \/ units'[v].open
               \/ disk[v] = Unreadable \/ units'[v].text = disk[v]
    BY <1>0, <2>1, CloseReads
  <2>. QED
    BY <2>1, <2>2, DiskUnitsStep
<1>4. ASSUME NEW g \in Generations, AnalysisStep(g) PROVE Q'
  <2>1. UNCHANGED <<disk, events, scan>>
    BY <1>4 DEF AnalysisStep, Wake, Snapshot, AnalyzeText, CommitAnalysis, PublishAnalysis,
                CleanUpAnalysis, diskVars
  <2>2. \/ units' = units
        \/ units' = CommitOpenAnalysis(units, documents, analyses[g].uri,
                                       analyses[g].version, analyses[g].text)
    BY <1>4 DEF AnalysisStep, Wake, Snapshot, AnalyzeText, CommitAnalysis, PublishAnalysis,
                CleanUpAnalysis
  <2>3. \A v \in ScannedUris : units'[v] = units[v] \/ units'[v].open
    BY <1>0, <2>2, CommitOpens
  <2>. QED
    BY <2>1, <2>3, DiskUnitsStep
<1>5. ASSUME NEW g \in SaveGenerations, SaveStep(g) PROVE Q'
  <2>1. UNCHANGED <<disk, events, scan>>
    BY <1>5 DEF SaveStep, AnalyzeSavedText, CommitSave, CleanUpSave, diskVars
  <2>2. \/ units' = units
        \/ units' = CommitOpenAnalysis(units, documents, saves[g].uri,
                                       saves[g].version, saves[g].text)
    BY <1>5 DEF SaveStep, AnalyzeSavedText, CommitSave, CleanUpSave
  <2>3. \A v \in ScannedUris : units'[v] = units[v] \/ units'[v].open
    BY <1>0, <2>2, CommitOpens
  <2>. QED
    BY <2>1, <2>3, DiskUnitsStep
<1>6. ASSUME ClientStep PROVE Q'
  <2>1. ASSUME \/ Shutdown
               \/ \E u \in Uris, t \in Texts : DidOpen(u, t) \/ DidChange(u, t) \/ DidSave(u, t)
               \/ \E u \in Uris : DidChangeRejected(u) \/ DidClose(u)
        PROVE  UNCHANGED <<units, disk, events, scan>>
    BY <2>1 DEF Shutdown, DidOpen, DidChange, DidSave, DidChangeRejected, DidClose, diskVars
  <2>. QED
    BY <1>1, <1>2, <1>6, <2>1 DEF ClientStep
<1>7. ASSUME HandlerStep PROVE Q'
  <2>1. ASSUME DidOpenRequest \/ CancelAnalysis \/ CancelSaveIndex \/ DidClosePublish
               \/ InsertSaveTask
        PROVE  UNCHANGED <<units, disk, events, scan>>
    BY <2>1 DEF DidOpenRequest, CancelAnalysis, CancelSaveIndex, DidClosePublish,
                InsertSaveTask, diskVars
  <2>. QED
    BY <1>1, <1>3, <1>7, <2>1 DEF HandlerStep
<1>8. ASSUME RegisterWatcher \/ UNCHANGED vars PROVE Q'
  BY <1>1, <1>8 DEF RegisterWatcher, vars, diskVars
<1>9. ASSUME FileStep PROVE Q'
  BY <1>9, WriteStep DEF FileStep
<1>. HIDE DEF Q
<1>10. Q'
  BY <1>4, <1>5, <1>6, <1>7, <1>8, <1>9, EventStep, ScanSteps DEF Next, Q
<1>11. Typing'
  BY TypingNext DEF DiskInv
<1>. QED
  BY <1>10, <1>11 DEF Q, DiskInv

\* The server starts with the scan yet to read every file and no event.
LEMMA DiskInit == Init => DiskInv
<1>. SUFFICES ASSUME Init PROVE DiskInv
  OBVIOUS
<1>1. /\ scan.stage = "reading" /\ scan.left = ScannedUris /\ events = <<>>
  BY DEF Init
<1>. QED
  BY <1>1, TypingInit DEF DiskInv, ScanReadTheDisk, LastEventIsTrue, StaleUnitsAreReported

\* Once the scan is over and the file events are handled, every unit no buffer
\* owns is what its file holds (unless the file cannot be read), if no file
\* changes during the scan or without the watcher (server.rs: scan_workspace,
\* did_change_watched_files).
THEOREM DiskCorrect ==
  ASSUME QuietScan, QuietUntilWatched
  PROVE  Spec => []IndexFollowsDisk
<1>1. DiskInv => IndexFollowsDisk
  BY DEF DiskInv, StaleUnitsAreReported, IndexFollowsDisk
<1>2. DiskInv /\ [Next]_vars => DiskInv'
  BY DiskNext
<1>. QED
  BY <1>1, <1>2, DiskInit, PTL DEF Spec
================================================================================
