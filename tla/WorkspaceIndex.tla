----------------------------- MODULE WorkspaceIndex -----------------------------
(***************************************************************************)
(* The directory-scoped index of .qn files, quon_lsp/src/workspace.rs.     *)
(*                                                                         *)
(* A unit is the text whose analysis is indexed and the flag               *)
(* from_open_buffer.  A URI without a unit is mapped to NoUnit.  The disk  *)
(* maps a URI to a text, to None (no file) or to Unreadable (a file that   *)
(* read_to_string rejects).                                                *)
(***************************************************************************)
EXTENDS DocumentStore

CONSTANTS FileUris,     \* the URIs with a file path, the only ones indexed
          SkippedUris,  \* the files the scan of the roots does not visit
          Unreadable    \* the content of a file that cannot be read

ASSUME IndexAssumption ==
  /\ SkippedUris \subseteq FileUris
  /\ FileUris \subseteq Uris
  /\ Unreadable \notin Texts \cup {None}

Unit == [text : MaybeText, open : BOOLEAN]

NoUnit == [text |-> None, open |-> FALSE]

FileContent == MaybeText \cup {Unreadable}

HasUnit(units, u) == units[u].text # None

IsOpenBuffer(units, u) == units[u].open

RemoveUnit(units, u) == [units EXCEPT ![u] = NoUnit]

\* insert_unit: a URI with no directory is ignored, and an open buffer is
\* never overwritten by a disk unit.
InsertUnit(units, u, t, open) ==
  IF u \notin FileUris \/ (IsOpenBuffer(units, u) /\ ~open)
  THEN units
  ELSE [units EXCEPT ![u] = [text |-> t, open |-> open]]

\* Mutant: the version is checked only when the task starts.
CommitAlways(units, docs, u, v, t) == InsertUnit(units, u, t, TRUE)

\* commit_open_analysis: the document lock is held by the caller.
CommitOpenAnalysis(units, docs, u, v, t) ==
  IF IsCurrentVersion(docs, u, v) THEN InsertUnit(units, u, t, TRUE) ELSE units

\* reload_from_disk: an unreadable file leaves the unit as it was.
ReloadFromDisk(units, u, content) ==
  IF IsOpenBuffer(units, u) THEN units
  ELSE IF u \notin FileUris \/ content = None THEN RemoveUnit(units, u)
  ELSE IF content = Unreadable THEN units
  ELSE InsertUnit(units, u, content, FALSE)

\* Mutant: closing drops the unit instead of going back to the disk.
NoteClosedForget(units, u, content) ==
  IF IsOpenBuffer(units, u) THEN RemoveUnit(units, u) ELSE units

\* note_closed: the unit of an open buffer goes back to the disk.
NoteClosed(units, u, content) ==
  IF IsOpenBuffer(units, u)
  THEN ReloadFromDisk([units EXCEPT ![u].open = FALSE], u, content)
  ELSE units

\* Mutant: the scan replaces every unit.
ReplaceAllUnits(units, scanned) ==
  [u \in Uris |-> IF scanned[u] \in Texts
                  THEN [text |-> scanned[u], open |-> FALSE] ELSE NoUnit]

\* replace_disk_units: open buffers are kept, every other unit is dropped,
\* and the scanned files without an open buffer are inserted.
ReplaceDiskUnits(units, scanned) ==
  [u \in Uris |->
     IF IsOpenBuffer(units, u) THEN units[u]
     ELSE IF scanned[u] \in Texts THEN [text |-> scanned[u], open |-> FALSE]
     ELSE NoUnit]

\* One entry of did_change_watched_files of kind DELETED.
ForgetDeleted(units, u) ==
  IF IsOpenBuffer(units, u) THEN units ELSE RemoveUnit(units, u)
================================================================================
