----------------------------- MODULE DocumentStore -----------------------------
(***************************************************************************)
(* The open buffers of the language server, quon_lsp/src/document.rs.      *)
(*                                                                         *)
(* A store maps every URI to a document.  A closed URI is mapped to        *)
(* NoDocument, whose text is None.  A text is one of a few values: two     *)
(* buffers differ exactly when their texts differ, and the structured      *)
(* analysis cached for a text is represented by the text it was made from. *)
(***************************************************************************)
EXTENDS Integers

CONSTANTS Uris,    \* the URIs the client may open
          Texts,   \* the contents a buffer or a file may have
          None     \* "no text": a closed buffer, an empty cache, no file

ASSUME NoneAssumption == None \notin Texts /\ None \notin Uris

MaybeText == Texts \cup {None}

Document == [text : MaybeText, version : Int, cached : MaybeText]

NoDocument == [text |-> None, version |-> 0, cached |-> None]

IsOpen(docs, u) == docs[u].text # None

\* A buffer starts with no analysis.
OpenDocument(docs, u, t, v) ==
  [docs EXCEPT ![u] = [text |-> t, version |-> v, cached |-> None]]

CloseDocument(docs, u) == [docs EXCEPT ![u] = NoDocument]

\* Mutant: an edit keeps the analysis of the text before it.
ApplyChangesKeepingCache(docs, u, t, v) ==
  [docs EXCEPT ![u] = [@ EXCEPT !.text = t, !.version = v]]

\* All the edits of one notification apply, and the old analysis is dropped.
ApplyChanges(docs, u, t, v) ==
  [docs EXCEPT ![u] = [text |-> t, version |-> v, cached |-> None]]

IsCurrentVersion(docs, u, v) == IsOpen(docs, u) /\ docs[u].version = v

\* Mutant: the analysis is stored for whatever version is open.
StoreCachedAnalysisIfOpen(docs, u, v, t) ==
  IF IsOpen(docs, u) THEN [docs EXCEPT ![u].cached = t] ELSE docs

\* store_cached_analysis_if_current: nothing changes for another version.
StoreCachedAnalysisIfCurrent(docs, u, v, t) ==
  IF IsCurrentVersion(docs, u, v) THEN [docs EXCEPT ![u].cached = t] ELSE docs
================================================================================
