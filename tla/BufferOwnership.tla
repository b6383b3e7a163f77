----------------------------- MODULE BufferOwnership -----------------------------
(***************************************************************************)
(* What the language server promises of its answers, without its tasks:    *)
(*  - intelligence about a buffer is always intelligence about its text;   *)
(*  - the workspace index takes a buffer over with the text it has at that *)
(*    moment, and gives it back to the disk only after the buffer closes.  *)
(***************************************************************************)
CONSTANTS Uris, Texts, None, FileUris

VARIABLES buffer,  \* the text of each open buffer, None when closed
          intel,   \* the text each buffer's intelligence was made from, or None
          index    \* the indexed text of each URI, and whether a buffer owns it

vars == <<buffer, intel, index>>

IndexEntry == [text : Texts \cup {None}, open : BOOLEAN]

Init ==
  /\ buffer = [u \in Uris |-> None]
  /\ intel = [u \in Uris |-> None]
  /\ index = [u \in Uris |-> [text |-> None, open |-> FALSE]]

\* The user opens or edits a buffer: what was known about it is dropped.
Edit(u, t) ==
  /\ buffer' = [buffer EXCEPT ![u] = t]
  /\ intel' = [intel EXCEPT ![u] = None]
  /\ UNCHANGED index

Close(u) ==
  /\ buffer' = [buffer EXCEPT ![u] = None]
  /\ intel' = [intel EXCEPT ![u] = None]
  /\ UNCHANGED index

\* The index takes over a file from the buffer that is open for it.
Claim(u) ==
  /\ u \in FileUris /\ buffer[u] # None
  /\ index' = [index EXCEPT ![u] = [text |-> buffer[u], open |-> TRUE]]

Save(u) == Claim(u) /\ UNCHANGED <<buffer, intel>>

Analyze(u) ==
  /\ buffer[u] # None
  /\ intel' = [intel EXCEPT ![u] = buffer[u]]
  /\ IF u \in FileUris THEN Claim(u) ELSE UNCHANGED index
  /\ UNCHANGED buffer

\* The disk changes entries no buffer owns, and never makes one owned.
SyncDisk ==
  /\ index' \in [Uris -> IndexEntry]
  /\ \A u \in Uris : IF index[u].open THEN index'[u] = index[u]
                     ELSE ~index'[u].open
  /\ UNCHANGED <<buffer, intel>>

\* A closed buffer hands its entry back.
Release(u) ==
  /\ buffer[u] = None
  /\ \E t \in Texts \cup {None} :
       index' = [index EXCEPT ![u] = [text |-> t, open |-> FALSE]]
  /\ UNCHANGED <<buffer, intel>>

Next ==
  \/ \E u \in Uris : Close(u) \/ Save(u) \/ Analyze(u) \/ Release(u)
  \/ \E u \in Uris, t \in Texts : Edit(u, t)
  \/ SyncDisk

Spec == Init /\ [][Next]_vars
================================================================================
