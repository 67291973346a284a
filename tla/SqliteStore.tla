---------------------------- MODULE SqliteStore ----------------------------
(***************************************************************************)
(* The SQLite back end of internal/storage.  Open gives the pool a single  *)
(* connection (open.go:37-39), so a transaction holds the only connection  *)
(* there is: every store call is one atomic step of this module.           *)
(*                                                                         *)
(* The UNIQUE constraints of migrations/001_initial.sql (lines 60 and 80)  *)
(* are deliberately not guards here: the invariants show that on this back *)
(* end the lookups made inside the transaction never let one be reached.   *)
(***************************************************************************)
EXTENDS IssueTables

CONSTANTS Releases,      \* release names
          Names          \* file names of attachments and source maps

VARIABLES attachments,   \* table attachments: rows per <<event id, name>>
          sourceMaps     \* table source_maps: the <<release, name>> stored

storeVars == <<tableVars, attachments, sourceMaps>>

StoreTypeOK ==
    /\ TablesTypeOK
    /\ attachments \in [EventIds \X Names -> Nat]
    /\ sourceMaps \subseteq Releases \X Names

StoreInit ==
    /\ TablesInit
    /\ attachments = [x \in EventIds \X Names |-> 0]
    /\ sourceMaps = {}

(***************************************************************************)
(* The transaction RecordProcessedEvent, by the outcome it commits.  When  *)
(* it fails it rolls back: no table changes.                               *)
(***************************************************************************)

\* The event id is already stored: nothing is written, whatever the key.
RecordDuplicate(e, i) ==
    /\ HasEvent(e)
    /\ i = events[e].issue_id
    /\ UNCHANGED storeVars

\* First event of its grouping key: a new issue under a fresh random id.
\* (Mutant: the lookup by grouping key is skipped.)
RecordNewIssueUnchecked(e, k, now, i) ==
    /\ ~HasEvent(e)
    /\ i \in IssueIds \ DOMAIN issues
    /\ issues' = Put(issues, i, NewIssueRow(k, e, now))
    /\ CreateEvent(e, i, now)
    /\ UNCHANGED <<attachments, sourceMaps>>

RecordNewIssue(e, k, now, i) ==
    /\ ~HasEvent(e)
    /\ IssuesWithKey(k) = {}
    /\ i \in IssueIds \ DOMAIN issues
    /\ issues' = Put(issues, i, NewIssueRow(k, e, now))
    /\ CreateEvent(e, i, now)
    /\ UNCHANGED <<attachments, sourceMaps>>

\* One more event of a known issue; the count read is still the count.
\* (Mutant: the lookup by event id is skipped.)
RecordKnownIssueUndeduplicated(e, k, now, i) ==
    /\ i \in IssuesWithKey(k)
    /\ issues' = [issues EXCEPT
                    ![i] = RowAfterEvent(@, e, now, issues[i].event_count + 1)]
    /\ CreateEvent(e, i, now)
    /\ UNCHANGED <<attachments, sourceMaps>>

RecordKnownIssue(e, k, now, i) ==
    /\ ~HasEvent(e)
    /\ i \in IssuesWithKey(k)
    /\ issues' = [issues EXCEPT
                    ![i] = RowAfterEvent(@, e, now, issues[i].event_count + 1)]
    /\ CreateEvent(e, i, now)
    /\ UNCHANGED <<attachments, sourceMaps>>

(***************************************************************************)
(* The other writers.                                                      *)
(***************************************************************************)

UpdateIssueStatus(i, s) ==
    /\ SetIssueStatus(i, s)
    /\ UNCHANGED <<events, attachments, sourceMaps>>

\* StoreAttachment inserts a row under a fresh id: no deduplication.
StoreAttachment(e, n) ==
    /\ attachments' = [attachments EXCEPT ![<<e, n>>] = @ + 1]
    /\ UNCHANGED <<tableVars, sourceMaps>>

\* StoreSourceMap upserts on (project, release, filename).
StoreSourceMap(r, n) ==
    /\ sourceMaps' = sourceMaps \cup {<<r, n>>}
    /\ UNCHANGED <<tableVars, attachments>>

\* Attachments are only ever filed under an event that was stored.
AttachmentsHaveEvents ==
    \A e \in EventIds, n \in Names : attachments[<<e, n>>] > 0 => HasEvent(e)
=============================================================================
