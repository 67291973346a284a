--------------------------- MODULE PostgresStore ---------------------------
(***************************************************************************)
(* RecordProcessedEvent and UpdateIssueStatus on PostgreSQL.  BeginTx with *)
(* nil options is READ COMMITTED and the pool is not limited, so the       *)
(* statements of concurrent transactions interleave:                       *)
(*   - a SELECT sees the rows committed when it starts;                    *)
(*   - an UPDATE waits for an uncommitted UPDATE of its row, then applies  *)
(*     to the row as committed last, with parameters fixed before;         *)
(*   - an INSERT waits for an uncommitted INSERT of the same unique key,   *)
(*     and fails if the key is committed;                                  *)
(*   - a failed statement aborts its transaction, and the Commit the code  *)
(*     calls after a unique violation rolls back and returns an error.     *)
(* The schema is taken to be in place.  A retry is another request with    *)
(* the same item; a crash of the process is a failure of every request.    *)
(***************************************************************************)
EXTENDS IssueTables

CONSTANTS Requests,      \* calls of RecordProcessedEvent
          Items,         \* what they record: an event id and a grouping key
          Clicks,        \* calls of UpdateIssueStatus
          MaxClock,      \* bound: seconds that pass
          None           \* no issue yet

VARIABLES clock,         \* time.Now().Unix()
          tx,            \* the local variables and uncommitted rows of a call
          clicked        \* the clicks that have been served

vars == <<tableVars, clock, tx, clicked>>

ASSUME ItemsAssumption == Items \subseteq [id : EventIds, key : GroupingKeys]
ASSUME ClockAssumption == MaxClock \in Nat
ASSUME NoneAssumption == None \notin IssueIds

(***************************************************************************)
(* pc names the next statement; count is issue.EventCount as it was read;  *)
(* writes holds the uncommitted row of table issues, if any, which is also *)
(* the lock on it; the event row is pending when pc is "commit".           *)
(***************************************************************************)
Statement == {"find_event", "find_issue", "insert_issue", "update_issue",
              "insert_event", "commit"}

IsTransaction(r) ==
    /\ r.pc \in Statement \cup {"idle", "done"}
    /\ r.pc # "idle" => r.item \in Items
    /\ r.now \in Nat /\ r.count \in Nat /\ r.newIssue \in BOOLEAN
    /\ r.issue \in IssueIds \cup {None}
    /\ DOMAIN r.writes \subseteq {r.issue} \ {None}
    /\ \A i \in DOMAIN r.writes : r.writes[i] \in IssueRow
    /\ r.reply \in {"none", "new", "known", "duplicate", "conflict", "failed"}

TypeOK ==
    /\ TablesTypeOK
    /\ clock \in Nat
    /\ DOMAIN tx = Requests /\ \A r \in Requests : IsTransaction(tx[r])
    /\ clicked \subseteq Clicks

NoRow == [i \in {} |-> i]

Init ==
    /\ TablesInit
    /\ clock = 0
    /\ tx = [r \in Requests |->
               [pc |-> "idle", item |-> None, now |-> 0, count |-> 0,
                newIssue |-> FALSE, issue |-> None, writes |-> NoRow,
                reply |-> "none"]]
    /\ clicked = {}

(***************************************************************************)
(* Locks.                                                                  *)
(***************************************************************************)

\* Another transaction has an uncommitted version of the stored row i.
RowLocked(r, i) == \E q \in Requests \ {r} : i \in DOMAIN tx[q].writes

\* Another transaction has inserted, uncommitted, an issue with key k.
KeyLocked(r, k) ==
    \E q \in Requests \ {r} : \E i \in DOMAIN tx[q].writes \ DOMAIN issues :
        tx[q].writes[i].grouping_key = k

\* Another transaction has inserted, uncommitted, an event with id e.
EventLocked(r, e) ==
    \E q \in Requests \ {r} : tx[q].pc = "commit" /\ tx[q].item.id = e

(***************************************************************************)
(* RecordProcessedEvent.                                                   *)
(***************************************************************************)
At(r, pc) == tx[r].pc = pc /\ UNCHANGED <<clock, clicked>>

\* The transaction is over; Rollback is deferred, so its row is dropped too.
Ended(r, reply) == [tx[r] EXCEPT !.pc = "done", !.writes = NoRow, !.reply = reply]

\* The handler reads the time and calls the store, which begins a transaction.
Begin(r, item) ==
    /\ At(r, "idle")
    /\ tx' = [tx EXCEPT ![r].pc = "find_event", ![r].item = item, ![r].now = clock]
    /\ UNCHANGED tableVars

FindEvent(r) ==
    /\ At(r, "find_event")
    /\ tx' = [tx EXCEPT ![r] = IF HasEvent(@.item.id)
                               THEN Ended(r, "duplicate")
                               ELSE [@ EXCEPT !.pc = "find_issue"]]
    /\ UNCHANGED tableVars

\* GetIssueByGroupingKey returns a row; its count is used two statements on.
FindIssue(r) ==
    /\ At(r, "find_issue")
    /\ \E i \in IssuesWithKey(tx[r].item.key) :
          tx' = [tx EXCEPT ![r].pc = "update_issue", ![r].issue = i,
                           ![r].count = issues[i].event_count]
    /\ UNCHANGED tableVars

\* No row: a random id is drawn.
FindNoIssue(r) ==
    /\ At(r, "find_issue")
    /\ IssuesWithKey(tx[r].item.key) = {}
    /\ \E i \in IssueIds \ (DOMAIN issues \cup {tx[q].issue : q \in Requests}) :
          tx' = [tx EXCEPT ![r].pc = "insert_issue", ![r].issue = i,
                           ![r].newIssue = TRUE]
    /\ UNCHANGED tableVars

\* Transaction r writes row as its version of row i of table issues.
Write(r, i, row) ==
    /\ tx' = [tx EXCEPT ![r].pc = "insert_event", ![r].writes = Put(NoRow, i, row)]
    /\ UNCHANGED tableVars

\* (Mutants: the schema has no UNIQUE constraint on the grouping key; the
\* INSERT is an upsert.)
InsertIssueUnconstrained(r) ==
    /\ At(r, "insert_issue")
    /\ Write(r, tx[r].issue, NewIssueRow(tx[r].item.key, tx[r].item.id, tx[r].now))

InsertIssueUpserts(r) ==
    /\ At(r, "insert_issue")
    /\ ~KeyLocked(r, tx[r].item.key)
    /\ LET known == IssuesWithKey(tx[r].item.key)
           i == IF known = {} THEN tx[r].issue ELSE CHOOSE j \in known : TRUE
           row == NewIssueRow(tx[r].item.key, tx[r].item.id, tx[r].now)
       IN  /\ ~RowLocked(r, i)
           /\ tx' = [tx EXCEPT ![r].pc = "insert_event", ![r].issue = i,
                               ![r].writes = Put(NoRow, i, row)]
           /\ UNCHANGED tableVars

InsertIssue(r) ==
    /\ At(r, "insert_issue")
    /\ ~KeyLocked(r, tx[r].item.key)
    /\ IssuesWithKey(tx[r].item.key) = {}
    /\ Write(r, tx[r].issue, NewIssueRow(tx[r].item.key, tx[r].item.id, tx[r].now))

\* UNIQUE (project_id, grouping_key) is violated: "create issue" fails.
\* (Mutant: every unique violation is taken for a duplicate event.)
IssueTakenIsDuplicate(r) ==
    /\ At(r, "insert_issue")
    /\ IssuesWithKey(tx[r].item.key) # {}
    /\ tx' = [tx EXCEPT ![r] = Ended(r, "duplicate")]
    /\ UNCHANGED tableVars

IssueTaken(r) ==
    /\ At(r, "insert_issue")
    /\ IssuesWithKey(tx[r].item.key) # {}
    /\ tx' = [tx EXCEPT ![r] = Ended(r, "conflict")]
    /\ UNCHANGED tableVars

UpdateIssue(r) ==
    /\ At(r, "update_issue")
    /\ ~RowLocked(r, tx[r].issue)
    /\ Write(r, tx[r].issue, RowAfterEvent(issues[tx[r].issue], tx[r].item.id,
                                           tx[r].now, tx[r].count + 1))

InsertEvent(r) ==
    /\ At(r, "insert_event")
    /\ ~EventLocked(r, tx[r].item.id)
    /\ ~HasEvent(tx[r].item.id)
    /\ tx' = [tx EXCEPT ![r].pc = "commit"]
    /\ UNCHANGED tableVars

\* UNIQUE (project_id, event_id) is violated: isDuplicateConstraint holds,
\* but Commit of the aborted transaction fails and so does the request.
\* (Mutants: ON CONFLICT DO NOTHING, with the issue's new row committed; the
\* transaction is left open.)
EventTakenIgnored(r) ==
    /\ At(r, "insert_event")
    /\ HasEvent(tx[r].item.id)
    /\ issues' = Put(issues, tx[r].issue, tx[r].writes[tx[r].issue])
    /\ tx' = [tx EXCEPT ![r] = Ended(r, "duplicate")]
    /\ UNCHANGED events

EventTakenLeftOpen(r) ==
    /\ At(r, "insert_event")
    /\ HasEvent(tx[r].item.id)
    /\ tx' = [tx EXCEPT ![r].pc = "done", ![r].reply = "conflict"]
    /\ UNCHANGED tableVars

EventTaken(r) ==
    /\ At(r, "insert_event")
    /\ HasEvent(tx[r].item.id)
    /\ tx' = [tx EXCEPT ![r] = Ended(r, "conflict")]
    /\ UNCHANGED tableVars

\* Both rows become visible at once.  The connection may be lost before
\* the caller hears of it.
Commit(r) ==
    /\ At(r, "commit")
    /\ issues' = Put(issues, tx[r].issue, tx[r].writes[tx[r].issue])
    /\ CreateEvent(tx[r].item.id, tx[r].issue, tx[r].now)
    /\ \E reply \in {IF tx[r].newIssue THEN "new" ELSE "known", "failed"} :
          tx' = [tx EXCEPT ![r] = Ended(r, reply)]

\* The connection or the client is lost before the commit: all is undone.
Fail(r) ==
    /\ tx[r].pc \in Statement
    /\ tx' = [tx EXCEPT ![r] = Ended(r, "failed")]
    /\ UNCHANGED <<tableVars, clock, clicked>>

(***************************************************************************)
(* UpdateIssueStatus is one statement; it waits for the lock on the row.   *)
(***************************************************************************)
Click(c, i, s) ==
    /\ c \notin clicked
    /\ i \in DOMAIN issues => \A q \in Requests : i \notin DOMAIN tx[q].writes
    /\ SetIssueStatus(i, s)
    /\ clicked' = clicked \cup {c}
    /\ UNCHANGED <<events, clock, tx>>

Tick ==
    /\ clock < MaxClock
    /\ clock' = clock + 1
    /\ UNCHANGED <<tableVars, tx, clicked>>

Quiet ==
    /\ \A r \in Requests : tx[r].pc = "done"
    /\ clicked = Clicks
    /\ UNCHANGED vars

Step(r) ==
    \/ FindEvent(r) \/ FindIssue(r) \/ FindNoIssue(r)
    \/ InsertIssue(r) \/ IssueTaken(r) \/ UpdateIssue(r)
    \/ InsertEvent(r) \/ EventTaken(r) \/ Commit(r)

Next ==
    \/ \E r \in Requests : Step(r) \/ Fail(r) \/ \E item \in Items : Begin(r, item)
    \/ \E c \in Clicks, i \in IssueIds, s \in Statuses : Click(c, i, s)
    \/ Tick
    \/ Quiet

Spec == Init /\ [][Next]_vars

(***************************************************************************)
(* Properties.                                                             *)
(***************************************************************************)

\* event_count never exceeds the rows of the issue, and an issue is never
\* shown with no event: updates may be lost, but none is invented.
CountsAreBounded ==
    \A i \in DOMAIN issues :
        issues[i].event_count \in 1 .. Cardinality(EventsOf(i))

\* A call that returns no error has its event in the table.
RecordedOrKnown ==
    \A r \in Requests :
        tx[r].reply \in {"new", "known", "duplicate"} => HasEvent(tx[r].item.id)

\* CHANGELOG.md:29, a notification "fires once on new issue creation": of the
\* calls with one grouping key, whichever ids they drew, at most one is told
\* that it created an issue, and the issue it was told of is the key's.
OneCreatorPerKey ==
    /\ \A q, r \in Requests :
          tx[q].reply = "new" /\ tx[r].reply = "new" /\ tx[q].item.key = tx[r].item.key
          => q = r
    /\ \A r \in Requests :
          tx[r].reply = "new" => tx[r].issue \in IssuesWithKey(tx[r].item.key)

\* The CASE is evaluated on the latest row, so the status survives what the
\* count does not: with the true number of rows as its count, the store is
\* still a ledger.
Ledger == INSTANCE IssueLedger WITH
    Ids <- EventIds, Keys <- GroupingKeys,
    ledger <- KeyOfEvent, status <- StatusOfKey,
    count <- [k \in KeysSeen |-> Cardinality(EventsOf(TheIssue(k)))]

ImplementsLedger == Ledger!Spec

\* The statement of call r has to wait for another transaction.
Waits(r) ==
    \/ tx[r].pc = "insert_issue" /\ KeyLocked(r, tx[r].item.key)
    \/ tx[r].pc = "update_issue" /\ RowLocked(r, tx[r].issue)
    \/ tx[r].pc = "insert_event" /\ EventLocked(r, tx[r].item.id)

\* No deadlock and no lock that outlives its transaction: whenever a call
\* waits, some call in progress does not, so all of them return in the end.
SomeCallRuns ==
    \A r \in Requests :
        Waits(r) => \E q \in Requests : tx[q].pc \in Statement /\ ~Waits(q)

\* postgres_store.go:320-328: an event found to be stored only when it is
\* inserted is reported as a Duplicate, unless the database is lost.
LateDuplicatesAreReported ==
    [][\A r \in Requests :
          /\ tx[r].pc = "insert_event" /\ HasEvent(tx[r].item.id)
          /\ tx'[r].pc = "done"
          => tx'[r].reply \in {"duplicate", "failed"}]_vars
=============================================================================
