---------------------------- MODULE IssueTables ----------------------------
(***************************************************************************)
(* The tables issues and events, which both back ends share: the schema,   *)
(* what their statements do to a row, and what the tables promise.         *)
(*                                                                         *)
(* Only project "1" can exist (Bootstrap is the only insert into projects  *)
(* and runs once), so the project column of every key is left out.  So are *)
(* the columns that copy the text of the latest event (title, culprit,     *)
(* platform, environment, level): last_event_id stands for them.           *)
(***************************************************************************)
EXTENDS Naturals, FiniteSets

CONSTANTS IssueIds,      \* random ids of issue rows
          EventIds,      \* event ids, sent by SDKs or generated
          GroupingKeys   \* values of buildGroupingKey

VARIABLES issues,        \* table issues: a row per stored issue id
          events         \* table events: a row per stored event id

tableVars == <<issues, events>>

Statuses == {"open", "resolved", "ignored"}

IssueRow == [grouping_key : GroupingKeys, status : Statuses,
             first_seen_at : Nat, last_seen_at : Nat,
             event_count : Nat, last_event_id : EventIds]

EventRow == [issue_id : IssueIds, received_at : Nat]

TablesTypeOK ==
    /\ DOMAIN issues \subseteq IssueIds
    /\ issues \in [DOMAIN issues -> IssueRow]
    /\ DOMAIN events \subseteq EventIds
    /\ events \in [DOMAIN events -> EventRow]

TablesInit ==
    /\ issues = [i \in {} |-> i]
    /\ events = [e \in {} |-> e]

\* Table t after its row k has been inserted or replaced by row.
Put(t, k, row) == [x \in DOMAIN t \cup {k} |-> IF x = k THEN row ELSE t[x]]

(***************************************************************************)
(* Statements.                                                             *)
(***************************************************************************)

\* GetEventByProjectAndEventID finds a row.
HasEvent(e) == e \in DOMAIN events

\* GetIssueByGroupingKey: the rows it may return.
IssuesWithKey(k) == {i \in DOMAIN issues : issues[i].grouping_key = k}

\* The row CreateIssue inserts on the first event of a grouping key.
NewIssueRow(k, e, now) ==
    [grouping_key |-> k, status |-> "open", first_seen_at |-> now,
     last_seen_at |-> now, event_count |-> 1, last_event_id |-> e]

\* The CASE of the UPDATE statement: an event reopens a resolved issue only.
\* (Mutants: the CASE is missing; it covers ignored issues too; it has a
\* status that nothing else knows.)
StatusAfterEventKept(s) == s
StatusAfterEventOpen(s) == "open"
StatusAfterEventUnknown(s) == IF s = "resolved" THEN "reopened" ELSE s
StatusAfterEvent(s) == IF s = "resolved" THEN "open" ELSE s

\* The row UpdateIssueAfterEvent leaves, with the count its caller computed.
\* (Mutant: last_event_id is not among the columns set.)
RowAfterEventLosesLast(row, e, now, count) ==
    [row EXCEPT !.status = StatusAfterEvent(@), !.last_seen_at = now,
                !.event_count = count]

RowAfterEvent(row, e, now, count) ==
    [row EXCEPT !.status = StatusAfterEvent(@), !.last_seen_at = now,
                !.event_count = count, !.last_event_id = e]

\* CreateEvent inserts the row that links the event to its issue.
CreateEvent(e, i, now) ==
    events' = Put(events, e, [issue_id |-> i, received_at |-> now])

\* UpdateIssueStatus: an UPDATE that matches no row is not an error.
\* (Mutant: an upsert, which would store a row with a status only.)
SetIssueStatusUpserts(i, s) ==
    issues' = IF i \in DOMAIN issues
              THEN [issues EXCEPT ![i].status = s]
              ELSE Put(issues, i, [status |-> s])

SetIssueStatus(i, s) ==
    issues' = IF i \in DOMAIN issues THEN [issues EXCEPT ![i].status = s] ELSE issues

(***************************************************************************)
(* What the tables promise.                                                *)
(***************************************************************************)

\* Events of issue i.
EventsOf(i) == {e \in DOMAIN events : events[e].issue_id = i}

\* No two issues share a grouping key, however requests interleave.  On
\* SQLite the UNIQUE (project_id, grouping_key) constraint is never what
\* saves it, on PostgreSQL it is.
OneIssuePerGroupingKey ==
    \A i, j \in DOMAIN issues :
        issues[i].grouping_key = issues[j].grouping_key => i = j

\* The event_count column, maintained by hand as a read value plus one, is
\* the number of rows of the events table that belong to the issue.
EventCountIsEventRows ==
    \A i \in DOMAIN issues : issues[i].event_count = Cardinality(EventsOf(i))

\* Every event row refers to a stored issue (the foreign key is never tripped).
EventsHaveIssues == \A e \in DOMAIN events : events[e].issue_id \in DOMAIN issues

\* last_event_id names a row of the issue's own events, received at
\* last_seen_at; first_seen_at is when one of its events was received.
SeenColumnsAreEvents ==
    \A i \in DOMAIN issues :
        /\ issues[i].last_event_id \in EventsOf(i)
        /\ events[issues[i].last_event_id].received_at = issues[i].last_seen_at
        /\ \E e \in EventsOf(i) : events[e].received_at = issues[i].first_seen_at

(***************************************************************************)
(* The tables read through their grouping keys: what a refinement of       *)
(* IssueLedger maps its variables to.                                      *)
(***************************************************************************)
KeysSeen == {issues[i].grouping_key : i \in DOMAIN issues}
TheIssue(k) == CHOOSE i \in DOMAIN issues : issues[i].grouping_key = k

KeyOfEvent == [e \in DOMAIN events |-> issues[events[e].issue_id].grouping_key]
StatusOfKey == [k \in KeysSeen |-> issues[TheIssue(k)].status]
=============================================================================
