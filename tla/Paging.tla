------------------------------- MODULE Paging -------------------------------
(***************************************************************************)
(* The pages of internal/web that read issues in several steps, while      *)
(* events and clicks change them: the list with its "Load more" button     *)
(* (HandleIssues, ListIssues) and the detail page (HandleIssue), in one    *)
(* browser tab.  Every store call is one step.                             *)
(*                                                                         *)
(* Filters other than the status compare columns that this model leaves    *)
(* out; they go with the cursor in the same way.  The refresh that the     *)
(* stream causes is OpenIssues without a filter, or OpenIssue: the tab's   *)
(* address is that of neither the filter nor the later page (base.html).   *)
(***************************************************************************)
EXTENDS SqliteStore, SequencesExt

CONSTANTS PageSize,       \* issuesPageSize
          DetailSize,     \* events on a detail page
          MaxClock,       \* bound: seconds that pass
          MaxClicks,      \* bound: changes of a status
          None            \* no issue

VARIABLES clock,          \* time.Now().Unix(), never 0
          clicks,         \* history: changes of a status so far
          view,           \* what the tab shows
          shown,          \* history: issues shown since the list was opened
          lastRows,       \* history: times of the last rows that were followed by a page
          repeated,       \* history: issues shown again since
          movedBack,      \* history: shown issues whose last_seen_at fell since
          quiet           \* history: issues that matched then and have not changed

tabVars == <<view, shown, lastRows, repeated>>
vars == <<storeVars, clock, clicks, tabVars, movedBack, quiet>>

ASSUME SizesAssumption ==
    /\ PageSize \in Nat \ {0} /\ DetailSize \in Nat \ {0}
    /\ MaxClock \in Nat \ {0} /\ MaxClicks \in Nat
    /\ None \notin IssueIds

Filters == Statuses \cup {""}

(***************************************************************************)
(* list: filter, and the cursor of the button, 0 if there is none.         *)
(* detail: the issue's id, count and last event, and the events listed,    *)
(* which are still to be read when the page is "half".                     *)
(***************************************************************************)
View == [page : {"none", "list", "half", "detail"}, filter : Filters, nextCursor : Nat,
         issue : IssueIds \cup {None}, count : Nat, last : EventIds \cup {None},
         listed : SUBSET EventIds]

Empty == [page |-> "none", filter |-> "", nextCursor |-> 0, issue |-> None,
          count |-> 0, last |-> None, listed |-> {}]

TypeOK ==
    /\ StoreTypeOK
    /\ clock \in 1 .. MaxClock /\ clicks \in 0 .. MaxClicks
    /\ view \in View
    /\ shown \subseteq DOMAIN issues /\ repeated \subseteq shown
    /\ movedBack \subseteq shown /\ quiet \subseteq DOMAIN issues
    /\ lastRows \subseteq 1 .. MaxClock

Init ==
    /\ StoreInit
    /\ clock = 1 /\ clicks = 0
    /\ view = Empty
    /\ shown = {} /\ lastRows = {} /\ repeated = {} /\ movedBack = {} /\ quiet = {}

(***************************************************************************)
(* The writers.  An event may carry a time that is older than another's    *)
(* which is stored already (module Server).                                *)
(***************************************************************************)
Changes ==
    /\ quiet' = {i \in quiet : issues'[i] = issues[i]}
    /\ movedBack' = movedBack \cup {i \in shown : issues'[i].last_seen_at < issues[i].last_seen_at}
    /\ UNCHANGED <<clock, tabVars>>

RecordEvent(e, k, now, i) ==
    /\ now \in 1 .. clock
    /\ RecordNewIssue(e, k, now, i) \/ RecordKnownIssue(e, k, now, i)
    /\ Changes
    /\ UNCHANGED clicks

ChangeStatus(i, s) ==
    /\ clicks < MaxClicks
    /\ i \in DOMAIN issues
    /\ UpdateIssueStatus(i, s)
    /\ Changes
    /\ clicks' = clicks + 1

Tick ==
    /\ clock < MaxClock
    /\ clock' = clock + 1
    /\ UNCHANGED <<storeVars, clicks, tabVars, movedBack, quiet>>

(***************************************************************************)
(* HandleIssues.                                                           *)
(***************************************************************************)

\* The WHERE of ListIssues.  (Mutant: <= in place of <.)
MatchesInclusive(filter, cursor) ==
    {i \in DOMAIN issues : /\ filter = "" \/ issues[i].status = filter
                           /\ cursor = 0 \/ issues[i].last_seen_at <= cursor}

Matches(filter, cursor) ==
    {i \in DOMAIN issues : /\ filter = "" \/ issues[i].status = filter
                           /\ cursor = 0 \/ issues[i].last_seen_at < cursor}

\* What ListIssues may return: the first of the matches by last_seen_at,
\* with ties in any order.
ListIssues(filter, cursor, limit) ==
    {SubSeq(rows, 1, IF Len(rows) < limit THEN Len(rows) ELSE limit) :
        rows \in {seq \in SetToSeqs(Matches(filter, cursor)) :
                    \A m, n \in DOMAIN seq :
                        m < n => issues[seq[m]].last_seen_at >= issues[seq[n]].last_seen_at}}

\* One row more than a page tells that there is another one, which starts
\* below the last row shown.  (Mutant: below the row that was only counted.)
NextCursorOfExtraRow(rows) ==
    IF Len(rows) > PageSize THEN issues[rows[PageSize + 1]].last_seen_at ELSE 0

NextCursor(rows) ==
    IF Len(rows) > PageSize THEN issues[rows[PageSize]].last_seen_at ELSE 0

PageOf(rows) == {rows[n] : n \in DOMAIN rows \cap 1 .. PageSize}

\* The time of the last row, where another page follows.
LastRow(rows) ==
    IF Len(rows) > PageSize THEN {issues[rows[PageSize]].last_seen_at} ELSE {}

HandleIssues(filter, rows) ==
    /\ view' = [Empty EXCEPT !.page = "list", !.filter = filter, !.nextCursor = NextCursor(rows)]
    /\ UNCHANGED <<storeVars, clock, clicks>>

OpenIssues(filter) ==
    /\ \E rows \in ListIssues(filter, 0, PageSize + 1) :
          /\ HandleIssues(filter, rows)
          /\ shown' = PageOf(rows)
          /\ lastRows' = LastRow(rows)
    /\ repeated' = {} /\ movedBack' = {}
    /\ quiet' = Matches(filter, 0)

\* The button sends the filter and the cursor; its page replaces the one
\* before.
LoadMore ==
    /\ view.page = "list" /\ view.nextCursor > 0
    /\ \E rows \in ListIssues(view.filter, view.nextCursor, PageSize + 1) :
          /\ HandleIssues(view.filter, rows)
          /\ shown' = shown \cup PageOf(rows)
          /\ repeated' = repeated \cup (shown \cap PageOf(rows))
          /\ lastRows' = lastRows \cup LastRow(rows)
    /\ UNCHANGED <<movedBack, quiet>>

(***************************************************************************)
(* HandleIssue: GetIssue, then ListEventsByIssue.                          *)
(***************************************************************************)
LeavesList == shown' = {} /\ lastRows' = {} /\ repeated' = {} /\ movedBack' = {} /\ quiet' = {}

\* What ListEventsByIssue may return, ties in any order.
\* (Mutant: without ORDER BY.)
ListEventsUnordered(i, limit) == {S \in SUBSET EventsOf(i) :
    Cardinality(S) = IF Cardinality(EventsOf(i)) < limit THEN Cardinality(EventsOf(i)) ELSE limit}

ListEventsByIssue(i, limit) ==
    {S \in SUBSET EventsOf(i) :
        /\ Cardinality(S) = IF Cardinality(EventsOf(i)) < limit THEN Cardinality(EventsOf(i))
                            ELSE limit
        /\ \A e \in S, f \in EventsOf(i) \ S : events[e].received_at >= events[f].received_at}

OpenIssue(i) ==
    /\ i \in DOMAIN issues
    /\ view' = [Empty EXCEPT !.page = "half", !.issue = i, !.count = issues[i].event_count,
                             !.last = issues[i].last_event_id]
    /\ LeavesList
    /\ UNCHANGED <<storeVars, clock, clicks>>

ListEvents ==
    /\ view.page = "half"
    /\ \E S \in ListEventsByIssue(view.issue, DetailSize) :
          view' = [view EXCEPT !.page = "detail", !.listed = S]
    /\ UNCHANGED <<storeVars, clock, clicks, shown, lastRows, repeated, movedBack, quiet>>

Next ==
    \/ \E e \in EventIds, k \in GroupingKeys, now \in 1 .. MaxClock, i \in IssueIds :
          RecordEvent(e, k, now, i)
    \/ \E i \in IssueIds, s \in Statuses : ChangeStatus(i, s)
    \/ Tick
    \/ \E filter \in Filters : OpenIssues(filter)
    \/ LoadMore
    \/ \E i \in IssueIds : OpenIssue(i)
    \/ ListEvents

Spec == Init /\ [][Next]_vars

(***************************************************************************)
(* Properties.                                                             *)
(***************************************************************************)

\* Loading page after page shows no issue twice, whatever events and clicks
\* come in between, except one whose last_seen_at fell after it was shown.
RepeatsMeanTimeWentBack == repeated \subseteq movedBack

\* At the end of the list, every issue that matched when it was opened and
\* has not changed since has been shown, unless it was seen in the very
\* second of the last row of an earlier page: the cursor passes over the rest
\* of that second.
QuietIssuesAreShown ==
    view.page = "list" /\ view.nextCursor = 0
        => \A i \in quiet \ shown : issues[i].last_seen_at \in lastRows

\* The detail page lists what its header says, although the two are read
\* in two calls: as many events as it counts, as far as they fit, and the
\* last one among them unless a page of others is not older.
DetailAgreesWithItself ==
    view.page = "detail" =>
        /\ Cardinality(view.listed) >= IF view.count < DetailSize THEN view.count ELSE DetailSize
        /\ \/ view.last \in view.listed
           \/ /\ Cardinality(view.listed) = DetailSize
              /\ \A e \in view.listed : events[e].received_at >= events[view.last].received_at
=============================================================================
