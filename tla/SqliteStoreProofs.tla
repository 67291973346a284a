------------------------- MODULE SqliteStoreProofs -------------------------
(***************************************************************************)
(* Every operation of the SQLite store preserves the type of the tables    *)
(* and their consistency.  The lemmas are about single operations, so they *)
(* serve any module that is built on the store.                            *)
(***************************************************************************)
EXTENDS SqliteStore, IssueTablesProofs

\* The type of the two tables, always wanted together with StoreTypeOK.
USE DEF TablesTypeOK, tableVars

\* The inductive invariant: the properties of the tables, and the finiteness
\* that counting rows needs.
StoreInv ==
    /\ OneIssuePerGroupingKey
    /\ EventsHaveIssues
    /\ IsFiniteSet(DOMAIN events)
    /\ EventCountIsEventRows
    /\ SeenColumnsAreEvents

\* The empty tables are consistent.
LEMMA StoreInitCorrect == StoreInit => StoreTypeOK /\ StoreInv
<1> SUFFICES ASSUME StoreInit PROVE StoreTypeOK /\ StoreInv
  OBVIOUS
<1>1. DOMAIN issues = {} /\ DOMAIN events = {}
  BY DEF StoreInit, TablesInit
<1>2. StoreTypeOK
  BY <1>1 DEF StoreInit, TablesInit, StoreTypeOK
<1>3. IsFiniteSet(DOMAIN events)
  BY <1>1, FS_EmptySet
<1>4. StoreInv
  BY <1>1, <1>3 DEF StoreInv, OneIssuePerGroupingKey, EventsHaveIssues,
     EventCountIsEventRows, SeenColumnsAreEvents
<1> QED BY <1>2, <1>4

-----------------------------------------------------------------------------
(***************************************************************************)
(* The transaction RecordProcessedEvent, one lemma per outcome.            *)
(***************************************************************************)

\* A duplicate changes nothing.
LEMMA RecordDuplicateKeepsInv ==
    ASSUME StoreTypeOK, StoreInv, NEW e, NEW i, RecordDuplicate(e, i)
    PROVE  StoreTypeOK' /\ StoreInv'
BY DEF RecordDuplicate, storeVars, StoreTypeOK, StoreInv, OneIssuePerGroupingKey,
   EventsHaveIssues, EventCountIsEventRows, SeenColumnsAreEvents, EventsOf

\* The first event of a grouping key: the new issue has exactly that event.
LEMMA RecordNewIssueKeepsInv ==
    ASSUME StoreTypeOK, StoreInv,
           NEW e \in EventIds, NEW k \in GroupingKeys, NEW now \in Nat, NEW i,
           RecordNewIssue(e, k, now, i)
    PROVE  StoreTypeOK' /\ StoreInv'
<1>1. i \in IssueIds /\ i \notin DOMAIN issues
  BY DEF RecordNewIssue
<1>2. /\ DOMAIN issues' = DOMAIN issues \cup {i}
      /\ issues'[i] = [grouping_key |-> k, status |-> "open",
                       first_seen_at |-> now, last_seen_at |-> now,
                       event_count |-> 1, last_event_id |-> e]
      /\ \A j \in DOMAIN issues : issues'[j] = issues[j]
  BY <1>1 DEF RecordNewIssue, NewIssueRow, Put
<1>3. ~HasEvent(e) /\ CreateEvent(e, i, now)
  BY DEF RecordNewIssue
<1>4. /\ DOMAIN events' = DOMAIN events \cup {e}
      /\ events'[e] = [issue_id |-> i, received_at |-> now]
      /\ \A x \in DOMAIN events : events'[x] = events[x]
      /\ EventsOf(i)' = EventsOf(i) \cup {e}
      /\ \A j : j # i => EventsOf(j)' = EventsOf(j)
  BY <1>3, CreateEventFacts
<1>5. /\ IsFiniteSet(DOMAIN events')
      /\ Cardinality(EventsOf(i)') = Cardinality(EventsOf(i)) + 1
      /\ \A j : j # i => Cardinality(EventsOf(j)') = Cardinality(EventsOf(j))
  BY <1>3, CreateEventCounts DEF StoreInv
<1>6. EventsOf(i) = {}
  BY <1>1 DEF EventsOf, StoreInv, EventsHaveIssues
<1>7. StoreTypeOK'
  <2>1. issues' \in [DOMAIN issues' -> IssueRow] /\ DOMAIN issues' \subseteq IssueIds
    <3>1. issues'[i] \in IssueRow
      BY <1>2 DEF IssueRow, Statuses
    <3> QED BY <1>1, <1>2, <3>1 DEF StoreTypeOK, RecordNewIssue, NewIssueRow, Put
  <2>2. events' \in [DOMAIN events' -> EventRow] /\ DOMAIN events' \subseteq EventIds
    <3>1. events'[e] \in EventRow
      BY <1>1, <1>4 DEF EventRow
    <3> QED BY <1>3, <1>4, <3>1 DEF StoreTypeOK, CreateEvent, Put
  <2> QED BY <2>1, <2>2 DEF StoreTypeOK, RecordNewIssue
<1>8. OneIssuePerGroupingKey'
  BY <1>1, <1>2 DEF RecordNewIssue, IssuesWithKey, StoreInv, OneIssuePerGroupingKey
<1>9. EventsHaveIssues'
  BY <1>2, <1>4 DEF StoreInv, EventsHaveIssues
<1>10. EventCountIsEventRows'
  <2>1. Cardinality(EventsOf(i)') = 1
    BY <1>5, <1>6, FS_EmptySet
  <2> QED BY <1>1, <1>2, <1>5, <2>1 DEF StoreInv, EventCountIsEventRows
<1>11. SeenColumnsAreEvents'
  <2> SUFFICES ASSUME NEW j \in DOMAIN issues'
               PROVE  /\ issues'[j].last_event_id \in EventsOf(j)'
                      /\ events'[issues'[j].last_event_id].received_at
                            = issues'[j].last_seen_at
                      /\ \E x \in EventsOf(j)' :
                            events'[x].received_at = issues'[j].first_seen_at
    BY DEF SeenColumnsAreEvents
  <2>1. CASE j = i
    BY <2>1, <1>2, <1>4
  <2>2. CASE j # i
    <3>1. j \in DOMAIN issues /\ issues'[j] = issues[j] /\ EventsOf(j)' = EventsOf(j)
      BY <2>2, <1>2, <1>4
    <3>2. \A x \in EventsOf(j) : events'[x] = events[x]
      BY <1>4 DEF EventsOf
    <3> QED BY <3>1, <3>2 DEF StoreInv, SeenColumnsAreEvents
  <2> QED BY <2>1, <2>2
<1> QED BY <1>5, <1>7, <1>8, <1>9, <1>10, <1>11 DEF StoreInv

\* One more event of a known issue: its count, its last event and its status
\* change together with the events table.
LEMMA RecordKnownIssueKeepsInv ==
    ASSUME StoreTypeOK, StoreInv,
           NEW e \in EventIds, NEW k \in GroupingKeys, NEW now \in Nat, NEW i,
           RecordKnownIssue(e, k, now, i)
    PROVE  StoreTypeOK' /\ StoreInv'
<1>1. i \in DOMAIN issues /\ i \in IssueIds /\ issues[i] \in IssueRow
  BY DEF RecordKnownIssue, IssuesWithKey, StoreTypeOK
<1>2. /\ DOMAIN issues' = DOMAIN issues
      /\ \A j \in DOMAIN issues : j # i => issues'[j] = issues[j]
  BY <1>1 DEF RecordKnownIssue, RowAfterEvent, StoreTypeOK
<1>3. /\ issues'[i] \in IssueRow
      /\ issues'[i].grouping_key = issues[i].grouping_key
      /\ issues'[i].first_seen_at = issues[i].first_seen_at
      /\ issues'[i].last_seen_at = now
      /\ issues'[i].event_count = issues[i].event_count + 1
      /\ issues'[i].last_event_id = e
  <2>1. issues' = [issues EXCEPT
                     ![i] = [issues[i] EXCEPT !.status = StatusAfterEvent(@),
                                              !.last_seen_at = now,
                                              !.event_count = issues[i].event_count + 1,
                                              !.last_event_id = e]]
    BY <1>1 DEF RecordKnownIssue, RowAfterEvent, StoreTypeOK
  <2>2. StatusAfterEvent(issues[i].status) \in Statuses
    BY <1>1 DEF IssueRow, Statuses, StatusAfterEvent
  <2>3. issues[i].event_count + 1 \in Nat
    BY <1>1 DEF IssueRow
  <2> QED BY <1>1, <2>1, <2>2, <2>3 DEF IssueRow
<1>4. ~HasEvent(e) /\ CreateEvent(e, i, now)
  BY DEF RecordKnownIssue
<1>5. /\ DOMAIN events' = DOMAIN events \cup {e}
      /\ events'[e] = [issue_id |-> i, received_at |-> now]
      /\ \A x \in DOMAIN events : events'[x] = events[x]
      /\ EventsOf(i)' = EventsOf(i) \cup {e}
      /\ \A j : j # i => EventsOf(j)' = EventsOf(j)
  BY <1>4, CreateEventFacts
<1>6. /\ IsFiniteSet(DOMAIN events')
      /\ Cardinality(EventsOf(i)') = Cardinality(EventsOf(i)) + 1
      /\ \A j : j # i => Cardinality(EventsOf(j)') = Cardinality(EventsOf(j))
  BY <1>4, CreateEventCounts DEF StoreInv
<1>7. StoreTypeOK'
  <2>1. issues' \in [DOMAIN issues' -> IssueRow] /\ DOMAIN issues' \subseteq IssueIds
    BY <1>1, <1>2, <1>3 DEF StoreTypeOK, RecordKnownIssue, RowAfterEvent
  <2>2. events' \in [DOMAIN events' -> EventRow] /\ DOMAIN events' \subseteq EventIds
    <3>1. events'[e] \in EventRow
      BY <1>1, <1>5 DEF EventRow
    <3> QED BY <1>4, <1>5, <3>1 DEF StoreTypeOK, CreateEvent, Put
  <2> QED BY <2>1, <2>2 DEF StoreTypeOK, RecordKnownIssue
<1>8. OneIssuePerGroupingKey'
  <2>1. \A j \in DOMAIN issues : issues'[j].grouping_key = issues[j].grouping_key
    BY <1>2, <1>3
  <2> QED BY <1>2, <2>1 DEF StoreInv, OneIssuePerGroupingKey
<1>9. EventsHaveIssues'
  BY <1>1, <1>2, <1>5 DEF StoreInv, EventsHaveIssues
<1>10. EventCountIsEventRows'
  <2> SUFFICES ASSUME NEW j \in DOMAIN issues'
               PROVE  issues'[j].event_count = Cardinality(EventsOf(j)')
    BY DEF EventCountIsEventRows
  <2>1. j \in DOMAIN issues /\ issues[j].event_count = Cardinality(EventsOf(j))
    BY <1>2 DEF StoreInv, EventCountIsEventRows
  <2> QED BY <2>1, <1>2, <1>3, <1>6
<1>11. SeenColumnsAreEvents'
  <2> SUFFICES ASSUME NEW j \in DOMAIN issues'
               PROVE  /\ issues'[j].last_event_id \in EventsOf(j)'
                      /\ events'[issues'[j].last_event_id].received_at
                            = issues'[j].last_seen_at
                      /\ \E x \in EventsOf(j)' :
                            events'[x].received_at = issues'[j].first_seen_at
    BY DEF SeenColumnsAreEvents
  <2>0. \A x \in EventsOf(j) : events'[x] = events[x]
    BY <1>5 DEF EventsOf
  <2>1. CASE j = i
    <3>1. \E x \in EventsOf(i) : events[x].received_at = issues[i].first_seen_at
      BY <1>1 DEF StoreInv, SeenColumnsAreEvents
    <3> QED BY <2>0, <2>1, <3>1, <1>3, <1>5
  <2>2. CASE j # i
    <3>1. j \in DOMAIN issues /\ issues'[j] = issues[j] /\ EventsOf(j)' = EventsOf(j)
      BY <2>2, <1>2, <1>5
    <3> QED BY <2>0, <3>1 DEF StoreInv, SeenColumnsAreEvents
  <2> QED BY <2>1, <2>2
<1> QED BY <1>6, <1>7, <1>8, <1>9, <1>10, <1>11 DEF StoreInv

-----------------------------------------------------------------------------
(***************************************************************************)
(* The other writers.                                                      *)
(***************************************************************************)

\* A status change touches no other column.
LEMMA UpdateIssueStatusKeepsInv ==
    ASSUME StoreTypeOK, StoreInv, NEW i, NEW s \in Statuses, UpdateIssueStatus(i, s)
    PROVE  StoreTypeOK' /\ StoreInv'
<1>1. /\ DOMAIN issues' = DOMAIN issues
      /\ issues' \in [DOMAIN issues -> IssueRow]
      /\ \A j \in DOMAIN issues :
            /\ issues'[j].grouping_key = issues[j].grouping_key
            /\ issues'[j].first_seen_at = issues[j].first_seen_at
            /\ issues'[j].last_seen_at = issues[j].last_seen_at
            /\ issues'[j].event_count = issues[j].event_count
            /\ issues'[j].last_event_id = issues[j].last_event_id
  BY DEF UpdateIssueStatus, SetIssueStatus, StoreTypeOK, IssueRow
<1>2. events' = events /\ attachments' = attachments /\ sourceMaps' = sourceMaps
  BY DEF UpdateIssueStatus
<1>3. \A j : EventsOf(j)' = EventsOf(j)
  BY <1>2 DEF EventsOf
<1>4. StoreTypeOK'
  BY <1>1, <1>2 DEF StoreTypeOK
<1> QED BY <1>1, <1>2, <1>3, <1>4 DEF StoreInv, OneIssuePerGroupingKey,
        EventsHaveIssues, EventCountIsEventRows, SeenColumnsAreEvents

\* Attachments and source maps are tables of their own.
LEMMA StoreFilesKeepsInv ==
    ASSUME StoreTypeOK, StoreInv,
           \/ \E e \in EventIds, n \in Names : StoreAttachment(e, n)
           \/ \E r \in Releases, n \in Names : StoreSourceMap(r, n)
    PROVE  StoreTypeOK' /\ StoreInv'
<1>1. issues' = issues /\ events' = events
  BY DEF StoreAttachment, StoreSourceMap
<1>2. \A j : EventsOf(j)' = EventsOf(j)
  BY <1>1 DEF EventsOf
<1>3. StoreInv'
  BY <1>1, <1>2 DEF StoreInv, OneIssuePerGroupingKey, EventsHaveIssues,
     EventCountIsEventRows, SeenColumnsAreEvents
<1>4. StoreTypeOK'
  <2>1. CASE \E e \in EventIds, n \in Names : StoreAttachment(e, n)
    <3>1. PICK e \in EventIds, n \in Names : StoreAttachment(e, n)
      BY <2>1
    <3>2. attachments[<<e, n>>] + 1 \in Nat
      BY DEF StoreTypeOK
    <3> QED BY <3>1, <3>2 DEF StoreTypeOK, StoreAttachment
  <2>2. CASE \E r \in Releases, n \in Names : StoreSourceMap(r, n)
    BY <2>2 DEF StoreTypeOK, StoreSourceMap
  <2> QED BY <2>1, <2>2
<1> QED BY <1>3, <1>4

\* Steps that leave the tables alone.
LEMMA UnchangedKeepsInv ==
    ASSUME StoreTypeOK, StoreInv, UNCHANGED storeVars
    PROVE  StoreTypeOK' /\ StoreInv'
BY DEF storeVars, StoreTypeOK, StoreInv, OneIssuePerGroupingKey,
   EventsHaveIssues, EventCountIsEventRows, SeenColumnsAreEvents, EventsOf
=============================================================================
