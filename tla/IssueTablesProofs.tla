------------------------- MODULE IssueTablesProofs -------------------------
(***************************************************************************)
(* Facts about the tables issues and events that the proofs about both     *)
(* back ends use: what one more event row does to the events of an issue,  *)
(* and to the ledger that the tables stand for.                            *)
(***************************************************************************)
EXTENDS IssueTables, FiniteSetTheorems, TLAPS

\* The events of an issue are finitely many.
LEMMA EventsOfFinite ==
    ASSUME IsFiniteSet(DOMAIN events), NEW i
    PROVE  IsFiniteSet(EventsOf(i)) /\ Cardinality(EventsOf(i)) \in Nat
<1>1. EventsOf(i) \subseteq DOMAIN events
  BY DEF EventsOf
<1> QED BY <1>1, FS_Subset, FS_CardinalityType

\* What CreateEvent does to the events of each issue.
LEMMA CreateEventFacts ==
    ASSUME NEW e, NEW i, NEW now, ~HasEvent(e), CreateEvent(e, i, now)
    PROVE  /\ DOMAIN events' = DOMAIN events \cup {e}
           /\ events'[e] = [issue_id |-> i, received_at |-> now]
           /\ \A x \in DOMAIN events : events'[x] = events[x]
           /\ EventsOf(i)' = EventsOf(i) \cup {e}
           /\ \A j : j # i => EventsOf(j)' = EventsOf(j)
<1>1. /\ DOMAIN events' = DOMAIN events \cup {e}
      /\ events'[e] = [issue_id |-> i, received_at |-> now]
      /\ \A x \in DOMAIN events : x # e => events'[x] = events[x]
  BY DEF CreateEvent, Put
<1>2. e \notin DOMAIN events
  BY DEF HasEvent
<1>3. events'[e].issue_id = i
  BY <1>1
<1>4. EventsOf(i)' = EventsOf(i) \cup {e}
  BY <1>1, <1>2, <1>3 DEF EventsOf
<1>5. \A j : j # i => EventsOf(j)' = EventsOf(j)
  BY <1>1, <1>2, <1>3 DEF EventsOf
<1> QED BY <1>1, <1>2, <1>4, <1>5

\* One more event row is one more event of its issue.
LEMMA CreateEventCounts ==
    ASSUME NEW e, NEW i, NEW now, IsFiniteSet(DOMAIN events),
           ~HasEvent(e), CreateEvent(e, i, now)
    PROVE  /\ IsFiniteSet(DOMAIN events')
           /\ Cardinality(EventsOf(i)') = Cardinality(EventsOf(i)) + 1
           /\ \A j : j # i => Cardinality(EventsOf(j)') = Cardinality(EventsOf(j))
<1>1. e \notin EventsOf(i)
  BY DEF EventsOf, HasEvent
<1>2. IsFiniteSet(EventsOf(i))
  BY EventsOfFinite
<1>3. Cardinality(EventsOf(i) \cup {e}) = Cardinality(EventsOf(i)) + 1
  BY <1>1, <1>2, FS_AddElement
<1>4. IsFiniteSet(DOMAIN events \cup {e})
  BY FS_AddElement
<1> QED BY <1>3, <1>4, CreateEventFacts

-----------------------------------------------------------------------------
(***************************************************************************)
(* The tables as a ledger.                                                 *)
(***************************************************************************)

\* What the reading of the tables through their grouping keys rests on.
TablesInv ==
    /\ OneIssuePerGroupingKey
    /\ EventsHaveIssues
    /\ IsFiniteSet(DOMAIN events)

\* The issue of a grouping key is the one that has it.
LEMMA TheIssueOfKey ==
    ASSUME OneIssuePerGroupingKey, NEW i \in DOMAIN issues
    PROVE  /\ issues[i].grouping_key \in KeysSeen
           /\ TheIssue(issues[i].grouping_key) = i
<1> DEFINE k == issues[i].grouping_key
<1>1. TheIssue(k) \in DOMAIN issues /\ issues[TheIssue(k)].grouping_key = k
  BY DEF TheIssue
<1>2. TheIssue(k) = i
  BY <1>1 DEF OneIssuePerGroupingKey
<1> QED BY <1>2 DEF KeysSeen

LEMMA KeyHasIssue ==
    ASSUME NEW k \in KeysSeen
    PROVE  TheIssue(k) \in DOMAIN issues /\ issues[TheIssue(k)].grouping_key = k
BY DEF KeysSeen, TheIssue

\* A row that is put under key k, for a stored issue of that key or as its
\* first issue, changes the status of k alone, and the keys of no event.
LEMMA PutRowIsLedgerStep ==
    ASSUME TablesInv, NEW i, NEW row, NEW k, row.grouping_key = k,
           issues' = Put(issues, i, row),
           IF i \in DOMAIN issues THEN issues[i].grouping_key = k ELSE k \notin KeysSeen
    PROVE  /\ OneIssuePerGroupingKey'
           /\ KeysSeen' = KeysSeen \cup {k}
           /\ TheIssue(k)' = i
           /\ \A j \in KeysSeen \ {k} : TheIssue(j)' = TheIssue(j)
           /\ StatusOfKey' = [j \in KeysSeen \cup {k} |->
                                 IF j = k THEN row.status ELSE StatusOfKey[j]]
<1>1. /\ DOMAIN issues' = DOMAIN issues \cup {i} /\ issues'[i] = row
      /\ \A j \in DOMAIN issues \ {i} : issues'[j] = issues[j]
  BY DEF Put
<1>2. \A j \in DOMAIN issues \ {i} : issues[j].grouping_key # k
  BY DEF TablesInv, OneIssuePerGroupingKey, KeysSeen
<1>3. OneIssuePerGroupingKey'
  BY <1>1, <1>2 DEF TablesInv, OneIssuePerGroupingKey
<1>4. KeysSeen' = KeysSeen \cup {k}
  BY <1>1 DEF KeysSeen
<1>5. ASSUME NEW x, NEW y \in DOMAIN issues', issues'[y].grouping_key = x
      PROVE  TheIssue(x)' = y
  <2>1. \A z \in DOMAIN issues' : issues'[z].grouping_key = x => z = y
    BY <1>3, <1>5 DEF OneIssuePerGroupingKey
  <2> QED BY <1>5, <2>1 DEF TheIssue
<1>6. TheIssue(k)' = i
  BY <1>1, <1>5
<1>7. \A j \in KeysSeen \ {k} : TheIssue(j)' = TheIssue(j) /\ TheIssue(j) \in DOMAIN issues \ {i}
  <2> SUFFICES ASSUME NEW j \in KeysSeen \ {k}
               PROVE  TheIssue(j)' = TheIssue(j) /\ TheIssue(j) \in DOMAIN issues \ {i}
    OBVIOUS
  <2>1. TheIssue(j) \in DOMAIN issues /\ issues[TheIssue(j)].grouping_key = j
    BY KeyHasIssue
  <2>2. TheIssue(j) # i
    BY <2>1
  <2>3. issues'[TheIssue(j)].grouping_key = j
    BY <1>1, <2>1, <2>2
  <2> QED BY <1>1, <1>5, <2>1, <2>2, <2>3
<1>8. StatusOfKey' = [j \in KeysSeen \cup {k} |->
                         IF j = k THEN row.status ELSE StatusOfKey[j]]
  <2>1. \A j \in KeysSeen \ {k} : issues'[TheIssue(j)'].status = StatusOfKey[j]
    BY <1>1, <1>7 DEF StatusOfKey
  <2>2. issues'[TheIssue(k)'].status = row.status
    BY <1>1, <1>6
  <2> QED BY <1>4, <2>1, <2>2 DEF StatusOfKey
<1> QED BY <1>3, <1>4, <1>6, <1>7, <1>8

\* The number of events of each key.
RowsOfKey == [x \in KeysSeen |-> Cardinality(EventsOf(TheIssue(x)))]

\* Row, put under id i, is the first issue of key k or the known one after
\* one more event.
IsRowForEvent(row, i, k) ==
    /\ row.grouping_key = k
    /\ IF i \in DOMAIN issues
       THEN issues[i].grouping_key = k /\ row.status = StatusAfterEvent(issues[i].status)
       ELSE k \notin KeysSeen /\ row.status = "open"

\* In this step the ledger the tables stand for gains event e under key k.
Records(e, k) ==
    /\ KeyOfEvent' = [x \in DOMAIN KeyOfEvent \cup {e} |->
                         IF x = e THEN k ELSE KeyOfEvent[x]]
    /\ StatusOfKey' = [x \in DOMAIN StatusOfKey \cup {k} |->
                          IF x = k THEN IF k \in DOMAIN StatusOfKey
                                           /\ StatusOfKey[k] # "resolved"
                                        THEN StatusOfKey[k] ELSE "open"
                          ELSE StatusOfKey[x]]
    /\ RowsOfKey' = [x \in DOMAIN RowsOfKey \cup {k} |->
                        IF x = k
                        THEN Cardinality({y \in DOMAIN KeyOfEvent' : KeyOfEvent'[y] = k})
                        ELSE RowsOfKey[x]]

\* Together with its event, the row is a new entry in the ledger.
LEMMA RecordIsLedgerStep ==
    ASSUME TablesInv, NEW i, NEW row, NEW k, NEW e, NEW now,
           IsRowForEvent(row, i, k), ~HasEvent(e), CreateEvent(e, i, now),
           issues' = Put(issues, i, row)
    PROVE  TablesInv' /\ e \notin DOMAIN KeyOfEvent /\ Records(e, k)
<1> USE DEF IsRowForEvent
<1>1. /\ OneIssuePerGroupingKey'
      /\ KeysSeen' = KeysSeen \cup {k}
      /\ TheIssue(k)' = i
      /\ \A j \in KeysSeen \ {k} : TheIssue(j)' = TheIssue(j)
      /\ StatusOfKey' = [j \in KeysSeen \cup {k} |->
                            IF j = k THEN row.status ELSE StatusOfKey[j]]
  <2>1. IF i \in DOMAIN issues THEN issues[i].grouping_key = k ELSE k \notin KeysSeen
    OBVIOUS
  <2>2. row.grouping_key = k
    OBVIOUS
  <2> QED BY <2>1, <2>2, PutRowIsLedgerStep, ZenonT(60)
<1>2. /\ DOMAIN issues' = DOMAIN issues \cup {i} /\ issues'[i] = row
      /\ \A j \in DOMAIN issues \ {i} : issues'[j] = issues[j]
  BY DEF Put
<1>3. /\ DOMAIN events' = DOMAIN events \cup {e}
      /\ events'[e] = [issue_id |-> i, received_at |-> now]
      /\ \A x \in DOMAIN events : events'[x] = events[x]
      /\ EventsOf(i)' = EventsOf(i) \cup {e}
      /\ \A j : j # i => EventsOf(j)' = EventsOf(j)
  BY CreateEventFacts
<1>4. e \notin DOMAIN events
  BY DEF HasEvent
<1>5. TablesInv'
  <2>1. EventsHaveIssues'
    BY <1>2, <1>3 DEF TablesInv, EventsHaveIssues
  <2>2. IsFiniteSet(DOMAIN events')
    BY CreateEventCounts DEF TablesInv
  <2> QED BY <1>1, <2>1, <2>2 DEF TablesInv
<1>6. KeyOfEvent' = [x \in DOMAIN KeyOfEvent \cup {e} |-> IF x = e THEN k ELSE KeyOfEvent[x]]
  <2>1. \A x \in DOMAIN events :
           issues'[events'[x].issue_id].grouping_key = issues[events[x].issue_id].grouping_key
    BY <1>2, <1>3 DEF TablesInv, EventsHaveIssues
  <2>2. issues'[events'[e].issue_id].grouping_key = k
    BY <1>2, <1>3
  <2> QED BY <1>3, <1>4, <2>1, <2>2 DEF KeyOfEvent
<1>7. row.status = IF k \in KeysSeen /\ StatusOfKey[k] # "resolved"
                   THEN StatusOfKey[k] ELSE "open"
  <2>1. CASE i \in DOMAIN issues
    <3>1. k \in KeysSeen /\ TheIssue(k) = i
      BY <2>1, TheIssueOfKey DEF TablesInv
    <3>2. StatusOfKey[k] = issues[i].status
      BY <3>1 DEF StatusOfKey
    <3> QED BY <2>1, <3>1, <3>2 DEF StatusAfterEvent
  <2>2. CASE i \notin DOMAIN issues
    BY <2>2
  <2> QED BY <2>1, <2>2
<1>8. DOMAIN StatusOfKey = KeysSeen
  BY DEF StatusOfKey
<1>9. StatusOfKey' = [x \in DOMAIN StatusOfKey \cup {k} |->
                         IF x = k THEN IF k \in DOMAIN StatusOfKey /\ StatusOfKey[k] # "resolved"
                                       THEN StatusOfKey[k] ELSE "open"
                         ELSE StatusOfKey[x]]
  BY <1>1, <1>7, <1>8
<1>10. RowsOfKey' = [x \in DOMAIN RowsOfKey \cup {k} |->
                        IF x = k
                        THEN Cardinality({y \in DOMAIN KeyOfEvent' : KeyOfEvent'[y] = k})
                        ELSE RowsOfKey[x]]
  <2>1. {y \in DOMAIN KeyOfEvent' : KeyOfEvent'[y] = k} = EventsOf(TheIssue(k))'
    <3>1. \A y \in DOMAIN events' :
             issues'[events'[y].issue_id].grouping_key = k <=> events'[y].issue_id = i
      BY <1>1, <1>2, <1>5 DEF TablesInv, EventsHaveIssues, OneIssuePerGroupingKey
    <3>2. EventsOf(TheIssue(k))' = {y \in DOMAIN events' : events'[y].issue_id = i}
      BY <1>1 DEF EventsOf
    <3> QED BY <3>1, <3>2 DEF KeyOfEvent
  <2>2. ASSUME NEW x \in KeysSeen \ {k} PROVE EventsOf(TheIssue(x))' = EventsOf(TheIssue(x))
    <3>1. TheIssue(x) \in DOMAIN issues /\ issues[TheIssue(x)].grouping_key = x
      BY KeyHasIssue
    <3>2. TheIssue(x) # i
      BY <3>1
    <3>3. EventsOf(TheIssue(x))' = {y \in DOMAIN events' : events'[y].issue_id = TheIssue(x)}
      BY <1>1 DEF EventsOf
    <3> QED BY <1>3, <1>4, <3>2, <3>3 DEF EventsOf
  <2> QED BY <1>1, <2>1, <2>2 DEF RowsOfKey
<1>11. e \notin DOMAIN KeyOfEvent
  BY <1>4 DEF KeyOfEvent
<1> QED BY <1>5, <1>6, <1>9, <1>10, <1>11 DEF Records

\* A change of status is one in the ledger.
LEMMA SetStatusIsLedgerStep ==
    ASSUME TablesTypeOK, TablesInv, NEW i \in DOMAIN issues, NEW s, SetIssueStatus(i, s),
           events' = events
    PROVE  /\ TablesInv'
           /\ KeyOfEvent' = KeyOfEvent
           /\ issues[i].grouping_key \in KeysSeen
           /\ StatusOfKey' = [StatusOfKey EXCEPT ![issues[i].grouping_key] = s]
           /\ KeysSeen' = KeysSeen
           /\ \A x \in KeysSeen : TheIssue(x)' = TheIssue(x)
           /\ RowsOfKey' = RowsOfKey
<1> PICK k : k = issues[i].grouping_key
  OBVIOUS
<1> PICK row : row = [issues[i] EXCEPT !.status = s]
  OBVIOUS
<1>1. issues[i] \in IssueRow /\ issues \in [DOMAIN issues -> IssueRow]
  BY DEF TablesTypeOK
<1>2. row.grouping_key = k /\ row.status = s
  BY <1>1 DEF IssueRow
<1>3. issues' = Put(issues, i, row)
  BY <1>1 DEF SetIssueStatus, Put
<1>4. k \in KeysSeen /\ TheIssue(k) = i
  BY TheIssueOfKey DEF TablesInv
<1>5. IF i \in DOMAIN issues THEN issues[i].grouping_key = k ELSE k \notin KeysSeen
  OBVIOUS
<1>6. /\ OneIssuePerGroupingKey'
      /\ KeysSeen' = KeysSeen \cup {k}
      /\ TheIssue(k)' = i
      /\ \A j \in KeysSeen \ {k} : TheIssue(j)' = TheIssue(j)
      /\ StatusOfKey' = [j \in KeysSeen \cup {k} |->
                            IF j = k THEN row.status ELSE StatusOfKey[j]]
  <2>1. row.grouping_key = k
    BY <1>2
  <2>2. TablesInv
    OBVIOUS
  <2> QED BY ONLY <2>1, <2>2, <1>3, <1>5, PutRowIsLedgerStep
<1>7. KeysSeen' = KeysSeen /\ \A x \in KeysSeen : TheIssue(x)' = TheIssue(x)
  BY <1>4, <1>6
<1>8. /\ DOMAIN issues' = DOMAIN issues
      /\ \A j \in DOMAIN issues : issues'[j].grouping_key = issues[j].grouping_key
  BY <1>2, <1>3, <1>5 DEF Put
<1>9. TablesInv'
  BY <1>6, <1>8 DEF TablesInv, EventsHaveIssues
<1>10. KeyOfEvent' = KeyOfEvent
  BY <1>8 DEF KeyOfEvent, TablesInv, EventsHaveIssues
<1>11. StatusOfKey' = [StatusOfKey EXCEPT ![k] = s]
  BY <1>2, <1>4, <1>6, ZenonT(60) DEF StatusOfKey
<1>12. \A x \in KeysSeen : EventsOf(TheIssue(x))' = EventsOf(TheIssue(x))
  BY <1>7 DEF EventsOf
<1>13. RowsOfKey' = RowsOfKey
  BY <1>7, <1>12 DEF RowsOfKey
<1> QED BY <1>4, <1>5, <1>7, <1>9, <1>10, <1>11, <1>13

\* Tables that stay stand for the same ledger.
LEMMA SameTablesSameLedger ==
    ASSUME UNCHANGED tableVars
    PROVE  /\ TablesInv => TablesInv'
           /\ KeyOfEvent' = KeyOfEvent /\ StatusOfKey' = StatusOfKey
           /\ KeysSeen' = KeysSeen /\ RowsOfKey' = RowsOfKey
BY DEF tableVars, TablesInv, OneIssuePerGroupingKey, EventsHaveIssues, KeyOfEvent,
   StatusOfKey, KeysSeen, RowsOfKey, TheIssue, EventsOf
=============================================================================
