---------------------------- MODULE PagingProofs ----------------------------
(***************************************************************************)
(* Proofs about the pages that are read in several steps: for any number   *)
(* of issues, events and clicks, any size of a page and any length of      *)
(* time.                                                                   *)
(***************************************************************************)
EXTENDS Paging, SqliteStoreProofs, FunctionTheorems, SequenceTheorems

\* Times that an issue may have been seen at.
TimesAreStored ==
    /\ IsFiniteSet(DOMAIN issues)
    /\ \A i \in DOMAIN issues : issues[i].last_seen_at \in 1 .. clock

\* The pages so far reach down to the cursor, apart from issues whose time
\* fell meanwhile.
ShownAreAboveCursor ==
    view.page = "list" /\ view.nextCursor > 0 =>
        \A i \in shown \ movedBack : issues[i].last_seen_at >= view.nextCursor

\* A quiet issue has been shown, is still to come, or is of the second of a
\* last row.
QuietIssuesAreAhead ==
    view.page = "list" =>
        \A i \in quiet :
            /\ view.filter = "" \/ issues[i].status = view.filter
            /\ \/ i \in shown
               \/ issues[i].last_seen_at \in lastRows
               \/ view.nextCursor > 0 /\ issues[i].last_seen_at < view.nextCursor

\* What the header of a detail page says is still true of the table.
HeaderIsOfEvents ==
    view.page \in {"half", "detail"} =>
        /\ view.last \in EventsOf(view.issue)
        /\ view.count <= Cardinality(EventsOf(view.issue))

ListedAreEvents == view.page = "detail" => view.listed \subseteq DOMAIN events

\* The inductive invariant of the two pages.
PagingInv ==
    /\ TimesAreStored
    /\ RepeatsMeanTimeWentBack
    /\ ShownAreAboveCursor
    /\ QuietIssuesAreAhead
    /\ HeaderIsOfEvents
    /\ ListedAreEvents
    /\ DetailAgreesWithItself

-----------------------------------------------------------------------------
(***************************************************************************)
(* One page of the list.                                                   *)
(***************************************************************************)

LEMMA MatchesAreIssues ==
    ASSUME NEW filter, NEW cursor, IsFiniteSet(DOMAIN issues)
    PROVE  /\ Matches(filter, cursor) \subseteq DOMAIN issues
           /\ IsFiniteSet(Matches(filter, cursor))
<1>1. Matches(filter, cursor) \subseteq DOMAIN issues
  BY DEF Matches
<1> QED BY <1>1, FS_Subset

\* A sequence of a set has all of its elements.
LEMMA SequenceOfSet ==
    ASSUME NEW S, IsFiniteSet(S), NEW seq \in SetToSeqs(S)
    PROVE  /\ seq \in Seq(S) /\ Len(seq) \in Nat /\ DOMAIN seq = 1 .. Len(seq)
           /\ \A x \in S : \E n \in 1 .. Len(seq) : seq[n] = x
<1> DEFINE size == Cardinality(S)
<1>1. size \in Nat
  BY FS_CardinalityType
<1>2. seq \in [1 .. size -> S] /\ \A m, n \in 1 .. size : m # n => seq[m] # seq[n]
  BY DEF SetToSeqs
<1>3. seq \in Injection(1 .. size, S)
  BY <1>2 DEF Injection, IsInjective
<1>4. Cardinality(1 .. size) = size
  BY <1>1, FS_Interval
<1>5. seq \in Surjection(1 .. size, S)
  BY <1>3, <1>4, FS_Injection
<1>6. seq \in Seq(S)
  BY <1>1, <1>2, SeqDef
<1>7. Len(seq) = size
  BY <1>1, <1>2, <1>6, LenProperties
<1> HIDE DEF size
<1> QED BY <1>1, <1>2, <1>5, <1>6, <1>7 DEF Surjection

\* The rows that ListIssues returns are the first of an ordered sequence of
\* all that match.
LEMMA RowsOfQuery ==
    ASSUME NEW filter, NEW cursor, NEW limit \in Nat, IsFiniteSet(DOMAIN issues),
           NEW rows \in ListIssues(filter, cursor, limit)
    PROVE  \E seq \in Seq(Matches(filter, cursor)) :
              /\ Len(seq) \in Nat
              /\ \A i \in Matches(filter, cursor) : \E n \in 1 .. Len(seq) : seq[n] = i
              /\ \A m, n \in 1 .. Len(seq) : m < n =>
                    issues[seq[m]].last_seen_at >= issues[seq[n]].last_seen_at
              /\ Len(rows) = IF Len(seq) < limit THEN Len(seq) ELSE limit
              /\ DOMAIN rows = 1 .. Len(rows)
              /\ \A n \in 1 .. Len(rows) : rows[n] = seq[n]
<1>1. PICK seq \in SetToSeqs(Matches(filter, cursor)) :
         /\ \A m, n \in DOMAIN seq : m < n =>
               issues[seq[m]].last_seen_at >= issues[seq[n]].last_seen_at
         /\ rows = SubSeq(seq, 1, IF Len(seq) < limit THEN Len(seq) ELSE limit)
  BY DEF ListIssues
<1>2. /\ seq \in Seq(Matches(filter, cursor)) /\ Len(seq) \in Nat /\ DOMAIN seq = 1 .. Len(seq)
      /\ \A i \in Matches(filter, cursor) : \E n \in 1 .. Len(seq) : seq[n] = i
  BY MatchesAreIssues, SequenceOfSet
<1>3. PICK last \in Nat : /\ last = IF Len(seq) < limit THEN Len(seq) ELSE limit
                          /\ last <= Len(seq)
  <2> DEFINE last == IF Len(seq) < limit THEN Len(seq) ELSE limit
  <2>1. last \in Nat /\ last <= Len(seq)
    BY <1>2
  <2> QED BY <2>1
<1>4. \A n \in 1 .. last : seq[n] \in Matches(filter, cursor)
  <2>1. Len(seq) \in Nat /\ last \in Nat /\ last <= Len(seq)
    BY <1>2, <1>3
  <2>2. \A n \in 1 .. last : n \in 1 .. Len(seq)
    BY ONLY <2>1
  <2> QED BY <1>2, <2>2, ElementOfSeq
<1>5. /\ SubSeq(seq, 1, last) \in Seq(Matches(filter, cursor))
      /\ Len(SubSeq(seq, 1, last)) = IF 1 <= last THEN last - 1 + 1 ELSE 0
      /\ \A n \in 1 .. last - 1 + 1 : SubSeq(seq, 1, last)[n] = seq[1 + n - 1]
  BY <1>3, <1>4, SubSeqProperties
<1>6. rows \in Seq(Matches(filter, cursor)) /\ Len(rows) = last
  BY <1>1, <1>3, <1>5
<1>7. DOMAIN rows = 1 .. Len(rows)
  BY <1>6, LenProperties
<1>8. \A n \in 1 .. last : rows[n] = seq[n]
  BY <1>1, <1>3, <1>5
<1> QED BY <1>1, <1>2, <1>3, <1>6, <1>7, <1>8

\* What is on a page, and what is left for the pages after it.
LEMMA PageOfQuery ==
    ASSUME StoreTypeOK, TimesAreStored, clock \in 1 .. MaxClock, NEW filter, NEW cursor \in Nat,
           NEW rows \in ListIssues(filter, cursor, PageSize + 1)
    PROVE  /\ PageOf(rows) \subseteq Matches(filter, cursor)
           /\ NextCursor(rows) \in Nat
           /\ LastRow(rows) \subseteq 1 .. MaxClock
           /\ NextCursor(rows) > 0 =>
                 /\ cursor > 0 => NextCursor(rows) < cursor
                 /\ \A i \in PageOf(rows) : issues[i].last_seen_at >= NextCursor(rows)
           /\ \A i \in Matches(filter, cursor) :
                 \/ i \in PageOf(rows)
                 \/ issues[i].last_seen_at \in LastRow(rows)
                 \/ NextCursor(rows) > 0 /\ issues[i].last_seen_at < NextCursor(rows)
<1> DEFINE found == Matches(filter, cursor)
<1>1. PICK seq \in Seq(found) :
              /\ Len(seq) \in Nat
              /\ \A i \in found : \E n \in 1 .. Len(seq) : seq[n] = i
              /\ \A m, n \in 1 .. Len(seq) : m < n =>
                    issues[seq[m]].last_seen_at >= issues[seq[n]].last_seen_at
              /\ Len(rows) = IF Len(seq) < PageSize + 1 THEN Len(seq) ELSE PageSize + 1
              /\ DOMAIN rows = 1 .. Len(rows)
              /\ \A n \in 1 .. Len(rows) : rows[n] = seq[n]
  BY RowsOfQuery, SizesAssumption DEF TimesAreStored
<1>2. PageSize \in Nat \ {0} /\ MaxClock \in Nat
  BY SizesAssumption
<1>3. \A n \in 1 .. Len(seq) : seq[n] \in found
  BY <1>1, ElementOfSeq
<1>4. \A i \in found : /\ i \in DOMAIN issues /\ issues[i].last_seen_at \in 1 .. MaxClock
                       /\ issues[i].last_seen_at \in Nat \ {0}
                       /\ cursor > 0 => issues[i].last_seen_at < cursor
  <2> SUFFICES ASSUME NEW i \in found
               PROVE  /\ i \in DOMAIN issues /\ issues[i].last_seen_at \in 1 .. MaxClock
                      /\ issues[i].last_seen_at \in Nat \ {0}
                      /\ cursor > 0 => issues[i].last_seen_at < cursor
    OBVIOUS
  <2>1. i \in DOMAIN issues /\ (cursor = 0 \/ issues[i].last_seen_at < cursor)
    BY DEF Matches
  <2>2. issues[i].last_seen_at \in 1 .. clock
    BY <2>1 DEF TimesAreStored
  <2>3. issues[i].last_seen_at \in 1 .. MaxClock /\ issues[i].last_seen_at \in Nat \ {0}
    BY <1>2, <2>2
  <2> QED BY <2>1, <2>3
<1> HIDE DEF found
<1>5. \A i \in PageOf(rows) : \E n \in 1 .. Len(seq) : n <= PageSize /\ i = seq[n] /\ n <= Len(rows)
  <2> SUFFICES ASSUME NEW i \in PageOf(rows)
               PROVE  \E n \in 1 .. Len(seq) : n <= PageSize /\ i = seq[n] /\ n <= Len(rows)
    OBVIOUS
  <2>1. PICK n \in DOMAIN rows \cap 1 .. PageSize : i = rows[n]
    BY DEF PageOf
  <2>2. Len(rows) \in Nat /\ Len(rows) <= Len(seq)
    BY <1>1, <1>2
  <2>3. n \in 1 .. Len(rows) /\ n \in 1 .. Len(seq) /\ n <= PageSize
    BY <1>1, <1>2, <2>1, <2>2
  <2> QED BY <1>1, <2>1, <2>3
<1>6. \A n \in 1 .. Len(seq) : n <= PageSize => seq[n] \in PageOf(rows)
  <2> SUFFICES ASSUME NEW n \in 1 .. Len(seq), n <= PageSize
               PROVE  seq[n] \in PageOf(rows)
    OBVIOUS
  <2>1. n \in DOMAIN rows /\ n \in 1 .. PageSize /\ rows[n] = seq[n]
    BY <1>1, <1>2
  <2> QED BY <2>1 DEF PageOf
<1>7. PageOf(rows) \subseteq found
  BY <1>3, <1>5
<1>8. LastRow(rows) \subseteq 1 .. MaxClock
  <2>1. ASSUME Len(rows) > PageSize PROVE rows[PageSize] \in PageOf(rows)
    <3>1. PageSize \in DOMAIN rows /\ PageSize \in 1 .. PageSize
      BY <1>1, <1>2, <2>1
    <3> QED BY <3>1 DEF PageOf
  <2> QED BY <1>4, <1>7, <2>1 DEF LastRow
<1>9. CASE Len(seq) <= PageSize
  <2>1. NextCursor(rows) = 0
    BY <1>1, <1>2, <1>9 DEF NextCursor
  <2>2. \A i \in found : i \in PageOf(rows)
    BY <1>1, <1>2, <1>6, <1>9, SMTT(30)
  <2> QED BY <1>7, <1>8, <2>1, <2>2 DEF found
<1>10. CASE Len(seq) > PageSize
  <2>1. PageSize \in 1 .. Len(seq) /\ PageSize \in 1 .. Len(rows) /\ Len(rows) > PageSize
    BY <1>1, <1>2, <1>10, SMTT(30)
  <2>2. PICK last \in found : last = seq[PageSize]
    BY <1>3, <2>1
  <2>3. NextCursor(rows) = issues[last].last_seen_at
    BY <1>1, <2>1, <2>2 DEF NextCursor
  <2>4. last \in PageOf(rows)
    BY <1>2, <1>6, <2>1, <2>2
  <2>5. \A n \in 1 .. Len(seq) :
           /\ n <= PageSize => issues[seq[n]].last_seen_at >= issues[last].last_seen_at
           /\ n >= PageSize => issues[last].last_seen_at >= issues[seq[n]].last_seen_at
    <3> SUFFICES ASSUME NEW n \in 1 .. Len(seq)
                 PROVE  /\ n <= PageSize => issues[seq[n]].last_seen_at >= issues[last].last_seen_at
                        /\ n >= PageSize => issues[last].last_seen_at >= issues[seq[n]].last_seen_at
      OBVIOUS
    <3>1. CASE n = PageSize
      BY <1>4, <2>2, <3>1
    <3>2. CASE n < PageSize
      BY <1>1, <1>2, <2>1, <2>2, <3>2
    <3>3. CASE n > PageSize
      BY <1>1, <1>2, <2>1, <2>2, <3>3
    <3> QED BY <1>2, <3>1, <3>2, <3>3
  <2>6. \A i \in PageOf(rows) : issues[i].last_seen_at >= issues[last].last_seen_at
    BY <1>5, <2>5
  <2>7. issues[last].last_seen_at \in LastRow(rows)
    BY <1>1, <2>1, <2>2 DEF LastRow
  <2>8. ASSUME NEW i \in found
        PROVE  \/ i \in PageOf(rows)
               \/ issues[i].last_seen_at \in LastRow(rows)
               \/ issues[i].last_seen_at < issues[last].last_seen_at
    <3>1. PICK n \in 1 .. Len(seq) : seq[n] = i
      BY <1>1
    <3>2. CASE n <= PageSize
      BY <1>6, <3>1, <3>2
    <3>3. CASE n >= PageSize
      <4>1. issues[last].last_seen_at >= issues[i].last_seen_at
        BY <2>5, <3>1, <3>3
      <4> QED BY <1>4, <2>7, <4>1
    <3> QED BY <1>2, <3>2, <3>3
  <2>9. NextCursor(rows) \in Nat \ {0} /\ (cursor > 0 => NextCursor(rows) < cursor)
    BY <1>4, <2>3
  <2> QED BY <1>7, <1>8, <2>3, <2>6, <2>8, <2>9 DEF found
<1> QED BY <1>1, <1>2, <1>9, <1>10, SMTT(30)

-----------------------------------------------------------------------------
(***************************************************************************)
(* The writers.                                                            *)
(***************************************************************************)

\* A step that keeps every event as it is, every issue, and times in range.
Writes ==
    /\ DOMAIN issues \subseteq DOMAIN issues'
    /\ TimesAreStored'
    /\ \A e \in DOMAIN events : e \in DOMAIN events' /\ events'[e] = events[e]

LEMMA RecordWrites ==
    ASSUME StoreTypeOK, StoreInv, TimesAreStored, clock \in Nat, clock' = clock,
           NEW e \in EventIds, NEW k \in GroupingKeys, NEW now \in 1 .. clock, NEW i,
           RecordNewIssue(e, k, now, i) \/ RecordKnownIssue(e, k, now, i)
    PROVE  StoreTypeOK' /\ StoreInv' /\ Writes
<1>1. StoreTypeOK' /\ StoreInv'
  <2>1. now \in Nat
    OBVIOUS
  <2> QED BY <2>1, RecordNewIssueKeepsInv, RecordKnownIssueKeepsInv
<1>2. ~HasEvent(e) /\ CreateEvent(e, i, now)
  BY DEF RecordNewIssue, RecordKnownIssue
<1>3. \A x \in DOMAIN events : x \in DOMAIN events' /\ events'[x] = events[x]
  BY <1>2, CreateEventFacts
<1>4. CASE RecordNewIssue(e, k, now, i)
  <2>1. i \notin DOMAIN issues /\ issues' = Put(issues, i, NewIssueRow(k, e, now))
    BY <1>4 DEF RecordNewIssue
  <2>2. /\ DOMAIN issues' = DOMAIN issues \cup {i}
        /\ issues'[i].last_seen_at = now
        /\ \A j \in DOMAIN issues : issues'[j] = issues[j]
    BY <2>1 DEF Put, NewIssueRow
  <2>3. IsFiniteSet(DOMAIN issues')
    BY <2>2, FS_AddElement DEF TimesAreStored
  <2> QED BY <1>1, <1>3, <2>2, <2>3 DEF Writes, TimesAreStored
<1>5. CASE RecordKnownIssue(e, k, now, i)
  <2>1. i \in DOMAIN issues /\ issues[i] \in IssueRow
    BY <1>5 DEF RecordKnownIssue, IssuesWithKey, StoreTypeOK, TablesTypeOK
  <2>2. issues' = [issues EXCEPT ![i] = RowAfterEvent(issues[i], e, now, issues[i].event_count + 1)]
    BY <1>5 DEF RecordKnownIssue
  <2>3. RowAfterEvent(issues[i], e, now, issues[i].event_count + 1).last_seen_at = now
    BY <2>1 DEF RowAfterEvent, IssueRow
  <2>4. /\ DOMAIN issues' = DOMAIN issues
        /\ \A j \in DOMAIN issues :
              issues'[j].last_seen_at = IF j = i THEN now ELSE issues[j].last_seen_at
    BY <2>1, <2>2, <2>3 DEF StoreTypeOK, TablesTypeOK
  <2> QED BY <1>1, <1>3, <2>4 DEF Writes, TimesAreStored
<1> QED BY <1>4, <1>5

LEMMA ClickWrites ==
    ASSUME StoreTypeOK, StoreInv, TimesAreStored, clock' = clock,
           NEW i, NEW s \in Statuses, UpdateIssueStatus(i, s)
    PROVE  StoreTypeOK' /\ StoreInv' /\ Writes
<1>1. StoreTypeOK' /\ StoreInv'
  BY UpdateIssueStatusKeepsInv
<1>2. /\ DOMAIN issues' = DOMAIN issues
      /\ \A j \in DOMAIN issues : issues'[j].last_seen_at = issues[j].last_seen_at
  BY DEF UpdateIssueStatus, SetIssueStatus, StoreTypeOK, TablesTypeOK, IssueRow
<1>3. events' = events
  BY DEF UpdateIssueStatus
<1> QED BY <1>1, <1>2, <1>3 DEF Writes, TimesAreStored

\* More events on an issue only make what its header says more true.
LEMMA EventsOfGrows ==
    ASSUME StoreInv, StoreInv', Writes, NEW i
    PROVE  EventsOf(i) \subseteq EventsOf(i)' /\ Cardinality(EventsOf(i)) <= Cardinality(EventsOf(i)')
<1>1. EventsOf(i) \subseteq EventsOf(i)'
  BY DEF Writes, EventsOf
<1>2. IsFiniteSet(DOMAIN events')
  BY DEF StoreInv
<1>3. EventsOf(i)' \subseteq DOMAIN events'
  BY DEF EventsOf
<1>4. IsFiniteSet(EventsOf(i)')
  BY <1>2, <1>3, FS_Subset
<1> QED BY <1>1, <1>4, FS_Subset

\* What was on the tab before an event or a click may be on it after.
LEMMA WriterKeepsInv ==
    ASSUME TypeOK, PagingInv, StoreInv, StoreTypeOK', StoreInv', Writes, Changes,
           clicks' \in 0 .. MaxClicks
    PROVE  TypeOK' /\ PagingInv'
<1>1. /\ clock' = clock /\ view' = view /\ shown' = shown /\ lastRows' = lastRows
      /\ repeated' = repeated
      /\ quiet' = {i \in quiet : issues'[i] = issues[i]}
      /\ movedBack' = movedBack \cup
            {i \in shown : issues'[i].last_seen_at < issues[i].last_seen_at}
  BY DEF Changes, tabVars
<1>2. /\ DOMAIN issues \subseteq DOMAIN issues' /\ TimesAreStored /\ TimesAreStored'
      /\ shown \subseteq DOMAIN issues /\ quiet \subseteq DOMAIN issues
      /\ movedBack \subseteq shown /\ repeated \subseteq shown
  BY DEF Writes, PagingInv, TypeOK
<1>3. TypeOK'
  BY <1>1, <1>2 DEF TypeOK
<1>4. RepeatsMeanTimeWentBack'
  BY <1>1 DEF PagingInv, RepeatsMeanTimeWentBack
<1>5. ShownAreAboveCursor'
  <2> SUFFICES ASSUME view.page = "list", view.nextCursor > 0, NEW i \in shown, i \notin movedBack'
               PROVE  issues'[i].last_seen_at >= view.nextCursor
    BY <1>1 DEF ShownAreAboveCursor
  <2>1. issues[i].last_seen_at >= view.nextCursor /\ view.nextCursor \in Nat
    BY <1>1 DEF PagingInv, ShownAreAboveCursor, TypeOK, View
  <2>2. ~(issues'[i].last_seen_at < issues[i].last_seen_at)
    BY <1>1
  <2>3. issues[i].last_seen_at \in Nat /\ issues'[i].last_seen_at \in Nat
    BY <1>2 DEF TimesAreStored
  <2> QED BY <2>1, <2>2, <2>3
<1>6. QuietIssuesAreAhead'
  BY <1>1 DEF PagingInv, QuietIssuesAreAhead
<1>7. HeaderIsOfEvents'
  <2> SUFFICES ASSUME view.page \in {"half", "detail"}
               PROVE  /\ view.last \in EventsOf(view.issue)'
                      /\ view.count <= Cardinality(EventsOf(view.issue)')
    BY <1>1 DEF HeaderIsOfEvents
  <2>1. PICK i : i = view.issue
    OBVIOUS
  <2>2. /\ view.last \in EventsOf(i) /\ view.count <= Cardinality(EventsOf(i))
        /\ view.count \in Nat
    BY <2>1 DEF PagingInv, HeaderIsOfEvents, TypeOK, View
  <2>3. /\ EventsOf(i) \subseteq EventsOf(i)'
        /\ Cardinality(EventsOf(i)) <= Cardinality(EventsOf(i)')
    BY EventsOfGrows
  <2>4. Cardinality(EventsOf(i)) \in Nat /\ Cardinality(EventsOf(i)') \in Nat
    <3>1. \A j : Cardinality(EventsOf(j)) \in Nat
      BY EventsOfFinite DEF StoreInv
    <3>2. IsFiniteSet(DOMAIN events') /\ EventsOf(i)' \subseteq DOMAIN events'
      BY DEF StoreInv, EventsOf
    <3>3. Cardinality(EventsOf(i)') \in Nat
      BY <3>2, FS_Subset, FS_CardinalityType
    <3> QED BY <3>1, <3>3
  <2>5. view.last \in EventsOf(i)' /\ view.count <= Cardinality(EventsOf(i)')
    BY <2>2, <2>3, <2>4
  <2> QED BY <1>1, <2>1, <2>5 DEF EventsOf
<1>8. ListedAreEvents' /\ DetailAgreesWithItself'
  <2>1. \A e \in DOMAIN events : e \in DOMAIN events' /\ events'[e] = events[e]
    BY DEF Writes
  <2>2. view.page = "detail" => view.last \in DOMAIN events /\ view.listed \subseteq DOMAIN events
    BY DEF PagingInv, HeaderIsOfEvents, ListedAreEvents, EventsOf
  <2> QED BY <1>1, <2>1, <2>2 DEF PagingInv, ListedAreEvents, DetailAgreesWithItself
<1> QED BY <1>2, <1>3, <1>4, <1>5, <1>6, <1>7, <1>8 DEF PagingInv

-----------------------------------------------------------------------------
(***************************************************************************)
(* The pages.                                                              *)
(***************************************************************************)

LEMMA OpenIssuesKeepsInv ==
    ASSUME TypeOK, PagingInv, NEW filter \in Filters, OpenIssues(filter)
    PROVE  TypeOK' /\ PagingInv'
<1>1. PICK rows \in ListIssues(filter, 0, PageSize + 1) :
         /\ HandleIssues(filter, rows)
         /\ shown' = PageOf(rows) /\ lastRows' = LastRow(rows)
  BY DEF OpenIssues
<1>2. repeated' = {} /\ movedBack' = {} /\ quiet' = Matches(filter, 0)
  BY DEF OpenIssues
<1>3. /\ PageOf(rows) \subseteq Matches(filter, 0)
      /\ NextCursor(rows) \in Nat
      /\ LastRow(rows) \subseteq 1 .. MaxClock
      /\ NextCursor(rows) > 0 =>
            \A i \in PageOf(rows) : issues[i].last_seen_at >= NextCursor(rows)
      /\ \A i \in Matches(filter, 0) :
            \/ i \in PageOf(rows)
            \/ issues[i].last_seen_at \in LastRow(rows)
            \/ NextCursor(rows) > 0 /\ issues[i].last_seen_at < NextCursor(rows)
  BY PageOfQuery DEF TypeOK, PagingInv
<1>4. UNCHANGED <<issues, events, attachments, sourceMaps, clock, clicks>>
  BY <1>1 DEF HandleIssues, storeVars, tableVars
<1>5. /\ view'.page = "list" /\ view'.filter = filter /\ view'.nextCursor = NextCursor(rows)
      /\ view' \in View
  BY <1>1, <1>3 DEF HandleIssues, Empty, View, Filters
<1>6. \A i \in Matches(filter, 0) : i \in DOMAIN issues /\ (filter = "" \/ issues[i].status = filter)
  BY DEF Matches
<1>7. TypeOK'
  BY <1>1, <1>2, <1>3, <1>4, <1>5, <1>6 DEF TypeOK, StoreTypeOK, TablesTypeOK
<1>8. TimesAreStored'
  BY <1>4 DEF PagingInv, TimesAreStored
<1>9. RepeatsMeanTimeWentBack' /\ ShownAreAboveCursor'
  BY <1>1, <1>2, <1>3, <1>4, <1>5 DEF RepeatsMeanTimeWentBack, ShownAreAboveCursor
<1>10. QuietIssuesAreAhead'
  BY <1>1, <1>2, <1>3, <1>4, <1>5, <1>6 DEF QuietIssuesAreAhead
<1> QED BY <1>5, <1>7, <1>8, <1>9, <1>10
        DEF PagingInv, HeaderIsOfEvents, ListedAreEvents, DetailAgreesWithItself

LEMMA LoadMoreKeepsInv ==
    ASSUME TypeOK, PagingInv, LoadMore
    PROVE  TypeOK' /\ PagingInv'
<1>1. PICK filter \in Filters, cursor \in Nat : filter = view.filter /\ cursor = view.nextCursor
  BY DEF TypeOK, View
<1>2. view.page = "list" /\ cursor > 0 /\ movedBack' = movedBack /\ quiet' = quiet
  BY <1>1 DEF LoadMore
<1>3. PICK rows \in ListIssues(filter, cursor, PageSize + 1) :
         /\ HandleIssues(filter, rows)
         /\ shown' = shown \cup PageOf(rows)
         /\ repeated' = repeated \cup (shown \cap PageOf(rows))
         /\ lastRows' = lastRows \cup LastRow(rows)
  BY <1>1 DEF LoadMore
<1>4. /\ PageOf(rows) \subseteq Matches(filter, cursor)
      /\ NextCursor(rows) \in Nat
      /\ LastRow(rows) \subseteq 1 .. MaxClock
      /\ NextCursor(rows) > 0 =>
            /\ NextCursor(rows) < cursor
            /\ \A i \in PageOf(rows) : issues[i].last_seen_at >= NextCursor(rows)
      /\ \A i \in Matches(filter, cursor) :
            \/ i \in PageOf(rows)
            \/ issues[i].last_seen_at \in LastRow(rows)
            \/ NextCursor(rows) > 0 /\ issues[i].last_seen_at < NextCursor(rows)
  BY <1>2, PageOfQuery DEF TypeOK, PagingInv
<1>5. UNCHANGED <<issues, events, attachments, sourceMaps, clock, clicks>>
  BY <1>3 DEF HandleIssues, storeVars, tableVars
<1>6. /\ view'.page = "list" /\ view'.filter = filter /\ view'.nextCursor = NextCursor(rows)
      /\ view' \in View
  BY <1>3, <1>4 DEF HandleIssues, Empty, View, Filters
<1>7. \A i \in DOMAIN issues :
         i \in Matches(filter, cursor) <=> /\ filter = "" \/ issues[i].status = filter
                                           /\ issues[i].last_seen_at < cursor
  <2>1. cursor # 0
    BY <1>2
  <2> SUFFICES ASSUME NEW i \in DOMAIN issues
               PROVE  i \in Matches(filter, cursor) <=> /\ filter = "" \/ issues[i].status = filter
                                                      /\ issues[i].last_seen_at < cursor
    OBVIOUS
  <2> QED BY <2>1, Zenon DEF Matches
<1>8. PageOf(rows) \subseteq DOMAIN issues
  BY <1>4 DEF Matches
<1>9. /\ shown \subseteq DOMAIN issues /\ quiet \subseteq DOMAIN issues
      /\ \A i \in DOMAIN issues : issues[i].last_seen_at \in Nat
  BY DEF TypeOK, PagingInv, TimesAreStored
<1>10. \A i \in shown \ movedBack : issues[i].last_seen_at >= cursor
  BY <1>1, <1>2 DEF PagingInv, ShownAreAboveCursor
<1>11. TypeOK'
  BY <1>2, <1>3, <1>4, <1>5, <1>6, <1>8 DEF TypeOK, StoreTypeOK, TablesTypeOK
<1>12. TimesAreStored'
  BY <1>5 DEF PagingInv, TimesAreStored
\* An issue on both pages is below the cursor now, so its time fell.
<1>13. RepeatsMeanTimeWentBack'
  <2>1. \A i \in shown \cap PageOf(rows) : i \in movedBack
    <3> SUFFICES ASSUME NEW i \in shown, i \in PageOf(rows), i \notin movedBack
                 PROVE  FALSE
      OBVIOUS
    <3>1. issues[i].last_seen_at \in Nat /\ issues[i].last_seen_at >= cursor
      BY <1>9, <1>10
    <3>2. issues[i].last_seen_at < cursor
      BY <1>4, <1>7, <1>8
    <3> QED BY <3>1, <3>2
  <2> QED BY <1>2, <1>3, <2>1 DEF PagingInv, RepeatsMeanTimeWentBack
<1>14. ShownAreAboveCursor'
  <2> SUFFICES ASSUME NextCursor(rows) > 0, NEW i \in shown \cup PageOf(rows), i \notin movedBack
               PROVE  issues[i].last_seen_at >= NextCursor(rows)
    BY <1>2, <1>3, <1>5, <1>6 DEF ShownAreAboveCursor
  <2>1. CASE i \in shown
    BY <1>4, <1>9, <1>10, <2>1
  <2>2. CASE i \in PageOf(rows)
    BY <1>4, <2>2
  <2> QED BY <2>1, <2>2
<1>15. QuietIssuesAreAhead'
  <2> SUFFICES ASSUME NEW i \in quiet
               PROVE  /\ filter = "" \/ issues[i].status = filter
                      /\ \/ i \in shown \cup PageOf(rows)
                         \/ issues[i].last_seen_at \in lastRows \cup LastRow(rows)
                         \/ NextCursor(rows) > 0 /\ issues[i].last_seen_at < NextCursor(rows)
    BY <1>2, <1>3, <1>5, <1>6 DEF QuietIssuesAreAhead
  <2>1. /\ filter = "" \/ issues[i].status = filter
        /\ \/ i \in shown
           \/ issues[i].last_seen_at \in lastRows
           \/ issues[i].last_seen_at < cursor
    BY <1>1, <1>2 DEF PagingInv, QuietIssuesAreAhead
  <2>2. CASE issues[i].last_seen_at < cursor
    <3>1. i \in Matches(filter, cursor)
      BY <1>7, <1>9, <2>1, <2>2
    <3> QED BY <1>4, <2>1, <3>1
  <2> QED BY <2>1, <2>2
<1> QED BY <1>6, <1>11, <1>12, <1>13, <1>14, <1>15
        DEF PagingInv, HeaderIsOfEvents, ListedAreEvents, DetailAgreesWithItself

LEMMA OpenIssueKeepsInv ==
    ASSUME TypeOK, PagingInv, StoreInv, NEW i, OpenIssue(i)
    PROVE  TypeOK' /\ PagingInv'
<1>1. /\ i \in DOMAIN issues /\ LeavesList
      /\ view' = [Empty EXCEPT !.page = "half", !.issue = i, !.count = issues[i].event_count,
                               !.last = issues[i].last_event_id]
      /\ UNCHANGED <<issues, events, attachments, sourceMaps, clock, clicks>>
  BY DEF OpenIssue, storeVars, tableVars
<1>2. issues[i] \in IssueRow /\ i \in IssueIds
  BY <1>1 DEF TypeOK, StoreTypeOK, TablesTypeOK
<1>3. /\ view'.page = "half" /\ view'.issue = i /\ view'.count = issues[i].event_count
      /\ view'.last = issues[i].last_event_id /\ view' \in View
  BY <1>1, <1>2 DEF Empty, View, Filters, IssueRow
<1>4. issues[i].last_event_id \in EventsOf(i) /\ issues[i].event_count = Cardinality(EventsOf(i))
  BY <1>1 DEF StoreInv, SeenColumnsAreEvents, EventCountIsEventRows
<1>5. issues[i].event_count \in Nat
  BY <1>2 DEF IssueRow
<1>6. EventsOf(i)' = EventsOf(i)
  BY <1>1 DEF EventsOf
<1>7. HeaderIsOfEvents'
  <2>1. issues[i].last_event_id \in EventsOf(i)' /\ issues[i].event_count <= Cardinality(EventsOf(i)')
    BY <1>4, <1>5, <1>6
  <2> QED BY <1>3, <2>1 DEF HeaderIsOfEvents, EventsOf
<1>8. TypeOK'
  BY <1>1, <1>3 DEF TypeOK, StoreTypeOK, TablesTypeOK, LeavesList
<1>9. TimesAreStored'
  BY <1>1 DEF PagingInv, TimesAreStored
<1> QED BY <1>1, <1>3, <1>7, <1>8, <1>9
        DEF PagingInv, LeavesList, RepeatsMeanTimeWentBack, ShownAreAboveCursor,
            QuietIssuesAreAhead, ListedAreEvents, DetailAgreesWithItself

LEMMA ListEventsKeepsInv ==
    ASSUME TypeOK, PagingInv, StoreInv, ListEvents
    PROVE  TypeOK' /\ PagingInv'
<1>1. PICK i : i = view.issue
  OBVIOUS
<1>2. PICK S \in ListEventsByIssue(i, DetailSize) :
         view' = [view EXCEPT !.page = "detail", !.listed = S]
  BY <1>1 DEF ListEvents
<1>3. UNCHANGED <<issues, events, attachments, sourceMaps, clock, clicks,
                  shown, lastRows, repeated, movedBack, quiet>>
  BY DEF ListEvents, storeVars, tableVars
<1>4. view.page = "half" /\ view \in View
  BY DEF ListEvents, TypeOK
<1>5. /\ S \subseteq EventsOf(i)
      /\ Cardinality(S) = IF Cardinality(EventsOf(i)) < DetailSize THEN Cardinality(EventsOf(i))
                          ELSE DetailSize
      /\ \A e \in S, f \in EventsOf(i) \ S : events[e].received_at >= events[f].received_at
  BY DEF ListEventsByIssue
<1>6. EventsOf(i) \subseteq DOMAIN events /\ DOMAIN events \subseteq EventIds
  BY DEF EventsOf, TypeOK, StoreTypeOK, TablesTypeOK
<1>7. /\ view'.page = "detail" /\ view'.listed = S /\ view'.issue = i /\ view'.count = view.count
      /\ view'.last = view.last /\ view' \in View
  BY <1>1, <1>2, <1>4, <1>5, <1>6 DEF View
<1>8. view.last \in EventsOf(i) /\ view.count <= Cardinality(EventsOf(i)) /\ view.count \in Nat
  BY <1>1, <1>4 DEF PagingInv, HeaderIsOfEvents, View
<1>9. IsFiniteSet(EventsOf(i)) /\ Cardinality(EventsOf(i)) \in Nat /\ DetailSize \in Nat
  BY EventsOfFinite, SizesAssumption DEF StoreInv
<1>10. HeaderIsOfEvents'
  <2>1. EventsOf(i)' = EventsOf(i)
    BY <1>3 DEF EventsOf
  <2>2. view.last \in EventsOf(i)' /\ view.count <= Cardinality(EventsOf(i)')
    BY <1>8, <2>1
  <2> QED BY <1>7, <2>2 DEF HeaderIsOfEvents, EventsOf
\* A last event that is not listed was crowded out by others.
<1>11. DetailAgreesWithItself'
  <2>1. Cardinality(S) >= IF view.count < DetailSize THEN view.count ELSE DetailSize
    BY <1>5, <1>8, <1>9
  <2>2. CASE view.last \in S
    BY <1>7, <2>1, <2>2 DEF DetailAgreesWithItself
  <2>3. CASE view.last \notin S
    <3>1. \A e \in S : events[e].received_at >= events[view.last].received_at
      BY <1>5, <1>8, <2>3
    <3>2. S # EventsOf(i)
      BY <1>8, <2>3
    <3>3. Cardinality(S) # Cardinality(EventsOf(i))
      BY <1>5, <1>9, <3>2, FS_Subset
    <3>4. Cardinality(S) = DetailSize
      BY <1>5, <3>3
    <3> QED BY <1>3, <1>7, <2>1, <3>1, <3>4 DEF DetailAgreesWithItself
  <2> QED BY <2>2, <2>3
<1>12. TypeOK'
  BY <1>3, <1>7 DEF TypeOK, StoreTypeOK, TablesTypeOK
<1>13. TimesAreStored'
  BY <1>3 DEF PagingInv, TimesAreStored
<1>14. ListedAreEvents'
  BY <1>3, <1>5, <1>6, <1>7 DEF ListedAreEvents
<1> QED BY <1>3, <1>7, <1>10, <1>11, <1>12, <1>13, <1>14
        DEF PagingInv, RepeatsMeanTimeWentBack, ShownAreAboveCursor, QuietIssuesAreAhead

LEMMA NextKeepsInv ==
    ASSUME TypeOK, StoreInv, PagingInv, [Next]_vars
    PROVE  TypeOK' /\ StoreInv' /\ PagingInv'
<1>1. StoreTypeOK /\ TimesAreStored /\ clock \in 1 .. MaxClock /\ clock \in Nat /\ MaxClock \in Nat
      /\ clicks \in 0 .. MaxClicks /\ MaxClicks \in Nat
  BY SizesAssumption DEF TypeOK, PagingInv
<1>2. ASSUME NEW e \in EventIds, NEW k \in GroupingKeys, NEW now \in 1 .. MaxClock,
             NEW i \in IssueIds, RecordEvent(e, k, now, i)
      PROVE  TypeOK' /\ StoreInv' /\ PagingInv'
  <2>1. /\ now \in 1 .. clock /\ clock' = clock /\ clicks' = clicks /\ Changes
        /\ RecordNewIssue(e, k, now, i) \/ RecordKnownIssue(e, k, now, i)
    BY <1>2 DEF RecordEvent, Changes
  <2>2. StoreTypeOK' /\ StoreInv' /\ Writes
    BY <1>1, <2>1, RecordWrites
  <2> QED BY <1>1, <2>1, <2>2, WriterKeepsInv
<1>3. ASSUME NEW i \in IssueIds, NEW s \in Statuses, ChangeStatus(i, s)
      PROVE  TypeOK' /\ StoreInv' /\ PagingInv'
  <2>1. /\ clicks < MaxClicks /\ clicks' = clicks + 1 /\ Changes /\ clock' = clock
        /\ UpdateIssueStatus(i, s)
    BY <1>3 DEF ChangeStatus, Changes
  <2>2. StoreTypeOK' /\ StoreInv' /\ Writes
    BY <1>1, <2>1, ClickWrites
  <2>3. clicks' \in 0 .. MaxClicks
    BY <1>1, <2>1
  <2> QED BY <2>1, <2>2, <2>3, WriterKeepsInv
<1>4. CASE Tick
  <2>1. /\ UNCHANGED storeVars /\ clock < MaxClock /\ clock' = clock + 1
        /\ UNCHANGED <<issues, events, clicks, view, shown, lastRows, repeated, movedBack, quiet>>
    BY <1>4 DEF Tick, storeVars, tableVars, tabVars
  <2>2. StoreTypeOK' /\ StoreInv'
    BY <1>1, <2>1, UnchangedKeepsInv
  <2>3. TypeOK'
    BY <1>1, <2>1, <2>2 DEF TypeOK
  <2>4. TimesAreStored'
    BY <1>1, <2>1 DEF TimesAreStored
  <2>5. \A i : EventsOf(i)' = EventsOf(i)
    BY <2>1 DEF EventsOf
  <2> QED BY <2>1, <2>2, <2>3, <2>4
          DEF PagingInv, RepeatsMeanTimeWentBack, ShownAreAboveCursor, QuietIssuesAreAhead,
              HeaderIsOfEvents, ListedAreEvents, DetailAgreesWithItself, EventsOf
<1>5. CASE UNCHANGED vars
  <2>1. /\ UNCHANGED storeVars /\ clock' = clock
        /\ UNCHANGED <<issues, events, clicks, view, shown, lastRows, repeated, movedBack, quiet>>
    BY <1>5 DEF vars, storeVars, tableVars, tabVars
  <2>2. StoreTypeOK' /\ StoreInv'
    BY <1>1, <2>1, UnchangedKeepsInv
  <2> QED BY <2>1, <2>2
          DEF TypeOK, PagingInv, TimesAreStored, RepeatsMeanTimeWentBack, ShownAreAboveCursor,
              QuietIssuesAreAhead, HeaderIsOfEvents, ListedAreEvents, DetailAgreesWithItself,
              EventsOf
\* The pages read the tables and leave them alone.
<1>6. ASSUME UNCHANGED storeVars
      PROVE  StoreInv'
  BY <1>1, <1>6, UnchangedKeepsInv
<1>7. CASE \/ \E filter \in Filters : OpenIssues(filter)
           \/ LoadMore \/ (\E i \in IssueIds : OpenIssue(i)) \/ ListEvents
  <2>1. StoreInv'
    BY <1>6, <1>7 DEF OpenIssues, LoadMore, HandleIssues, OpenIssue, ListEvents
  <2>2. TypeOK' /\ PagingInv'
    BY <1>7, OpenIssuesKeepsInv, LoadMoreKeepsInv, OpenIssueKeepsInv, ListEventsKeepsInv
  <2> QED BY <2>1, <2>2
<1> QED BY <1>2, <1>3, <1>4, <1>5, <1>7 DEF Next

LEMMA InitCorrect == Init => TypeOK /\ StoreInv /\ PagingInv
<1> SUFFICES ASSUME Init PROVE TypeOK /\ StoreInv /\ PagingInv
  OBVIOUS
<1>1. StoreTypeOK /\ StoreInv
  BY StoreInitCorrect DEF Init
<1>2. DOMAIN issues = {} /\ IsFiniteSet({})
  BY FS_EmptySet DEF Init, StoreInit, TablesInit
<1>3. view.page = "none" /\ view \in View
  BY DEF Init, Empty, View, Filters
<1>4. clock \in 1 .. MaxClock /\ clicks \in 0 .. MaxClicks
  BY SizesAssumption DEF Init
<1>5. /\ shown = {} /\ lastRows = {} /\ repeated = {} /\ movedBack = {} /\ quiet = {}
  BY DEF Init
<1>6. TypeOK
  BY <1>1, <1>3, <1>4, <1>5 DEF TypeOK
<1>7. TimesAreStored
  BY <1>2 DEF TimesAreStored
<1> QED BY <1>1, <1>3, <1>5, <1>6, <1>7
        DEF PagingInv, RepeatsMeanTimeWentBack, ShownAreAboveCursor, QuietIssuesAreAhead,
            HeaderIsOfEvents, ListedAreEvents, DetailAgreesWithItself

-----------------------------------------------------------------------------
(***************************************************************************)
(* The results.                                                            *)
(***************************************************************************)

\* The inductive invariant of the tables and of the tab, which the results
\* below follow from.
THEOREM PagingInvariant == Spec => [](TypeOK /\ StoreInv /\ PagingInv)
<1>1. (TypeOK /\ StoreInv /\ PagingInv) /\ [Next]_vars => (TypeOK /\ StoreInv /\ PagingInv)'
  BY NextKeepsInv
<1> QED BY <1>1, InitCorrect, PTL DEF Spec

\* What the tab shows, and what is remembered of it, is of issues and events
\* that are in the tables.
THEOREM PagingTypeCorrect == Spec => []TypeOK
BY PagingInvariant, PTL

\* "Load more" shows no issue twice, unless an event with an older time has
\* moved it down since (ListIssues, HandleIssues).
THEOREM NoRepeatsWithoutReason == Spec => []RepeatsMeanTimeWentBack
<1>1. PagingInv => RepeatsMeanTimeWentBack
  BY DEF PagingInv
<1> QED BY <1>1, PagingInvariant, PTL

\* Loading to the end shows every issue that has not changed meanwhile, but
\* for those of the second of a last row, which the cursor passes over.
THEOREM QuietIssuesAreNotMissed == Spec => []QuietIssuesAreShown
<1>1. PagingInv => QuietIssuesAreShown
  <2> SUFFICES ASSUME PagingInv, view.page = "list", view.nextCursor = 0, NEW i \in quiet \ shown
               PROVE  issues[i].last_seen_at \in lastRows
    BY DEF QuietIssuesAreShown
  <2>1. ~(view.nextCursor > 0)
    OBVIOUS
  <2> QED BY <2>1, Zenon DEF PagingInv, QuietIssuesAreAhead
<1> QED BY <1>1, PagingInvariant, PTL

\* The header and the list of a detail page agree, whatever is recorded
\* between the two calls of HandleIssue.
THEOREM DetailsAgree == Spec => []DetailAgreesWithItself
<1>1. PagingInv => DetailAgreesWithItself
  BY DEF PagingInv
<1> QED BY <1>1, PagingInvariant, PTL
=============================================================================
