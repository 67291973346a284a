--------------------------- MODULE PostgresProofs ---------------------------
(***************************************************************************)
(* What survives READ COMMITTED, for any number of transactions, events,   *)
(* keys, clicks and failures.                                              *)
(***************************************************************************)
EXTENDS PostgresStore, IssueTablesProofs

\* The uncommitted row of a transaction, if it has one.
Rows == {NoRow} \cup {Put(NoRow, i, row) : i \in IssueIds, row \in IssueRow}

Tx == [pc : Statement \cup {"idle", "done"}, item : Items \cup {None}, now : Nat,
       count : Nat, newIssue : BOOLEAN, issue : IssueIds \cup {None}, writes : Rows,
       reply : {"none", "new", "known", "duplicate", "conflict", "failed"}]

\* The statements at which a transaction holds a row of table issues.
Holding == {"insert_event", "commit"}

\* What transaction x knows of the tables, and what it has not committed.
Right(x) ==
    /\ x.pc # "idle" => x.item \in Items
    /\ x.writes = NoRow <=> x.pc \notin Holding
    /\ x.pc \in {"idle", "find_event", "find_issue", "update_issue"} => ~x.newIssue
    /\ x.pc = "insert_issue" => x.newIssue
    /\ x.newIssue => x.issue \in IssueIds
    /\ x.newIssue /\ x.pc # "done" => x.issue \notin DOMAIN issues
    /\ ~x.newIssue /\ x.pc \in Holding \cup {"update_issue"} =>
          /\ x.issue \in DOMAIN issues
          /\ issues[x.issue].grouping_key = x.item.key
          /\ x.count <= Cardinality(EventsOf(x.issue))
    /\ x.newIssue /\ x.pc \in Holding =>
          /\ x.writes = Put(NoRow, x.issue, NewIssueRow(x.item.key, x.item.id, x.now))
          /\ x.item.key \notin KeysSeen
    /\ ~x.newIssue /\ x.pc \in Holding =>
          x.writes = Put(NoRow, x.issue,
                         RowAfterEvent(issues[x.issue], x.item.id, x.now, x.count + 1))
    /\ x.pc = "commit" => ~HasEvent(x.item.id)
    /\ x.pc # "done" => x.reply = "none"
    /\ x.reply \in {"new", "known", "duplicate"} => HasEvent(x.item.id)
    /\ x.reply = "new" => x.newIssue /\ x.issue \in IssuesWithKey(x.item.key)

\* Two transactions x and y do not write the same row, key or event.
Apart(x, y) ==
    /\ x.newIssue /\ y.newIssue => x.issue # y.issue
    /\ x.pc \in Holding /\ y.pc \in Holding =>
          /\ x.issue # y.issue
          /\ x.newIssue /\ y.newIssue => x.item.key # y.item.key
    /\ x.pc = "commit" /\ y.pc = "commit" => x.item.id # y.item.id

TxInv ==
    /\ tx \in [Requests -> Tx]
    /\ \A r \in Requests : Right(tx[r])
    /\ \A q, r \in Requests : q # r => Apart(tx[q], tx[r])

\* The inductive invariant.
IInv ==
    /\ TablesTypeOK
    /\ TablesInv
    /\ SeenColumnsAreEvents
    /\ CountsAreBounded
    /\ clock \in Nat /\ clicked \subseteq Clicks
    /\ TxInv

-----------------------------------------------------------------------------
(***************************************************************************)
(* Statements that change no committed row.                                *)
(***************************************************************************)

LEMMA RowOfPut ==
    ASSUME NEW i, NEW row
    PROVE  /\ DOMAIN Put(NoRow, i, row) = {i}
           /\ Put(NoRow, i, row)[i] = row
           /\ Put(NoRow, i, row) # NoRow
<1>1. DOMAIN NoRow = {} /\ DOMAIN Put(NoRow, i, row) = {i}
  BY DEF NoRow, Put
<1> QED BY <1>1 DEF Put

\* It is enough to look at the transaction that moves.
LEMMA LocalKeepsInv ==
    ASSUME IInv, NEW r \in Requests, NEW x \in Tx, UNCHANGED tableVars,
           tx' = [tx EXCEPT ![r] = x], Right(x),
           \A q \in Requests \ {r} : Apart(tx[q], x),
           clock' \in Nat, clicked' \subseteq Clicks
    PROVE  IInv'
<1>1. tx' \in [Requests -> Tx] /\ tx'[r] = x /\ \A q \in Requests \ {r} : tx'[q] = tx[q]
  BY DEF IInv, TxInv
<1>2. issues' = issues /\ events' = events
  BY DEF tableVars
<1>3. \A i : EventsOf(i)' = EventsOf(i)
  BY <1>2 DEF EventsOf
<1>4. \A y : Right(y) => Right(y)'
  BY <1>2, <1>3 DEF Right, KeysSeen, HasEvent, IssuesWithKey
<1>5. \A q \in Requests : Right(tx[q])'
  <2> SUFFICES ASSUME NEW q \in Requests PROVE Right(tx[q])'
    OBVIOUS
  <2>1. PICK y : y = tx'[q]
    OBVIOUS
  <2>2. Right(y)
    BY <1>1, <2>1 DEF IInv, TxInv
  <2>3. Right(y)'
    BY <1>4, <2>2
  <2> QED BY <2>1, <2>3 DEF Right
<1>6. \A y, z : Apart(y, z) => Apart(z, y)
  BY DEF Apart
<1>7. \A p, q \in Requests : p # q => Apart(tx'[p], tx'[q])
  BY <1>1, <1>6 DEF IInv, TxInv
<1>8. TxInv'
  BY <1>1, <1>5, <1>7 DEF TxInv
<1>9. TablesTypeOK' /\ SeenColumnsAreEvents' /\ CountsAreBounded'
  BY <1>2, <1>3 DEF IInv, TablesTypeOK, SeenColumnsAreEvents, CountsAreBounded
<1>10. TablesInv'
  BY SameTablesSameLedger DEF IInv
<1> QED BY <1>8, <1>9, <1>10 DEF IInv

\* The transaction ends without a commit.
LEMMA EndKeepsInv ==
    ASSUME IInv, NEW r \in Requests, tx[r].pc \in Statement, UNCHANGED <<tableVars, clock, clicked>>,
           NEW reply \in {"duplicate", "conflict", "failed"},
           reply = "duplicate" => HasEvent(tx[r].item.id),
           tx' = [tx EXCEPT ![r] = Ended(r, reply)]
    PROVE  IInv'
<1>1. PICK y \in Tx : y = tx[r]
  BY DEF IInv, TxInv
<1>2. PICK x : x = Ended(r, reply)
  OBVIOUS
<1>3. /\ x \in Tx /\ x.pc = "done" /\ x.writes = NoRow /\ x.reply = reply
      /\ x.item = y.item /\ x.issue = y.issue /\ x.newIssue = y.newIssue
  <2>1. x = [y EXCEPT !.pc = "done", !.writes = NoRow, !.reply = reply]
    BY <1>1, <1>2 DEF Ended
  <2>2. NoRow \in Rows
    BY DEF Rows
  <2> QED BY <2>1, <2>2 DEF Tx
<1>4. Right(y) /\ \A q \in Requests \ {r} : Apart(tx[q], y)
  BY <1>1 DEF IInv, TxInv
<1>5. Right(x)
  BY <1>1, <1>3, <1>4 DEF Right, Holding, Statement
<1>6. \A q \in Requests \ {r} : Apart(tx[q], x)
  BY <1>3, <1>4 DEF Apart, Holding
<1>7. clock' \in Nat /\ clicked' \subseteq Clicks /\ UNCHANGED tableVars
      /\ tx' = [tx EXCEPT ![r] = x]
  BY <1>2 DEF IInv
<1> QED BY <1>3, <1>5, <1>6, <1>7, LocalKeepsInv

\* The statements before the first write.
LEMMA ReadingKeepsInv ==
    ASSUME IInv, NEW r \in Requests,
           \/ \E item \in Items : Begin(r, item)
           \/ FindEvent(r) \/ FindIssue(r) \/ FindNoIssue(r)
    PROVE  IInv'
<1>1. PICK y \in Tx : y = tx[r]
  BY DEF IInv, TxInv
<1>2. Right(y) /\ \A q \in Requests \ {r} : Apart(tx[q], y)
  BY <1>1 DEF IInv, TxInv
<1>3. clock' \in Nat /\ clicked' \subseteq Clicks /\ UNCHANGED tableVars
      /\ UNCHANGED <<clock, clicked>>
  BY DEF Begin, FindEvent, FindIssue, FindNoIssue, At, IInv
<1>4. tx \in [Requests -> Tx]
  BY DEF IInv, TxInv
<1>5. CASE \E item \in Items : Begin(r, item)
  <2>1. PICK item \in Items : Begin(r, item)
    BY <1>5
  <2>2. PICK x : x = [y EXCEPT !.pc = "find_event", !.item = item, !.now = clock]
    OBVIOUS
  <2>3. y.pc = "idle" /\ tx' = [tx EXCEPT ![r] = x]
    BY <1>1, <1>4, <2>1, <2>2 DEF Begin, At, Tx
  <2>4. /\ x \in Tx /\ x.pc = "find_event" /\ x.item = item /\ x.writes = y.writes
        /\ x.newIssue = y.newIssue /\ x.issue = y.issue /\ x.reply = y.reply
    BY <2>2 DEF Tx, Statement, IInv
  <2>5. Right(x)
    BY <1>2, <2>3, <2>4 DEF Right, Holding
  <2>6. \A q \in Requests \ {r} : Apart(tx[q], x)
    BY <1>2, <2>4 DEF Apart, Holding
  <2> QED BY <1>3, <2>3, <2>4, <2>5, <2>6, LocalKeepsInv
<1>6. CASE FindEvent(r) /\ HasEvent(tx[r].item.id)
  <2>1. tx' = [tx EXCEPT ![r] = Ended(r, "duplicate")] /\ tx[r].pc \in Statement
    BY <1>6 DEF FindEvent, At, Statement
  <2> QED BY <1>3, <1>6, <2>1, EndKeepsInv
<1>7. CASE FindEvent(r) /\ ~HasEvent(tx[r].item.id)
  <2>1. PICK x : x = [y EXCEPT !.pc = "find_issue"]
    OBVIOUS
  <2>2. y.pc = "find_event" /\ tx' = [tx EXCEPT ![r] = x]
    BY <1>1, <1>4, <1>7, <2>1 DEF FindEvent, At, Tx
  <2>3. /\ x \in Tx /\ x.pc = "find_issue" /\ x.item = y.item /\ x.writes = y.writes
        /\ x.newIssue = y.newIssue /\ x.issue = y.issue /\ x.reply = y.reply
    BY <2>1 DEF Tx, Statement
  <2>4. Right(x)
    BY <1>2, <2>2, <2>3 DEF Right, Holding
  <2>5. \A q \in Requests \ {r} : Apart(tx[q], x)
    BY <1>2, <2>3 DEF Apart, Holding
  <2> QED BY <1>3, <2>2, <2>3, <2>4, <2>5, LocalKeepsInv
<1>8. CASE FindIssue(r)
  <2>1. PICK i \in IssuesWithKey(tx[r].item.key) :
           tx' = [tx EXCEPT ![r].pc = "update_issue", ![r].issue = i,
                            ![r].count = issues[i].event_count]
    BY <1>8 DEF FindIssue
  <2>2. PICK c : c = issues[i].event_count
    OBVIOUS
  <2>3. PICK x : x = [y EXCEPT !.pc = "update_issue", !.issue = i, !.count = c]
    OBVIOUS
  <2>4. /\ i \in DOMAIN issues /\ i \in IssueIds /\ issues[i].grouping_key = y.item.key
        /\ c \in Nat /\ c <= Cardinality(EventsOf(i))
    BY <1>1, <2>1, <2>2, EventsOfFinite
       DEF IssuesWithKey, IInv, TablesTypeOK, IssueRow, CountsAreBounded, TablesInv
  <2>5. y.pc = "find_issue" /\ tx' = [tx EXCEPT ![r] = x]
    BY <1>1, <1>4, <1>8, <2>1, <2>2, <2>3 DEF FindIssue, At, Tx
  <2>6. /\ x \in Tx /\ x.pc = "update_issue" /\ x.item = y.item /\ x.writes = y.writes
        /\ x.newIssue = y.newIssue /\ x.issue = i /\ x.reply = y.reply /\ x.count = c
    BY <2>3, <2>4 DEF Tx, Statement
  <2>7. Right(x)
    BY <1>2, <2>4, <2>5, <2>6 DEF Right, Holding
  <2>8. \A q \in Requests \ {r} : Apart(tx[q], x)
    BY <1>2, <2>5, <2>6 DEF Apart, Right, Holding
  <2> QED BY <1>3, <2>5, <2>6, <2>7, <2>8, LocalKeepsInv
<1>9. CASE FindNoIssue(r)
  <2>1. PICK i \in IssueIds \ (DOMAIN issues \cup {tx[q].issue : q \in Requests}) :
           tx' = [tx EXCEPT ![r].pc = "insert_issue", ![r].issue = i, ![r].newIssue = TRUE]
    BY <1>9 DEF FindNoIssue
  <2>2. PICK x : x = [y EXCEPT !.pc = "insert_issue", !.issue = i, !.newIssue = TRUE]
    OBVIOUS
  <2>3. y.pc = "find_issue" /\ tx' = [tx EXCEPT ![r] = x]
    BY <1>1, <1>4, <1>9, <2>1, <2>2 DEF FindNoIssue, At, Tx
  <2>4. /\ x \in Tx /\ x.pc = "insert_issue" /\ x.item = y.item /\ x.writes = y.writes
        /\ x.newIssue /\ x.issue = i /\ x.reply = y.reply
    BY <2>1, <2>2 DEF Tx, Statement
  <2>5. Right(x)
    BY <1>2, <2>1, <2>3, <2>4 DEF Right, Holding
  <2>6. \A q \in Requests \ {r} : Apart(tx[q], x)
    BY <2>1, <2>4 DEF Apart, Holding
  <2> QED BY <1>3, <2>3, <2>4, <2>5, <2>6, LocalKeepsInv
<1> QED BY <1>5, <1>6, <1>7, <1>8, <1>9

\* The INSERT or UPDATE on table issues takes a row that nobody holds.
LEMMA WritingKeepsInv ==
    ASSUME IInv, NEW r \in Requests, InsertIssue(r) \/ UpdateIssue(r)
    PROVE  IInv'
<1>1. PICK y \in Tx : y = tx[r]
  BY DEF IInv, TxInv
<1>2. Right(y) /\ \A q \in Requests \ {r} : Right(tx[q]) /\ Apart(tx[q], y)
  BY <1>1 DEF IInv, TxInv
<1>3. clock' \in Nat /\ clicked' \subseteq Clicks /\ UNCHANGED tableVars
      /\ UNCHANGED <<clock, clicked>>
  BY DEF InsertIssue, UpdateIssue, Write, At, IInv
<1>4. tx \in [Requests -> Tx]
  BY DEF IInv, TxInv
<1>5. y.item \in Items /\ y.item.id \in EventIds /\ y.item.key \in GroupingKeys /\ y.now \in Nat
  <2>1. y.pc # "idle"
    BY <1>1 DEF InsertIssue, UpdateIssue, At
  <2> QED BY <1>2, <2>1, ItemsAssumption DEF Right, Tx
<1>6. ASSUME NEW row \in IssueRow, y.issue \in IssueIds,
             tx' = [tx EXCEPT ![r].pc = "insert_event",
                              ![r].writes = Put(NoRow, tx[r].issue, row)],
             NEW x, x = [y EXCEPT !.pc = "insert_event", !.writes = Put(NoRow, y.issue, row)]
      PROVE  /\ x \in Tx /\ x.pc = "insert_event" /\ x.item = y.item /\ x.now = y.now
             /\ x.count = y.count /\ x.newIssue = y.newIssue /\ x.issue = y.issue
             /\ x.reply = y.reply /\ x.writes = Put(NoRow, x.issue, row) /\ x.writes # NoRow
             /\ tx' = [tx EXCEPT ![r] = x]
  <2>1. PICK w \in Rows : w = Put(NoRow, y.issue, row)
    BY <1>6 DEF Rows
  <2>2. x \in Tx /\ x.pc = "insert_event" /\ x.item = y.item /\ x.now = y.now
        /\ x.count = y.count /\ x.newIssue = y.newIssue /\ x.issue = y.issue
        /\ x.reply = y.reply /\ x.writes = w
    BY <1>6, <2>1 DEF Tx, Statement
  <2>3. w # NoRow
    BY <2>1, RowOfPut
  <2>4. tx' = [tx EXCEPT ![r] = x]
    BY <1>1, <1>4, <1>6 DEF Tx
  <2> QED BY <2>1, <2>2, <2>3, <2>4
<1>7. CASE InsertIssue(r)
  <2>1. PICK row : row = NewIssueRow(y.item.key, y.item.id, y.now)
    OBVIOUS
  <2>2. row \in IssueRow /\ row.grouping_key = y.item.key
    BY <1>5, <2>1 DEF NewIssueRow, IssueRow, Statuses
  <2>3. /\ y.pc = "insert_issue" /\ y.newIssue /\ y.issue \in IssueIds
        /\ y.issue \notin DOMAIN issues /\ y.item.key \notin KeysSeen
    BY <1>1, <1>2, <1>7 DEF InsertIssue, At, Right, IssuesWithKey, KeysSeen
  <2>4. tx' = [tx EXCEPT ![r].pc = "insert_event", ![r].writes = Put(NoRow, tx[r].issue, row)]
    BY <1>1, <1>7, <2>1 DEF InsertIssue, Write
  <2>5. PICK x : x = [y EXCEPT !.pc = "insert_event", !.writes = Put(NoRow, y.issue, row)]
    OBVIOUS
  <2>6. /\ x \in Tx /\ x.pc = "insert_event" /\ x.item = y.item /\ x.now = y.now
        /\ x.count = y.count /\ x.newIssue = y.newIssue /\ x.issue = y.issue
        /\ x.reply = y.reply /\ x.writes = Put(NoRow, x.issue, row) /\ x.writes # NoRow
        /\ tx' = [tx EXCEPT ![r] = x]
    <3>1. row \in IssueRow /\ y.issue \in IssueIds
      BY <2>2, <2>3
    <3> QED BY ONLY <1>6, <3>1, <2>4, <2>5, ZenonT(60)
  <2>7. Right(x)
    BY <1>2, <1>5, <2>1, <2>3, <2>6 DEF Right, Holding
  <2>8. ASSUME NEW q \in Requests \ {r} PROVE Apart(tx[q], x)
    <3>1. CASE tx[q].pc \in Holding /\ tx[q].newIssue
      <4>1. PICK other : other = NewIssueRow(tx[q].item.key, tx[q].item.id, tx[q].now)
        OBVIOUS
      <4>2. tx[q].writes = Put(NoRow, tx[q].issue, other) /\ tx[q].issue \notin DOMAIN issues
        BY <1>2, <3>1, <4>1 DEF Right, Holding
      <4>3. other.grouping_key = tx[q].item.key
        BY <4>1 DEF NewIssueRow
      <4>4. tx[q].issue \in DOMAIN tx[q].writes \ DOMAIN issues
            /\ tx[q].writes[tx[q].issue] = other
        BY <4>2, RowOfPut, ZenonT(60)
      <4>5. tx[q].item.key # y.item.key
        BY <1>1, <1>7, <4>3, <4>4 DEF InsertIssue, KeyLocked
      <4> QED BY <1>2, <2>3, <2>6, <3>1, <4>5 DEF Apart
    <3>2. CASE tx[q].pc \in Holding /\ ~tx[q].newIssue
      BY <1>2, <2>3, <2>6, <3>2 DEF Apart, Right
    <3>3. CASE tx[q].pc \notin Holding
      BY <1>2, <2>3, <2>6, <3>3 DEF Apart
    <3> QED BY <3>1, <3>2, <3>3
  <2> QED BY <1>3, <2>6, <2>7, <2>8, LocalKeepsInv
<1>8. CASE UpdateIssue(r)
  <2>1. PICK row : row = RowAfterEvent(issues[y.issue], y.item.id, y.now, y.count + 1)
    OBVIOUS
  <2>2. /\ y.pc = "update_issue" /\ ~y.newIssue /\ y.issue \in IssueIds
        /\ y.issue \in DOMAIN issues /\ issues[y.issue] \in IssueRow
    BY <1>1, <1>2, <1>8 DEF UpdateIssue, At, Right, IInv, TablesTypeOK
  <2>3. row \in IssueRow
    <3>1. y.count + 1 \in Nat /\ StatusAfterEvent(issues[y.issue].status) \in Statuses
      BY <2>2 DEF Tx, IssueRow, Statuses, StatusAfterEvent
    <3> QED BY <1>5, <2>1, <2>2, <3>1 DEF RowAfterEvent, IssueRow
  <2>4. tx' = [tx EXCEPT ![r].pc = "insert_event", ![r].writes = Put(NoRow, tx[r].issue, row)]
    BY <1>1, <1>8, <2>1 DEF UpdateIssue, Write
  <2>5. PICK x : x = [y EXCEPT !.pc = "insert_event", !.writes = Put(NoRow, y.issue, row)]
    OBVIOUS
  <2>6. /\ x \in Tx /\ x.pc = "insert_event" /\ x.item = y.item /\ x.now = y.now
        /\ x.count = y.count /\ x.newIssue = y.newIssue /\ x.issue = y.issue
        /\ x.reply = y.reply /\ x.writes = Put(NoRow, x.issue, row) /\ x.writes # NoRow
        /\ tx' = [tx EXCEPT ![r] = x]
    <3>1. row \in IssueRow /\ y.issue \in IssueIds
      BY <2>2, <2>3
    <3> QED BY ONLY <1>6, <3>1, <2>4, <2>5, ZenonT(60)
  <2>7. Right(x)
    BY <1>2, <1>5, <2>1, <2>2, <2>6 DEF Right, Holding
  <2>8. ASSUME NEW q \in Requests \ {r}, tx[q].pc \in Holding PROVE tx[q].issue # y.issue
    <3>1. \E other : tx[q].writes = Put(NoRow, tx[q].issue, other)
      BY <1>2, <2>8 DEF Right
    <3>2. tx[q].issue \in DOMAIN tx[q].writes
      BY <3>1, RowOfPut, ZenonT(60)
    <3> QED BY <1>1, <1>8, <3>2 DEF UpdateIssue, RowLocked
  <2>9. \A q \in Requests \ {r} : Apart(tx[q], x)
    BY <1>2, <2>2, <2>6, <2>8 DEF Apart
  <2> QED BY <1>3, <2>6, <2>7, <2>9, LocalKeepsInv
<1> QED BY <1>7, <1>8

\* The event is inserted, not yet committed, and nobody else is about to.
LEMMA InsertEventKeepsInv ==
    ASSUME IInv, NEW r \in Requests, InsertEvent(r)
    PROVE  IInv'
<1>1. PICK y \in Tx : y = tx[r]
  BY DEF IInv, TxInv
<1>2. Right(y) /\ (\A q \in Requests \ {r} : Apart(tx[q], y)) /\ tx \in [Requests -> Tx]
  BY <1>1 DEF IInv, TxInv
<1>3. clock' \in Nat /\ clicked' \subseteq Clicks /\ UNCHANGED tableVars
  BY DEF InsertEvent, At, IInv
<1>4. PICK x : x = [y EXCEPT !.pc = "commit"]
  OBVIOUS
<1>5. y.pc = "insert_event" /\ tx' = [tx EXCEPT ![r] = x]
  BY <1>1, <1>2, <1>4 DEF InsertEvent, At, Tx
<1>6. /\ x \in Tx /\ x.pc = "commit" /\ x.item = y.item /\ x.now = y.now
      /\ x.count = y.count /\ x.newIssue = y.newIssue /\ x.issue = y.issue
      /\ x.reply = y.reply /\ x.writes = y.writes
  BY <1>4 DEF Tx, Statement
<1>7. Right(x)
  BY <1>1, <1>2, <1>5, <1>6 DEF InsertEvent, Right, Holding
<1>8. \A q \in Requests \ {r} : Apart(tx[q], x)
  <2>1. \A q \in Requests \ {r} : tx[q].pc = "commit" => tx[q].item.id # y.item.id
    BY <1>1 DEF InsertEvent, EventLocked
  <2> QED BY <1>2, <1>5, <1>6, <2>1 DEF Apart, Holding
<1> QED BY <1>3, <1>5, <1>6, <1>7, <1>8, LocalKeepsInv

LEMMA FailingKeepsInv ==
    ASSUME IInv, NEW r \in Requests, IssueTaken(r) \/ EventTaken(r) \/ Fail(r)
    PROVE  IInv'
<1>1. /\ tx[r].pc \in Statement /\ UNCHANGED <<tableVars, clock, clicked>>
      /\ \E reply \in {"conflict", "failed"} : tx' = [tx EXCEPT ![r] = Ended(r, reply)]
  BY DEF IssueTaken, EventTaken, Fail, At, Statement
<1> QED BY <1>1, EndKeepsInv

-----------------------------------------------------------------------------
(***************************************************************************)
(* Steps that change committed rows.                                       *)
(***************************************************************************)

\* What a commit writes.
LEMMA CommitWrites ==
    ASSUME IInv, NEW r \in Requests, tx[r].pc = "commit",
           NEW y \in Tx, y = tx[r], NEW row, row = tx[r].writes[tx[r].issue]
    PROVE  /\ y.issue \in IssueIds /\ y.item.id \in EventIds /\ y.now \in Nat
           /\ row \in IssueRow /\ IsRowForEvent(row, y.issue, y.item.key)
           /\ ~HasEvent(y.item.id)
           /\ row.last_event_id = y.item.id /\ row.last_seen_at = y.now
           /\ IF y.newIssue
              THEN y.issue \notin DOMAIN issues /\ row.event_count = 1
                   /\ row.first_seen_at = y.now
              ELSE /\ y.issue \in DOMAIN issues
                   /\ row.first_seen_at = issues[y.issue].first_seen_at
                   /\ row.event_count = y.count + 1
                   /\ y.count <= Cardinality(EventsOf(y.issue))
<1>1. Right(y)
  BY DEF IInv, TxInv
<1>2. y.item \in Items /\ y.item.id \in EventIds /\ y.item.key \in GroupingKeys
      /\ y.now \in Nat /\ y.count \in Nat /\ ~HasEvent(y.item.id)
  BY <1>1, ItemsAssumption DEF Right, Tx
<1>3. CASE y.newIssue
  <2>1. PICK new : new = NewIssueRow(y.item.key, y.item.id, y.now)
    OBVIOUS
  <2>2. y.writes = Put(NoRow, y.issue, new) /\ y.issue \in IssueIds \ DOMAIN issues
        /\ y.item.key \notin KeysSeen
    BY <1>1, <1>3, <2>1 DEF Right, Holding
  <2>3. row = new
    BY <2>2, RowOfPut
  <2>4. /\ row \in IssueRow /\ row.grouping_key = y.item.key /\ row.status = "open"
        /\ row.last_event_id = y.item.id /\ row.last_seen_at = y.now
        /\ row.event_count = 1 /\ row.first_seen_at = y.now
    BY <1>2, <2>1, <2>3 DEF NewIssueRow, IssueRow, Statuses
  <2> QED BY <1>2, <1>3, <2>2, <2>4 DEF IsRowForEvent
<1>4. CASE ~y.newIssue
  <2>1. PICK new : new = RowAfterEvent(issues[y.issue], y.item.id, y.now, y.count + 1)
    OBVIOUS
  <2>2. /\ y.writes = Put(NoRow, y.issue, new) /\ y.issue \in DOMAIN issues
        /\ issues[y.issue].grouping_key = y.item.key
        /\ y.count <= Cardinality(EventsOf(y.issue))
    BY <1>1, <1>4, <2>1 DEF Right, Holding
  <2>3. row = new /\ y.issue \in IssueIds /\ issues[y.issue] \in IssueRow
    <3>1. y.writes[y.issue] = new
      <4>1. Put(NoRow, y.issue, new)[y.issue] = new
        BY RowOfPut
      <4> QED BY <2>2, <4>1
    <3>2. y.issue \in IssueIds /\ issues[y.issue] \in IssueRow
      BY <2>2 DEF IInv, TablesTypeOK
    <3> QED BY <3>1, <3>2
  <2>4. y.count + 1 \in Nat /\ StatusAfterEvent(issues[y.issue].status) \in Statuses
    BY <1>2, <2>3 DEF IssueRow, Statuses, StatusAfterEvent
  <2>5. /\ row \in IssueRow /\ row.grouping_key = issues[y.issue].grouping_key
        /\ row.status = StatusAfterEvent(issues[y.issue].status)
        /\ row.last_event_id = y.item.id /\ row.last_seen_at = y.now
        /\ row.event_count = y.count + 1
        /\ row.first_seen_at = issues[y.issue].first_seen_at
    BY <1>2, <2>1, <2>3, <2>4 DEF RowAfterEvent, IssueRow
  <2> QED BY <1>2, <1>4, <2>2, <2>3, <2>5 DEF IsRowForEvent
<1> QED BY <1>3, <1>4

\* The tables stay consistent when the row and its event become visible.
LEMMA CommitKeepsTables ==
    ASSUME IInv, NEW r \in Requests, tx[r].pc = "commit", NEW y \in Tx, y = tx[r],
           issues' = Put(issues, y.issue, y.writes[y.issue]),
           CreateEvent(y.item.id, y.issue, y.now)
    PROVE  /\ TablesTypeOK' /\ TablesInv' /\ SeenColumnsAreEvents' /\ CountsAreBounded'
           /\ Records(y.item.id, y.item.key)
           /\ KeysSeen' = KeysSeen \cup {y.item.key}
           /\ DOMAIN issues' = DOMAIN issues \cup {y.issue}
           /\ \A j \in DOMAIN issues \ {y.issue} : issues'[j] = issues[j]
           /\ DOMAIN events' = DOMAIN events \cup {y.item.id}
           /\ \A j \in DOMAIN issues :
                 /\ issues'[j].grouping_key = issues[j].grouping_key
                 /\ \A c \in Nat : c <= Cardinality(EventsOf(j)) => c <= Cardinality(EventsOf(j)')
<1>1. PICK row : row = y.writes[y.issue]
  OBVIOUS
<1>2. PICK i : i = y.issue
  OBVIOUS
<1>3. PICK e : e = y.item.id
  OBVIOUS
<1>4. PICK k : k = y.item.key
  OBVIOUS
<1>5. PICK now : now = y.now
  OBVIOUS
<1>6. /\ i \in IssueIds /\ e \in EventIds /\ now \in Nat
      /\ row \in IssueRow /\ IsRowForEvent(row, i, k) /\ ~HasEvent(e)
      /\ row.last_event_id = e /\ row.last_seen_at = now
      /\ IF y.newIssue
         THEN i \notin DOMAIN issues /\ row.event_count = 1 /\ row.first_seen_at = now
         ELSE /\ i \in DOMAIN issues /\ row.first_seen_at = issues[i].first_seen_at
              /\ row.event_count = y.count + 1 /\ y.count <= Cardinality(EventsOf(i))
  BY <1>1, <1>2, <1>3, <1>4, <1>5, CommitWrites
<1>7. issues' = Put(issues, i, row) /\ CreateEvent(e, i, now)
  BY <1>1, <1>2, <1>3, <1>5
<1>8. TablesInv' /\ Records(e, k)
  BY <1>6, <1>7, RecordIsLedgerStep DEF IInv
<1>9. KeysSeen' = KeysSeen \cup {k}
  <2>1. TablesInv /\ row.grouping_key = k
    BY <1>6 DEF IsRowForEvent, IInv
  <2>2. IF i \in DOMAIN issues THEN issues[i].grouping_key = k ELSE k \notin KeysSeen
    BY <1>6 DEF IsRowForEvent
  <2>3. issues' = Put(issues, i, row)
    BY <1>7
  <2> QED BY ONLY <2>1, <2>2, <2>3, PutRowIsLedgerStep
<1>10. /\ DOMAIN issues' = DOMAIN issues \cup {i} /\ issues'[i] = row
       /\ \A j \in DOMAIN issues \ {i} : issues'[j] = issues[j]
  BY <1>7 DEF Put
<1>11. /\ DOMAIN events' = DOMAIN events \cup {e}
       /\ events'[e] = [issue_id |-> i, received_at |-> now]
       /\ \A x \in DOMAIN events : events'[x] = events[x]
       /\ EventsOf(i)' = EventsOf(i) \cup {e}
       /\ \A j : j # i => EventsOf(j)' = EventsOf(j)
  <2>1. ~HasEvent(e) /\ CreateEvent(e, i, now)
    BY <1>6, <1>7
  <2> QED BY ONLY <2>1, CreateEventFacts
<1>12. /\ IsFiniteSet(DOMAIN events')
       /\ Cardinality(EventsOf(i)') = Cardinality(EventsOf(i)) + 1
       /\ \A j : j # i => Cardinality(EventsOf(j)') = Cardinality(EventsOf(j))
  BY <1>6, <1>7, CreateEventCounts DEF IInv, TablesInv
<1>13. TablesTypeOK'
  <2>1. issues' \in [DOMAIN issues' -> IssueRow] /\ DOMAIN issues' \subseteq IssueIds
    BY <1>6, <1>7, <1>10 DEF IInv, TablesTypeOK, Put
  <2>2. events'[e] \in EventRow
    BY <1>6, <1>11 DEF EventRow
  <2>3. events' \in [DOMAIN events' -> EventRow] /\ DOMAIN events' \subseteq EventIds
    BY <1>6, <1>7, <1>11, <2>2 DEF IInv, TablesTypeOK, CreateEvent, Put
  <2> QED BY <2>1, <2>3 DEF TablesTypeOK
<1>14. \A j \in DOMAIN issues : \A x \in EventsOf(j) : events'[x] = events[x]
  BY <1>11 DEF EventsOf
<1>15. SeenColumnsAreEvents'
  <2> SUFFICES ASSUME NEW j \in DOMAIN issues'
               PROVE  /\ issues'[j].last_event_id \in EventsOf(j)'
                      /\ events'[issues'[j].last_event_id].received_at
                            = issues'[j].last_seen_at
                      /\ \E x \in EventsOf(j)' :
                            events'[x].received_at = issues'[j].first_seen_at
    BY DEF SeenColumnsAreEvents
  <2>1. CASE j = i /\ y.newIssue
    BY <2>1, <1>6, <1>10, <1>11
  <2>2. CASE j = i /\ ~y.newIssue
    <3>1. i \in DOMAIN issues /\ \E x \in EventsOf(i) : events[x].received_at = issues[i].first_seen_at
      BY <1>6, <2>2 DEF IInv, SeenColumnsAreEvents
    <3> QED BY <2>2, <3>1, <1>6, <1>10, <1>11, <1>14
  <2>3. CASE j # i
    <3>1. j \in DOMAIN issues /\ issues'[j] = issues[j] /\ EventsOf(j)' = EventsOf(j)
      BY <2>3, <1>10, <1>11
    <3> QED BY <3>1, <1>14 DEF IInv, SeenColumnsAreEvents
  <2> QED BY <2>1, <2>2, <2>3
<1>16. CountsAreBounded'
  <2> SUFFICES ASSUME NEW j \in DOMAIN issues'
               PROVE  issues'[j].event_count \in 1 .. Cardinality(EventsOf(j)')
    BY DEF CountsAreBounded
  <2>1. Cardinality(EventsOf(i)) \in Nat /\ y.count \in Nat
    BY EventsOfFinite DEF IInv, TablesInv, Tx
  <2>2. CASE j = i
    BY <2>1, <2>2, <1>6, <1>10, <1>12
  <2>3. CASE j # i
    BY <2>3, <1>10, <1>12 DEF IInv, CountsAreBounded
  <2> QED BY <2>2, <2>3
<1>17. ASSUME NEW j \in DOMAIN issues
       PROVE  /\ issues'[j].grouping_key = issues[j].grouping_key
              /\ \A c \in Nat : c <= Cardinality(EventsOf(j)) => c <= Cardinality(EventsOf(j)')
  <2>1. issues'[j].grouping_key = issues[j].grouping_key
    BY <1>6, <1>10 DEF IsRowForEvent
  <2>2. Cardinality(EventsOf(j)) \in Nat
    BY EventsOfFinite DEF IInv, TablesInv
  <2>3. Cardinality(EventsOf(j)') \in {Cardinality(EventsOf(j)), Cardinality(EventsOf(j)) + 1}
    BY <1>12
  <2> QED BY <2>1, <2>2, <2>3
<1> QED BY <1>2, <1>3, <1>4, <1>8, <1>9, <1>10, <1>11, <1>13, <1>15, <1>16, <1>17

\* What another transaction relied on is still so after a commit.
LEMMA CommitKeepsInv ==
    ASSUME IInv, NEW r \in Requests, Commit(r)
    PROVE  IInv'
<1>1. PICK y \in Tx : y = tx[r]
  BY DEF IInv, TxInv
<1>2. PICK reply \in {"new", "known", "failed"} :
         (reply = "new" => y.newIssue) /\ tx' = [tx EXCEPT ![r] = Ended(r, reply)]
  BY <1>1 DEF Commit
<1>3. PICK x : x = Ended(r, reply)
  OBVIOUS
<1>4. /\ tx[r].pc = "commit" /\ UNCHANGED <<clock, clicked>>
      /\ issues' = Put(issues, y.issue, y.writes[y.issue])
      /\ CreateEvent(y.item.id, y.issue, y.now)
  BY <1>1 DEF Commit, At
<1>5. /\ TablesTypeOK' /\ TablesInv' /\ SeenColumnsAreEvents' /\ CountsAreBounded'
      /\ KeysSeen' = KeysSeen \cup {y.item.key}
      /\ DOMAIN issues' = DOMAIN issues \cup {y.issue}
      /\ \A j \in DOMAIN issues \ {y.issue} : issues'[j] = issues[j]
      /\ DOMAIN events' = DOMAIN events \cup {y.item.id}
      /\ \A j \in DOMAIN issues :
            /\ issues'[j].grouping_key = issues[j].grouping_key
            /\ \A c \in Nat : c <= Cardinality(EventsOf(j)) => c <= Cardinality(EventsOf(j)')
  BY <1>1, <1>4, CommitKeepsTables
<1>6. /\ x \in Tx /\ x.pc = "done" /\ x.writes = NoRow /\ x.reply = reply
      /\ x.item = y.item /\ x.issue = y.issue /\ x.newIssue = y.newIssue
  <2>1. x = [y EXCEPT !.pc = "done", !.writes = NoRow, !.reply = reply]
    BY <1>1, <1>3 DEF Ended
  <2>2. NoRow \in Rows
    BY DEF Rows
  <2> QED BY <2>1, <2>2 DEF Tx
<1>7. /\ tx \in [Requests -> Tx] /\ Right(y)
      /\ \A q \in Requests \ {r} : Right(tx[q]) /\ Apart(tx[q], y)
      /\ \A p, q \in Requests : p # q => Apart(tx[p], tx[q])
  BY <1>1 DEF IInv, TxInv
<1>8. tx' \in [Requests -> Tx] /\ tx'[r] = x /\ \A q \in Requests \ {r} : tx'[q] = tx[q]
  BY <1>2, <1>3, <1>6, <1>7
<1>9. y.pc = "commit" /\ y.item \in Items
  BY <1>1, <1>4, <1>7 DEF Right
<1>10. Right(x)'
  <2>1. /\ y.issue \in IssueIds /\ HasEvent(y.item.id)'
        /\ reply = "new" => y.newIssue /\ y.issue \in IssuesWithKey(y.item.key)'
    <3>1. HasEvent(y.item.id)'
      BY <1>5 DEF HasEvent
    <3>2. y.issue \in IssueIds
      BY <1>5 DEF TablesTypeOK
    <3>3. y.issue \in IssuesWithKey(y.item.key)'
      <4>1. PICK row : row = tx[r].writes[tx[r].issue]
        OBVIOUS
      <4>2. IsRowForEvent(row, y.issue, y.item.key)
        BY <1>1, <1>4, <4>1, CommitWrites
      <4>3. issues' = Put(issues, y.issue, row)
        BY <1>1, <1>4, <4>1
      <4> QED BY <4>2, <4>3 DEF IsRowForEvent, Put, IssuesWithKey
    <3> QED BY <1>2, <3>1, <3>2, <3>3
  <2> QED BY <1>6, <1>9, <2>1 DEF Right, Holding
<1>11. ASSUME NEW z \in Tx, Right(z), Apart(z, y) PROVE Right(z)'
  <2>1. \A e : HasEvent(e) => HasEvent(e)'
    BY <1>5 DEF HasEvent
  <2>2. z.newIssue /\ z.pc # "done" => z.issue \notin DOMAIN issues'
    <3>1. ~y.newIssue => y.issue \in DOMAIN issues
      BY <1>7, <1>9 DEF Right, Holding
    <3> QED BY <1>5, <1>11, <3>1 DEF Right, Apart
  <2>3. ~z.newIssue /\ z.pc \in Holding \cup {"update_issue"} =>
           /\ z.issue \in DOMAIN issues'
           /\ issues'[z.issue].grouping_key = z.item.key
           /\ z.count <= Cardinality(EventsOf(z.issue)')
    BY <1>5, <1>11 DEF Right, Tx
  <2>4. z.newIssue /\ z.pc \in Holding => z.item.key \notin KeysSeen'
    <3>1. ~y.newIssue => y.item.key \in KeysSeen
      BY <1>7, <1>9 DEF Right, Holding, KeysSeen
    <3> QED BY <1>5, <1>9, <1>11, <3>1 DEF Right, Apart, Holding
  <2>5. ~z.newIssue /\ z.pc \in Holding => issues'[z.issue] = issues[z.issue]
    BY <1>5, <1>9, <1>11 DEF Right, Apart, Holding
  <2>6. z.pc = "commit" => ~HasEvent(z.item.id)'
    BY <1>5, <1>9, <1>11 DEF Right, Apart, HasEvent
  <2>7. z.issue \in IssuesWithKey(z.item.key) => z.issue \in IssuesWithKey(z.item.key)'
    BY <1>5 DEF IssuesWithKey
  <2> QED BY <1>11, <2>1, <2>2, <2>3, <2>4, <2>5, <2>6, <2>7 DEF Right
<1>12. \A q \in Requests : Right(tx[q])'
  <2> SUFFICES ASSUME NEW q \in Requests PROVE Right(tx[q])'
    OBVIOUS
  <2>1. PICK z : z = tx'[q]
    OBVIOUS
  <2>2. Right(z)'
    BY <1>7, <1>8, <1>10, <1>11, <2>1
  <2> QED BY <2>1, <2>2 DEF Right
<1>13. \A p, q \in Requests : p # q => Apart(tx'[p], tx'[q])
  <2>1. \A q \in Requests \ {r} : Apart(tx[q], x) /\ Apart(x, tx[q])
    BY <1>6, <1>7 DEF Apart, Holding
  <2> QED BY <1>7, <1>8, <2>1
<1>14. TxInv'
  BY <1>8, <1>12, <1>13 DEF TxInv
<1> QED BY <1>4, <1>5, <1>14 DEF IInv

\* A click waits for the row, so it takes nothing from under a transaction.
LEMMA ClickKeepsInv ==
    ASSUME IInv, NEW c \in Clicks, NEW i \in IssueIds, NEW s \in Statuses, Click(c, i, s)
    PROVE  IInv'
<1>1. clock' \in Nat /\ clicked' \subseteq Clicks /\ tx' = tx /\ events' = events
      /\ \A j : EventsOf(j)' = EventsOf(j)
  BY DEF Click, IInv, EventsOf
<1>2. issues \in [DOMAIN issues -> IssueRow]
  BY DEF IInv, TablesTypeOK
<1>3. /\ DOMAIN issues' = DOMAIN issues
      /\ issues' \in [DOMAIN issues -> IssueRow]
      /\ \A j \in DOMAIN issues :
            /\ issues'[j].grouping_key = issues[j].grouping_key
            /\ issues'[j].first_seen_at = issues[j].first_seen_at
            /\ issues'[j].last_seen_at = issues[j].last_seen_at
            /\ issues'[j].event_count = issues[j].event_count
            /\ issues'[j].last_event_id = issues[j].last_event_id
            /\ j # i => issues'[j] = issues[j]
  BY <1>2 DEF Click, SetIssueStatus, IssueRow
<1>4. TablesTypeOK' /\ SeenColumnsAreEvents' /\ CountsAreBounded'
  BY <1>1, <1>3 DEF IInv, TablesTypeOK, SeenColumnsAreEvents, CountsAreBounded
<1>5. TablesInv'
  BY <1>1, <1>3 DEF IInv, TablesInv, OneIssuePerGroupingKey, EventsHaveIssues
<1>6. KeysSeen' = KeysSeen
  BY <1>3 DEF KeysSeen
<1>7. ASSUME NEW q \in Requests, NEW z, z = tx[q] PROVE Right(z)'
  <2>1. Right(z)
    BY <1>7 DEF IInv, TxInv
  <2>2. ~z.newIssue /\ z.pc \in Holding => issues'[z.issue] = issues[z.issue]
    <3>1. z.pc \in Holding => \E row : z.writes = Put(NoRow, z.issue, row)
      BY <2>1 DEF Right
    <3>2. z.pc \in Holding => z.issue \in DOMAIN tx[q].writes
      BY <1>7, <3>1, RowOfPut, ZenonT(60)
    <3>3. ~z.newIssue /\ z.pc \in Holding => z.issue \in DOMAIN issues
      BY <2>1 DEF Right
    <3> QED BY <1>3, <3>2, <3>3 DEF Click
  <2>3. ~z.newIssue /\ z.pc \in Holding \cup {"update_issue"} =>
           /\ z.issue \in DOMAIN issues'
           /\ issues'[z.issue].grouping_key = z.item.key
           /\ z.count <= Cardinality(EventsOf(z.issue)')
    BY <1>1, <1>3, <2>1 DEF Right
  <2>4. z.issue \in IssuesWithKey(z.item.key) => z.issue \in IssuesWithKey(z.item.key)'
    BY <1>3 DEF IssuesWithKey
  <2> QED BY <1>1, <1>3, <1>6, <2>1, <2>2, <2>3, <2>4 DEF Right, HasEvent
<1>8. TxInv'
  <2>1. \A q \in Requests : Right(tx[q])'
    <3> SUFFICES ASSUME NEW q \in Requests PROVE Right(tx[q])'
      OBVIOUS
    <3>1. PICK z : z = tx[q]
      OBVIOUS
    <3>2. Right(z)' /\ z = tx'[q]
      BY <1>1, <1>7, <3>1
    <3> QED BY <3>2 DEF Right
  <2> QED BY <1>1, <2>1 DEF IInv, TxInv
<1> QED BY <1>1, <1>4, <1>5, <1>8 DEF IInv

LEMMA UnchangedKeepsInv ==
    ASSUME IInv, UNCHANGED <<tableVars, tx, clicked>>, clock' \in Nat
    PROVE  IInv'
<1>1. issues' = issues /\ events' = events /\ tx' = tx /\ clicked' = clicked
  BY DEF tableVars
<1>2. TablesInv'
  BY SameTablesSameLedger DEF IInv
<1>3. TablesTypeOK' /\ SeenColumnsAreEvents' /\ CountsAreBounded'
  BY <1>1 DEF IInv, TablesTypeOK, SeenColumnsAreEvents, CountsAreBounded, EventsOf
<1>4. \A i : EventsOf(i)' = EventsOf(i)
  BY <1>1 DEF EventsOf
<1>5. \A y : Right(y) => Right(y)'
  BY <1>1, <1>4 DEF Right, KeysSeen, HasEvent, IssuesWithKey
<1>6. \A r \in Requests : Right(tx[r])'
  <2> SUFFICES ASSUME NEW r \in Requests PROVE Right(tx[r])'
    OBVIOUS
  <2>1. PICK y : y = tx[r]
    OBVIOUS
  <2>2. Right(y)' /\ y = tx'[r]
    BY <1>1, <1>5, <2>1 DEF IInv, TxInv
  <2> QED BY <2>2 DEF Right
<1>7. TxInv'
  BY <1>1, <1>6 DEF IInv, TxInv
<1> QED BY <1>1, <1>2, <1>3, <1>7 DEF IInv

LEMMA NextKeepsInv == IInv /\ [Next]_vars => IInv'
<1> SUFFICES ASSUME IInv, [Next]_vars PROVE IInv'
  OBVIOUS
<1>1. ASSUME NEW r \in Requests, Step(r) \/ Fail(r) \/ \E item \in Items : Begin(r, item)
      PROVE  IInv'
  BY <1>1, ReadingKeepsInv, WritingKeepsInv, InsertEventKeepsInv, FailingKeepsInv,
     CommitKeepsInv DEF Step
<1>2. CASE \E c \in Clicks, i \in IssueIds, s \in Statuses : Click(c, i, s)
  BY <1>2, ClickKeepsInv
<1>3. CASE Tick \/ Quiet \/ UNCHANGED vars
  BY <1>3, UnchangedKeepsInv DEF Tick, Quiet, vars, IInv
<1> QED BY <1>1, <1>2, <1>3 DEF Next

LEMMA InitInv == Init => IInv
<1> SUFFICES ASSUME Init PROVE IInv
  OBVIOUS
<1>1. DOMAIN issues = {} /\ DOMAIN events = {}
  BY DEF Init, TablesInit
<1>2. TablesTypeOK /\ SeenColumnsAreEvents /\ CountsAreBounded
  BY <1>1 DEF Init, TablesInit, TablesTypeOK, SeenColumnsAreEvents, CountsAreBounded
<1>3. TablesInv
  BY <1>1, FS_EmptySet DEF TablesInv, OneIssuePerGroupingKey, EventsHaveIssues
<1>4. PICK x : x = [pc |-> "idle", item |-> None, now |-> 0, count |-> 0,
                    newIssue |-> FALSE, issue |-> None, writes |-> NoRow, reply |-> "none"]
  OBVIOUS
<1>5. x \in Tx /\ x.pc = "idle" /\ ~x.newIssue /\ x.writes = NoRow /\ x.reply = "none"
  BY <1>4 DEF Tx, Rows
<1>6. tx = [r \in Requests |-> x]
  BY <1>4 DEF Init
<1>7. Right(x) /\ Apart(x, x)
  BY <1>5 DEF Right, Apart, Holding
<1>8. TxInv
  BY <1>5, <1>6, <1>7 DEF TxInv
<1> QED BY <1>2, <1>3, <1>8 DEF Init, IInv

-----------------------------------------------------------------------------
\* The inductive invariant holds in every reachable state.
THEOREM PostgresInvariant == Spec => []IInv
BY InitInv, NextKeepsInv, PTL DEF Spec

\* The variables have their types.
THEOREM PostgresTypeCorrect == Spec => []TypeOK
<1>1. IInv => TypeOK
  <2> SUFFICES ASSUME IInv PROVE TypeOK
    OBVIOUS
  <2>1. ASSUME NEW r \in Requests PROVE IsTransaction(tx[r])
    <3>1. tx[r] \in Tx /\ Right(tx[r])
      BY DEF IInv, TxInv
    <3>2. /\ DOMAIN tx[r].writes \subseteq {tx[r].issue} \ {None}
          /\ \A i \in DOMAIN tx[r].writes : tx[r].writes[i] \in IssueRow
      <4>1. CASE tx[r].writes = NoRow
        BY <4>1 DEF NoRow
      <4>2. CASE tx[r].writes # NoRow
        <5>1. PICK i \in IssueIds, row \in IssueRow : tx[r].writes = Put(NoRow, i, row)
          BY <3>1, <4>2 DEF Tx, Rows
        <5>2. DOMAIN tx[r].writes = {i} /\ tx[r].writes[i] = row
          BY <5>1, RowOfPut
        <5>3. \E new : tx[r].writes = Put(NoRow, tx[r].issue, new)
          BY <3>1, <4>2 DEF Right
        <5>4. DOMAIN tx[r].writes = {tx[r].issue}
          BY <5>3, RowOfPut
        <5> QED BY <5>1, <5>2, <5>4, NoneAssumption
      <4> QED BY <4>1, <4>2
    <3> QED BY <3>1, <3>2 DEF Tx, Right, IsTransaction
  <2> QED BY <2>1 DEF IInv, TxInv, TypeOK
<1> QED BY <1>1, PostgresInvariant, PTL

\* No grouping key has two issues, however the statements interleave
\* (RecordProcessedEvent, by the UNIQUE constraint).
THEOREM PostgresGroupingCorrect == Spec => []OneIssuePerGroupingKey
<1>1. IInv => OneIssuePerGroupingKey
  BY DEF IInv, TablesInv
<1> QED BY <1>1, PostgresInvariant, PTL

\* first_seen_at, last_seen_at and last_event_id describe events of the issue.
THEOREM PostgresSeenCorrect == Spec => []SeenColumnsAreEvents
<1>1. IInv => SeenColumnsAreEvents
  BY DEF IInv
<1> QED BY <1>1, PostgresInvariant, PTL

\* event_count may lose updates but is never more than the rows there are.
THEOREM PostgresCountsBounded == Spec => []CountsAreBounded
<1>1. IInv => CountsAreBounded
  BY DEF IInv
<1> QED BY <1>1, PostgresInvariant, PTL

\* A call that returns no error has its event in the table.
THEOREM PostgresRepliesAreTrue == Spec => []RecordedOrKnown
<1>1. IInv => RecordedOrKnown
  BY DEF IInv, TxInv, Right, RecordedOrKnown
<1> QED BY <1>1, PostgresInvariant, PTL

\* Only one call with a grouping key is told that it created an issue, so one
\* alert is sent: by the UNIQUE constraint, not by the ids that were drawn.
THEOREM PostgresOneCreator == Spec => []OneCreatorPerKey
<1>1. IInv => OneCreatorPerKey
  <2> SUFFICES ASSUME IInv PROVE OneCreatorPerKey
    OBVIOUS
  <2>1. \A r \in Requests : tx[r].reply = "new" =>
           tx[r].newIssue /\ tx[r].issue \in IssuesWithKey(tx[r].item.key)
    BY DEF IInv, TxInv, Right
  <2>2. \A i, j \in DOMAIN issues : issues[i].grouping_key = issues[j].grouping_key => i = j
    BY DEF IInv, TablesInv, OneIssuePerGroupingKey
  <2>3. ASSUME NEW q \in Requests, NEW r \in Requests, tx[q].reply = "new",
               tx[r].reply = "new", tx[q].item.key = tx[r].item.key
        PROVE  q = r
    <3>1. tx[q].issue = tx[r].issue
      BY <2>1, <2>2, <2>3 DEF IssuesWithKey
    <3> QED BY <2>1, <2>3, <3>1 DEF IInv, TxInv, Apart
  <2> QED BY <2>1, <2>3 DEF OneCreatorPerKey
<1> QED BY <1>1, PostgresInvariant, PTL

\* Locks are taken in one order: whoever waits, somebody runs.
THEOREM PostgresNoDeadlock == Spec => []SomeCallRuns
<1>1. IInv => SomeCallRuns
  <2> SUFFICES ASSUME IInv, NEW r \in Requests, Waits(r)
               PROVE  \E q \in Requests : tx[q].pc \in Statement /\ ~Waits(q)
    BY DEF SomeCallRuns
  <2>1. \A q \in Requests : tx[q].writes # NoRow => tx[q].pc \in Holding
    BY DEF IInv, TxInv, Right
  <2>2. DOMAIN NoRow = {}
    BY DEF NoRow
  <2>3. \A q \in Requests : tx[q].pc = "commit" => ~Waits(q)
    BY DEF Waits
  <2>4. \E q \in Requests : tx[q].pc \in Holding
    <3>1. CASE tx[r].pc = "insert_event"
      BY <3>1 DEF Holding
    <3>2. CASE \E q \in Requests : \E i : i \in DOMAIN tx[q].writes
      BY <2>1, <2>2, <3>2
    <3> QED BY <3>1, <3>2 DEF Waits, KeyLocked, RowLocked
  <2>5. PICK q \in Requests : tx[q].pc \in Holding
    BY <2>4
  <2>6. CASE ~Waits(q)
    BY <2>5, <2>6 DEF Holding, Statement
  <2>7. CASE Waits(q)
    <3>1. \E p \in Requests : tx[p].pc = "commit"
      BY <2>5, <2>7 DEF Waits, Holding, EventLocked
    <3> QED BY <2>3, <3>1 DEF Statement
  <2> QED BY <2>6, <2>7
<1> QED BY <1>1, PostgresInvariant, PTL

-----------------------------------------------------------------------------
(***************************************************************************)
(* The refinement: a commit records its event, a click is a triage, and    *)
(* every other step leaves the ledger alone.                               *)
(***************************************************************************)

\* INSTANCE brings its own copy of Cardinality.
LEMMA LedgerCardinality == \A S : Ledger!Cardinality(S) = Cardinality(S)
BY Zenon DEF Ledger!Cardinality, Cardinality

\* Transactions change nothing of the tables before they commit.
LEMMA OnlyCommitsAndClicksWrite ==
    ASSUME [Next]_vars
    PROVE  \/ UNCHANGED tableVars
           \/ \E r \in Requests : Commit(r)
           \/ \E c \in Clicks, i \in IssueIds, s \in Statuses : Click(c, i, s)
BY DEF Next, Step, Begin, FindEvent, FindIssue, FindNoIssue, InsertIssue, Write, IssueTaken,
   UpdateIssue, InsertEvent, EventTaken, Fail, Tick, Quiet, vars, tableVars

LEMMA CommitIsRecord ==
    ASSUME IInv, NEW r \in Requests, Commit(r)
    PROVE  \E e \in EventIds, k \in GroupingKeys : e \notin DOMAIN KeyOfEvent /\ Records(e, k)
<1>1. PICK y \in Tx : y = tx[r]
  BY DEF IInv, TxInv
<1>2. tx[r].pc = "commit" /\ issues' = Put(issues, y.issue, y.writes[y.issue])
      /\ CreateEvent(y.item.id, y.issue, y.now)
  BY <1>1 DEF Commit, At
<1>3. Right(y) /\ y.pc = "commit"
  BY <1>1, <1>2 DEF IInv, TxInv
<1>4. y.item.id \in EventIds /\ y.item.key \in GroupingKeys /\ ~HasEvent(y.item.id)
  BY <1>3, ItemsAssumption DEF Right
<1>5. Records(y.item.id, y.item.key)
  BY <1>1, <1>2, CommitKeepsTables
<1> QED BY <1>4, <1>5 DEF KeyOfEvent, HasEvent

LEMMA PostgresStepIsLedgerStep ==
    ASSUME IInv, [Next]_vars
    PROVE  [Ledger!Next]_(Ledger!ledgerVars)
<1> DEFINE shown == [k \in KeysSeen |-> Cardinality(EventsOf(TheIssue(k)))]
<1>1. TablesTypeOK /\ TablesInv /\ shown = RowsOfKey
  BY DEF IInv, RowsOfKey
<1>2. shown' = RowsOfKey'
  BY DEF RowsOfKey
<1>3. CASE \E r \in Requests : Commit(r)
  <2>1. PICK e \in EventIds, k \in GroupingKeys : e \notin DOMAIN KeyOfEvent /\ Records(e, k)
    BY <1>3, CommitIsRecord
  <2>2. shown' = [y \in DOMAIN shown \cup {k} |->
                     IF y = k
                     THEN Cardinality({x \in DOMAIN KeyOfEvent' : KeyOfEvent'[x] = k})
                     ELSE shown[y]]
    <3> HIDE DEF shown
    <3> QED BY <1>1, <1>2, <2>1 DEF Records
  <2>3. /\ KeyOfEvent' = Ledger!Extend(KeyOfEvent, e, k)
        /\ StatusOfKey' = Ledger!Extend(StatusOfKey, k,
                             IF k \in DOMAIN StatusOfKey /\ StatusOfKey[k] # "resolved"
                             THEN StatusOfKey[k] ELSE "open")
        /\ shown' = Ledger!Extend(shown, k,
                       Cardinality({x \in DOMAIN KeyOfEvent' : KeyOfEvent'[x] = k}))
    <3> HIDE DEF shown
    <3> QED BY <2>1, <2>2 DEF Records, Ledger!Extend
  <2>4. Ledger!Record(e, k)
    BY <2>1, <2>3, LedgerCardinality DEF Ledger!Record
  <2> QED BY <2>4 DEF Ledger!Next
<1>4. CASE \E c \in Clicks, i \in IssueIds, s \in Statuses : Click(c, i, s)
  <2>1. PICK i \in IssueIds, s \in Statuses : SetIssueStatus(i, s) /\ events' = events
    BY <1>4 DEF Click
  <2>2. CASE i \in DOMAIN issues
    <3>1. PICK k : k = issues[i].grouping_key
      OBVIOUS
    <3>2. /\ KeyOfEvent' = KeyOfEvent /\ RowsOfKey' = RowsOfKey
          /\ issues[i].grouping_key \in KeysSeen
          /\ StatusOfKey' = [StatusOfKey EXCEPT ![issues[i].grouping_key] = s]
      BY <1>1, <2>1, <2>2, SetStatusIsLedgerStep
    <3>3. k \in GroupingKeys /\ k \in DOMAIN StatusOfKey
      BY <1>1, <2>2, <3>1, <3>2 DEF TablesTypeOK, IssueRow, StatusOfKey
    <3>4. Ledger!Triage(k, s)
      BY <1>1, <1>2, <3>1, <3>2, <3>3 DEF Ledger!Triage
    <3> QED BY <3>3, <3>4 DEF Ledger!Next, Statuses
  <2>3. CASE i \notin DOMAIN issues
    <3>1. UNCHANGED tableVars
      BY <2>1, <2>3 DEF SetIssueStatus, tableVars
    <3> QED BY <1>1, <1>2, <3>1, SameTablesSameLedger DEF Ledger!ledgerVars
  <2> QED BY <2>2, <2>3
<1>5. CASE UNCHANGED tableVars
  BY <1>1, <1>2, <1>5, SameTablesSameLedger DEF Ledger!ledgerVars
<1> QED BY <1>3, <1>4, <1>5, OnlyCommitsAndClicksWrite

\* With the true number of rows as its count, every run of the PostgreSQL
\* store is a run of the ledger: neither statuses nor keys are lost to races.
THEOREM PostgresImplementsLedger == Spec => ImplementsLedger
<1>1. Init => Ledger!Init
  <2> SUFFICES ASSUME Init PROVE Ledger!Init
    OBVIOUS
  <2>1. DOMAIN issues = {} /\ DOMAIN events = {}
    BY DEF Init, TablesInit
  <2>2. KeysSeen = {}
    BY <2>1 DEF KeysSeen
  <2> QED BY <2>1, <2>2 DEF Ledger!Init, KeyOfEvent, StatusOfKey
<1>2. IInv /\ [Next]_vars => [Ledger!Next]_(Ledger!ledgerVars)
  BY PostgresStepIsLedgerStep
<1> QED BY <1>1, <1>2, PostgresInvariant, PTL DEF Spec, ImplementsLedger, Ledger!Spec
=============================================================================
