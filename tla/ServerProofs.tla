---------------------------- MODULE ServerProofs ----------------------------
(***************************************************************************)
(* Proofs about the server on SQLite: for every set of requests, envelopes *)
(* and tabs, every number of notifiers, crashes and seconds.               *)
(***************************************************************************)
EXTENDS Server, SqliteStoreProofs

-----------------------------------------------------------------------------
(***************************************************************************)
(* Types of the parts of a request.                                        *)
(***************************************************************************)

\* The item a handler is at is an item of one of the envelopes.
LEMMA CurrentItem ==
    ASSUME IngestTypeOK, NEW h \in Handlers, NEW pc, NEW type, On(h, pc, type)
    PROVE  /\ Current(h) \in Item
           /\ Current(h).type = type
           /\ req[h].body \in Envelopes
<1>1. req[h] \in Request
  BY DEF IngestTypeOK
<1>2. req[h].body \in Envelopes \cup {<<>>} /\ req[h].pos \in DOMAIN req[h].body
  BY <1>1 DEF Request, On
<1>3. req[h].body \in Envelopes
  BY <1>2
<1>4. req[h].body \in Seq(Item)
  BY <1>3, EnvelopesAssumption
<1>5. Current(h) \in Item
  BY <1>2, <1>4 DEF Current
<1> QED BY <1>3, <1>5 DEF On

LEMMA CurrentEvent ==
    ASSUME IngestTypeOK, NEW h \in Handlers, NEW pc, On(h, pc, "event")
    PROVE  /\ Current(h) \in EventItem
           /\ Current(h).id \in EventIds \cup {None}
           /\ Current(h).key \in GroupingKeys
           /\ Current(h).release \in Releases \cup {None}
<1>1. Current(h) \in Item /\ Current(h).type = "event"
  BY CurrentItem
<1>2. Current(h) \in EventItem
  BY <1>1 DEF Item, EventItem, AttachmentItem, IgnoredItem, UndecodableItem
<1> QED BY <1>2 DEF EventItem

LEMMA CurrentAttachment ==
    ASSUME IngestTypeOK, NEW h \in Handlers, NEW pc, On(h, pc, "attachment")
    PROVE  Current(h).name \in Names
<1>1. Current(h) \in Item /\ Current(h).type = "attachment"
  BY CurrentItem
<1>2. Current(h) \in AttachmentItem
  BY <1>1 DEF Item, EventItem, AttachmentItem, IgnoredItem, UndecodableItem
<1> QED BY <1>2 DEF AttachmentItem

\* The records a handler moves to are requests.
LEMMA RequestTypes ==
    /\ NotStarted \in Request
    /\ \A x \in {"refused", "error", "lost"} : Answer(x) \in Request
    /\ \A r \in Request : NextItem(r) \in Request
<1>1. NotStarted \in Request
  BY DEF NotStarted, Request
<1>2. \A x \in {"refused", "error", "lost"} : Answer(x) \in Request
  BY DEF Answer, NotStarted, Request
<1>3. ASSUME NEW r \in Request PROVE NextItem(r) \in Request
  <2>1. r.pos + 1 \in Nat
    BY DEF Request
  <2> QED BY <2>1 DEF NextItem, Request
<1> QED BY <1>1, <1>2, <1>3

-----------------------------------------------------------------------------
(***************************************************************************)
(* Type correctness, in two halves: the tables, and everything else.       *)
(***************************************************************************)

\* Nothing but an operation of the store changes the tables.
StoreStep ==
    \/ UNCHANGED storeVars
    \/ \E e \in EventIds, k \in GroupingKeys, now \in Nat, i \in IssueIds :
          RecordNewIssue(e, k, now, i) \/ RecordKnownIssue(e, k, now, i)
    \/ \E i \in IssueIds, s \in Statuses : UpdateIssueStatus(i, s)
    \/ \E e \in EventIds, n \in Names : StoreAttachment(e, n)
    \/ \E r \in Releases, n \in Names : StoreSourceMap(r, n)

LEMMA HandlerStoreStep ==
    ASSUME TypeOK, NEW h \in Handlers, HandlerStep(h)
    PROVE  StoreStep
<1> USE DEF TypeOK
<1>1. req[h] \in Request
  BY DEF IngestTypeOK
<1>2. CASE ProcessNewIssue(h)
  <2>1. Current(h).key \in GroupingKeys /\ req[h].receivedAt \in Nat
    BY <1>1, <1>2, CurrentEvent DEF ProcessNewIssue, Request
  <2> QED BY <1>2, <2>1 DEF ProcessNewIssue, StoreStep
<1>3. CASE ProcessKnownIssue(h)
  <2>1. Current(h).key \in GroupingKeys /\ req[h].receivedAt \in Nat
    BY <1>1, <1>3, CurrentEvent DEF ProcessKnownIssue, Request
  <2> QED BY <1>3, <2>1 DEF ProcessKnownIssue, StoreStep
<1>4. CASE ProcessDuplicate(h)
  BY <1>4 DEF ProcessDuplicate, RecordDuplicate, StoreStep
<1>5. CASE KeepSourceMap(h)
  <2>1. Current(h).name \in Names /\ req[h].lastRelease \in Releases
    BY <1>1, <1>5, CurrentAttachment DEF KeepSourceMap, IsStoredAsMap, Request
  <2> QED BY <1>5, <2>1 DEF KeepSourceMap, StoreStep
<1>6. CASE KeepAttachment(h)
  <2>1. Current(h).name \in Names /\ req[h].lastEventID \in EventIds
    BY <1>1, <1>6, CurrentAttachment DEF KeepAttachment, Request
  <2> QED BY <1>6, <2>1 DEF KeepAttachment, StoreStep
<1>7. CASE \/ BeginProcess(h) \/ ProcessFails(h) \/ AlertNotifier(h)
           \/ SignalHub(h) \/ PassOver(h) \/ SkipUndecodable(h) \/ Respond(h)
  BY <1>7 DEF BeginProcess, ProcessFails, AlertNotifier, SignalHub, PassOver, SkipUndecodable,
     Respond, StoreStep
<1> QED BY <1>2, <1>3, <1>4, <1>5, <1>6, <1>7
        DEF HandlerStep, StoreEvent, ProcessStores, HandlerContinues

LEMMA NextStoreStep == ASSUME TypeOK, [Next]_vars PROVE StoreStep
<1>1. CASE \E h \in Handlers : HandlerStep(h)
  BY <1>1, HandlerStoreStep
<1>2. CASE \E t \in Triages, i \in IssueIds, s \in Statuses : ClickStatus(t, i, s)
  BY <1>2 DEF ClickStatus, StoreStep
<1>3. CASE \/ \E h \in Handlers : Arrive(h)
           \/ \E t \in Triages : ClickFails(t) \/ ReloadIssue(t)
           \/ \E s \in Streams : \/ LoadPage(s) \/ OpenStream(s) \/ CloseStream(s)
                                 \/ WriteRefresh(s) \/ ActOnRefresh(s)
                                 \/ \E p \in replies[s] : ShowPage(s, p)
           \/ Crash \/ PassTime \/ Quiet \/ UNCHANGED vars
  BY <1>3 DEF Arrive, Refuse, Accept, ClickFails, ReloadIssue, LoadPage, OpenStream,
     CloseStream, WriteRefresh, ActOnRefresh, FetchPage, FetchFails, ShowPage, Crash, PassTime, Tick,
     Quiet, vars, ingestVars, StoreStep
<1> QED BY <1>1, <1>2, <1>3 DEF Next

\* The local variables of the handlers, the alerts, the clock and the hub.
RuntimeTypeOK ==
    /\ HubTypeOK
    /\ clock \in Nat
    /\ req \in [Handlers -> Request]
    /\ alerts \in [1 .. NumNotifiers -> [IssueIds -> Nat]]

LEMMA HandlerTypes ==
    ASSUME IngestTypeOK, NEW h \in Handlers, ProcessStores(h) \/ HandlerContinues(h)
    PROVE  RuntimeTypeOK'
<1>1. req[h] \in Request /\ req \in [Handlers -> Request]
  BY DEF IngestTypeOK
<1>2. ASSUME NEW r \in Request, req' = [req EXCEPT ![h] = r]
      PROVE  req' \in [Handlers -> Request]
  BY <1>1, <1>2
<1>3. NextItem(req[h]) \in Request
  BY <1>1, RequestTypes
<1>4. CASE BeginProcess(h)
  <2>1. req' \in [Handlers -> Request]
    BY <1>1, <1>4 DEF BeginProcess, Request, IngestTypeOK
  <2> QED BY <2>1, <1>4 DEF BeginProcess, hubVars, HubTypeOK, IngestTypeOK, RuntimeTypeOK
<1>5. CASE ProcessDuplicate(h)
  <2>1. Current(h).release \in Releases \cup {None}
    BY <1>5, CurrentEvent DEF ProcessDuplicate
  <2>2. PICK e \in EventIds : req' = [req EXCEPT
            ![h] = [NextItem(req[h]) EXCEPT !.lastEventID = e,
                                           !.lastRelease = Current(h).release]]
    BY <1>5 DEF ProcessDuplicate
  <2>3. req' \in [Handlers -> Request]
    BY <1>1, <1>3, <2>1, <2>2 DEF Request
  <2> QED BY <2>3, <1>5 DEF ProcessDuplicate, hubVars, HubTypeOK, IngestTypeOK, RuntimeTypeOK
<1>6. CASE ProcessNewIssue(h)
  <2>1. Current(h).release \in Releases \cup {None}
    BY <1>6, CurrentEvent DEF ProcessNewIssue
  <2>2. PICK e \in EventIds, i \in IssueIds : req' = [req EXCEPT
            ![h] = [req[h] EXCEPT
                      !.pc = IF NumNotifiers = 0 THEN "signal" ELSE "alert",
                      !.issue = IF NumNotifiers = 0 THEN None ELSE i,
                      !.notifier = IF NumNotifiers = 0 THEN 0 ELSE 1,
                      !.lastEventID = e, !.lastRelease = Current(h).release]]
    BY <1>6 DEF ProcessNewIssue
  <2>3. req' \in [Handlers -> Request]
    BY <1>1, <2>1, <2>2 DEF Request
  <2> QED BY <2>3, <1>6 DEF ProcessNewIssue, hubVars, HubTypeOK, IngestTypeOK, RuntimeTypeOK
<1>7. CASE ProcessKnownIssue(h)
  <2>1. Current(h).release \in Releases \cup {None}
    BY <1>7, CurrentEvent DEF ProcessKnownIssue
  <2>2. PICK e \in EventIds : req' = [req EXCEPT
            ![h] = [req[h] EXCEPT !.pc = "signal", !.lastEventID = e,
                                  !.lastRelease = Current(h).release]]
    BY <1>7 DEF ProcessKnownIssue
  <2>3. req' \in [Handlers -> Request]
    BY <1>1, <2>1, <2>2 DEF Request
  <2> QED BY <2>3, <1>7 DEF ProcessKnownIssue, hubVars, HubTypeOK, IngestTypeOK, RuntimeTypeOK
<1>8. CASE ProcessFails(h)
  BY <1>2, <1>8, RequestTypes DEF ProcessFails, hubVars, HubTypeOK, IngestTypeOK, RuntimeTypeOK
<1>9. CASE AlertNotifier(h)
  <2>1. req' \in [Handlers -> Request]
    <3>1. req[h].notifier + 1 \in Nat
      BY <1>1 DEF Request
    <3> QED BY <1>1, <1>9, <3>1 DEF AlertNotifier, Request
  <2>2. alerts' \in [1 .. NumNotifiers -> [IssueIds -> Nat]]
    <3>1. PICK d \in {0, 1} :
             alerts' = [alerts EXCEPT ![req[h].notifier][req[h].issue] = @ + d]
      BY <1>9 DEF AlertNotifier
    <3>2. \A n \in 1 .. NumNotifiers, i \in IssueIds : alerts[n][i] + d \in Nat
      BY DEF IngestTypeOK
    <3>3. \A n \in 1 .. NumNotifiers : alerts'[n] \in [IssueIds -> Nat]
      BY <3>1, <3>2 DEF IngestTypeOK
    <3> QED BY <3>1, <3>3 DEF IngestTypeOK
  <2> QED BY <2>1, <2>2, <1>9 DEF AlertNotifier, hubVars, HubTypeOK, IngestTypeOK, RuntimeTypeOK
<1>10. CASE SignalHub(h)
  <2>1. req' \in [Handlers -> Request]
    BY <1>2, <1>3, <1>10 DEF SignalHub
  <2> QED BY <2>1, <1>10 DEF SignalHub, Notify, HubTypeOK, IngestTypeOK, RuntimeTypeOK
<1>11. CASE KeepSourceMap(h) \/ KeepAttachment(h) \/ PassOver(h) \/ SkipUndecodable(h)
  <2>1. req' \in [Handlers -> Request]
    BY <1>2, <1>3, <1>11 DEF KeepSourceMap, KeepAttachment, PassOver, SkipUndecodable
  <2> QED BY <2>1, <1>11 DEF KeepSourceMap, KeepAttachment, PassOver, SkipUndecodable, hubVars,
          HubTypeOK, IngestTypeOK, RuntimeTypeOK
<1>12. CASE Respond(h)
  <2>1. req' \in [Handlers -> Request]
    BY <1>1, <1>12 DEF Respond, Answer, NotStarted, Request
  <2> QED BY <2>1, <1>12 DEF Respond, hubVars, HubTypeOK, IngestTypeOK, RuntimeTypeOK
<1> QED BY <1>4, <1>5, <1>6, <1>7, <1>8, <1>9, <1>10, <1>11, <1>12
        DEF ProcessStores, HandlerContinues
\* What the live pages add.
LiveTypeOK ==
    /\ triage \in [Triages -> Click]
    /\ pending \in [Streams -> Nat]
    /\ unread \in [Streams -> SUBSET EventIds]
    /\ missed \in [Streams -> SUBSET EventIds]
    /\ crashes \in Nat
    /\ DOMAIN page = Streams /\ DOMAIN replies = Streams /\ DOMAIN lastRead = Streams

LEMMA TypeParts == TypeOK <=> StoreTypeOK /\ RuntimeTypeOK /\ LiveTypeOK
BY DEF TypeOK, IngestTypeOK, RuntimeTypeOK, LiveTypeOK

\* The tables keep their type and their consistency in every step.
LEMMA NextKeepsStore ==
    ASSUME TypeOK, StoreInv, [Next]_vars
    PROVE  StoreTypeOK' /\ StoreInv'
<1>1. StoreStep /\ StoreTypeOK
  BY NextStoreStep DEF TypeOK, IngestTypeOK
<1>2. CASE UNCHANGED storeVars
  BY <1>1, <1>2, UnchangedKeepsInv
<1>3. CASE \E e \in EventIds, k \in GroupingKeys, now \in Nat, i \in IssueIds :
              RecordNewIssue(e, k, now, i) \/ RecordKnownIssue(e, k, now, i)
  BY <1>1, <1>3, RecordNewIssueKeepsInv, RecordKnownIssueKeepsInv
<1>4. CASE \E i \in IssueIds, s \in Statuses : UpdateIssueStatus(i, s)
  BY <1>1, <1>4, UpdateIssueStatusKeepsInv
<1>5. CASE \E e \in EventIds, n \in Names : StoreAttachment(e, n)
  BY <1>1, <1>5, StoreFilesKeepsInv
<1>6. CASE \E r \in Releases, n \in Names : StoreSourceMap(r, n)
  BY <1>1, <1>6, StoreFilesKeepsInv
<1> QED BY <1>1, <1>2, <1>3, <1>4, <1>5, <1>6 DEF StoreStep

LEMMA NextKeepsRuntime ==
    ASSUME TypeOK, [Next]_vars
    PROVE  RuntimeTypeOK'
<1> USE DEF TypeOK
<1>1. RuntimeTypeOK /\ IngestTypeOK
  BY DEF RuntimeTypeOK, IngestTypeOK
<1>2. CASE \E h \in Handlers : HandlerStep(h)
  BY <1>1, <1>2, HandlerTypes DEF HandlerStep, StoreEvent
<1>3. CASE \E h \in Handlers : Arrive(h)
  <2>1. PICK h \in Handlers : Refuse(h) \/ \E b \in Envelopes : Accept(h, b)
    BY <1>3 DEF Arrive
  <2>2. req' \in [Handlers -> Request]
    <3>1. CASE Refuse(h)
      BY <1>1, <3>1, RequestTypes DEF Refuse, RuntimeTypeOK
    <3>2. CASE \E b \in Envelopes : Accept(h, b)
      <4>1. PICK b \in Envelopes : Accept(h, b)
        BY <3>2
      <4>2. req' = [req EXCEPT ![h] = [req[h] EXCEPT !.pc = "item", !.body = b]]
        BY <1>1, <4>1 DEF Accept, RuntimeTypeOK, Request
      <4>3. req[h] \in Request /\ b \in Envelopes \cup {<<>>}
        BY <1>1 DEF RuntimeTypeOK
      <4>4. [req[h] EXCEPT !.pc = "item", !.body = b] \in Request
        BY <4>3 DEF Request
      <4> QED BY <1>1, <4>2, <4>4 DEF RuntimeTypeOK
    <3> QED BY <2>1, <3>1, <3>2
  <2> QED BY <1>1, <2>1, <2>2 DEF Refuse, Accept, RuntimeTypeOK, HubTypeOK, hubVars
<1>4. CASE \/ \E t \in Triages : ClickFails(t) \/ ReloadIssue(t)
           \/ \E t \in Triages, i \in IssueIds, s \in Statuses : ClickStatus(t, i, s)
           \/ \E s \in Streams : \/ LoadPage(s) \/ ActOnRefresh(s)
                                 \/ \E p \in replies[s] : ShowPage(s, p)
           \/ Quiet \/ UNCHANGED vars
  BY <1>1, <1>4 DEF ClickFails, ReloadIssue, ClickStatus, LoadPage, ActOnRefresh, FetchPage, FetchFails, ShowPage, Quiet,
     vars, ingestVars, hubVars, RuntimeTypeOK, HubTypeOK
<1>5. CASE \E s \in Streams : OpenStream(s) \/ CloseStream(s) \/ WriteRefresh(s)
  BY <1>1, <1>5 DEF OpenStream, Subscribe, CloseStream, Unsubscribe, WriteRefresh, Take,
     RuntimeTypeOK, HubTypeOK
<1>6. CASE Crash
  <2>1. req' \in [Handlers -> Request]
    BY <1>1, <1>6, RequestTypes DEF Crash, RuntimeTypeOK
  <2> QED BY <1>1, <1>6, <2>1 DEF Crash, RuntimeTypeOK, HubTypeOK
<1>7. CASE PassTime
  BY <1>1, <1>7 DEF PassTime, Tick, RuntimeTypeOK, HubTypeOK, hubVars
<1> QED BY <1>2, <1>3, <1>4, <1>5, <1>6, <1>7 DEF Next

LEMMA NextKeepsLive ==
    ASSUME TypeOK, StoreTypeOK', [Next]_vars
    PROVE  LiveTypeOK'
<1> USE DEF TypeOK
<1>1. LiveTypeOK
  BY DEF LiveTypeOK
<1>2. CASE \E h \in Handlers : StoreEvent(h)
  <2>1. DOMAIN events' \subseteq EventIds
    BY DEF StoreTypeOK, TablesTypeOK
  <2>2. unread' \in [Streams -> SUBSET EventIds]
    BY <1>1, <1>2, <2>1 DEF StoreEvent, LiveTypeOK
  <2> QED BY <1>1, <1>2, <2>2 DEF StoreEvent, LiveTypeOK
<1>3. CASE \/ \E h \in Handlers : Arrive(h)
           \/ \E h \in Handlers : UNCHANGED <<triage, liveVars, crashes>>
           \/ PassTime \/ Quiet \/ UNCHANGED vars
  BY <1>1, <1>3 DEF Arrive, PassTime, Quiet, vars, liveVars, LiveTypeOK
<1>4. CASE \E t \in Triages, i \in IssueIds, s \in Statuses : ClickStatus(t, i, s)
  <2>1. PICK t \in Triages, i \in IssueIds : \E s \in Statuses : ClickStatus(t, i, s)
    BY <1>4
  <2>2. triage' = [triage EXCEPT ![t] = [triage[t] EXCEPT !.pc = "reload", !.issue = i]]
    BY <1>1, <2>1 DEF ClickStatus, LiveTypeOK, Click
  <2>3. triage' \in [Triages -> Click]
    BY <1>1, <2>2 DEF LiveTypeOK, Click
  <2> QED BY <1>1, <2>1, <2>3 DEF ClickStatus, liveVars, LiveTypeOK
<1>5. CASE \E t \in Triages : ClickFails(t) \/ ReloadIssue(t)
  <2>1. PICK t \in Triages : ClickFails(t) \/ ReloadIssue(t)
    BY <1>5
  <2>2. PICK c : triage' = [triage EXCEPT ![t] = c] /\ c \in Click
    <3>1. CASE ClickFails(t)
      <4>1. [NotClicked EXCEPT !.pc = "done", !.reply = "error"] \in Click
        BY DEF NotClicked, Click
      <4> QED BY <3>1, <4>1 DEF ClickFails
    <3>2. CASE ReloadIssue(t)
      <4>1. PICK reply \in {"error"} \cup {issues[i].status : i \in DOMAIN issues \cap {triage[t].issue}} :
               triage' = [triage EXCEPT ![t] = [pc |-> "done", issue |-> None, reply |-> reply]]
        BY <3>2 DEF ReloadIssue
      <4>2. reply \in {"error"} \cup Statuses
        BY <4>1 DEF IngestTypeOK, StoreTypeOK, TablesTypeOK, IssueRow
      <4>3. [pc |-> "done", issue |-> None, reply |-> reply] \in Click
        BY <4>2 DEF Click
      <4> QED BY <4>1, <4>3
    <3> QED BY <2>1, <3>1, <3>2
  <2> QED BY <1>1, <2>1, <2>2 DEF ClickFails, ReloadIssue, liveVars, LiveTypeOK
<1>6. CASE \E s \in Streams : \/ LoadPage(s) \/ OpenStream(s) \/ CloseStream(s)
                              \/ \E p \in replies[s] : ShowPage(s, p)
  BY <1>1, <1>6 DEF LoadPage, OpenStream, CloseStream, ShowPage, liveVars, LiveTypeOK
<1>7. CASE \E s \in Streams : WriteRefresh(s) \/ ActOnRefresh(s)
  <2>1. PICK s \in Streams : WriteRefresh(s) \/ ActOnRefresh(s)
    BY <1>7
  <2>2. pending[s] \in Nat /\ pending[s] + 1 \in Nat
        /\ (pending[s] > 0 => pending[s] - 1 \in Nat)
    BY <1>1 DEF LiveTypeOK
  <2> QED BY <1>1, <2>1, <2>2 DEF WriteRefresh, ActOnRefresh, FetchPage, FetchFails, LiveTypeOK
<1>8. CASE Crash
  <2>1. triage' \in [Triages -> Click]
    BY <1>1, <1>8 DEF Crash, LiveTypeOK, NotClicked, Click
  <2> QED BY <1>1, <1>8, <2>1 DEF Crash, LiveTypeOK
<1> QED BY <1>2, <1>3, <1>4, <1>5, <1>6, <1>7, <1>8 DEF Next, HandlerStep

LEMMA InitTypes == Init => TypeOK /\ StoreInv
<1> SUFFICES ASSUME Init PROVE TypeOK /\ StoreInv
  OBVIOUS
<1>1. StoreTypeOK /\ StoreInv
  BY StoreInitCorrect DEF Init, IngestInit
<1>2. RuntimeTypeOK
  BY RequestTypes DEF Init, IngestInit, HubInit, HubTypeOK, RuntimeTypeOK
<1>3. LiveTypeOK
  BY DEF Init, LiveTypeOK, NotClicked, Click
<1> QED BY <1>1, <1>2, <1>3, TypeParts

-----------------------------------------------------------------------------
\* In every reachable state the variables have their types and the tables
\* are consistent.
THEOREM TablesConsistent == Spec => [](TypeOK /\ StoreInv)
<1>1. Init => TypeOK /\ StoreInv
  BY InitTypes
<1>2. TypeOK /\ StoreInv /\ [Next]_vars => (TypeOK /\ StoreInv)'
  <2> SUFFICES ASSUME TypeOK, StoreInv, [Next]_vars PROVE TypeOK' /\ StoreInv'
    OBVIOUS
  <2>1. StoreTypeOK' /\ StoreInv'
    BY NextKeepsStore
  <2>2. RuntimeTypeOK' /\ LiveTypeOK'
    BY <2>1, NextKeepsRuntime, NextKeepsLive
  <2>3. TypeOK'
    BY <2>1, <2>2 DEF TypeOK, IngestTypeOK, RuntimeTypeOK, LiveTypeOK, StoreTypeOK, HubTypeOK
  <2> QED BY <2>1, <2>3
<1> QED BY <1>1, <1>2, PTL DEF Spec

\* The variables always have their types (every handler, tab and table).
THEOREM TypeCorrect == Spec => []TypeOK
BY TablesConsistent, PTL

\* However requests, retries, triage and crashes interleave, a grouping key
\* never has two issues.
THEOREM GroupingCorrect == Spec => []OneIssuePerGroupingKey
<1>1. TypeOK /\ StoreInv => OneIssuePerGroupingKey
  BY DEF StoreInv
<1> QED BY <1>1, TablesConsistent, PTL

\* event_count always is the number of event rows of the issue.
THEOREM CountCorrect == Spec => []EventCountIsEventRows
<1>1. TypeOK /\ StoreInv => EventCountIsEventRows
  BY DEF StoreInv
<1> QED BY <1>1, TablesConsistent, PTL

\* first_seen_at, last_seen_at and last_event_id always describe events of
\* the issue.
THEOREM SeenCorrect == Spec => []SeenColumnsAreEvents
<1>1. TypeOK /\ StoreInv => SeenColumnsAreEvents
  BY DEF StoreInv
<1> QED BY <1>1, TablesConsistent, PTL

-----------------------------------------------------------------------------
(***************************************************************************)
(* Attachments and source maps are filed under the last event before them  *)
(* in their envelope that decodes, for every set of envelopes and any      *)
(* number of handlers that walk them at once.                              *)
(***************************************************************************)
\* Item q of envelope b is the last event before position p.
IsLastEvent(b, p, q) ==
    /\ q \in 1 .. p - 1 /\ b[q].type = "event"
    /\ \A o \in 1 .. p - 1 : b[o].type = "event" => o <= q

\* The first item a handler has not stored yet.
Ahead(r) == IF r.pc \in {"alert", "signal"} THEN r.pos + 1 ELSE r.pos

\* The loop variables of a request are of one event, the last one behind it,
\* or both are still empty.
OfOneEvent(r) ==
    /\ r.pc \in {"idle", "done"} => r.lastRelease = None
    /\ r.pc = "idle" => r.pos = 1 /\ r.lastEventID = None
    /\ r.pc \notin {"idle", "done"} =>
          /\ r.pos \in Nat \ {0}
          /\ \/ r.lastEventID = None /\ r.lastRelease = None
             \/ \E q : /\ IsLastEvent(r.body, Ahead(r), q)
                       /\ r.lastEventID \in {r.body[q].id} \cup GeneratedIds
                       /\ r.lastRelease = r.body[q].release

\* The inductive invariant.
FilingInv ==
    /\ \A h \in Handlers : OfOneEvent(req[h])
    /\ FiledUnderPrecedingEvent

-----------------------------------------------------------------------------
(***************************************************************************)
(* Positions in an envelope.                                               *)
(***************************************************************************)

LEMMA LastEventIsEventBefore ==
    ASSUME NEW b, NEW p \in Nat, NEW q, IsLastEvent(b, p, q)
    PROVE  EventBefore(b, p) = q /\ q # 0
<1> DEFINE before == {o \in 1 .. p - 1 : b[o].type = "event"}
<1>1. q \in before /\ \A o \in before : o <= q
  BY DEF IsLastEvent
<1>2. \A o \in before : (\A s \in before : s <= o) => o = q
  BY <1>1
<1>3. (CHOOSE o \in before : \A s \in before : s <= o) = q
  BY <1>1, <1>2
<1> QED BY <1>1, <1>3 DEF EventBefore

\* An item that is no event leaves the last event as it is.
LEMMA OtherItemKeepsLastEvent ==
    ASSUME NEW b, NEW p \in Nat \ {0}, NEW q, IsLastEvent(b, p, q), b[p].type # "event"
    PROVE  IsLastEvent(b, p + 1, q)
BY DEF IsLastEvent

LEMMA EventIsLastEvent ==
    ASSUME NEW b, NEW p \in Nat \ {0}, b[p].type = "event"
    PROVE  IsLastEvent(b, p + 1, p)
BY DEF IsLastEvent

LEMMA NextItemFollows ==
    ASSUME NEW r \in Request
    PROVE  /\ NextItem(r).pc = "item" /\ NextItem(r).pos = r.pos + 1
           /\ NextItem(r).body = r.body /\ NextItem(r).lastEventID = r.lastEventID
           /\ NextItem(r).lastRelease = r.lastRelease
BY DEF NextItem, Request

LEMMA AnswersAreOfNoEvent ==
    \A x \in {"refused", "error", "lost"} : OfOneEvent(Answer(x))
BY DEF OfOneEvent, Answer, NotStarted

-----------------------------------------------------------------------------
(***************************************************************************)
(* The loop variables.                                                     *)
(***************************************************************************)

\* Process sets both variables from the event it has stored or found.
LEMMA ProcessIsOfOneEvent ==
    ASSUME IngestTypeOK, NEW h \in Handlers, OfOneEvent(req[h]),
           ProcessStores(h) \/ ProcessDuplicate(h)
    PROVE  OfOneEvent(req'[h]) /\ \A g \in Handlers \ {h} : req'[g] = req[g]
<1>1. PICK x \in Request : x = req[h]
  BY DEF IngestTypeOK
<1>2. req \in [Handlers -> Request] /\ NextItem(x) \in Request
  BY <1>1, RequestTypes DEF IngestTypeOK
<1>3. PICK e : /\ On(h, "process", "event") /\ e \in EnsureEventID(Current(h).id)
               /\ \A g \in Handlers \ {h} : req'[g] = req[g]
               /\ req'[h].body = x.body
               /\ req'[h].lastEventID = e /\ req'[h].lastRelease = Current(h).release
               /\ \/ req'[h].pc \in {"alert", "signal"} /\ req'[h].pos = x.pos
                  \/ req'[h].pc = "item" /\ req'[h].pos = x.pos + 1
  <2>1. CASE ProcessNewIssue(h)
    <3>1. PICK e, i :
             /\ On(h, "process", "event") /\ e \in EnsureEventID(Current(h).id)
             /\ req' = [req EXCEPT
                          ![h] = [x EXCEPT
                             !.pc = IF NumNotifiers = 0 THEN "signal" ELSE "alert",
                             !.issue = IF NumNotifiers = 0 THEN None ELSE i,
                             !.notifier = IF NumNotifiers = 0 THEN 0 ELSE 1,
                             !.lastEventID = e, !.lastRelease = Current(h).release]]
      BY <1>1, <2>1 DEF ProcessNewIssue
    <3>2. CASE NumNotifiers = 0
      BY <1>2, <3>1, <3>2 DEF Request
    <3>3. CASE NumNotifiers # 0
      BY <1>2, <3>1, <3>3 DEF Request
    <3> QED BY <3>2, <3>3
  <2>2. CASE ProcessKnownIssue(h)
    <3>1. PICK e : /\ On(h, "process", "event") /\ e \in EnsureEventID(Current(h).id)
                   /\ req' = [req EXCEPT ![h] = [x EXCEPT !.pc = "signal", !.lastEventID = e,
                                                    !.lastRelease = Current(h).release]]
      BY <1>1, <2>2 DEF ProcessKnownIssue
    <3> QED BY <1>2, <3>1 DEF Request
  <2>3. CASE ProcessDuplicate(h)
    <3>1. PICK y \in Request : y = NextItem(x)
      BY <1>2
    <3>2. PICK e : /\ On(h, "process", "event") /\ e \in EnsureEventID(Current(h).id)
                   /\ req' = [req EXCEPT ![h] = [y EXCEPT !.lastEventID = e,
                                                    !.lastRelease = Current(h).release]]
      BY <1>1, <2>3, <3>1 DEF ProcessDuplicate
    <3>3. y.pc = "item" /\ y.pos = x.pos + 1 /\ y.body = x.body
      BY <3>1, NextItemFollows
    <3> QED BY <1>2, <3>2, <3>3 DEF Request
  <2> QED BY <2>1, <2>2, <2>3 DEF ProcessStores
<1>4. x.pos \in Nat \ {0} /\ x.body[x.pos].type = "event"
  BY <1>1, <1>3 DEF OfOneEvent, On, Current
<1>5. IsLastEvent(x.body, x.pos + 1, x.pos)
  BY <1>4, EventIsLastEvent
<1>6. e \in {x.body[x.pos].id} \cup GeneratedIds /\ Current(h).release = x.body[x.pos].release
  BY <1>1, <1>3 DEF EnsureEventID, Current
<1>7. Ahead(req'[h]) = x.pos + 1 /\ req'[h].pc \notin {"idle", "done"}
      /\ req'[h].pos \in Nat \ {0}
  BY <1>3, <1>4 DEF Ahead
<1> QED BY <1>3, <1>5, <1>6, <1>7 DEF OfOneEvent

\* No other step of a handler touches them.
LEMMA OtherItemIsOfOneEvent ==
    ASSUME IngestTypeOK, NEW h \in Handlers, OfOneEvent(req[h]), HandlerContinues(h),
           ~ProcessDuplicate(h)
    PROVE  OfOneEvent(req'[h]) /\ \A g \in Handlers \ {h} : req'[g] = req[g]
<1>1. PICK x \in Request : x = req[h]
  BY DEF IngestTypeOK
<1>2. req \in [Handlers -> Request]
  BY DEF IngestTypeOK
<1>3. PICK y \in Request : y = NextItem(x)
  BY RequestTypes
<1>4. y.pc = "item" /\ y.pos = x.pos + 1 /\ y.body = x.body
      /\ y.lastEventID = x.lastEventID /\ y.lastRelease = x.lastRelease
  BY <1>3, NextItemFollows
<1>5. CASE BeginProcess(h) \/ AlertNotifier(h)
  <2>1. /\ x.pc \in {"item", "process"} <=> req'[h].pc \in {"item", "process"}
        /\ x.pc \in {"alert", "signal"} <=> req'[h].pc \in {"alert", "signal"}
        /\ x.pc \in {"item", "alert"}
        /\ req'[h].pos = x.pos /\ req'[h].body = x.body
        /\ req'[h].lastEventID = x.lastEventID /\ req'[h].lastRelease = x.lastRelease
        /\ \A g \in Handlers \ {h} : req'[g] = req[g]
    <3>1. CASE BeginProcess(h)
      BY <1>1, <1>2, <3>1 DEF BeginProcess, On, Request
    <3>2. CASE AlertNotifier(h)
      <4>1. x.pc = "alert"
            /\ req' = [req EXCEPT
                         ![h] = IF x.notifier < NumNotifiers
                                THEN [x EXCEPT !.notifier = x.notifier + 1]
                                ELSE [x EXCEPT !.pc = "signal", !.issue = None, !.notifier = 0]]
        BY <1>1, <3>2 DEF AlertNotifier
      <4>2. CASE x.notifier < NumNotifiers
        BY <1>2, <4>1, <4>2 DEF Request
      <4>3. CASE ~(x.notifier < NumNotifiers)
        BY <1>2, <4>1, <4>3 DEF Request
      <4> QED BY <4>2, <4>3
    <3> QED BY <1>5, <3>1, <3>2
  <2>2. Ahead(req'[h]) = Ahead(x)
    BY <2>1 DEF Ahead
  <2> QED BY <1>1, <2>1, <2>2 DEF OfOneEvent
<1>6. CASE SignalHub(h)
  <2>1. x.pc = "signal" /\ req' = [req EXCEPT ![h] = y]
    BY <1>1, <1>3, <1>6 DEF SignalHub
  <2>2. Ahead(x) = x.pos + 1 /\ Ahead(y) = x.pos + 1
    BY <1>4, <2>1 DEF Ahead
  <2>3. OfOneEvent(y)
    BY <1>1, <1>4, <2>1, <2>2 DEF OfOneEvent
  <2> QED BY <1>2, <2>1, <2>3
<1>7. CASE KeepSourceMap(h) \/ KeepAttachment(h) \/ PassOver(h) \/ SkipUndecodable(h)
  <2>1. x.pc = "item" /\ x.body[x.pos].type # "event" /\ req' = [req EXCEPT ![h] = y]
    BY <1>1, <1>3, <1>7 DEF KeepSourceMap, KeepAttachment, PassOver, SkipUndecodable, On, Current
  <2>2. Ahead(x) = x.pos /\ Ahead(y) = x.pos + 1 /\ x.pos \in Nat \ {0}
    BY <1>1, <1>4, <2>1 DEF Ahead, OfOneEvent
  <2>3. \A q : IsLastEvent(x.body, x.pos, q) => IsLastEvent(x.body, x.pos + 1, q)
    BY <2>1, <2>2, OtherItemKeepsLastEvent
  <2>4. OfOneEvent(y)
    BY <1>1, <1>4, <2>1, <2>2, <2>3 DEF OfOneEvent
  <2> QED BY <1>2, <2>1, <2>4
<1>8. CASE ProcessFails(h)
  BY <1>2, <1>8, AnswersAreOfNoEvent DEF ProcessFails
<1>9. CASE Respond(h)
  <2>1. PICK z : z = [Answer("ok") EXCEPT !.body = req[h].body,
                                          !.lastEventID = req[h].lastEventID]
    OBVIOUS
  <2>2. z.pc = "done" /\ z.lastRelease = None
    BY <2>1 DEF Answer, NotStarted
  <2>3. req' = [req EXCEPT ![h] = z]
    BY <1>9, <2>1 DEF Respond
  <2> QED BY <1>2, <2>2, <2>3 DEF OfOneEvent
<1> QED BY <1>5, <1>6, <1>7, <1>8, <1>9 DEF HandlerContinues

-----------------------------------------------------------------------------
(***************************************************************************)
(* What is filed.                                                          *)
(***************************************************************************)

\* The event, or the release, under which the item at hand is filed.
LEMMA LoopVariablesAreOfEventBefore ==
    ASSUME IngestTypeOK, NEW h \in Handlers, OfOneEvent(req[h]),
           NEW b, b = req[h].body, NEW p, p = req[h].pos,
           On(h, "item", "attachment"),
           req[h].lastEventID # None \/ req[h].lastRelease # None
    PROVE  /\ b \in Envelopes /\ p \in DOMAIN b /\ b[p] = Current(h)
           /\ EventBefore(b, p) # 0
           /\ req[h].lastEventID \in {b[EventBefore(b, p)].id} \cup GeneratedIds
           /\ req[h].lastRelease = b[EventBefore(b, p)].release
<1>1. b \in Envelopes /\ p \in DOMAIN b /\ b[p] = Current(h) /\ p \in Nat /\ req[h].pc = "item"
  BY CurrentItem DEF On, Current, IngestTypeOK, Request
<1>2. PICK q : /\ IsLastEvent(b, p, q)
               /\ req[h].lastEventID \in {b[q].id} \cup GeneratedIds
               /\ req[h].lastRelease = b[q].release
  BY <1>1 DEF OfOneEvent, Ahead
<1>3. EventBefore(b, p) = q /\ q # 0
  BY <1>1, <1>2, LastEventIsEventBefore
<1> QED BY <1>1, <1>2, <1>3

LEMMA KeepAttachmentFilesRight ==
    ASSUME IngestTypeOK, FiledUnderPrecedingEvent, NEW h \in Handlers, OfOneEvent(req[h]),
           KeepAttachment(h)
    PROVE  FiledUnderPrecedingEvent'
<1>1. PICK b : b = req[h].body
  OBVIOUS
<1>2. PICK p : p = req[h].pos
  OBVIOUS
<1>3. PICK id : id = req[h].lastEventID
  OBVIOUS
<1>4. /\ On(h, "item", "attachment") /\ id # None
      /\ attachments' = [attachments EXCEPT ![<<id, Current(h).name>>] = @ + 1]
      /\ sourceMaps' = sourceMaps
      /\ Current(h).isMap => req[h].lastRelease = None
      /\ Current(h).type = "attachment"
  BY <1>3 DEF KeepAttachment, StoreAttachment, IsStoredAsMap, On
<1>5. /\ b \in Envelopes /\ p \in DOMAIN b /\ b[p] = Current(h)
      /\ EventBefore(b, p) # 0
      /\ id \in {b[EventBefore(b, p)].id} \cup GeneratedIds
      /\ req[h].lastRelease = b[EventBefore(b, p)].release
  BY <1>1, <1>2, <1>3, <1>4, LoopVariablesAreOfEventBefore
<1>6. ASSUME NEW e \in EventIds \ GeneratedIds, NEW n \in Names, attachments'[<<e, n>>] > 0,
             attachments[<<e, n>>] = 0
      PROVE  e = id /\ n = Current(h).name
  <2>1. attachments \in [EventIds \X Names -> Nat]
    BY DEF IngestTypeOK, StoreTypeOK
  <2> QED BY <1>4, <1>6, <2>1
<1>7. ASSUME NEW e \in EventIds \ GeneratedIds, NEW n \in Names, attachments'[<<e, n>>] > 0
      PROVE  \E a \in Envelopes : \E o \in DOMAIN a :
                /\ a[o].type = "attachment" /\ a[o].name = n
                /\ EventBefore(a, o) # 0 /\ a[EventBefore(a, o)].id = e
                /\ a[o].isMap => a[EventBefore(a, o)].release = None
  <2>1. CASE attachments[<<e, n>>] > 0
    BY <2>1 DEF FiledUnderPrecedingEvent
  <2>2. CASE ~(attachments[<<e, n>>] > 0)
    <3>1. attachments[<<e, n>>] = 0
      <4>1. attachments[<<e, n>>] \in Nat
        BY DEF IngestTypeOK, StoreTypeOK
      <4> QED BY <2>2, <4>1
    <3>2. e = id /\ n = Current(h).name
      BY <1>6, <1>7, <3>1
    <3> QED BY <1>4, <1>5, <3>2
  <2> QED BY <2>1, <2>2
<1>8. \A m \in sourceMaps' :
         \E a \in Envelopes : \E o \in DOMAIN a :
            /\ a[o].type = "attachment" /\ a[o].isMap /\ a[o].name = m[2]
            /\ EventBefore(a, o) # 0 /\ a[EventBefore(a, o)].release = m[1]
  BY <1>4 DEF FiledUnderPrecedingEvent
<1> QED BY <1>7, <1>8 DEF FiledUnderPrecedingEvent

LEMMA KeepSourceMapFilesRight ==
    ASSUME IngestTypeOK, FiledUnderPrecedingEvent, NEW h \in Handlers, OfOneEvent(req[h]),
           KeepSourceMap(h)
    PROVE  FiledUnderPrecedingEvent'
<1>1. PICK b : b = req[h].body
  OBVIOUS
<1>2. PICK p : p = req[h].pos
  OBVIOUS
<1>3. /\ On(h, "item", "attachment") /\ req[h].lastRelease # None
      /\ attachments' = attachments /\ Current(h).isMap
      /\ sourceMaps' = sourceMaps \cup {<<req[h].lastRelease, Current(h).name>>}
      /\ Current(h).type = "attachment"
  BY DEF KeepSourceMap, StoreSourceMap, IsStoredAsMap, On
<1>4. /\ b \in Envelopes /\ p \in DOMAIN b /\ b[p] = Current(h)
      /\ EventBefore(b, p) # 0
      /\ req[h].lastRelease = b[EventBefore(b, p)].release
  BY <1>1, <1>2, <1>3, LoopVariablesAreOfEventBefore
<1>5. ASSUME NEW m \in sourceMaps'
      PROVE  \E a \in Envelopes : \E o \in DOMAIN a :
                /\ a[o].type = "attachment" /\ a[o].isMap /\ a[o].name = m[2]
                /\ EventBefore(a, o) # 0 /\ a[EventBefore(a, o)].release = m[1]
  <2>1. CASE m \in sourceMaps
    BY <2>1 DEF FiledUnderPrecedingEvent
  <2>2. CASE m = <<req[h].lastRelease, Current(h).name>>
    <3>1. m[1] = req[h].lastRelease /\ m[2] = Current(h).name
      BY <2>2
    <3> QED BY <1>3, <1>4, <3>1
  <2> QED BY <1>3, <1>5, <2>1, <2>2
<1>6. \A e \in EventIds \ GeneratedIds, n \in Names :
         attachments'[<<e, n>>] > 0 =>
            \E a \in Envelopes : \E o \in DOMAIN a :
               /\ a[o].type = "attachment" /\ a[o].name = n
               /\ EventBefore(a, o) # 0 /\ a[EventBefore(a, o)].id = e
               /\ a[o].isMap => a[EventBefore(a, o)].release = None
  BY <1>3 DEF FiledUnderPrecedingEvent
<1> QED BY <1>5, <1>6 DEF FiledUnderPrecedingEvent

-----------------------------------------------------------------------------
(***************************************************************************)
(* Every step of the server.                                               *)
(***************************************************************************)

LEMMA HandlerKeepsFiling ==
    ASSUME TypeOK, FilingInv, NEW h \in Handlers, HandlerStep(h)
    PROVE  FilingInv'
<1>1. IngestTypeOK /\ OfOneEvent(req[h]) /\ FiledUnderPrecedingEvent
  BY DEF TypeOK, FilingInv
<1>2. OfOneEvent(req'[h]) /\ \A g \in Handlers \ {h} : req'[g] = req[g]
  BY <1>1, ProcessIsOfOneEvent, OtherItemIsOfOneEvent DEF HandlerStep, StoreEvent
<1>3. \A g \in Handlers : OfOneEvent(req[g])'
  <2>1. \A g \in Handlers : OfOneEvent(req'[g])
    BY <1>2 DEF FilingInv
  <2> QED BY <2>1 DEF OfOneEvent, IsLastEvent, Ahead
<1>4. CASE KeepAttachment(h) \/ KeepSourceMap(h)
  BY <1>1, <1>3, <1>4, KeepAttachmentFilesRight, KeepSourceMapFilesRight DEF FilingInv
<1>5. CASE ~(KeepAttachment(h) \/ KeepSourceMap(h))
  <2>1. UNCHANGED <<attachments, sourceMaps>>
    BY <1>5 DEF HandlerStep, StoreEvent, ProcessStores, HandlerContinues, ProcessNewIssue,
       ProcessKnownIssue, ProcessDuplicate, BeginProcess, ProcessFails, AlertNotifier,
       SignalHub, PassOver, SkipUndecodable, Respond, RecordNewIssue, RecordKnownIssue, RecordDuplicate, storeVars
  <2>2. FiledUnderPrecedingEvent'
    BY <1>1, <2>1 DEF FiledUnderPrecedingEvent
  <2> QED BY <1>3, <2>2 DEF FilingInv
<1> QED BY <1>4, <1>5

\* Steps that are not a handler's store no file; a request begins with empty
\* variables and a crash empties them.
LEMMA OtherKeepsFiling ==
    ASSUME TypeOK, FilingInv, [Next]_vars, ~\E h \in Handlers : HandlerStep(h)
    PROVE  FilingInv'
<1>1. req \in [Handlers -> Request]
  BY DEF TypeOK, IngestTypeOK
<1>2. UNCHANGED <<attachments, sourceMaps>>
      /\ \A h \in Handlers :
            \/ req'[h] = req[h]
            \/ req'[h] \in {Answer("refused"), Answer("lost")}
            \/ /\ req[h].pc = "idle" /\ req'[h].pc = "item" /\ req'[h].pos = req[h].pos
               /\ req'[h].lastEventID = req[h].lastEventID
               /\ req'[h].lastRelease = req[h].lastRelease
  <2>1. CASE \E h \in Handlers : Arrive(h)
    <3>1. PICK h \in Handlers : Arrive(h)
      BY <2>1
    <3>2. CASE Refuse(h)
      BY <1>1, <3>2 DEF Refuse, storeVars
    <3>3. ASSUME NEW b \in Envelopes, Accept(h, b)
          PROVE  /\ UNCHANGED <<attachments, sourceMaps>>
                 /\ \A g \in Handlers \ {h} : req'[g] = req[g]
                 /\ req[h].pc = "idle" /\ req'[h].pc = "item" /\ req'[h].pos = req[h].pos
                 /\ req'[h].lastEventID = req[h].lastEventID
                 /\ req'[h].lastRelease = req[h].lastRelease
      <4>1. req' = [req EXCEPT ![h] = [req[h] EXCEPT !.pc = "item", !.body = b]]
            /\ req[h].pc = "idle" /\ UNCHANGED storeVars
        BY <1>1, <3>3 DEF Accept, Request
      <4> QED BY <1>1, <4>1 DEF Request, storeVars
    <3> QED BY <3>1, <3>2, <3>3 DEF Arrive
  <2>2. CASE \E t \in Triages :
                \/ ClickFails(t) \/ ReloadIssue(t)
                \/ \E i \in IssueIds, s \in Statuses : ClickStatus(t, i, s)
    BY <2>2 DEF ClickFails, ReloadIssue, ClickStatus, UpdateIssueStatus, SetIssueStatus, ingestVars, storeVars
  <2>3. CASE \E s \in Streams :
                \/ LoadPage(s) \/ OpenStream(s) \/ CloseStream(s)
                \/ WriteRefresh(s) \/ ActOnRefresh(s)
                \/ \E p \in replies[s] : ShowPage(s, p)
    BY <2>3 DEF LoadPage, OpenStream, CloseStream, WriteRefresh, ActOnRefresh, FetchPage, FetchFails, ShowPage,
       ingestVars, storeVars
  <2>4. CASE Crash
    BY <2>4 DEF Crash, storeVars
  <2>5. CASE PassTime \/ Quiet \/ UNCHANGED vars
    BY <2>5 DEF PassTime, Tick, Quiet, vars, ingestVars, storeVars
  <2> QED BY <2>1, <2>2, <2>3, <2>4, <2>5 DEF Next
<1>3. ASSUME NEW h \in Handlers PROVE OfOneEvent(req'[h])
  <2>1. PICK x : x = req[h]
    OBVIOUS
  <2>2. OfOneEvent(x)
    BY <2>1 DEF FilingInv
  <2>3. PICK y : y = req'[h]
    OBVIOUS
  <2>4. CASE /\ x.pc = "idle" /\ y.pc = "item" /\ y.pos = x.pos
             /\ y.lastEventID = x.lastEventID /\ y.lastRelease = x.lastRelease
    BY <2>2, <2>3, <2>4 DEF OfOneEvent
  <2> QED BY <1>2, <2>1, <2>2, <2>3, <2>4, AnswersAreOfNoEvent
<1>4. \A h \in Handlers : OfOneEvent(req[h])'
  BY <1>3 DEF OfOneEvent, IsLastEvent, Ahead
<1>5. FiledUnderPrecedingEvent'
  BY <1>2 DEF FilingInv, FiledUnderPrecedingEvent
<1> QED BY <1>4, <1>5 DEF FilingInv

LEMMA InitFiling == Init => FilingInv
<1> SUFFICES ASSUME Init PROVE FilingInv
  OBVIOUS
<1>1. \A h \in Handlers : req[h] = NotStarted
  BY DEF Init, IngestInit
<1>2. OfOneEvent(NotStarted)
  BY DEF OfOneEvent, NotStarted
<1>3. FiledUnderPrecedingEvent
  BY DEF Init, IngestInit, StoreInit, FiledUnderPrecedingEvent
<1> QED BY <1>1, <1>2, <1>3 DEF FilingInv

\* A file is never filed under an event of another request, or under an
\* earlier one than the last before it that decodes (HandleEnvelope's
\* lastEventID and lastRelease; an event that does not decode resets neither).
THEOREM FiledCorrectly == Spec => []FiledUnderPrecedingEvent
<1>1. Init => FilingInv
  BY InitFiling
<1>2. TypeOK /\ FilingInv /\ [Next]_vars => FilingInv'
  BY HandlerKeepsFiling, OtherKeepsFiling
<1>3. FilingInv => FiledUnderPrecedingEvent
  BY DEF FilingInv
<1> QED BY <1>1, <1>2, <1>3, TypeCorrect, PTL DEF Spec

-----------------------------------------------------------------------------
(***************************************************************************)
(* What the server promises while its handlers, tabs and crashes           *)
(* interleave: answers that are true, alerts that are not repeated and     *)
(* wake-ups that are not lost.                                             *)
(***************************************************************************)

\* The event with the id in item it, if it has one, is stored.
IsStored(it) == it.type = "event" /\ it.id # None => HasEvent(it.id)

\* A handler has stored the events of all items before the one it is at, and
\* of this one when it announces it.
HandlersStore ==
    \A h \in Handlers :
        LET r == req[h]
        IN  /\ r.pc \notin {"idle", "done"} => r.pos >= 1
            /\ r.pc = "idle" => r.pos = 1
            /\ r.lastEventID # None => HasEvent(r.lastEventID)
            /\ r.pc \notin {"idle", "done"} =>
                  \A p \in DOMAIN r.body : p < r.pos => IsStored(r.body[p])
            /\ r.pc \in {"alert", "signal"} =>
                  /\ r.pos \in DOMAIN r.body => IsStored(r.body[r.pos])
                  /\ r.lastEventID # None
            /\ r.pc # "done" => r.response = "none"
            /\ r.response = "ok" => \A p \in DOMAIN r.body : IsStored(r.body[p])

\* A notifier was told of an issue once, and not yet if a handler is still
\* to tell it; no two handlers announce the same issue.
AlertsInv ==
    /\ \A n \in 1 .. NumNotifiers, i \in IssueIds :
          alerts[n][i] = 0 \/ (alerts[n][i] = 1 /\ i \in DOMAIN issues)
    /\ \A h \in Handlers :
          req[h].pc = "alert" =>
              /\ req[h].issue \in DOMAIN issues
              /\ req[h].notifier \in 1 .. NumNotifiers
              /\ \A n \in req[h].notifier .. NumNotifiers : alerts[n][req[h].issue] = 0
              /\ \A g \in Handlers \ {h} : req[g].pc = "alert" => req[g].issue # req[h].issue

\* Nothing is unread for a tab without a stream.
WakeupInv ==
    /\ \A s \in Streams \ clients : unread[s] = {}
    /\ NoLostWakeup

SafetyInv ==
    /\ HandlersStore
    /\ AttachmentsHaveEvents
    /\ AlertsInv
    /\ WakeupInv

-----------------------------------------------------------------------------
(***************************************************************************)
(* What each kind of step of a handler does.                               *)
(***************************************************************************)

\* The request keeps its envelope and its answer.
Keeps(h) == req'[h].body = req[h].body /\ req'[h].response = req[h].response

Begins(h) ==
    /\ req[h].pc = "item" /\ req'[h].pc = "process"
    /\ req'[h].pos = req[h].pos /\ req'[h].lastEventID = req[h].lastEventID
    /\ Keeps(h)
    /\ UNCHANGED <<storeVars, hubVars, alerts>>

Stores(h) ==
    /\ req[h].pc = "process" /\ req'[h].pc \in {"alert", "signal"}
    /\ req'[h].pos = req[h].pos
    /\ Keeps(h)
    /\ \E e \in EventIds, i \in IssueIds :
          /\ DOMAIN events' = DOMAIN events \cup {e}
          /\ req'[h].lastEventID = e
          /\ Current(h).id # None => Current(h).id = e
          /\ DOMAIN issues \subseteq DOMAIN issues'
          /\ req'[h].pc = "alert" =>
                /\ NumNotifiers # 0 /\ req'[h].notifier = 1
                /\ req'[h].issue = i /\ i \notin DOMAIN issues /\ i \in DOMAIN issues'
    /\ UNCHANGED <<hubVars, alerts, attachments>>

\* To the next item, with what was stored for this one.
Skips(h) ==
    /\ req'[h].pc = "item" /\ req'[h].pos = req[h].pos + 1
    /\ Keeps(h)
    /\ \/ /\ req[h].pc = "process"
          /\ HasEvent(req'[h].lastEventID)
          /\ Current(h).id # None => Current(h).id = req'[h].lastEventID
          /\ UNCHANGED <<attachments, hubVars>>
       \/ /\ req[h].pc = "item" /\ Current(h).type # "event"
          /\ req'[h].lastEventID = req[h].lastEventID
          /\ \/ UNCHANGED attachments
             \/ \E n \in Names :
                   /\ req[h].lastEventID # None
                   /\ attachments' = [attachments EXCEPT ![<<req[h].lastEventID, n>>] = @ + 1]
          /\ UNCHANGED hubVars
       \/ /\ req[h].pc = "signal" /\ Notify
          /\ req'[h].lastEventID = req[h].lastEventID
          /\ UNCHANGED attachments
    /\ UNCHANGED <<tableVars, alerts>>

Alerts(h) ==
    /\ req[h].pc = "alert"
    /\ req'[h].pos = req[h].pos /\ req'[h].lastEventID = req[h].lastEventID
    /\ Keeps(h)
    /\ IF req[h].notifier < NumNotifiers
       THEN /\ req'[h].pc = "alert" /\ req'[h].issue = req[h].issue
            /\ req'[h].notifier = req[h].notifier + 1
       ELSE req'[h].pc = "signal"
    /\ \E d \in {0, 1} : alerts' = [alerts EXCEPT ![req[h].notifier][req[h].issue] = @ + d]
    /\ UNCHANGED <<storeVars, hubVars>>

Ends(h) ==
    /\ req[h].pc \in {"item", "process"} /\ req'[h].pc = "done"
    /\ \/ req'[h].response # "ok" /\ req'[h].lastEventID = None
       \/ /\ req[h].pc = "item" /\ req[h].pos \notin DOMAIN req[h].body
          /\ req'[h].body = req[h].body /\ req'[h].lastEventID = req[h].lastEventID
    /\ UNCHANGED <<storeVars, hubVars, alerts>>

HandlerEffect(h) ==
    /\ \A g \in Handlers \ {h} : req'[g] = req[g]
    /\ Begins(h) \/ Stores(h) \/ Skips(h) \/ Alerts(h) \/ Ends(h)

LEMMA NextItemFields ==
    ASSUME NEW r \in Request
    PROVE  /\ NextItem(r).pc = "item" /\ NextItem(r).pos = r.pos + 1
           /\ NextItem(r).body = r.body /\ NextItem(r).response = r.response
           /\ NextItem(r).lastEventID = r.lastEventID
BY DEF NextItem, Request

LEMMA StoreEventHasEffect ==
    ASSUME IngestTypeOK, NEW h \in Handlers, ProcessStores(h)
    PROVE  HandlerEffect(h) /\ Stores(h)
<1>1. PICK e \in EventIds, i \in IssueIds :
          /\ On(h, "process", "event") /\ e \in EnsureEventID(Current(h).id)
          /\ \/ /\ RecordNewIssue(e, Current(h).key, req[h].receivedAt, i)
                /\ req' = [req EXCEPT
                     ![h] = [req[h] EXCEPT
                        !.pc = IF NumNotifiers = 0 THEN "signal" ELSE "alert",
                        !.issue = IF NumNotifiers = 0 THEN None ELSE i,
                        !.notifier = IF NumNotifiers = 0 THEN 0 ELSE 1,
                        !.lastEventID = e, !.lastRelease = Current(h).release]]
             \/ /\ RecordKnownIssue(e, Current(h).key, req[h].receivedAt, i)
                /\ req' = [req EXCEPT
                     ![h] = [req[h] EXCEPT !.pc = "signal", !.lastEventID = e,
                                           !.lastRelease = Current(h).release]]
          /\ UNCHANGED <<hubVars, alerts>>
  BY DEF ProcessStores, ProcessNewIssue, ProcessKnownIssue
<1>2. req[h] \in Request /\ req \in [Handlers -> Request]
  BY DEF IngestTypeOK
<1>3. /\ \A g \in Handlers \ {h} : req'[g] = req[g]
      /\ req'[h].pc \in {"alert", "signal"} /\ req'[h].pos = req[h].pos
      /\ Keeps(h) /\ req'[h].lastEventID = e
      /\ req'[h].pc = "alert" =>
            /\ NumNotifiers # 0 /\ req'[h].notifier = 1 /\ req'[h].issue = i
            /\ RecordNewIssue(e, Current(h).key, req[h].receivedAt, i)
  <2>1. CASE req' = [req EXCEPT
                     ![h] = [req[h] EXCEPT !.pc = "signal", !.lastEventID = e,
                                           !.lastRelease = Current(h).release]]
    BY <1>2, <2>1 DEF Keeps, Request
  <2>2. CASE /\ RecordNewIssue(e, Current(h).key, req[h].receivedAt, i)
             /\ req' = [req EXCEPT
                     ![h] = [req[h] EXCEPT
                        !.pc = IF NumNotifiers = 0 THEN "signal" ELSE "alert",
                        !.issue = IF NumNotifiers = 0 THEN None ELSE i,
                        !.notifier = IF NumNotifiers = 0 THEN 0 ELSE 1,
                        !.lastEventID = e, !.lastRelease = Current(h).release]]
    BY <1>2, <2>2 DEF Keeps, Request
  <2> QED BY <1>1, <2>1, <2>2
<1>4. /\ DOMAIN events' = DOMAIN events \cup {e} /\ UNCHANGED attachments
      /\ DOMAIN issues \subseteq DOMAIN issues'
  BY <1>1 DEF RecordNewIssue, RecordKnownIssue, CreateEvent, Put
<1>5. RecordNewIssue(e, Current(h).key, req[h].receivedAt, i) =>
         i \notin DOMAIN issues /\ i \in DOMAIN issues'
  BY DEF RecordNewIssue, Put
<1>6. Current(h).id # None => Current(h).id = e
  BY <1>1 DEF EnsureEventID
<1>7. req[h].pc = "process"
  BY <1>1 DEF On
<1>8. Stores(h)
  BY <1>1, <1>3, <1>4, <1>5, <1>6, <1>7 DEF Stores
<1> QED BY <1>3, <1>8 DEF HandlerEffect

LEMMA ContinueHasEffect ==
    ASSUME IngestTypeOK, NEW h \in Handlers, HandlerContinues(h)
    PROVE  HandlerEffect(h)
<1>1. req[h] \in Request /\ req \in [Handlers -> Request]
  BY DEF IngestTypeOK
<1>2. PICK y \in Request : y = NextItem(req[h])
  BY <1>1, RequestTypes
<1>3. /\ y.pc = "item" /\ y.pos = req[h].pos + 1 /\ y.body = req[h].body
      /\ y.response = req[h].response /\ y.lastEventID = req[h].lastEventID
  BY <1>1, <1>2, NextItemFields
<1>4. CASE BeginProcess(h)
  <2>1. Begins(h) /\ \A g \in Handlers \ {h} : req'[g] = req[g]
    BY <1>1, <1>4 DEF BeginProcess, On, Begins, Keeps, Request
  <2> QED BY <2>1 DEF HandlerEffect
<1>5. CASE ProcessDuplicate(h)
  <2>1. PICK e \in EventIds, i \in IssueIds :
           /\ On(h, "process", "event") /\ e \in EnsureEventID(Current(h).id)
           /\ RecordDuplicate(e, i)
           /\ req' = [req EXCEPT ![h] = [y EXCEPT !.lastEventID = e,
                                                  !.lastRelease = Current(h).release]]
           /\ UNCHANGED <<hubVars, alerts>>
    BY <1>2, <1>5 DEF ProcessDuplicate
  <2>2. /\ \A g \in Handlers \ {h} : req'[g] = req[g]
        /\ req'[h].pc = "item" /\ req'[h].pos = req[h].pos + 1 /\ Keeps(h)
        /\ req'[h].lastEventID = e
    BY <1>1, <1>3, <2>1 DEF Keeps, Request
  <2>3. HasEvent(e) /\ UNCHANGED <<tableVars, attachments>> /\ req[h].pc = "process"
        /\ (Current(h).id # None => Current(h).id = e)
    BY <2>1 DEF RecordDuplicate, storeVars, On, EnsureEventID
  <2>4. Skips(h)
    BY <2>1, <2>2, <2>3 DEF Skips
  <2> QED BY <2>2, <2>4 DEF HandlerEffect
<1>6. CASE ProcessFails(h)
  <2>1. req' = [req EXCEPT ![h] = Answer("error")] /\ UNCHANGED <<storeVars, hubVars, alerts>>
        /\ req[h].pc = "process"
    BY <1>6 DEF ProcessFails, On
  <2>2. /\ Answer("error").pc = "done" /\ Answer("error").response = "error"
        /\ Answer("error").lastEventID = None
    BY DEF Answer, NotStarted
  <2>3. Ends(h) /\ \A g \in Handlers \ {h} : req'[g] = req[g]
    BY <1>1, <2>1, <2>2 DEF Ends
  <2> QED BY <2>3 DEF HandlerEffect
<1>7. CASE AlertNotifier(h)
  <2>1. /\ req[h].pc = "alert" /\ UNCHANGED <<storeVars, hubVars>>
        /\ \E d \in {0, 1} : alerts' = [alerts EXCEPT ![req[h].notifier][req[h].issue] = @ + d]
        /\ req' = [req EXCEPT
                     ![h] = IF req[h].notifier < NumNotifiers
                            THEN [req[h] EXCEPT !.notifier = req[h].notifier + 1]
                            ELSE [req[h] EXCEPT !.pc = "signal", !.issue = None, !.notifier = 0]]
    BY <1>7 DEF AlertNotifier
  <2>2. /\ \A g \in Handlers \ {h} : req'[g] = req[g]
        /\ req'[h].pos = req[h].pos /\ req'[h].lastEventID = req[h].lastEventID
        /\ Keeps(h)
        /\ IF req[h].notifier < NumNotifiers
           THEN /\ req'[h].pc = "alert" /\ req'[h].issue = req[h].issue
                /\ req'[h].notifier = req[h].notifier + 1
           ELSE req'[h].pc = "signal"
    <3>1. CASE req[h].notifier < NumNotifiers
      BY <1>1, <2>1, <3>1 DEF Keeps, Request
    <3>2. CASE ~(req[h].notifier < NumNotifiers)
      BY <1>1, <2>1, <3>2 DEF Keeps, Request
    <3> QED BY <3>1, <3>2
  <2>3. Alerts(h)
    BY <2>1, <2>2 DEF Alerts
  <2> QED BY <2>2, <2>3 DEF HandlerEffect
<1>8. CASE SignalHub(h)
  <2>1. /\ req[h].pc = "signal" /\ Notify /\ req' = [req EXCEPT ![h] = y]
        /\ UNCHANGED <<storeVars, alerts>>
    BY <1>2, <1>8 DEF SignalHub
  <2>2. Skips(h) /\ \A g \in Handlers \ {h} : req'[g] = req[g]
    BY <1>1, <1>3, <2>1 DEF Skips, Keeps, storeVars
  <2> QED BY <2>2 DEF HandlerEffect
<1>9. CASE KeepSourceMap(h) \/ KeepAttachment(h) \/ PassOver(h) \/ SkipUndecodable(h)
  <2>1. /\ req[h].pc = "item" /\ Current(h).type # "event"
        /\ req' = [req EXCEPT ![h] = y] /\ UNCHANGED <<tableVars, hubVars, alerts>>
    BY <1>2, <1>9 DEF KeepSourceMap, KeepAttachment, PassOver, SkipUndecodable, On, StoreSourceMap,
       StoreAttachment, storeVars
  <2>2. \/ UNCHANGED attachments
        \/ KeepAttachment(h)
    BY <1>9 DEF KeepSourceMap, PassOver, SkipUndecodable, StoreSourceMap, storeVars
  <2>3. KeepAttachment(h) =>
           \E n \in Names :
              /\ req[h].lastEventID # None
              /\ attachments' = [attachments EXCEPT ![<<req[h].lastEventID, n>>] = @ + 1]
    BY CurrentAttachment DEF KeepAttachment, StoreAttachment
  <2>4. Skips(h) /\ \A g \in Handlers \ {h} : req'[g] = req[g]
    BY <1>1, <1>3, <2>1, <2>2, <2>3 DEF Skips, Keeps
  <2> QED BY <2>4 DEF HandlerEffect
<1>10. CASE Respond(h)
  <2>1. /\ req[h].pc = "item" /\ req[h].pos \notin DOMAIN req[h].body
        /\ req' = [req EXCEPT ![h] = [Answer("ok") EXCEPT !.body = req[h].body,
                                                          !.lastEventID = req[h].lastEventID]]
        /\ UNCHANGED <<storeVars, hubVars, alerts>>
    BY <1>10 DEF Respond
  <2>2. /\ req'[h].pc = "done" /\ req'[h].body = req[h].body
        /\ req'[h].lastEventID = req[h].lastEventID
        /\ \A g \in Handlers \ {h} : req'[g] = req[g]
    BY <1>1, <2>1 DEF Answer, NotStarted, Request
  <2>3. Ends(h)
    BY <2>1, <2>2 DEF Ends
  <2> QED BY <2>2, <2>3 DEF HandlerEffect
<1> QED BY <1>4, <1>5, <1>6, <1>7, <1>8, <1>9, <1>10 DEF HandlerContinues

LEMMA HandlerStepHasEffect ==
    ASSUME TypeOK, NEW h \in Handlers, HandlerStep(h)
    PROVE  HandlerEffect(h)
BY StoreEventHasEffect, ContinueHasEffect DEF TypeOK, HandlerStep, StoreEvent

-----------------------------------------------------------------------------
(***************************************************************************)
(* Answers are true.                                                       *)
(***************************************************************************)

\* The envelope of a request is a sequence, of which pos is a position or not.
LEMMA Bodies ==
    ASSUME NEW r \in Request
    PROVE  /\ r.pos \in Nat
           /\ DOMAIN r.body \subseteq Nat
           /\ \A p \in DOMAIN r.body : ~(p < 1)
           /\ r.pos >= 1 /\ r.pos \notin DOMAIN r.body => \A p \in DOMAIN r.body : p < r.pos
<1>1. r.pos \in Nat /\ r.body \in Seq(Item)
  <2>1. r.pos \in Nat /\ r.body \in Envelopes \cup {<<>>}
    BY DEF Request
  <2>2. <<>> \in Seq(Item)
    OBVIOUS
  <2> QED BY <2>1, <2>2, EnvelopesAssumption
<1>2. DOMAIN r.body = 1 .. Len(r.body) /\ Len(r.body) \in Nat
  BY <1>1
<1> QED BY <1>1, <1>2

\* No step takes an event out of the table.
LEMMA HandlerKeepsEvents ==
    ASSUME NEW h \in Handlers, HandlerEffect(h)
    PROVE  DOMAIN events \subseteq DOMAIN events'
BY DEF HandlerEffect, Begins, Stores, Skips, Alerts, Ends, storeVars, tableVars

LEMMA HandlerKeepsHandlersStore ==
    ASSUME IngestTypeOK, HandlersStore, NEW h \in Handlers, HandlerEffect(h)
    PROVE  HandlersStore'
<1>1. \A e : HasEvent(e) => HasEvent(e)'
  BY HandlerKeepsEvents DEF HasEvent
<1>2. \A it : IsStored(it) => IsStored(it)'
  BY <1>1 DEF IsStored
<1>3. \A g \in Handlers \ {h} : req'[g] = req[g]
  BY DEF HandlerEffect
<1> DEFINE Right(r) ==
        /\ r.pc \notin {"idle", "done"} => r.pos >= 1
        /\ r.pc = "idle" => r.pos = 1
        /\ r.lastEventID # None => HasEvent(r.lastEventID)
        /\ r.pc \notin {"idle", "done"} =>
              \A p \in DOMAIN r.body : p < r.pos => IsStored(r.body[p])
        /\ r.pc \in {"alert", "signal"} =>
              /\ r.pos \in DOMAIN r.body => IsStored(r.body[r.pos])
              /\ r.lastEventID # None
        /\ r.pc # "done" => r.response = "none"
        /\ r.response = "ok" => \A p \in DOMAIN r.body : IsStored(r.body[p])
<1>4. \A g \in Handlers : Right(req[g])
  BY DEF HandlersStore
<1>5. \A g \in Handlers \ {h} : Right(req[g])'
  <2> SUFFICES ASSUME NEW g \in Handlers \ {h} PROVE Right(req[g])'
    OBVIOUS
  <2>1. req'[g] = req[g] /\ Right(req[g])
    BY <1>3, <1>4
  <2> QED BY <1>1, <1>2, <2>1
<1>6. /\ req[h].pos \in Nat /\ DOMAIN req[h].body \subseteq Nat
      /\ req[h].pos >= 1 /\ req[h].pos \notin DOMAIN req[h].body =>
            \A p \in DOMAIN req[h].body : p < req[h].pos
  BY Bodies DEF IngestTypeOK
<1>7. Right(req[h])
  BY <1>4
<1>8. Right(req[h])'
  <2>1. CASE Begins(h)
    BY <1>1, <1>2, <1>7, <2>1 DEF Begins, Keeps
  <2>2. CASE Stores(h)
    <3>1. PICK e \in EventIds : /\ DOMAIN events' = DOMAIN events \cup {e}
                                /\ req'[h].lastEventID = e
                                /\ Current(h).id # None => Current(h).id = e
      BY <2>2 DEF Stores
    <3>2. e # None /\ HasEvent(e)' /\ IsStored(Current(h))'
      <4>1. HasEvent(e)'
        BY <3>1 DEF HasEvent
      <4>2. \A it : it.id # None /\ it.id = e => IsStored(it)'
        BY <4>1 DEF IsStored
      <4>3. IsStored(req[h].body[req[h].pos])'
        BY <3>1, <4>1, <2>2 DEF IsStored, Current, Stores, Keeps
      <4> QED BY <4>1, <4>3, <2>2, NoneAssumption DEF Current, Stores, Keeps
    <3> QED BY <1>1, <1>2, <1>7, <2>2, <3>1, <3>2 DEF Stores, Keeps, Current
  <2>3. CASE Skips(h)
    <3>1. /\ req'[h].pc = "item" /\ req'[h].pos = req[h].pos + 1
          /\ req'[h].body = req[h].body /\ req'[h].response = req[h].response
          /\ req[h].pc \in {"item", "process", "signal"}
      BY <2>3 DEF Skips, Keeps
    <3>2. req'[h].lastEventID # None => HasEvent(req[h].lastEventID)'
      <4>1. req'[h].lastEventID # None =>
               HasEvent(req'[h].lastEventID)
        BY <1>7, <2>3 DEF Skips
      <4> QED BY <4>1, <1>1 DEF HasEvent
    <3>3. req[h].pos \in DOMAIN req[h].body => IsStored(req[h].body[req[h].pos])
      BY <1>7, <2>3 DEF Skips, Current, IsStored, HasEvent
    <3>4. \A p \in DOMAIN req[h].body : p < req[h].pos + 1 => IsStored(req[h].body[p])
      BY <1>6, <1>7, <3>1, <3>3
    <3>5. \A p \in DOMAIN req'[h].body : p < req'[h].pos => IsStored(req[h].body[p])'
      BY <1>2, <3>1, <3>4
    <3>6. req'[h].pos >= 1 /\ req'[h].response = "none"
      BY <1>6, <1>7, <3>1
    <3> QED BY <3>1, <3>2, <3>5, <3>6
  <2>4. CASE Alerts(h)
    BY <1>1, <1>2, <1>7, <2>4 DEF Alerts, Keeps
  <2>5. CASE Ends(h)
    BY <1>1, <1>2, <1>6, <1>7, <2>5 DEF Ends
  <2> QED BY <2>1, <2>2, <2>3, <2>4, <2>5 DEF HandlerEffect
<1>9. \A g \in Handlers : Right(req[g])'
  BY <1>5, <1>8
<1> QED BY <1>9 DEF HandlersStore

\* A step of no started handler.
OtherStep ==
    \/ \E h \in Handlers : Arrive(h)
    \/ \E t \in Triages :
          \/ ClickFails(t) \/ ReloadIssue(t)
          \/ \E i \in IssueIds, s \in Statuses : ClickStatus(t, i, s)
    \/ \E s \in Streams :
          \/ LoadPage(s) \/ OpenStream(s) \/ CloseStream(s)
          \/ WriteRefresh(s) \/ ActOnRefresh(s)
          \/ \E p \in replies[s] : ShowPage(s, p)
    \/ Crash \/ PassTime \/ Quiet \/ UNCHANGED vars

\* Of the requests, only new ones and lost ones change; no row comes or goes.
OtherEffect ==
    /\ \A h \in Handlers :
          \/ req'[h] = req[h]
          \/ /\ req[h].pc = "idle" /\ req'[h].pc = "item"
             /\ req'[h].pos = req[h].pos /\ req'[h].response = req[h].response
             /\ req'[h].lastEventID = req[h].lastEventID
          \/ /\ req'[h].pc = "done" /\ req'[h].response # "ok"
             /\ req'[h].lastEventID = None
    /\ events' = events /\ attachments' = attachments /\ alerts' = alerts
    /\ DOMAIN issues' = DOMAIN issues

LEMMA OtherStepHasEffect ==
    ASSUME TypeOK, OtherStep
    PROVE  OtherEffect
<1>1. req \in [Handlers -> Request]
  BY DEF TypeOK, IngestTypeOK
<1>2. \A x \in {"refused", "lost"} :
         /\ Answer(x).pc = "done" /\ Answer(x).response # "ok" /\ Answer(x).lastEventID = None
  BY DEF Answer, NotStarted
<1>3. CASE \E h \in Handlers : Arrive(h)
  <2>1. PICK h \in Handlers : Arrive(h)
    BY <1>3
  <2>2. CASE Refuse(h)
    BY <1>1, <1>2, <2>2 DEF Refuse, OtherEffect, storeVars, tableVars
  <2>3. ASSUME NEW b \in Envelopes, Accept(h, b) PROVE OtherEffect
    <3>1. req' = [req EXCEPT ![h] = [req[h] EXCEPT !.pc = "item", !.body = b]]
          /\ req[h].pc = "idle" /\ UNCHANGED <<storeVars, alerts>>
      BY <1>1, <2>3 DEF Accept, Request
    <3>2. /\ req'[h].pc = "item" /\ req'[h].pos = req[h].pos
          /\ req'[h].response = req[h].response /\ req'[h].lastEventID = req[h].lastEventID
          /\ \A g \in Handlers \ {h} : req'[g] = req[g]
      BY <1>1, <3>1 DEF Request
    <3> QED BY <3>1, <3>2 DEF OtherEffect, storeVars, tableVars
  <2> QED BY <2>1, <2>2, <2>3 DEF Arrive
<1>4. CASE \E t \in Triages :
             \/ ClickFails(t) \/ ReloadIssue(t)
             \/ \E i \in IssueIds, s \in Statuses : ClickStatus(t, i, s)
  BY <1>4 DEF ClickFails, ReloadIssue, ClickStatus, UpdateIssueStatus, SetIssueStatus, OtherEffect,
     ingestVars, storeVars, tableVars
<1>5. CASE \E s \in Streams :
              \/ LoadPage(s) \/ OpenStream(s) \/ CloseStream(s)
              \/ WriteRefresh(s) \/ ActOnRefresh(s)
              \/ \E p \in replies[s] : ShowPage(s, p)
  BY <1>5 DEF LoadPage, OpenStream, CloseStream, WriteRefresh, ActOnRefresh, FetchPage, FetchFails, ShowPage,
     OtherEffect, ingestVars, storeVars, tableVars
<1>6. CASE Crash
  BY <1>2, <1>6 DEF Crash, OtherEffect, storeVars, tableVars
<1>7. CASE PassTime \/ Quiet \/ UNCHANGED vars
  BY <1>7 DEF PassTime, Tick, Quiet, vars, OtherEffect, ingestVars, storeVars, tableVars
<1> QED BY <1>3, <1>4, <1>5, <1>6, <1>7 DEF OtherStep

LEMMA OtherKeepsHandlersStore ==
    ASSUME IngestTypeOK, RuntimeTypeOK', HandlersStore, OtherEffect
    PROVE  HandlersStore'
<1>1. \A e : HasEvent(e)' = HasEvent(e)
  BY DEF HasEvent, OtherEffect
<1>2. \A it : IsStored(it)' = IsStored(it)
  BY <1>1 DEF IsStored
<1> SUFFICES ASSUME NEW h \in Handlers
             PROVE  LET r == req[h]
                    IN  /\ r'.pc \notin {"idle", "done"} => r'.pos >= 1
                        /\ r'.pc = "idle" => r'.pos = 1
                        /\ r'.lastEventID # None => HasEvent(r.lastEventID)'
                        /\ r'.pc \notin {"idle", "done"} =>
                              \A p \in DOMAIN r'.body : p < r'.pos => IsStored(r.body[p])'
                        /\ r'.pc \in {"alert", "signal"} =>
                              /\ r'.pos \in DOMAIN r'.body => IsStored(r.body[r.pos])'
                              /\ r'.lastEventID # None
                        /\ r'.pc # "done" => r'.response = "none"
                        /\ r'.response = "ok" => \A p \in DOMAIN r'.body : IsStored(r.body[p])'
  BY DEF HandlersStore
<1>3. CASE req'[h] = req[h]
  BY <1>1, <1>2, <1>3 DEF HandlersStore
<1>4. CASE /\ req[h].pc = "idle" /\ req'[h].pc = "item"
           /\ req'[h].pos = req[h].pos /\ req'[h].response = req[h].response
           /\ req'[h].lastEventID = req[h].lastEventID
  <2>1. /\ req[h].pos = 1 /\ req[h].response = "none"
        /\ req[h].lastEventID # None => HasEvent(req[h].lastEventID)
    BY <1>4 DEF HandlersStore
  <2>2. \A p \in DOMAIN req'[h].body : ~(p < 1)
    BY Bodies DEF RuntimeTypeOK
  <2> QED BY <1>1, <1>4, <2>1, <2>2
<1>5. CASE req'[h].pc = "done" /\ req'[h].response # "ok" /\ req'[h].lastEventID = None
  BY <1>5
<1> QED BY <1>3, <1>4, <1>5 DEF OtherEffect

\* Attachments are filed under the event the handler has stored last.
LEMMA HandlerKeepsAttachments ==
    ASSUME IngestTypeOK, HandlersStore, AttachmentsHaveEvents, NEW h \in Handlers, HandlerEffect(h)
    PROVE  AttachmentsHaveEvents'
<1>1. \A e : HasEvent(e) => HasEvent(e)'
  BY HandlerKeepsEvents DEF HasEvent
<1>2. CASE attachments' = attachments
  BY <1>1, <1>2 DEF AttachmentsHaveEvents
<1>3. CASE \E n \in Names :
              /\ req[h].lastEventID # None
              /\ attachments' = [attachments EXCEPT ![<<req[h].lastEventID, n>>] = @ + 1]
  <2>1. HasEvent(req[h].lastEventID)
    BY <1>3 DEF HandlersStore
  <2>2. \A e \in EventIds, n \in Names :
           e # req[h].lastEventID => attachments'[<<e, n>>] = attachments[<<e, n>>]
    BY <1>3 DEF IngestTypeOK, StoreTypeOK
  <2> QED BY <1>1, <2>1, <2>2 DEF AttachmentsHaveEvents
<1> QED BY <1>2, <1>3 DEF HandlerEffect, Begins, Stores, Skips, Alerts, Ends, storeVars

-----------------------------------------------------------------------------
(***************************************************************************)
(* Alerts are not repeated.                                                *)
(***************************************************************************)

LEMMA HandlerKeepsAlerts ==
    ASSUME IngestTypeOK, AlertsInv, NEW h \in Handlers, HandlerEffect(h)
    PROVE  AlertsInv'
<1>1. \A g \in Handlers \ {h} : req'[g] = req[g]
  BY DEF HandlerEffect
<1>2. CASE Alerts(h)
  <2> DEFINE n == req[h].notifier
             i == req[h].issue
  <2>1. /\ i \in DOMAIN issues /\ n \in 1 .. NumNotifiers /\ DOMAIN issues \subseteq IssueIds
        /\ \A m \in n .. NumNotifiers : alerts[m][i] = 0
        /\ alerts \in [1 .. NumNotifiers -> [IssueIds -> Nat]]
        /\ \A g \in Handlers \ {h} : req[g].pc = "alert" => req[g].issue # i
    BY <1>2 DEF AlertsInv, Alerts, IngestTypeOK, StoreTypeOK, TablesTypeOK
  <2>2. PICK d \in {0, 1} : alerts' = [alerts EXCEPT ![n][i] = @ + d]
    BY <1>2 DEF Alerts
  <2>3. n \in 1 .. NumNotifiers /\ i \in IssueIds
    BY <2>1
  <2> HIDE DEF n, i
  <2>4. /\ alerts'[n][i] = alerts[n][i] + d
        /\ \A m \in 1 .. NumNotifiers, j \in IssueIds :
              m # n \/ j # i => alerts'[m][j] = alerts[m][j]
    BY <2>1, <2>2, <2>3
  <2>5. alerts'[n][i] \in {0, 1}
    BY <2>1, <2>3, <2>4, NumbersAssumption
  <2>6. issues' = issues
    BY <1>2 DEF Alerts, storeVars, tableVars
  <2>7. \A m \in 1 .. NumNotifiers, j \in IssueIds :
           alerts'[m][j] = 0 \/ (alerts'[m][j] = 1 /\ j \in DOMAIN issues')
    BY <2>1, <2>4, <2>5, <2>6 DEF AlertsInv
  <2>8. req'[h].pc = "alert" =>
           /\ req'[h].issue = i /\ req'[h].notifier = n + 1 /\ n + 1 \in 1 .. NumNotifiers
           /\ \A m \in n + 1 .. NumNotifiers : alerts'[m][i] = 0
    <3>1. req'[h].pc = "alert" => req'[h].issue = i /\ req'[h].notifier = n + 1 /\ n < NumNotifiers
      BY <1>2 DEF Alerts, n, i
    <3>2. n < NumNotifiers => n + 1 \in 1 .. NumNotifiers
      BY <2>3, NumbersAssumption
    <3>3. \A m \in n + 1 .. NumNotifiers :
             m \in n .. NumNotifiers /\ m \in 1 .. NumNotifiers /\ m # n
      BY <2>3, NumbersAssumption
    <3> QED BY <2>1, <2>3, <2>4, <3>1, <3>2, <3>3
  <2>9. ASSUME NEW g \in Handlers, req'[g].pc = "alert"
        PROVE  /\ req'[g].issue \in DOMAIN issues'
               /\ req'[g].notifier \in 1 .. NumNotifiers
               /\ \A m \in req'[g].notifier .. NumNotifiers : alerts'[m][req'[g].issue] = 0
               /\ \A f \in Handlers \ {g} : req'[f].pc = "alert" => req'[f].issue # req'[g].issue
    <3>1. CASE g = h
      BY <1>1, <2>1, <2>6, <2>8, <2>9, <3>1
    <3>2. CASE g # h
      <4>1. /\ req'[g] = req[g] /\ req[g].issue # i
            /\ req[g].issue \in DOMAIN issues /\ req[g].notifier \in 1 .. NumNotifiers
            /\ \A m \in req[g].notifier .. NumNotifiers : alerts[m][req[g].issue] = 0
        BY <1>1, <2>1, <2>9, <3>2 DEF AlertsInv
      <4>2. \A m \in req[g].notifier .. NumNotifiers : m \in 1 .. NumNotifiers
        BY <4>1, NumbersAssumption
      <4>3. \A m \in req[g].notifier .. NumNotifiers : alerts'[m][req[g].issue] = 0
        BY <2>1, <2>4, <4>1, <4>2
      <4>4. \A f \in Handlers \ {g} : req'[f].pc = "alert" => req'[f].issue # req[g].issue
        BY <1>1, <2>8, <2>9, <3>2, <4>1 DEF AlertsInv
      <4> QED BY <2>6, <4>1, <4>3, <4>4
    <3> QED BY <3>1, <3>2
  <2> QED BY <2>7, <2>9 DEF AlertsInv
<1>3. CASE Stores(h)
  <2>1. /\ alerts' = alerts /\ DOMAIN issues \subseteq DOMAIN issues'
        /\ req'[h].pc = "alert" =>
              /\ NumNotifiers # 0 /\ req'[h].notifier = 1
              /\ req'[h].issue \in IssueIds \ DOMAIN issues /\ req'[h].issue \in DOMAIN issues'
    BY <1>3 DEF Stores
  <2>2. \A m \in 1 .. NumNotifiers, j \in IssueIds \ DOMAIN issues : alerts[m][j] = 0
    BY DEF AlertsInv
  <2>3. \A g \in Handlers \ {h} : req[g].pc = "alert" => req[g].issue \in DOMAIN issues
    BY DEF AlertsInv
  <2> QED BY <1>1, <2>1, <2>2, <2>3, NumbersAssumption DEF AlertsInv
<1>4. CASE Begins(h) \/ Skips(h) \/ Ends(h)
  <2>1. alerts' = alerts /\ issues' = issues /\ req'[h].pc # "alert"
    BY <1>4 DEF Begins, Skips, Ends, storeVars, tableVars
  <2> QED BY <1>1, <2>1 DEF AlertsInv
<1> QED BY <1>2, <1>3, <1>4 DEF HandlerEffect

LEMMA OtherKeepsAlerts ==
    ASSUME AlertsInv, OtherEffect
    PROVE  AlertsInv'
<1>1. \A h \in Handlers : req'[h].pc = "alert" => req'[h] = req[h]
  BY DEF OtherEffect
<1>2. alerts' = alerts /\ DOMAIN issues' = DOMAIN issues
  BY DEF OtherEffect
<1> QED BY <1>1, <1>2 DEF AlertsInv

\* Attachments are not touched by the other steps.
LEMMA OtherKeepsAttachments ==
    ASSUME AttachmentsHaveEvents, OtherEffect
    PROVE  AttachmentsHaveEvents'
BY DEF AttachmentsHaveEvents, HasEvent, OtherEffect

-----------------------------------------------------------------------------
(***************************************************************************)
(* Wake-ups are not lost.                                                  *)
(***************************************************************************)

\* A handler has yet to signal event e.
YetToSignal(e) ==
    \E h \in Handlers : req[h].pc \in {"alert", "signal"} /\ req[h].lastEventID = e

\* A commit makes its event unread, and the handler that made it signals it.
LEMMA StoreEventKeepsWakeups ==
    ASSUME TypeOK, WakeupInv, NEW h \in Handlers, StoreEvent(h)
    PROVE  WakeupInv'
<1>1. HandlerEffect(h) /\ Stores(h)
  BY StoreEventHasEffect DEF StoreEvent, TypeOK
<1>2. /\ clients' = clients /\ ch' = ch /\ pending' = pending /\ missed' = missed
      /\ unread' = [s \in Streams |->
                       IF s \in clients
                       THEN unread[s] \cup (DOMAIN events' \ DOMAIN events)
                       ELSE unread[s]]
  BY <1>1 DEF StoreEvent, Stores, hubVars
<1>3. DOMAIN events' \ DOMAIN events \subseteq {req'[h].lastEventID}
      /\ req'[h].pc \in {"alert", "signal"} /\ req[h].pc = "process"
  BY <1>1 DEF Stores
<1>4. \A g \in Handlers \ {h} : req'[g] = req[g]
  BY <1>1 DEF HandlerEffect
<1>5. \A e : YetToSignal(e) => YetToSignal(e)'
  BY <1>3, <1>4 DEF YetToSignal
<1>6. \A e \in DOMAIN events' \ DOMAIN events : YetToSignal(e)'
  BY <1>3 DEF YetToSignal
<1>7. clients \subseteq Streams
  BY DEF TypeOK, IngestTypeOK, HubTypeOK
<1>8. \A s \in Streams \ clients' : unread'[s] = {}
  BY <1>2 DEF WakeupInv
<1>9. ASSUME NEW s \in clients, NEW e \in unread'[s] \ missed'[s]
      PROVE  s \in ch \/ pending[s] > 0 \/ YetToSignal(e)'
  <2>1. e \in unread[s] \/ e \in DOMAIN events' \ DOMAIN events
    BY <1>2, <1>7
  <2>2. e \in unread[s] => s \in ch \/ pending[s] > 0 \/ YetToSignal(e)
    BY <1>2 DEF WakeupInv, NoLostWakeup, YetToSignal
  <2> QED BY <1>5, <1>6, <2>1, <2>2
<1> QED BY <1>2, <1>8, <1>9 DEF WakeupInv, NoLostWakeup, YetToSignal

LEMMA ContinueKeepsWakeups ==
    ASSUME TypeOK, WakeupInv, NEW h \in Handlers, HandlerContinues(h),
           UNCHANGED <<triage, liveVars, crashes>>
    PROVE  WakeupInv'
<1>1. HandlerEffect(h) /\ pending' = pending /\ unread' = unread /\ missed' = missed
  BY ContinueHasEffect DEF TypeOK, liveVars
<1>2. CASE Notify
  BY <1>1, <1>2 DEF Notify, WakeupInv, NoLostWakeup
<1>3. CASE hubVars' = hubVars /\ req[h].pc # "signal"
  <2>1. \/ req[h].pc # "alert"
        \/ req'[h].pc \in {"alert", "signal"} /\ req'[h].lastEventID = req[h].lastEventID
    BY <1>1, <1>3 DEF HandlerEffect, Begins, Stores, Skips, Alerts, Ends
  <2>2. \A e : YetToSignal(e) => YetToSignal(e)'
    BY <1>1, <1>3, <2>1 DEF YetToSignal, HandlerEffect
  <2> QED BY <1>1, <1>3, <2>2 DEF WakeupInv, NoLostWakeup, YetToSignal, hubVars
<1> QED BY <1>1, <1>2, <1>3 DEF HandlerEffect, Begins, Stores, Skips, Alerts, Ends

\* The other steps signal nothing and forget nothing that an open stream is owed.
LEMMA OtherKeepsWakeups ==
    ASSUME TypeOK, WakeupInv, OtherStep
    PROVE  WakeupInv'
<1>1. OtherEffect
  BY OtherStepHasEffect
<1>2. /\ clients \subseteq Streams /\ ch \subseteq clients
      /\ pending \in [Streams -> Nat] /\ unread \in [Streams -> SUBSET EventIds]
      /\ missed \in [Streams -> SUBSET EventIds]
  BY DEF TypeOK, IngestTypeOK, HubTypeOK
<1>3. CASE Crash
  BY <1>3 DEF Crash, WakeupInv, NoLostWakeup
<1>4. CASE \E s \in Streams : LoadPage(s)
  <2>1. PICK s \in Streams : LoadPage(s)
    BY <1>4
  <2>2. s \notin clients /\ unread' = unread /\ missed' = missed /\ hubVars' = hubVars
        /\ req' = req
        /\ \A r \in clients : pending'[r] = pending[r]
    BY <1>2, <2>1 DEF LoadPage, ingestVars
  <2> QED BY <2>2 DEF WakeupInv, NoLostWakeup, hubVars
<1>5. CASE \E s \in Streams : OpenStream(s)
  <2>1. PICK s \in Streams : OpenStream(s)
    BY <1>5
  <2>2. /\ s \notin clients /\ clients' = clients \cup {s} /\ ch' = ch
        /\ unread' = unread /\ missed' = missed /\ pending' = pending /\ req' = req
        /\ unread[s] = {}
    BY <2>1 DEF OpenStream, Subscribe, liveVars, WakeupInv
  <2> QED BY <2>2 DEF WakeupInv, NoLostWakeup
<1>6. CASE \E s \in Streams : CloseStream(s)
  <2>1. PICK s \in Streams : CloseStream(s)
    BY <1>6
  <2>2. /\ clients' = clients \ {s} /\ ch' = ch \ {s} /\ pending' = pending /\ req' = req
        /\ unread' = [unread EXCEPT ![s] = {}] /\ missed' = [missed EXCEPT ![s] = {}]
    BY <2>1 DEF CloseStream, Unsubscribe
  <2>3. \A r \in Streams : /\ unread'[r] = (IF r = s THEN {} ELSE unread[r])
                            /\ missed'[r] = (IF r = s THEN {} ELSE missed[r])
    BY <1>2, <2>2
  <2> QED BY <1>2, <2>2, <2>3 DEF WakeupInv, NoLostWakeup
<1>7. CASE \E s \in Streams : WriteRefresh(s) \/ ActOnRefresh(s)
  <2>1. PICK s \in Streams : WriteRefresh(s) \/ ActOnRefresh(s)
    BY <1>7
  <2>2. CASE WriteRefresh(s)
    <3>1. /\ clients' = clients /\ ch' = ch \ {s} /\ unread' = unread /\ missed' = missed
          /\ req' = req
          /\ \A r \in Streams : pending'[r] = IF r = s THEN pending[r] + 1 ELSE pending[r]
          /\ s \in clients
      BY <1>2, <2>2 DEF WriteRefresh, Take
    <3>2. pending'[s] > 0
      BY <1>2, <3>1
    <3> QED BY <1>2, <3>1, <3>2 DEF WakeupInv, NoLostWakeup
  <2>3. CASE FetchPage(s)
    <3>1. /\ clients' = clients /\ ch' = ch /\ req' = req
          /\ \A r \in Streams : /\ unread'[r] = (IF r = s THEN {} ELSE unread[r])
                               /\ missed'[r] = (IF r = s THEN {} ELSE missed[r])
          /\ \A r \in Streams \ {s} : pending'[r] = pending[r]
      BY <1>2, <2>3 DEF FetchPage, ingestVars, hubVars
    <3> QED BY <1>2, <3>1 DEF WakeupInv, NoLostWakeup
  <2>4. CASE FetchFails(s)
    <3>1. /\ clients' = clients /\ ch' = ch /\ req' = req /\ unread' = unread
          /\ \A r \in Streams : missed'[r] = IF r = s THEN missed[r] \cup unread[r] ELSE missed[r]
          /\ \A r \in Streams \ {s} : pending'[r] = pending[r]
      BY <1>2, <2>4 DEF FetchFails, ingestVars, hubVars
    <3> QED BY <1>2, <3>1 DEF WakeupInv, NoLostWakeup
  <2> QED BY <2>1, <2>2, <2>3, <2>4 DEF ActOnRefresh
<1>8. CASE \/ \E h \in Handlers : Arrive(h)
           \/ \E t \in Triages :
                 \/ ClickFails(t) \/ ReloadIssue(t)
                 \/ \E i \in IssueIds, s \in Statuses : ClickStatus(t, i, s)
           \/ \E s \in Streams : \E p \in replies[s] : ShowPage(s, p)
           \/ PassTime \/ Quiet \/ UNCHANGED vars
  <2>1. clients' = clients /\ ch' = ch /\ pending' = pending /\ unread' = unread
        /\ missed' = missed
    BY <1>8 DEF Arrive, Refuse, Accept, ClickFails, ReloadIssue, ClickStatus, ShowPage, PassTime, Tick,
       Quiet, vars, ingestVars, hubVars, liveVars
  <2>2. \A h \in Handlers : req'[h] = req[h] \/ req[h].pc = "idle"
    <3>1. CASE \E h \in Handlers : Arrive(h)
      BY <3>1 DEF Arrive, Refuse, Accept, TypeOK, IngestTypeOK
    <3> QED BY <1>8, <3>1 DEF ClickFails, ReloadIssue, ClickStatus, ShowPage, PassTime, Tick,
            Quiet, vars, ingestVars
  <2> QED BY <2>1, <2>2 DEF WakeupInv, NoLostWakeup
<1> QED BY <1>3, <1>4, <1>5, <1>6, <1>7, <1>8 DEF OtherStep

-----------------------------------------------------------------------------
LEMMA InitSafety == Init => SafetyInv
<1> SUFFICES ASSUME Init PROVE SafetyInv
  OBVIOUS
<1>1. HandlersStore
  BY NumbersAssumption DEF Init, IngestInit, NotStarted, HandlersStore
<1>2. AttachmentsHaveEvents
  BY DEF Init, IngestInit, StoreInit, AttachmentsHaveEvents
<1>3. AlertsInv
  BY DEF Init, IngestInit, NotStarted, AlertsInv
<1>4. WakeupInv
  BY DEF Init, IngestInit, HubInit, WakeupInv, NoLostWakeup
<1> QED BY <1>1, <1>2, <1>3, <1>4 DEF SafetyInv

LEMMA NextKeepsSafety ==
    ASSUME TypeOK, SafetyInv, [Next]_vars
    PROVE  SafetyInv'
<1> USE DEF SafetyInv
<1>1. IngestTypeOK /\ RuntimeTypeOK'
  BY NextKeepsRuntime DEF TypeOK
<1>2. ASSUME NEW h \in Handlers, HandlerStep(h) PROVE SafetyInv'
  <2>1. HandlerEffect(h)
    BY <1>2, HandlerStepHasEffect
  <2>2. HandlersStore' /\ AttachmentsHaveEvents' /\ AlertsInv'
    BY <1>1, <2>1, HandlerKeepsHandlersStore, HandlerKeepsAttachments, HandlerKeepsAlerts
  <2>3. WakeupInv'
    BY <1>2, StoreEventKeepsWakeups, ContinueKeepsWakeups DEF HandlerStep
  <2> QED BY <2>2, <2>3
<1>3. CASE OtherStep
  <2>1. OtherEffect
    BY <1>3, OtherStepHasEffect
  <2> QED BY <1>1, <1>3, <2>1, OtherKeepsHandlersStore, OtherKeepsAttachments,
          OtherKeepsAlerts, OtherKeepsWakeups
<1> QED BY <1>2, <1>3 DEF Next, OtherStep

\* The inductive invariant holds in every reachable state.
THEOREM ServerInvariant == Spec => []SafetyInv
<1>1. Init => SafetyInv
  BY InitSafety
<1>2. TypeOK /\ SafetyInv /\ [Next]_vars => SafetyInv'
  BY NextKeepsSafety
<1>3. Spec => []TypeOK
  BY TypeCorrect
<1> QED BY <1>1, <1>2, <1>3, PTL DEF Spec

\* A 200 answer names only stored events, however handlers interleave, fail,
\* are retried or die with the process (HandleEnvelope).
THEOREM AnswersAreTrue == Spec => []AcknowledgedEventsAreStored
<1>1. SafetyInv => AcknowledgedEventsAreStored
  BY DEF SafetyInv, HandlersStore, AcknowledgedEventsAreStored, IsStored
<1> QED BY <1>1, ServerInvariant, PTL

\* No notifier hears twice of an issue, or of one that is not committed
\* (Multi.Notify after Process).
THEOREM AlertsAreNotRepeated == Spec => []AlertedAtMostOnce
<1>1. SafetyInv => AlertedAtMostOnce
  BY DEF SafetyInv, AlertsInv, AlertedAtMostOnce
<1> QED BY <1>1, ServerInvariant, PTL

\* An open stream that has not fetched the page since a commit has a wake-up
\* on its way (Hub.Notify, HandleStream and the script of base.html; a fetch
\* that fails is a fetch).
THEOREM WakeupsAreNotLost == Spec => []NoLostWakeup
<1>1. SafetyInv => NoLostWakeup
  BY DEF SafetyInv, WakeupInv
<1> QED BY <1>1, ServerInvariant, PTL

\* No attachment is stored for an event that is not (HandleEnvelope's
\* lastEventID).
THEOREM AttachmentsAreOfEvents == Spec => []AttachmentsHaveEvents
<1>1. SafetyInv => AttachmentsHaveEvents
  BY DEF SafetyInv
<1> QED BY <1>1, ServerInvariant, PTL

-----------------------------------------------------------------------------
(***************************************************************************)
(* The tables implement the ledger.                                        *)
(***************************************************************************)

\* The instance's operator is the one of module FiniteSets.
LEMMA LedgerCardinality == \A S : Ledger!Cardinality(S) = Cardinality(S)
BY Zenon DEF Ledger!Cardinality, Cardinality

\* The counts that are shown are the numbers of rows.
LEMMA CountsAreRows ==
    EventCountIsEventRows =>
        [k \in KeysSeen |-> issues[TheIssue(k)].event_count] = RowsOfKey
<1> SUFFICES ASSUME EventCountIsEventRows
             PROVE  [k \in KeysSeen |-> issues[TheIssue(k)].event_count] = RowsOfKey
  OBVIOUS
<1>1. \A k \in KeysSeen : TheIssue(k) \in DOMAIN issues
  BY KeyHasIssue
<1> QED BY <1>1 DEF EventCountIsEventRows, RowsOfKey

LEMMA StoreStepIsLedgerStep ==
    ASSUME StoreTypeOK, StoreInv, EventCountIsEventRows', StoreStep
    PROVE  [Ledger!Next]_(Ledger!ledgerVars)
<1> DEFINE shown == [k \in KeysSeen |-> issues[TheIssue(k)].event_count]
<1>1. TablesInv /\ shown = RowsOfKey
  BY CountsAreRows DEF StoreInv, TablesInv
<1>2. shown' = RowsOfKey'
  <2>1. \A k \in KeysSeen' : TheIssue(k)' \in DOMAIN issues'
    BY DEF KeysSeen, TheIssue
  <2> QED BY <2>1 DEF EventCountIsEventRows, RowsOfKey
<1>3. CASE \E e \in EventIds, k \in GroupingKeys, now \in Nat, i \in IssueIds :
              RecordNewIssue(e, k, now, i) \/ RecordKnownIssue(e, k, now, i)
  <2>1. PICK e \in EventIds, k \in GroupingKeys, now \in Nat, i \in IssueIds :
              RecordNewIssue(e, k, now, i) \/ RecordKnownIssue(e, k, now, i)
    BY <1>3
  <2>2. PICK row : row = IF i \in DOMAIN issues
                         THEN RowAfterEvent(issues[i], e, now, issues[i].event_count + 1)
                         ELSE NewIssueRow(k, e, now)
    OBVIOUS
  <2>3. /\ ~HasEvent(e) /\ CreateEvent(e, i, now)
        /\ issues' = Put(issues, i, row) /\ IsRowForEvent(row, i, k)
    <3>1. CASE RecordNewIssue(e, k, now, i)
      BY <2>2, <3>1 DEF RecordNewIssue, NewIssueRow, IssuesWithKey, KeysSeen, IsRowForEvent
    <3>2. CASE RecordKnownIssue(e, k, now, i)
      <4>1. i \in DOMAIN issues /\ issues[i].grouping_key = k
            /\ issues[i] \in IssueRow /\ issues \in [DOMAIN issues -> IssueRow]
        BY <3>2 DEF RecordKnownIssue, IssuesWithKey, StoreTypeOK, TablesTypeOK
      <4>2. row.grouping_key = k /\ row.status = StatusAfterEvent(issues[i].status)
        BY <2>2, <4>1 DEF RowAfterEvent, IssueRow
      <4>3. issues' = Put(issues, i, row)
        BY <2>2, <3>2, <4>1 DEF RecordKnownIssue, Put
      <4> QED BY <3>2, <4>1, <4>2, <4>3 DEF RecordKnownIssue, IsRowForEvent
    <3> QED BY <2>1, <3>1, <3>2
  <2>4. TablesInv' /\ e \notin DOMAIN KeyOfEvent /\ Records(e, k)
    BY <1>1, <2>3, RecordIsLedgerStep
  <2>5. shown' = [y \in DOMAIN shown \cup {k} |->
                     IF y = k
                     THEN Cardinality({x \in DOMAIN KeyOfEvent' : KeyOfEvent'[x] = k})
                     ELSE shown[y]]
    <3> HIDE DEF shown
    <3> QED BY <1>1, <1>2, <2>4 DEF Records
  <2>6. /\ KeyOfEvent' = Ledger!Extend(KeyOfEvent, e, k)
        /\ StatusOfKey' = Ledger!Extend(StatusOfKey, k,
                             IF k \in DOMAIN StatusOfKey /\ StatusOfKey[k] # "resolved"
                             THEN StatusOfKey[k] ELSE "open")
        /\ shown' = Ledger!Extend(shown, k,
                       Cardinality({x \in DOMAIN KeyOfEvent' : KeyOfEvent'[x] = k}))
    <3> HIDE DEF shown
    <3> QED BY <2>4, <2>5 DEF Records, Ledger!Extend
  <2>7. Ledger!Record(e, k)
    BY <2>4, <2>6, LedgerCardinality DEF Ledger!Record
  <2> QED BY <2>7 DEF Ledger!Next
<1>4. CASE \E i \in IssueIds, s \in Statuses : UpdateIssueStatus(i, s)
  <2>1. PICK i \in IssueIds, s \in Statuses : UpdateIssueStatus(i, s)
    BY <1>4
  <2>2. CASE i \in DOMAIN issues
    <3>1. PICK k : k = issues[i].grouping_key
      OBVIOUS
    <3>2. /\ KeyOfEvent' = KeyOfEvent /\ RowsOfKey' = RowsOfKey
          /\ issues[i].grouping_key \in KeysSeen
          /\ StatusOfKey' = [StatusOfKey EXCEPT ![issues[i].grouping_key] = s]
      BY <1>1, <2>1, <2>2, SetStatusIsLedgerStep DEF UpdateIssueStatus, StoreTypeOK
    <3>3. k \in GroupingKeys /\ k \in DOMAIN StatusOfKey
      BY <2>2, <3>1, <3>2 DEF StoreTypeOK, TablesTypeOK, IssueRow, StatusOfKey
    <3>4. Ledger!Triage(k, s)
      BY <1>1, <1>2, <3>1, <3>2, <3>3 DEF Ledger!Triage
    <3> QED BY <3>3, <3>4 DEF Ledger!Next, Statuses
  <2>3. CASE i \notin DOMAIN issues
    <3>1. UNCHANGED tableVars
      BY <2>1, <2>3 DEF UpdateIssueStatus, SetIssueStatus, tableVars
    <3> QED BY <1>1, <1>2, <3>1, SameTablesSameLedger DEF Ledger!ledgerVars
  <2> QED BY <2>2, <2>3
<1>5. CASE \/ UNCHANGED storeVars
           \/ \E e \in EventIds, n \in Names : StoreAttachment(e, n)
           \/ \E r \in Releases, n \in Names : StoreSourceMap(r, n)
  <2>1. UNCHANGED tableVars
    BY <1>5 DEF storeVars, StoreAttachment, StoreSourceMap
  <2> QED BY <1>1, <1>2, <2>1, SameTablesSameLedger DEF Ledger!ledgerVars
<1> QED BY <1>3, <1>4, <1>5 DEF StoreStep

\* Every run of the server, with its retries, clicks and crashes, is a run of
\* the abstract ledger (RecordProcessedEvent and UpdateIssueStatus).
THEOREM ServerImplementsLedger == Spec => ImplementsLedger
<1>1. Init => Ledger!Init
  <2> SUFFICES ASSUME Init PROVE Ledger!Init
    OBVIOUS
  <2>1. DOMAIN issues = {} /\ DOMAIN events = {}
    BY DEF Init, IngestInit, StoreInit, TablesInit
  <2>2. KeysSeen = {}
    BY <2>1 DEF KeysSeen
  <2> QED BY <2>1, <2>2 DEF Ledger!Init, KeyOfEvent, StatusOfKey
<1>2. /\ TypeOK /\ StoreInv /\ (TypeOK /\ StoreInv)' /\ [Next]_vars
      => [Ledger!Next]_(Ledger!ledgerVars)
  BY NextStoreStep, StoreStepIsLedgerStep DEF TypeOK, IngestTypeOK, StoreInv
<1> QED BY <1>1, <1>2, TablesConsistent, PTL DEF Spec, ImplementsLedger, Ledger!Spec

-----------------------------------------------------------------------------
(***************************************************************************)
(* Status changes.                                                         *)
(***************************************************************************)

\* What a step may do to the tables, and who does it.
LEMMA WhoWritesTables ==
    ASSUME TypeOK, [Next]_vars
    PROVE  \/ UNCHANGED tableVars
           \/ \E e \in EventIds : \E k, now, i :
                 RecordNewIssue(e, k, now, i) \/ RecordKnownIssue(e, k, now, i)
           \/ \E t \in Triages, i \in IssueIds, s \in Statuses : ClickStatus(t, i, s)
<1>1. CASE \E h \in Handlers : HandlerStep(h)
  <2>1. PICK h \in Handlers : ProcessStores(h) \/ HandlerContinues(h)
    BY <1>1 DEF HandlerStep, StoreEvent
  <2>2. CASE ProcessStores(h)
    <3>1. EnsureEventID(Current(h).id) \subseteq EventIds \cup {Current(h).id}
      BY EnvelopesAssumption DEF EnsureEventID
    <3> QED BY <2>2, <3>1 DEF ProcessStores, ProcessNewIssue, ProcessKnownIssue
  <2>3. CASE HandlerContinues(h)
    BY <2>3 DEF HandlerContinues, BeginProcess, ProcessDuplicate, ProcessFails,
       AlertNotifier, SignalHub, KeepSourceMap, KeepAttachment, PassOver, SkipUndecodable, Respond,
       RecordDuplicate, StoreSourceMap, StoreAttachment, storeVars
  <2> QED BY <2>1, <2>2, <2>3
<1>2. CASE \E t \in Triages, i \in IssueIds, s \in Statuses : ClickStatus(t, i, s)
  BY <1>2
<1>3. CASE \/ \E h \in Handlers : Arrive(h)
           \/ \E t \in Triages : ClickFails(t) \/ ReloadIssue(t)
           \/ \E s \in Streams : \/ LoadPage(s) \/ OpenStream(s) \/ CloseStream(s)
                                 \/ WriteRefresh(s) \/ ActOnRefresh(s)
                                 \/ \E p \in replies[s] : ShowPage(s, p)
           \/ Crash \/ PassTime \/ Quiet \/ UNCHANGED vars
  BY <1>3 DEF Arrive, Refuse, Accept, ClickFails, ReloadIssue, LoadPage, OpenStream, CloseStream,
     WriteRefresh, ActOnRefresh, FetchPage, FetchFails, ShowPage, Crash, PassTime, Tick, Quiet, vars, ingestVars,
     storeVars
<1> QED BY <1>1, <1>2, <1>3 DEF Next

\* An event leaves its issue unresolved, and every other change of a status
\* is a click on that issue (UpdateIssueAfterEvent and UpdateIssueStatus).
THEOREM StatusesChangeForAReason == Spec => OnlyNewEventsReopen
<1> DEFINE Reopens ==
              /\ \A e \in DOMAIN events' \ DOMAIN events :
                    issues'[events'[e].issue_id].status # "resolved"
              /\ \A i \in DOMAIN issues :
                    issues'[i].status # issues[i].status =>
                      \/ \E t \in Triages : triage[t].pc = "idle" /\ triage'[t].issue = i
                      \/ events'[issues'[i].last_event_id].issue_id = i
                         /\ issues'[i].last_event_id \notin DOMAIN events
<1>1. ASSUME TypeOK, [Next]_vars PROVE Reopens
  <2>1. issues \in [DOMAIN issues -> IssueRow]
    BY <1>1 DEF TypeOK, IngestTypeOK, StoreTypeOK, TablesTypeOK
  <2>2. CASE UNCHANGED tableVars
    BY <2>2 DEF tableVars
  <2>3. ASSUME NEW e \in EventIds, NEW k, NEW now, NEW i,
               RecordNewIssue(e, k, now, i) \/ RecordKnownIssue(e, k, now, i)
        PROVE  Reopens
    <3>1. ~HasEvent(e) /\ CreateEvent(e, i, now)
      BY <2>3 DEF RecordNewIssue, RecordKnownIssue
    <3>2. /\ DOMAIN events' = DOMAIN events \cup {e}
          /\ events'[e] = [issue_id |-> i, received_at |-> now]
          /\ e \notin DOMAIN events
      BY <3>1 DEF CreateEvent, Put, HasEvent
    <3>3. /\ issues'[i].status # "resolved" /\ issues'[i].last_event_id = e
          /\ \A j \in DOMAIN issues \ {i} : issues'[j] = issues[j]
      <4>1. CASE RecordNewIssue(e, k, now, i)
        BY <4>1 DEF RecordNewIssue, NewIssueRow, Put
      <4>2. CASE RecordKnownIssue(e, k, now, i)
        <5>1. i \in DOMAIN issues /\ issues[i] \in IssueRow
          BY <2>1, <4>2 DEF RecordKnownIssue, IssuesWithKey
        <5>2. PICK row : row = RowAfterEvent(issues[i], e, now, issues[i].event_count + 1)
          OBVIOUS
        <5>3. row.status # "resolved" /\ row.last_event_id = e
          BY <5>1, <5>2 DEF RowAfterEvent, StatusAfterEvent, IssueRow, Statuses
        <5>4. issues' = [issues EXCEPT ![i] = row]
          BY <4>2, <5>2 DEF RecordKnownIssue
        <5> QED BY <2>1, <5>1, <5>3, <5>4
      <4> QED BY <2>3, <4>1, <4>2
    <3> QED BY <3>2, <3>3
  <2>4. ASSUME NEW t \in Triages, NEW i \in IssueIds, NEW s \in Statuses, ClickStatus(t, i, s)
        PROVE  Reopens
    <3>1. triage \in [Triages -> Click]
      BY <1>1 DEF TypeOK
    <3>2. triage[t].pc = "idle" /\ triage'[t].issue = i
      BY <2>4, <3>1 DEF ClickStatus, Click
    <3>3. events' = events /\ \A j \in DOMAIN issues \ {i} : issues'[j] = issues[j]
      BY <2>1, <2>4 DEF ClickStatus, UpdateIssueStatus, SetIssueStatus
    <3> QED BY <3>2, <3>3
  <2> QED BY <1>1, <2>2, <2>3, <2>4, WhoWritesTables
<1>2. TypeOK /\ [Next]_vars => [Reopens]_vars
  BY <1>1
<1> QED BY <1>2, TypeCorrect, PTL DEF Spec, OnlyNewEventsReopen
=============================================================================
