------------------------------- MODULE Ingest -------------------------------
(***************************************************************************)
(* internal/ingest and internal/processor over the SQLite store: request   *)
(* handlers, one goroutine each, that walk the items of an envelope.       *)
(*                                                                         *)
(* A handler runs one request.  A retry by an SDK, a request sent twice or *)
(* a request that is delayed is another handler with the same envelope, so *)
(* nothing is assumed about when, or how often, an envelope is sent.       *)
(* HandleStore is the handler of an envelope with a single event item.     *)
(*                                                                         *)
(* The bytes are abstracted: an event item carries its event id, its       *)
(* grouping key and its release; an attachment its name and whether it is  *)
(* a source map (isSourceMap); an item of type "event" whose payload is    *)
(* not the JSON of an event is "undecodable"; items of other types and     *)
(* empty attachments are "ignored".                                        *)
(***************************************************************************)
EXTENDS SqliteStore, Hub, Sequences

CONSTANTS Handlers,       \* requests, one goroutine each
          Envelopes,      \* the envelopes clients send, sequences of items
          GeneratedIds,   \* event ids ensureEventID may draw at random
          NumNotifiers,   \* length of Multi.notifiers
          MaxClock,       \* bound: seconds that pass
          None            \* Go's "" for an id or a release

VARIABLES clock,          \* time.Now().Unix()
          req,            \* the local variables of each handler
          alerts          \* alerts[n][i]: times notifier n was told of issue i

ingestVars == <<storeVars, hubVars, clock, req, alerts>>

EventItem == [type : {"event"}, id : EventIds \cup {None},
              key : GroupingKeys, release : Releases \cup {None}]
AttachmentItem == [type : {"attachment"}, name : Names, isMap : BOOLEAN]
UndecodableItem == [type : {"undecodable"}]
IgnoredItem == [type : {"ignored"}]
Item == EventItem \cup AttachmentItem \cup UndecodableItem \cup IgnoredItem

ASSUME EnvelopesAssumption ==
    /\ Envelopes \subseteq Seq(Item)
    /\ GeneratedIds \subseteq EventIds
    /\ \A b \in Envelopes : \A p \in DOMAIN b :
            b[p].type = "event" => b[p].id \notin GeneratedIds

ASSUME NumbersAssumption == NumNotifiers \in Nat /\ MaxClock \in Nat

ASSUME NoneAssumption == None \notin EventIds \cup IssueIds \cup Releases

(***************************************************************************)
(* pc: where the handler is; body, pos: the envelope and the item the loop *)
(* has reached; receivedAt: the time passed to Process; issue, notifier:   *)
(* the new issue being announced and to which notifier; lastEventID,       *)
(* lastRelease: the variables of the loop; response: what was written.     *)
(***************************************************************************)
Request == [pc : {"idle", "item", "process", "alert", "signal", "done"},
            body : Envelopes \cup {<<>>}, pos : Nat, receivedAt : Nat,
            issue : IssueIds \cup {None}, notifier : Nat,
            lastEventID : EventIds \cup {None},
            lastRelease : Releases \cup {None},
            response : {"none", "ok", "error", "refused", "lost"}]

NotStarted == [pc |-> "idle", body |-> <<>>, pos |-> 1, receivedAt |-> 0,
               issue |-> None, notifier |-> 0, lastEventID |-> None,
               lastRelease |-> None, response |-> "none"]

IngestTypeOK ==
    /\ StoreTypeOK
    /\ HubTypeOK
    /\ clock \in Nat
    /\ req \in [Handlers -> Request]
    /\ alerts \in [1 .. NumNotifiers -> [IssueIds -> Nat]]

IngestInit ==
    /\ StoreInit
    /\ HubInit
    /\ clock = 0
    /\ req = [h \in Handlers |-> NotStarted]
    /\ alerts = [n \in 1 .. NumNotifiers |-> [i \in IssueIds |-> 0]]

\* The item the handler is at, and whether it is at pc on an item of that type.
Current(h) == req[h].body[req[h].pos]

On(h, pc, type) ==
    /\ req[h].pc = pc
    /\ req[h].pos \in DOMAIN req[h].body
    /\ Current(h).type = type

\* The ids ensureEventID may return: the event's own, or a fresh random one.
EnsureEventID(id) == IF id = None THEN GeneratedIds \ DOMAIN events ELSE {id}

Answer(response) ==
    [NotStarted EXCEPT !.pc = "done", !.response = response]

NextItem(r) == [r EXCEPT !.pc = "item", !.pos = @ + 1, !.receivedAt = 0]

(***************************************************************************)
(* Reception.  The token bucket, the key check and the parser are other    *)
(* components: their verdict is free here.                                 *)
(***************************************************************************)

\* Authenticated, within the rate limit and parsed: the loop starts.
Accept(h, b) ==
    /\ req[h].pc = "idle"
    /\ req' = [req EXCEPT ![h].pc = "item", ![h].body = b]
    /\ UNCHANGED <<storeVars, hubVars, clock, alerts>>

\* Answered before the loop: 403, 429, 500 for an unreadable body, or 200
\* with no id for an envelope that does not parse.
Refuse(h) ==
    /\ req[h].pc = "idle"
    /\ req' = [req EXCEPT ![h] = Answer("refused")]
    /\ UNCHANGED <<storeVars, hubVars, clock, alerts>>

(***************************************************************************)
(* Event items.                                                            *)
(***************************************************************************)

\* The event decodes; time.Now() is read before the store is called.
BeginProcess(h) ==
    /\ On(h, "item", "event")
    /\ req' = [req EXCEPT ![h].pc = "process", ![h].receivedAt = clock]
    /\ UNCHANGED <<storeVars, hubVars, clock, alerts>>

\* The event does not decode: a warning is logged and the loop goes on, with
\* lastEventID and lastRelease still those of an earlier event.
SkipUndecodable(h) ==
    /\ On(h, "item", "undecodable")
    /\ req' = [req EXCEPT ![h] = NextItem(@)]
    /\ UNCHANGED <<storeVars, hubVars, clock, alerts>>

\* The id is known: no alert, no signal, on to the next item.
\* (Mutants: a duplicate is announced like a new issue; a duplicate leaves
\* the loop's variables as they were.)
ProcessDuplicateAlerts(h) ==
    \E e \in EventIds, i \in IssueIds :
        /\ On(h, "process", "event")
        /\ e \in EnsureEventID(Current(h).id)
        /\ RecordDuplicate(e, i)
        /\ req' = [req EXCEPT ![h].pc = "alert", ![h].issue = i, ![h].notifier = 1,
                              ![h].lastEventID = e]
        /\ UNCHANGED <<hubVars, clock, alerts>>

ProcessDuplicateForgets(h) ==
    \E e \in EventIds, i \in IssueIds :
        /\ On(h, "process", "event")
        /\ e \in EnsureEventID(Current(h).id)
        /\ RecordDuplicate(e, i)
        /\ req' = [req EXCEPT ![h] = NextItem(@)]
        /\ UNCHANGED <<hubVars, clock, alerts>>

ProcessDuplicate(h) ==
    \E e \in EventIds, i \in IssueIds :
        /\ On(h, "process", "event")
        /\ e \in EnsureEventID(Current(h).id)
        /\ RecordDuplicate(e, i)
        /\ req' = [req EXCEPT ![h] = [NextItem(@) EXCEPT !.lastEventID = e,
                                                         !.lastRelease = Current(h).release]]
        /\ UNCHANGED <<hubVars, clock, alerts>>

\* First event of an issue: the notifiers are told, if there are any.
ProcessNewIssue(h) ==
    \E e \in EventIds, i \in IssueIds :
        /\ On(h, "process", "event")
        /\ e \in EnsureEventID(Current(h).id)
        /\ RecordNewIssue(e, Current(h).key, req[h].receivedAt, i)
        /\ req' = [req EXCEPT
                     ![h] = [@ EXCEPT
                        !.pc = IF NumNotifiers = 0 THEN "signal" ELSE "alert",
                        !.issue = IF NumNotifiers = 0 THEN None ELSE i,
                        !.notifier = IF NumNotifiers = 0 THEN 0 ELSE 1,
                        !.lastEventID = e, !.lastRelease = Current(h).release]]
        /\ UNCHANGED <<hubVars, clock, alerts>>

\* One more event of a known issue: no alert.
\* (Mutant: only new issues signal the hub.)
ProcessKnownIssueQuiet(h) ==
    \E e \in EventIds, i \in IssueIds :
        /\ On(h, "process", "event")
        /\ e \in EnsureEventID(Current(h).id)
        /\ RecordKnownIssue(e, Current(h).key, req[h].receivedAt, i)
        /\ req' = [req EXCEPT ![h] = [NextItem(@) EXCEPT !.lastEventID = e]]
        /\ UNCHANGED <<hubVars, clock, alerts>>

ProcessKnownIssue(h) ==
    \E e \in EventIds, i \in IssueIds :
        /\ On(h, "process", "event")
        /\ e \in EnsureEventID(Current(h).id)
        /\ RecordKnownIssue(e, Current(h).key, req[h].receivedAt, i)
        /\ req' = [req EXCEPT
                     ![h] = [@ EXCEPT !.pc = "signal", !.lastEventID = e,
                                      !.lastRelease = Current(h).release]]
        /\ UNCHANGED <<hubVars, clock, alerts>>

\* The database fails or the client has gone (the request's context is
\* cancelled): the transaction rolls back, 500 ends the request, and what
\* earlier items stored stays stored.
\* (Mutants: the error is only logged; the id is taken before the error is
\* looked at.)
ProcessFailsSilently(h) ==
    /\ On(h, "process", "event")
    /\ req' = [req EXCEPT ![h] = NextItem(@)]
    /\ UNCHANGED <<storeVars, hubVars, clock, alerts>>

ProcessFailsKeepsId(h) ==
    /\ On(h, "process", "event")
    /\ req' = [req EXCEPT ![h] = [NextItem(@) EXCEPT !.lastEventID = Current(h).id]]
    /\ UNCHANGED <<storeVars, hubVars, clock, alerts>>

ProcessFails(h) ==
    /\ On(h, "process", "event")
    /\ req' = [req EXCEPT ![h] = Answer("error")]
    /\ UNCHANGED <<storeVars, hubVars, clock, alerts>>

\* Multi.Notify calls the notifiers in turn; an error is logged and the
\* next one is called all the same.
AlertNotifier(h) ==
    /\ req[h].pc = "alert"
    /\ LET n == req[h].notifier
           i == req[h].issue
       IN  /\ \E delivered \in {0, 1} :
                 alerts' = [alerts EXCEPT ![n][i] = @ + delivered]
           /\ req' = [req EXCEPT
                        ![h] = IF n < NumNotifiers
                               THEN [@ EXCEPT !.notifier = n + 1]
                               ELSE [@ EXCEPT !.pc = "signal", !.issue = None,
                                              !.notifier = 0]]
    /\ UNCHANGED <<storeVars, hubVars, clock>>

\* hub.Notify, after the commit and after the alerts.
SignalHub(h) ==
    /\ req[h].pc = "signal"
    /\ Notify
    /\ req' = [req EXCEPT ![h] = NextItem(@)]
    /\ UNCHANGED <<storeVars, clock, alerts>>

(***************************************************************************)
(* Other items, and the end of the loop.                                   *)
(***************************************************************************)

IsStoredAsMap(h) == Current(h).isMap /\ req[h].lastRelease # None

KeepSourceMap(h) ==
    /\ On(h, "item", "attachment")
    /\ IsStoredAsMap(h)
    /\ StoreSourceMap(req[h].lastRelease, Current(h).name)
    /\ req' = [req EXCEPT ![h] = NextItem(@)]
    /\ UNCHANGED <<hubVars, clock, alerts>>

\* Any other attachment is filed under the last event of the envelope.
KeepAttachment(h) ==
    /\ On(h, "item", "attachment")
    /\ ~IsStoredAsMap(h)
    /\ req[h].lastEventID # None
    /\ StoreAttachment(req[h].lastEventID, Current(h).name)
    /\ req' = [req EXCEPT ![h] = NextItem(@)]
    /\ UNCHANGED <<hubVars, clock, alerts>>

\* No event before it, or the store fails (logged only), or an item the
\* loop does not handle.
PassOver(h) ==
    /\ On(h, "item", "attachment") \/ On(h, "item", "ignored")
    /\ req' = [req EXCEPT ![h] = NextItem(@)]
    /\ UNCHANGED <<storeVars, hubVars, clock, alerts>>

\* 200 with the id of the last event.
Respond(h) ==
    /\ req[h].pc = "item"
    /\ req[h].pos \notin DOMAIN req[h].body
    /\ req' = [req EXCEPT
                 ![h] = [Answer("ok") EXCEPT !.body = req[h].body,
                                             !.lastEventID = req[h].lastEventID]]
    /\ UNCHANGED <<storeVars, hubVars, clock, alerts>>

Tick ==
    /\ clock < MaxClock
    /\ clock' = clock + 1
    /\ UNCHANGED <<storeVars, hubVars, req, alerts>>

\* Process commits an event row.
ProcessStores(h) == ProcessNewIssue(h) \/ ProcessKnownIssue(h)

\* The rest of what a started handler does.
HandlerContinues(h) ==
    \/ BeginProcess(h) \/ SkipUndecodable(h) \/ ProcessDuplicate(h) \/ ProcessFails(h)
    \/ AlertNotifier(h) \/ SignalHub(h)
    \/ KeepSourceMap(h) \/ KeepAttachment(h) \/ PassOver(h) \/ Respond(h)
=============================================================================
