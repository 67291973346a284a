------------------------------- MODULE Server -------------------------------
(***************************************************************************)
(* The running `bugrail serve` process on SQLite: the request handlers of  *)
(* Ingest, the triage buttons of the dashboard (HandleIssueStatus), the    *)
(* live pages (HandleStream and the EventSource script of base.html), and  *)
(* crashes of the process, after which the service manager restarts it on  *)
(* the same database.                                                      *)
(***************************************************************************)
EXTENDS Ingest

CONSTANTS Triages,        \* clicks on Resolve, Ignore or Reopen, one each
          MaxCrashes      \* bound: crashes of the process

VARIABLES triage,         \* the state of each click
          page,           \* the issues shown by each browser tab
          pending,        \* "refresh" messages the tab has not acted on
          replies,        \* pages read for the tab and still on their way
          lastRead,       \* history: the latest page read for the tab
          unread,         \* history: events committed while the tab's stream
                          \* was open and not yet in a page read for the tab
          missed,         \* history: those that were unread when a fetch of
                          \* the tab failed
          crashes

liveVars == <<page, pending, replies, lastRead, unread, missed>>
vars == <<ingestVars, triage, liveVars, crashes>>

ASSUME CrashesAssumption == MaxCrashes \in Nat

Click == [pc : {"idle", "reload", "done"}, issue : IssueIds \cup {None},
          reply : Statuses \cup {None, "error"}]

NotClicked == [pc |-> "idle", issue |-> None, reply |-> None]

TypeOK ==
    /\ IngestTypeOK
    /\ triage \in [Triages -> Click]
    /\ pending \in [Streams -> Nat]
    /\ unread \in [Streams -> SUBSET EventIds]
    /\ missed \in [Streams -> SUBSET EventIds]
    /\ crashes \in Nat
    /\ DOMAIN page = Streams /\ DOMAIN replies = Streams /\ DOMAIN lastRead = Streams

Init ==
    /\ IngestInit
    /\ triage = [t \in Triages |-> NotClicked]
    /\ page = [s \in Streams |-> issues]
    /\ pending = [s \in Streams |-> 0]
    /\ replies = [s \in Streams |-> {}]
    /\ lastRead = page
    /\ unread = [s \in Streams |-> {}]
    /\ missed = [s \in Streams |-> {}]
    /\ crashes = 0

(***************************************************************************)
(* HandleIssueStatus: two store calls, and no call of hub.Notify.          *)
(***************************************************************************)

\* UpdateIssueStatus, on any issue id: a page may be out of date.
ClickStatus(t, i, s) ==
    /\ triage[t].pc = "idle"
    /\ UpdateIssueStatus(i, s)
    /\ triage' = [triage EXCEPT ![t].pc = "reload", ![t].issue = i]
    /\ UNCHANGED <<hubVars, clock, req, alerts, liveVars, crashes>>

\* The UPDATE fails, and with it the request: nothing is written.
ClickFails(t) ==
    /\ triage[t].pc = "idle"
    /\ triage' = [triage EXCEPT ![t] = [NotClicked EXCEPT !.pc = "done", !.reply = "error"]]
    /\ UNCHANGED <<ingestVars, liveVars, crashes>>

\* GetIssue, for the row the response shows; no row, or a failing database,
\* is an internal error although the status is set.
ReloadIssue(t) ==
    /\ triage[t].pc = "reload"
    /\ \E reply \in {"error"} \cup {issues[i].status : i \in DOMAIN issues \cap {triage[t].issue}} :
          triage' = [triage EXCEPT ![t] = [pc |-> "done", issue |-> None, reply |-> reply]]
    /\ UNCHANGED <<ingestVars, liveVars, crashes>>

(***************************************************************************)
(* Live pages.                                                             *)
(***************************************************************************)

\* The tab loads the page afresh; what its previous page had asked for is
\* dropped with that page.
LoadPage(s) ==
    /\ s \notin clients
    /\ page' = [page EXCEPT ![s] = issues]
    /\ pending' = [pending EXCEPT ![s] = 0]
    /\ replies' = [replies EXCEPT ![s] = {}]
    /\ lastRead' = [lastRead EXCEPT ![s] = issues]
    /\ UNCHANGED <<ingestVars, triage, unread, missed, crashes>>

\* HandleStream subscribes: the page is loaded, or EventSource reconnects.
OpenStream(s) ==
    /\ Subscribe(s)
    /\ UNCHANGED <<storeVars, clock, req, alerts, triage, liveVars, crashes>>

\* The client has gone: the deferred unsubscribe runs.
CloseStream(s) ==
    /\ Unsubscribe(s)
    /\ unread' = [unread EXCEPT ![s] = {}]
    /\ missed' = [missed EXCEPT ![s] = {}]
    /\ UNCHANGED <<storeVars, clock, req, alerts, triage, page, pending,
                   replies, lastRead, crashes>>

\* The stream's loop receives the signal and writes "refresh".
\* (Mutant: what is written is never flushed.)
WriteRefreshUnflushed(s) ==
    /\ Take(s)
    /\ UNCHANGED <<storeVars, clock, req, alerts, triage, liveVars, crashes>>

WriteRefresh(s) ==
    /\ Take(s)
    /\ pending' = [pending EXCEPT ![s] = @ + 1]
    /\ UNCHANGED <<storeVars, clock, req, alerts, triage, page, replies,
                   lastRead, unread, missed, crashes>>

\* onmessage fetches the page: HandleIssues reads the store.
FetchPage(s) ==
    /\ pending[s] > 0
    /\ pending' = [pending EXCEPT ![s] = @ - 1]
    /\ replies' = [replies EXCEPT ![s] = @ \cup {issues}]
    /\ lastRead' = [lastRead EXCEPT ![s] = issues]
    /\ unread' = [unread EXCEPT ![s] = {}]
    /\ missed' = [missed EXCEPT ![s] = {}]
    /\ UNCHANGED <<ingestVars, triage, page, crashes>>

\* HandleIssues answers 500, or the answer is lost on its way: the script
\* does nothing and does not ask again.  Reading changes nothing, so a page
\* that was read and lost is a page that was not read.
FetchFails(s) ==
    /\ pending[s] > 0
    /\ pending' = [pending EXCEPT ![s] = @ - 1]
    /\ missed' = [missed EXCEPT ![s] = @ \cup unread[s]]
    /\ UNCHANGED <<ingestVars, triage, page, replies, lastRead, unread, crashes>>

\* What the tab does with a "refresh".
ActOnRefresh(s) == FetchPage(s) \/ FetchFails(s)

\* A response arrives, in any order, and replaces <main>.
ShowPage(s, p) ==
    /\ p \in replies[s]
    /\ page' = [page EXCEPT ![s] = p]
    /\ replies' = [replies EXCEPT ![s] = @ \ {p}]
    /\ UNCHANGED <<ingestVars, triage, pending, lastRead, unread, missed, crashes>>

(***************************************************************************)
(* Steps of the request handlers, and crashes.                             *)
(***************************************************************************)

\* The history variable follows each commit of an event.
StoreEvent(h) ==
    /\ ProcessStores(h)
    /\ unread' = [s \in Streams |->
                    IF s \in clients
                    THEN unread[s] \cup (DOMAIN events' \ DOMAIN events)
                    ELSE unread[s]]
    /\ UNCHANGED <<triage, page, pending, replies, lastRead, missed, crashes>>

HandlerStep(h) ==
    \/ StoreEvent(h)
    \/ HandlerContinues(h) /\ UNCHANGED <<triage, liveVars, crashes>>

Arrive(h) ==
    /\ Refuse(h) \/ \E b \in Envelopes : Accept(h, b)
    /\ UNCHANGED <<triage, liveVars, crashes>>

\* The process dies: the tables survive, goroutines and the hub do not.
\* Requests in progress get no answer; tabs lose what they had in flight.
Crash ==
    /\ crashes < MaxCrashes
    /\ crashes' = crashes + 1
    /\ req' = [h \in Handlers |->
                 IF req[h].pc \in {"idle", "done"} THEN req[h] ELSE Answer("lost")]
    /\ triage' = [t \in Triages |->
                    IF triage[t].pc = "reload"
                    THEN [NotClicked EXCEPT !.pc = "done"] ELSE triage[t]]
    /\ clients' = {} /\ ch' = {}
    /\ pending' = [s \in Streams |-> 0]
    /\ replies' = [s \in Streams |-> {}]
    /\ lastRead' = page
    /\ unread' = [s \in Streams |-> {}]
    /\ missed' = [s \in Streams |-> {}]
    /\ UNCHANGED <<storeVars, clock, alerts, page>>

PassTime == Tick /\ UNCHANGED <<triage, liveVars, crashes>>

\* Every request and click has been answered: the process just waits.
Quiet ==
    /\ \A h \in Handlers : req[h].pc = "done"
    /\ \A t \in Triages : triage[t].pc = "done"
    /\ UNCHANGED vars

Next ==
    \/ \E h \in Handlers : Arrive(h) \/ HandlerStep(h)
    \/ \E t \in Triages :
          \/ ClickFails(t) \/ ReloadIssue(t)
          \/ \E i \in IssueIds, s \in Statuses : ClickStatus(t, i, s)
    \/ \E s \in Streams :
          \/ LoadPage(s) \/ OpenStream(s) \/ CloseStream(s)
          \/ WriteRefresh(s) \/ ActOnRefresh(s)
          \/ \E p \in replies[s] : ShowPage(s, p)
    \/ Crash
    \/ PassTime
    \/ Quiet

Spec == Init /\ [][Next]_vars

(***************************************************************************)
(* Fairness: the scheduler runs every goroutine that can run, and a tab    *)
(* acts on what it received, one way or the other: no fetch is bound to    *)
(* succeed.  Nothing makes a request arrive, a user click, a stream open   *)
(* or close, time pass or the process crash.                               *)
(***************************************************************************)
Fairness ==
    /\ \A h \in Handlers : WF_vars(HandlerStep(h))
    /\ \A t \in Triages : WF_vars(ReloadIssue(t))
    /\ \A s \in Streams :
          /\ WF_vars(WriteRefresh(s))
          /\ WF_vars(ActOnRefresh(s))
          /\ WF_vars(\E p \in replies[s] : ShowPage(s, p))

FairSpec == Spec /\ Fairness

(***************************************************************************)
(* Safety.                                                                 *)
(***************************************************************************)

\* A 200 answer is a promise that survives crashes and retries: every event
\* of the envelope that decodes is stored, and so is the id in the answer.
AcknowledgedEventsAreStored ==
    \A h \in Handlers :
        req[h].response = "ok" =>
            /\ req[h].lastEventID # None => HasEvent(req[h].lastEventID)
            /\ \A p \in DOMAIN req[h].body :
                  LET it == req[h].body[p]
                  IN  it.type = "event" /\ it.id # None => HasEvent(it.id)

\* Multi.Notify is reached once per issue: whatever is retried, no notifier
\* hears twice of an issue, and only of an issue that was committed.
AlertedAtMostOnce ==
    \A n \in 1 .. NumNotifiers, i \in IssueIds :
        /\ alerts[n][i] <= 1
        /\ alerts[n][i] = 1 => i \in DOMAIN issues

\* The last event before position p of envelope b of those that decode, 0 if
\* there is none.
EventBefore(b, p) ==
    LET before == {q \in 1 .. p - 1 : b[q].type = "event"}
    IN  IF before = {} THEN 0 ELSE CHOOSE q \in before : \A r \in before : r <= q

\* An attachment or source map is filed under the id, or the release, of the
\* last event before it that decodes, in some envelope: lastEventID and
\* lastRelease never leak from one request to another, and never stay those
\* of an earlier event when a later one was processed.  An event that does
\* not decode is passed over without resetting them, so the files after it
\* do join an earlier event: the property allows this and nothing else.
FiledUnderPrecedingEvent ==
    /\ \A e \in EventIds \ GeneratedIds, n \in Names :
          attachments[<<e, n>>] > 0 =>
            \E b \in Envelopes : \E p \in DOMAIN b :
                /\ b[p].type = "attachment" /\ b[p].name = n
                /\ EventBefore(b, p) # 0 /\ b[EventBefore(b, p)].id = e
                /\ b[p].isMap => b[EventBefore(b, p)].release = None
    /\ \A m \in sourceMaps :
          \E b \in Envelopes : \E p \in DOMAIN b :
              /\ b[p].type = "attachment" /\ b[p].isMap /\ b[p].name = m[2]
              /\ EventBefore(b, p) # 0 /\ b[EventBefore(b, p)].release = m[1]

\* No wake-up is lost between a commit and a fetch: as long as a tab with an
\* open stream has not read the page since an event was committed, a
\* handler is still to signal that event, the channel holds a signal, or a
\* "refresh" is on its way to the tab.  The one way to lose it is a fetch
\* that was made after the commit and failed (see OpenPagesCatchUp).
NoLostWakeup ==
    \A s \in clients : \A e \in unread[s] \ missed[s] :
        \/ s \in ch
        \/ pending[s] > 0
        \/ \E h \in Handlers : req[h].pc \in {"alert", "signal"} /\ req[h].lastEventID = e

(***************************************************************************)
(* Refinement: the tables, read through their grouping keys, are a ledger. *)
(***************************************************************************)
Ledger == INSTANCE IssueLedger WITH
    Ids <- EventIds, Keys <- GroupingKeys,
    ledger <- KeyOfEvent, status <- StatusOfKey,
    count <- [k \in KeysSeen |-> issues[TheIssue(k)].event_count]

\* Every run of the server is a run of the abstract ledger.
ImplementsLedger == Ledger!Spec

(***************************************************************************)
(* Action properties.                                                      *)
(***************************************************************************)

\* CHANGELOG.md:36, the half that holds: an event that joins an issue never
\* leaves it resolved; a retry of a stored event never reopens anything.
OnlyNewEventsReopen ==
    [][ /\ \A e \in DOMAIN events' \ DOMAIN events :
              issues'[events'[e].issue_id].status # "resolved"
        /\ \A i \in DOMAIN issues :
              issues'[i].status # issues[i].status =>
                \/ \E t \in Triages : triage[t].pc = "idle" /\ triage'[t].issue = i
                \/ events'[issues'[i].last_event_id].issue_id = i
                   /\ issues'[i].last_event_id \notin DOMAIN events ]_vars

\* CHANGELOG.md:36, as written: "Issues resolved/ignored are automatically
\* reopened when a new event arrives".  Not what the UPDATE's CASE does.
NewEventsReopenIssues ==
    [][\A e \in DOMAIN events' \ DOMAIN events :
          issues'[events'[e].issue_id].status = "open"]_vars

(***************************************************************************)
(* Liveness.                                                               *)
(***************************************************************************)

\* A tab whose stream stays open fetches the page again after every event:
\* the event is read, or that fetch fails.
UnreadEventsAreFetched ==
    \A s \in Streams : \A e \in EventIds :
        e \in unread[s] ~> e \notin unread[s] \/ e \in missed[s]

\* base.html:73, "refresh current page content when issues change", taken to
\* hold whatever becomes of a single fetch.  Not so: the script drops an
\* answer that is no page, and the "refresh" is used up.
OpenPagesCatchUp ==
    \A s \in Streams : \A e \in EventIds : e \in unread[s] ~> e \notin unread[s]

\* base.html:73, "refresh current page content when issues change": the page
\* a tab ends up with is the latest one read for it.  Not so when two refreshes
\* overlap and the older answer arrives last.
LatestReadIsShown == \A s \in Streams : []<>(page[s] = lastRead[s])

\* Page s shows every event of issue i, but not its status.
ShowsOldStatus(s, i) ==
    /\ s \in clients
    /\ i \in DOMAIN page[s]
    /\ page[s][i].event_count = issues[i].event_count
    /\ page[s][i].status # issues[i].status

\* Tab s has an open stream and shows issue i as it is.
Watches(s, i) ==
    /\ s \in clients
    /\ i \in DOMAIN page[s] /\ page[s][i] = issues[i]

\* handler.go:322, notifications stream "to the browser whenever issues
\* change": a status set by one user reaches the pages on which others watch
\* the issue.
StatusChangesReachOpenPages ==
    \A s \in Streams, i \in IssueIds :
        [](Watches(s, i) => (ShowsOldStatus(s, i) ~> ~ShowsOldStatus(s, i)))
=============================================================================
