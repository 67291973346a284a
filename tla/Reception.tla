------------------------------ MODULE Reception ------------------------------
(***************************************************************************)
(* The way of a request into internal/ingest: body, public key,            *)
(* authentication, rate limit, parsing, in the order of HandleEnvelope or  *)
(* of HandleStore.  What happens to the items of an accepted request is    *)
(* module Ingest.                                                          *)
(*                                                                         *)
(* A slot is a connection: it serves one request after another.  A restart *)
(* of the process breaks all of them and loses the bucket.                 *)
(***************************************************************************)
EXTENDS Limiter, Envelope, Grouping

CONSTANTS Slots,          \* requests that are in progress at a time
          ProjectKeys,    \* public keys of project "1"
          OtherKeys,      \* any others, and any with another project in the path
          MaxRestarts,    \* bound: restarts of the process
          Envelopes,      \* what envelopes hold: [items, ending]
          Events          \* events that clients send

VARIABLES slot,           \* the request in each slot
          restarts        \* history: restarts so far

vars == <<limiterVars, slot, restarts>>

ASSUME KeysAssumption ==
    "" \notin ProjectKeys \cup OtherKeys /\ ProjectKeys \cap OtherKeys = {}

ASSUME RestartsAssumption == MaxRestarts \in Nat

ASSUME EnvelopesAssumption ==
    /\ Envelopes \subseteq [items : Seq(Item), ending : Seq({NL})]
    /\ \A e \in Envelopes : Writable(e.items)

ASSUME EventsAssumption == Events \subseteq Event

Keys == ProjectKeys \cup OtherKeys \cup {""}

(***************************************************************************)
(* key: the public key found so far; read: the time read for a bucket that *)
(* may be new; asked: Allow was called; status: of the last request here.  *)
(***************************************************************************)
Slot == [pc : {"idle", "body", "key", "authenticate", "load", "take", "parse"},
         endpoint : {"envelope", "store", "none"}, key : Keys,
         read : Times, asked : BOOLEAN,
         status : {"none", "accepted", "empty", "limited", "forbidden", "error"}]

Free == [pc |-> "idle", endpoint |-> "none", key |-> "",
         read |-> 0, asked |-> FALSE, status |-> "none"]

TypeOK ==
    /\ LimiterTypeOK
    /\ slot \in [Slots -> Slot]
    /\ restarts \in 0 .. MaxRestarts

Init ==
    /\ LimiterInit
    /\ slot = [s \in Slots |-> Free]
    /\ restarts = 0

\* The step after pc, as the handlers have it.
\* (Mutant: HandleStore asks the limiter before it authenticates.)
AfterLimitsFirst(endpoint, pc) ==
    CASE endpoint = "envelope" /\ pc = "body" -> "key"
      [] endpoint = "envelope" /\ pc = "take" -> "parse"
      [] endpoint = "store" /\ pc = "key" -> "load"
      [] endpoint = "store" /\ pc = "take" -> "authenticate"
      [] endpoint = "store" /\ pc = "authenticate" -> "body"
      [] endpoint = "store" /\ pc = "body" -> "parse"
      [] pc = "key" -> "authenticate"
      [] pc = "authenticate" -> "load"

After(endpoint, pc) ==
    CASE endpoint = "envelope" /\ pc = "body" -> "key"
      [] endpoint = "envelope" /\ pc = "take" -> "parse"
      [] endpoint = "store" /\ pc = "take" -> "body"
      [] endpoint = "store" /\ pc = "body" -> "parse"
      [] pc = "key" -> "authenticate"
      [] pc = "authenticate" -> "load"

Step(s, pc, next) ==
    /\ slot[s].pc = pc
    /\ slot' = [slot EXCEPT ![s] = next]
    /\ UNCHANGED restarts

Goes(s) == [slot[s] EXCEPT !.pc = After(slot[s].endpoint, slot[s].pc)]

\* The answer is written: the slot is free again.
Answers(s, status) == [Free EXCEPT !.status = status]

\* extractPublicKey: X-Sentry-Auth, Authorization, sentry_key, in this order.
ExtractPublicKey(sources) ==
    LET first == SelectInSeq(sources, LAMBDA key : key # "")
    IN  IF first = 0 THEN "" ELSE sources[first]

ExtractedKeys == {ExtractPublicKey(sources) : sources \in [1 .. 3 -> Keys]}

\* A request arrives; its headers and its query give it the key.
Arrive(s, endpoint, key) ==
    /\ Step(s, "idle", [Free EXCEPT !.pc = IF endpoint = "envelope" THEN "body" ELSE "key",
                                    !.endpoint = endpoint,
                                    !.key = key])
    /\ UNCHANGED limiterVars

\* A key in a header or the query is not looked for in the envelope's DSN.
ReadBody(s, dsn) ==
    /\ Step(s, "body", [Goes(s) EXCEPT !.key = IF @ = "" /\ slot[s].endpoint = "envelope"
                                               THEN HeaderDSN(JSON([dsn |-> dsn])) ELSE @])
    /\ UNCHANGED limiterVars

\* No gzip stream, or the connection breaks.
ReadBodyFails(s) ==
    /\ Step(s, "body", Answers(s, "error"))
    /\ UNCHANGED limiterVars

CheckKey(s) ==
    /\ Step(s, "key", IF slot[s].key = "" THEN Answers(s, "forbidden") ELSE Goes(s))
    /\ UNCHANGED limiterVars

AuthenticateProjectKey(s) ==
    /\ slot[s].key \in ProjectKeys
    /\ Step(s, "authenticate", Goes(s))
    /\ UNCHANGED limiterVars

\* No such row, or any error of the store: 403.
AuthenticateFails(s) ==
    /\ Step(s, "authenticate", Answers(s, "forbidden"))
    /\ UNCHANGED limiterVars

\* The time of a possible new bucket is read; the step before LoadOrStore.
ReadTime(s) ==
    /\ ~slot[s].asked
    /\ Step(s, "load", [slot[s] EXCEPT !.asked = TRUE, !.read = clock])
    /\ UNCHANGED limiterVars

LoadOrStore(s) ==
    /\ slot[s].asked
    /\ Step(s, "load", [slot[s] EXCEPT !.pc = "take"])
    /\ LoadBucket \/ StoreBucket(slot[s].read)

\* (Mutant: the time is read before the lock is taken.)
AllowStale(s) ==
    \/ /\ Step(s, "take", [Goes(s) EXCEPT !.read = 0])
       /\ TakeToken(slot[s].read)
    \/ /\ Step(s, "take", Answers(s, "limited"))
       /\ FindNoToken(slot[s].read)

Allow(s) ==
    \/ /\ Step(s, "take", [Goes(s) EXCEPT !.read = 0])
       /\ TakeToken(clock)
    \/ /\ Step(s, "take", Answers(s, "limited"))
       /\ FindNoToken(clock)

\* What an envelope may do, of those a client may send.
EnvelopesParse ==
    {ParseEnvelope(ReadRequestBody(WriteEnvelope("", e.items, e.ending))).ok : e \in Envelopes}

\* Items go to the loop of module Ingest; a body that does not parse is
\* answered as if it had held none.
ParseBody(s, endpoint, parses) ==
    /\ slot[s].endpoint = endpoint
    /\ Step(s, "parse", Answers(s, IF parses THEN "accepted" ELSE "empty"))
    /\ UNCHANGED limiterVars

Restart ==
    /\ restarts < MaxRestarts
    /\ restarts' = restarts + 1
    /\ slot' = [s \in Slots |-> Free]
    /\ LoseBuckets

Tick == LimiterTick /\ UNCHANGED <<slot, restarts>>

Next ==
    \/ \E s \in Slots :
          \/ \E endpoint \in {"envelope", "store"}, key \in ExtractedKeys :
                Arrive(s, endpoint, key)
          \/ \E dsn \in Keys : ReadBody(s, dsn)
          \/ ReadBodyFails(s) \/ CheckKey(s)
          \/ AuthenticateProjectKey(s) \/ AuthenticateFails(s)
          \/ ReadTime(s) \/ LoadOrStore(s) \/ Allow(s)
          \/ \E parses \in EnvelopesParse : ParseBody(s, "envelope", parses)
          \/ \E parses \in BOOLEAN : ParseBody(s, "store", parses)
    \/ Restart
    \/ Tick

Spec == Init /\ [][Next]_vars

(***************************************************************************)
(* Properties (WithinBudget is in module Limiter).                         *)
(***************************************************************************)

\* Strangers cost a project nothing: on either endpoint, only a request
\* with a key of the project gets as far as the limiter, where it may
\* create the bucket and take a token.
OnlyKnownKeysSpend ==
    \A s \in Slots : slot[s].asked => slot[s].key \in ProjectKeys

\* A request is answered 429 only if the limit it is told of was used up:
\* PerMinute requests were let through in the minute before, whatever the
\* order in which the others read the time, create the bucket or lock it.
NeverLimitedWithoutReason ==
    [][\A s \in Slots : slot[s].pc = "take" /\ slot'[s].status = "limited"
          => RefusedForAReason]_vars

EveryEnvelopeArrives == \A e \in Envelopes : ArrivesWholeOrCut("", e.items, e.ending)

\* What parseEnvelope is about to make of an envelope, whichever it is (see
\* module Envelope): all of it, or what the limit on the body has left, and
\* no torn item.
EnvelopesArriveWholeOrCut ==
    \A s \in Slots :
        slot[s].pc = "parse" /\ slot[s].endpoint = "envelope" => EveryEnvelopeArrives

AllEventsAreGroupedAlike == \A e1, e2 \in Events : GroupedAlike(e1, e2)

\* Two events that are accepted, whichever they are, become one issue if and
\* only if they have the same fingerprint or, without any, are the same problem
\* (see module Grouping).
EventsAreGroupedByIdentity ==
    \A s \in Slots : slot[s].status = "accepted" => AllEventsAreGroupedAlike
=============================================================================
