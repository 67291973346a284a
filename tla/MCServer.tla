------------------------------ MODULE MCServer ------------------------------
(***************************************************************************)
(* Small instances of Server.  Each cfg picks the envelopes that make its  *)
(* question interesting; a retry is two handlers given the same envelope.  *)
(***************************************************************************)
EXTENDS Server, TLC

CONSTANTS e1, e2, g1, k1, k2, rel1, n1, h1, h2, h3

Event(e, k) == [type |-> "event", id |-> e, key |-> k, release |-> None]
Released(e, k, r) == [type |-> "event", id |-> e, key |-> k, release |-> r]
File(n) == [type |-> "attachment", name |-> n, isMap |-> FALSE]
Map(n) == [type |-> "attachment", name |-> n, isMap |-> TRUE]
Ignored == [type |-> "ignored"]
Undecodable == [type |-> "undecodable"]

\* An event, and an envelope that carries another event of the same issue and
\* then, under another grouping key, the id of the first.
RetryEnvelopes == {<<Event(e1, k1)>>, <<Event(e2, k1), Event(e1, k2)>>}

\* Everything an envelope may hold, in every order that matters: files
\* before, between and after events, an event without id, one with a release,
\* one that does not decode.
MixedEnvelopes == {<<Released(e1, k1, rel1), Map(n1), Event(e2, k2), Map(n1), File(n1)>>,
                   <<File(n1), Ignored, Event(None, k1), File(n1)>>,
                   <<Event(e2, k2), Released(e1, k1, rel1), Undecodable, Map(n1)>>}

RequestEnvelopes == RetryEnvelopes \cup MixedEnvelopes

\* Bound: the requests of a behaviour are about retries or about files.  With
\* files, two requests are enough, and time, clicks and alerts do not matter.
OneSubject ==
    \/ \A h \in Handlers : req[h].body \in RetryEnvelopes \cup {<<>>}
    \/ /\ \A h \in Handlers : req[h].body \in MixedEnvelopes \cup {<<>>}
       /\ Cardinality({h \in Handlers : req[h].pc # "idle"}) <= 2
       /\ clock = 0 /\ \A t \in Triages : triage[t].pc = "idle"
       /\ \A n \in 1 .. NumNotifiers, i \in IssueIds : alerts[n][i] = 0

\* One event each, for the runs about live pages.
SingleEnvelopes == {<<Event(e1, k1)>>, <<Event(e2, k1)>>}
OneEnvelope == {<<Event(e1, k1)>>}

Symmetric == Permutations(Handlers) \cup Permutations(IssueIds)
=============================================================================
