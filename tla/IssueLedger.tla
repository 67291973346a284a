---------------------------- MODULE IssueLedger ----------------------------
(***************************************************************************)
(* What bugrail promises about issues, whatever the back end and whatever  *)
(* the interleaving: an append-only ledger that gives every event id one   *)
(* grouping key for ever, and for each grouping key seen a status and the  *)
(* number of its events.                                                   *)
(***************************************************************************)
EXTENDS Naturals, FiniteSets

CONSTANTS Ids, Keys

VARIABLES ledger,   \* the grouping key of each recorded event id
          status,   \* the status of each grouping key that has events
          count     \* the number of events shown for each of them

ledgerVars == <<ledger, status, count>>

Extend(f, x, v) == [y \in DOMAIN f \cup {x} |-> IF y = x THEN v ELSE f[y]]

Init ==
    /\ ledger = [e \in {} |-> e]
    /\ status = [k \in {} |-> k]
    /\ count = [k \in {} |-> k]

\* An event id is recorded once; its issue is created open, or reopened if
\* it was resolved, and its count is exact.
Record(e, k) ==
    /\ e \notin DOMAIN ledger
    /\ ledger' = Extend(ledger, e, k)
    /\ status' = Extend(status, k,
                        IF k \in DOMAIN status /\ status[k] # "resolved"
                        THEN status[k] ELSE "open")
    /\ count' = Extend(count, k, Cardinality({x \in DOMAIN ledger' : ledger'[x] = k}))

\* A user sets the status of an issue.
Triage(k, s) ==
    /\ k \in DOMAIN status
    /\ status' = [status EXCEPT ![k] = s]
    /\ UNCHANGED <<ledger, count>>

Next ==
    \/ \E e \in Ids, k \in Keys : Record(e, k)
    \/ \E k \in Keys, s \in {"open", "resolved", "ignored"} : Triage(k, s)

Spec == Init /\ [][Next]_ledgerVars
=============================================================================
