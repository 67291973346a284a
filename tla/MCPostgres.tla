----------------------------- MODULE MCPostgres -----------------------------
(***************************************************************************)
(* Small instances of PostgresStore.                                       *)
(***************************************************************************)
EXTENDS PostgresStore, TLC

CONSTANTS e1, e2, e3, k1, k2

\* Two events of one grouping key, and a retry of the first that carries
\* another key.
Retries == {[id |-> e1, key |-> k1], [id |-> e2, key |-> k1], [id |-> e1, key |-> k2]}

\* Three events of one grouping key.
SameKey == {[id |-> e, key |-> k1] : e \in {e1, e2, e3}}

Symmetric == Permutations(Requests) \cup Permutations(IssueIds)
=============================================================================
