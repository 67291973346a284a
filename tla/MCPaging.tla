------------------------------ MODULE MCPaging ------------------------------
(***************************************************************************)
(* A small instance of Paging.                                             *)
(***************************************************************************)
EXTENDS Paging

\* Bound: ids are random, so that of an issue may as well be its key.
NamedByKey == \A i \in DOMAIN issues : issues[i].grouping_key = i

Symmetric == Permutations(IssueIds) \cup Permutations(EventIds)
=============================================================================
