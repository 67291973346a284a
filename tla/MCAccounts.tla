----------------------------- MODULE MCAccounts -----------------------------
(***************************************************************************)
(* Small instances of Accounts.                                            *)
(***************************************************************************)
EXTENDS Accounts, TLC

\* PostgreSQL as it is refuses 003_attachments.sql; SQLite refuses none, nor
\* does a PostgreSQL database that has been given a type named BLOB.  Two
\* migrations stand for the four.
SecondOrNone == {{}, {2}}

\* Bound: before the first request the inits are over and one has reported
\* the installation, as in docs/self-hosting.md, which runs `bugrail init`
\* before it starts the service; a server then keeps running.
InitsComeFirst ==
    (\E r \in Requests : web[r].pc # "idle") =>
        /\ \A p \in Processes : proc[p].pc \in {"serving", "done"}
        /\ \E p \in Processes : proc[p].reply = "installed"
        /\ \E p \in Processes : proc[p].pc = "serving"

\* The names of the requests say in which order they are sent.
InOrder == <<"r1", "r2", "r3", "r4">>

OrderedRequests == {InOrder[n] : n \in DOMAIN InOrder}

SentInOrder ==
    \A m, n \in DOMAIN InOrder :
        m < n /\ web[InOrder[n]].pc # "idle" => web[InOrder[m]].pc # "idle"

Bounds == InitsComeFirst /\ SentInOrder

Symmetric == Permutations(Processes) \cup Permutations(Emails) \cup Permutations(Slugs)
=============================================================================
