-------------------------------- MODULE Hub --------------------------------
(***************************************************************************)
(* internal/hub: the broadcast of "something changed" to the open SSE      *)
(* streams.  A stream's channel has room for one signal; every operation   *)
(* holds the mutex, so each is one step.                                   *)
(***************************************************************************)
CONSTANT Streams          \* browser tabs that may hold a stream open

VARIABLES clients,        \* the streams whose channel is registered
          ch              \* the streams whose channel holds a signal

hubVars == <<clients, ch>>

HubTypeOK == clients \subseteq Streams /\ ch \subseteq clients

HubInit == clients = {} /\ ch = {}

\* Subscribe registers a new, empty channel.
Subscribe(s) ==
    /\ s \notin clients
    /\ clients' = clients \cup {s}
    /\ UNCHANGED ch

\* The returned function removes and closes it; a pending signal is lost.
Unsubscribe(s) ==
    /\ s \in clients
    /\ clients' = clients \ {s}
    /\ ch' = ch \ {s}

\* Notify never blocks: a channel that is full keeps its one signal.
Notify ==
    /\ ch' = clients
    /\ UNCHANGED clients

\* The stream's goroutine takes the signal out of its channel.
Take(s) ==
    /\ s \in ch
    /\ ch' = ch \ {s}
    /\ UNCHANGED clients
=============================================================================
