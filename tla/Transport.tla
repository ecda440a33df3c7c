------------------------------ MODULE Transport -----------------------------
(***************************************************************************)
(* The UDP datagrams between an application and the daemon, and the file   *)
(* by which the application learns the daemon's port.  Datagrams of one    *)
(* sender to one socket keep their order; a datagram is lost when no       *)
(* socket is bound to its port or when the receiver's buffer is full.      *)
(***************************************************************************)
EXTENDS Naturals, Sequences, Processes

CONSTANTS
    Port,   \* the ports the system gives the daemon's socket
    None,   \* no socket; a port field that was never written; no file
    Empty,  \* the port file was created and nothing is written in it yet
    Room    \* datagrams a socket's receive buffer holds

ASSUME TransportConstants ==
    /\ None \notin Port
    /\ Empty \notin Port
    /\ None # Empty
    /\ Room \in Nat \ {0}

VARIABLES
    live,      \* the port the daemon's socket is bound to
    portFile,  \* the content of the port file
    chan,      \* chan[p]: requests of p in the daemon's receive buffer
    inbox      \* inbox[p]: datagrams in the receive buffer of p

netVars == <<live, portFile, chan, inbox>>

\* Requests are "register", "feed" and "unregister"; "self_unreg" is what a
\* process sends to its own socket.  Only replies have an error field.
Request == {"register", "feed", "unregister"}

Datagram == [cmd : Request \union {"self_unreg"}, ok : BOOLEAN]

Package(cmd, ok) == [cmd |-> cmd, ok |-> ok]

Queued(q, m) == IF Len(q) < Room THEN Append(q, m) ELSE q

\* sendto() of p to the port it holds for the daemon.
SendTo(p, port, cmd) ==
    chan' = IF port = live /\ live # None
            THEN [chan EXCEPT ![p] = Queued(@, cmd)]
            ELSE chan

\* send_pg_back() of the daemon; listening is false when p has no socket.
Reply(p, cmd, ok, listening) ==
    inbox' = IF listening
             THEN [inbox EXCEPT ![p] = Queued(@, Package(cmd, ok))]
             ELSE inbox

\* start_libevent_udp_server binds an ephemeral port, then writes it to the
\* file, which opening for writing has emptied.
BindPort(port) ==
    /\ live = None
    /\ live' = port
    /\ portFile' = Empty
    /\ UNCHANGED <<chan, inbox>>

PublishPort ==
    /\ live # None
    /\ portFile # live
    /\ portFile' = live
    /\ UNCHANGED <<live, chan, inbox>>

Serving == live # None /\ portFile = live

\* The daemon dies: what its buffer held is gone, the file stays.
ClosePort ==
    /\ live' = None
    /\ chan' = [p \in Pid |-> << >>]
    /\ UNCHANGED <<portFile, inbox>>

NetInit ==
    /\ live = None
    /\ portFile = None
    /\ chan = [p \in Pid |-> << >>]
    /\ inbox = [p \in Pid |-> << >>]

NetTypeOK ==
    /\ live \in Port \union {None}
    /\ portFile \in Port \union {None, Empty}
    /\ chan \in [Pid -> Seq(Request)]
    /\ inbox \in [Pid -> Seq(Datagram)]
    /\ \A p \in Pid : Len(chan[p]) <= Room /\ Len(inbox[p]) <= Room

=============================================================================
