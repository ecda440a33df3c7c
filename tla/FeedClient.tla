----------------------------- MODULE FeedClient -----------------------------
(***************************************************************************)
(* The library an application links to be monitored                        *)
(* (monitor_app/create_feed_thread.c).  Each process has two threads: the  *)
(* feed thread, a libevent loop with a timer and a UDP socket, and the     *)
(* main thread, which may call unregister_watchdog and poll for its end.   *)
(* They share wd_confirmed_unreg_flag under conf_mutex, whose critical     *)
(* sections hold one access each.  A callback of the loop is one action.   *)
(***************************************************************************)
EXTENDS Transport

CONSTANTS
    MaxMissFeedback,  \* MAX_MISS_FEEDBACK_TIMES
    MaxWait,          \* iterations of unregister_watchdog: 10 in the code
    MaxFd             \* files a process may open beside its own

ASSUME FeedConstants ==
    /\ MaxMissFeedback \in Nat
    /\ MaxWait \in Nat
    /\ MaxFd \in Nat

VARIABLES
    thread,  \* the feed thread: not created, no socket yet, in the loop, ended
    reg,     \* wd_confirmed_register
    miss,    \* miss_feedback_times
    server,  \* the port in addr_server
    flag,    \* wd_confirmed_unreg_flag
    main,    \* the main thread: elsewhere, in unregister_watchdog, returned
    tries,   \* wait_time
    result,  \* what unregister_watchdog returned
    leaked,  \* streams wd_send_register_pg opened: none is ever closed
    rejoin   \* ghost: what came behind its UNREGISTER can bring it back

feedVars == <<thread, reg, miss, server, flag, leaked, rejoin>>
mainVars == <<main, tries, result>>
FcVars == <<feedVars, mainVars, netVars>>

-----------------------------------------------------------------------------
(* Sending.                                                                *)

\* wd_send_register_pg: the port is read from the file each time.  Without a
\* file, or a descriptor to read it with, nothing is sent; an empty file
\* still costs the descriptor.
SendRegister(p) ==
    IF portFile = None \/ leaked[p] = MaxFd
    THEN UNCHANGED <<server, leaked, rejoin, chan>>
    ELSE /\ leaked' = [leaked EXCEPT ![p] = @ + 1]
         /\ IF portFile = Empty
            THEN UNCHANGED <<server, rejoin, chan>>
            ELSE /\ server' = [server EXCEPT ![p] = portFile]
                 /\ rejoin' = [rejoin EXCEPT ![p] =
                                    @ \/ (flag[p] # "not_sent" /\ portFile = live)]
                 /\ SendTo(p, portFile, "register")

\* wd_send_action_pg: to the port of the last registration.
SendAction(p, cmd) ==
    SendTo(p, server[p], cmd) /\ UNCHANGED <<server, leaked, rejoin>>

-----------------------------------------------------------------------------
(* The feed thread.                                                        *)

CreateFeedThread(p) ==
    /\ thread[p] = "none"
    /\ thread' = [thread EXCEPT ![p] = "starting"]
    /\ reg' = [reg EXCEPT ![p] = "not_conf"]
    /\ miss' = [miss EXCEPT ![p] = 0]
    /\ flag' = [flag EXCEPT ![p] = "not_sent"]
    /\ main' = [main EXCEPT ![p] = "away"]
    /\ UNCHANGED <<server, leaked, rejoin, tries, result, netVars>>

\* start_libevent_udp_feed, up to the event loop.
OpenSocket(p) ==
    /\ thread[p] = "starting"
    /\ thread' = [thread EXCEPT ![p] = "loop"]
    /\ UNCHANGED <<reg, miss, server, flag, leaked, rejoin, mainVars, netVars>>

\* timeout_cb.
TimeoutRegister(p) ==
    /\ thread[p] = "loop"
    /\ reg[p] = "not_conf"
    /\ SendRegister(p)
    /\ UNCHANGED <<thread, reg, miss, flag, mainVars, live, portFile, inbox>>

\* Mutant: one unanswered feed more.
PatientLate(p) == miss[p] <= MaxMissFeedback

Patient(p) == miss[p] < MaxMissFeedback

TimeoutFeed(p) ==
    /\ thread[p] = "loop"
    /\ reg[p] = "has_conf"
    /\ Patient(p)
    /\ miss' = [miss EXCEPT ![p] = @ + 1]
    /\ SendAction(p, "feed")
    /\ UNCHANGED <<thread, reg, flag, mainVars, live, portFile, inbox>>

\* Mutant: the last branch of timeout_cb is missing.
TimeoutIdle(p) == FALSE

\* The daemon is given up; nothing is sent before the next timeout.
TimeoutGiveUp(p) ==
    /\ thread[p] = "loop"
    /\ reg[p] = "has_conf"
    /\ ~ Patient(p)
    /\ reg' = [reg EXCEPT ![p] = "not_conf"]
    /\ UNCHANGED <<thread, miss, server, flag, leaked, rejoin, mainVars, netVars>>

FeedTimeout(p) == TimeoutRegister(p) \/ TimeoutFeed(p) \/ TimeoutGiveUp(p)

\* socket_ev_r_cb: one datagram, which the four handlers tell apart.
Receives(p, cmd) ==
    /\ thread[p] = "loop"
    /\ inbox[p] # << >>
    /\ Head(inbox[p]).cmd = cmd
    /\ inbox' = [inbox EXCEPT ![p] = Tail(@)]
    /\ UNCHANGED <<mainVars, live, portFile>>

OnRegisterReply(p) ==
    /\ Receives(p, "register")
    /\ IF Head(inbox[p]).ok
       THEN /\ reg' = [reg EXCEPT ![p] = "has_conf"]
            /\ miss' = [miss EXCEPT ![p] = 0]
            /\ UNCHANGED <<server, leaked, rejoin, chan>>
       ELSE SendRegister(p) /\ UNCHANGED <<reg, miss>>
    /\ UNCHANGED <<thread, flag>>

OnFeedReply(p) ==
    /\ Receives(p, "feed")
    /\ IF Head(inbox[p]).ok
       THEN /\ miss' = [miss EXCEPT ![p] = 0]
            /\ UNCHANGED <<server, leaked, rejoin, chan>>
       ELSE SendRegister(p) /\ UNCHANGED miss
    /\ UNCHANGED <<thread, reg, flag>>

OnSelfUnregister(p) ==
    /\ Receives(p, "self_unreg")
    /\ flag' = [flag EXCEPT ![p] = "not_conf"]
    /\ SendAction(p, "unregister")
    /\ UNCHANGED <<thread, reg, miss>>

\* A confirmation ends the loop, and the thread closes its socket.
OnUnregisterReply(p) ==
    /\ Receives(p, "unregister")
    /\ IF Head(inbox[p]).ok
       THEN /\ flag' = [flag EXCEPT ![p] = "has_conf"]
            /\ thread' = [thread EXCEPT ![p] = "ended"]
            /\ UNCHANGED <<server, leaked, rejoin, chan>>
       ELSE SendAction(p, "unregister") /\ UNCHANGED <<flag, thread>>
    /\ UNCHANGED <<reg, miss>>

ReceiveDatagram(p) ==
    \/ OnRegisterReply(p)
    \/ OnFeedReply(p)
    \/ OnSelfUnregister(p)
    \/ OnUnregisterReply(p)

-----------------------------------------------------------------------------
(* The main thread: unregister_watchdog.                                   *)

UnregisterCall(p) ==
    /\ main[p] = "away"
    /\ main' = [main EXCEPT ![p] = "check"]
    /\ UNCHANGED <<tries, result, feedVars, netVars>>

Return(p, r) ==
    /\ main' = [main EXCEPT ![p] = "done"]
    /\ result' = [result EXCEPT ![p] = r]

\* One iteration of the loop: the flag is read under the mutex, and acted on
\* after the mutex is released.
UnregisterCheck(p) ==
    /\ main[p] = "check"
    /\ tries[p] < MaxWait
    /\ tries' = [tries EXCEPT ![p] = @ + 1]
    /\ \/ /\ flag[p] = "not_sent"
          /\ main' = [main EXCEPT ![p] = "notify"]
          /\ UNCHANGED result
       \/ /\ flag[p] = "not_conf"
          /\ main' = [main EXCEPT ![p] = "sleep"]
          /\ UNCHANGED result
       \/ flag[p] = "has_conf" /\ Return(p, "success")
    /\ UNCHANGED <<feedVars, netVars>>

\* The datagram to the thread's own socket, which wakes its loop up.  The
\* socket may not be there yet, or not bound, or closed by then.
UnregisterNotify(p) ==
    /\ main[p] = "notify"
    /\ \/ /\ thread[p] \in {"starting", "ended"}  \* getsockname() fails
          /\ Return(p, "fail")
          /\ UNCHANGED inbox
       \/ /\ thread[p] \in {"starting", "loop"}
          /\ main' = [main EXCEPT ![p] = "sleep"]
          /\ inbox' = IF thread[p] = "loop"
                      THEN [inbox EXCEPT ![p] =
                                Queued(@, Package("self_unreg", TRUE))]
                      ELSE inbox                  \* sendto() fails
          /\ UNCHANGED result
    /\ UNCHANGED <<tries, feedVars, live, portFile, chan>>

UnregisterWake(p) ==
    /\ main[p] = "sleep"
    /\ main' = [main EXCEPT ![p] = "check"]
    /\ UNCHANGED <<tries, result, feedVars, netVars>>

\* Mutant: the loop waits for a confirmation.
UnregisterInsists(p) ==
    /\ main[p] = "check"
    /\ tries[p] = MaxWait
    /\ flag[p] = "has_conf"
    /\ Return(p, "success")
    /\ UNCHANGED <<tries, feedVars, netVars>>

\* The loop runs out: ret still has its first value.
UnregisterTimeout(p) ==
    /\ main[p] = "check"
    /\ tries[p] = MaxWait
    /\ Return(p, "success")
    /\ UNCHANGED <<tries, feedVars, netVars>>

\* The application returns from main after that.
ProcessExit(p) ==
    /\ main[p] = "done"
    /\ thread[p] \in {"starting", "loop"}
    /\ thread' = [thread EXCEPT ![p] = "ended"]
    /\ UNCHANGED <<reg, miss, server, flag, leaked, rejoin, mainVars, netVars>>

-----------------------------------------------------------------------------
FcInit ==
    /\ NetInit
    /\ thread = [p \in Pid |-> "none"]
    /\ reg = [p \in Pid |-> "not_conf"]
    /\ miss = [p \in Pid |-> 0]
    /\ server = [p \in Pid |-> None]
    /\ flag = [p \in Pid |-> "not_sent"]
    /\ main = [p \in Pid |-> "none"]
    /\ tries = [p \in Pid |-> 0]
    /\ result = [p \in Pid |-> "none"]
    /\ leaked = [p \in Pid |-> 0]
    /\ rejoin = [p \in Pid |-> FALSE]

ClientStep(p) ==
    \/ CreateFeedThread(p)
    \/ OpenSocket(p)
    \/ FeedTimeout(p)
    \/ ReceiveDatagram(p)
    \/ UnregisterCall(p)
    \/ UnregisterCheck(p)
    \/ UnregisterNotify(p)
    \/ UnregisterWake(p)
    \/ UnregisterTimeout(p)
    \/ ProcessExit(p)

\* The scheduling the code relies on: the two threads of a process run, its
\* timer keeps expiring and a datagram in its buffer makes the socket
\* readable.  Nothing makes an application call unregister_watchdog.
ClientFairness(p) ==
    /\ WF_FcVars(OpenSocket(p))
    /\ WF_FcVars(FeedTimeout(p))
    /\ WF_FcVars(ReceiveDatagram(p))
    /\ WF_FcVars(UnregisterCheck(p) \/ UnregisterNotify(p) \/
                 UnregisterWake(p) \/ UnregisterTimeout(p))

\* Every variable keeps its type: a leaked stream count that reaches the
\* limit stays there, and no more feeds go unanswered than the code allows.
FcTypeOK ==
    /\ NetTypeOK
    /\ thread \in [Pid -> {"none", "starting", "loop", "ended"}]
    /\ reg \in [Pid -> {"not_conf", "has_conf"}]
    /\ miss \in [Pid -> 0..MaxMissFeedback]
    /\ server \in [Pid -> Port \union {None}]
    /\ flag \in [Pid -> {"not_sent", "not_conf", "has_conf"}]
    /\ main \in [Pid -> {"none", "away", "check", "notify", "sleep", "done"}]
    /\ tries \in [Pid -> 0..MaxWait]
    /\ result \in [Pid -> {"none", "success", "fail"}]
    /\ leaked \in [Pid -> 0..MaxFd]
    /\ rejoin \in [Pid -> BOOLEAN]

=============================================================================
