---------------------------- MODULE FeedProtocol ----------------------------
(***************************************************************************)
(* The feed protocol: the applications of FeedClient and the daemon as     *)
(* they see it, which answers each request from the set of process ids it  *)
(* knows.  Timers are free, so every interleaving of expirations,          *)
(* deliveries and crashes is a behaviour; crashes of the daemon and losses *)
(* (buffers that other senders filled, allocations that failed) are        *)
(* bounded.                                                                *)
(***************************************************************************)
EXTENDS FeedClient

CONSTANTS
    MaxCrash,  \* bound on crashes of the daemon
    MaxFault   \* bound on lost datagrams and failed registrations

VARIABLES
    known,    \* process ids of the daemon's nodes
    crashes,  \* crashes so far
    faults    \* losses and failures so far

FpVars == <<FcVars, known, crashes, faults>>

-----------------------------------------------------------------------------
(* The daemon.                                                             *)

\* The nodes it loads from its file have the ids of the processes that run
\* under their names: any of those that exist, also one that is unregistering.
ServerStart(port, found) ==
    /\ BindPort(port)
    /\ known' = found
    /\ rejoin' = [p \in Pid |-> rejoin[p] \/ (p \in found /\ flag[p] # "not_sent")]
    /\ UNCHANGED <<thread, reg, miss, server, flag, leaked, mainVars, crashes, faults>>

ServerPublish ==
    /\ PublishPort
    /\ UNCHANGED <<feedVars, mainVars, known, crashes, faults>>

ServerCrash ==
    /\ live # None
    /\ crashes < MaxCrash
    /\ crashes' = crashes + 1
    /\ ClosePort
    /\ known' = {}
    /\ UNCHANGED <<feedVars, mainVars, faults>>

Serves(p, cmd) ==
    /\ Serving
    /\ chan[p] # << >>
    /\ Head(chan[p]) = cmd
    /\ chan' = [chan EXCEPT ![p] = Tail(@)]
    /\ UNCHANGED <<feedVars, mainVars, live, portFile, crashes>>

Answer(p, cmd, ok) == Reply(p, cmd, ok, thread[p] = "loop")

ServeRegister(p) ==
    /\ Serves(p, "register")
    /\ known' = known \union {p}
    /\ Answer(p, "register", TRUE)
    /\ UNCHANGED faults

\* The datagram cannot be unpacked or a node cannot be allocated.
RefuseRegister(p) ==
    /\ Serves(p, "register")
    /\ faults < MaxFault
    /\ faults' = faults + 1
    /\ Answer(p, "register", FALSE)
    /\ UNCHANGED known

ServeFeed(p) ==
    /\ Serves(p, "feed")
    /\ Answer(p, "feed", p \in known)
    /\ UNCHANGED <<known, faults>>

\* Mutant: the request is confirmed and the node stays.
ConfirmOnly(p) ==
    /\ Serves(p, "unregister")
    /\ Answer(p, "unregister", p \in known)
    /\ UNCHANGED <<known, faults>>

ServeUnregister(p) ==
    /\ Serves(p, "unregister")
    /\ known' = known \ {p}
    /\ Answer(p, "unregister", p \in known)
    /\ UNCHANGED faults

Serve(p) ==
    ServeRegister(p) \/ RefuseRegister(p) \/ ServeFeed(p) \/ ServeUnregister(p)

-----------------------------------------------------------------------------
(* The network: a datagram that found a full buffer is not there.          *)

LoseRequest(p) ==
    /\ faults < MaxFault
    /\ chan[p] # << >>
    /\ faults' = faults + 1
    /\ chan' = [chan EXCEPT ![p] = Tail(@)]
    /\ UNCHANGED <<feedVars, mainVars, live, portFile, inbox, known, crashes>>

LoseReply(p) ==
    /\ faults < MaxFault
    /\ inbox[p] # << >>
    /\ faults' = faults + 1
    /\ inbox' = [inbox EXCEPT ![p] = Tail(@)]
    /\ UNCHANGED <<feedVars, mainVars, live, portFile, chan, known, crashes>>

-----------------------------------------------------------------------------
FpInit == FcInit /\ known = {} /\ crashes = 0 /\ faults = 0

FpNext ==
    \/ \E port \in Port, found \in SUBSET {p \in Pid : thread[p] \in {"starting", "loop"}} :
            ServerStart(port, found)
    \/ ServerPublish
    \/ ServerCrash
    \/ \E p \in Pid : Serve(p)
    \/ \E p \in Pid : LoseRequest(p)
    \/ \E p \in Pid : LoseReply(p)
    \/ \E p \in Pid : ClientStep(p) /\ UNCHANGED <<known, crashes, faults>>

FpSafety == FpInit /\ [][FpNext]_FpVars

\* The daemon, once started, reaches its event loop and reads its socket.
ServerFairness ==
    /\ WF_FpVars(ServerPublish)
    /\ \A p \in Pid : WF_FpVars(Serve(p))

FpSpec ==
    /\ FpSafety
    /\ ServerFairness
    /\ \A p \in Pid : ClientFairness(p)

-----------------------------------------------------------------------------
(* Properties.                                                             *)

\* Only two things bring a process back whose UNREGISTER was confirmed: a
\* REGISTER that its feed timer sent to the daemon's socket between the two
\* (create_feed_thread.c:115), and a daemon that started in between and found
\* it by its name (wd_configure.c:176).  Otherwise it is unknown to the daemon
\* and no datagram on its way registers it, whatever the threads, the losses
\* and the crashes did before and do after the confirmation.
ConfirmedMeansGone ==
    \A p \in Pid : flag[p] = "has_conf" /\ ~ rejoin[p] =>
        /\ p \notin known
        /\ \A i \in DOMAIN chan[p] : chan[p][i] # "register"

\* unregister_watchdog does not poll for ever: every call returns.
UnregisterReturns ==
    \A p \in Pid : main[p] = "check" ~> main[p] = "done"

Calm == Serving /\ crashes = MaxCrash

Feeding(p) == thread[p] = "loop" /\ main[p] = "away"

\* A feeding application becomes known to a daemon that stays up, from
\* whatever the crashes, losses and stale ports before that left behind,
\* unless it has run out of file descriptors.
Reconnects ==
    \A p \in Pid :
        Calm /\ Feeding(p) ~> \/ p \in known
                              \/ ~ Feeding(p)
                              \/ leaked[p] = MaxFd

\* "If the app has sent MAX_MISS_FEEDBACK_TIMES feed packages without watchdog
\* feeding back, the app will start to send reigister packages"
\* (mit_data_define.h): said of an application whose daemon is up.
UnansweredRegisters ==
    \A p \in Pid :
        /\ Calm /\ Feeding(p)
        /\ reg[p] = "has_conf" /\ miss[p] = MaxMissFeedback
        ~>
        \/ miss[p] = 0
        \/ \E i \in DOMAIN chan[p] : chan[p][i] = "register"
        \/ p \in known
        \/ ~ Feeding(p)

\* An application whose unregister_watchdog returned success is not
\* monitored: it reports "Watchdog will restart the app later" for the
\* other result only (app_main.c).
SuccessMeansGone ==
    \A p \in Pid : result[p] = "success" => p \notin known

-----------------------------------------------------------------------------
(* What the properties rest on: facts that every step preserves together.  *)

Without(s, cmd) == \A i \in DOMAIN s : s[i] # cmd

\* No REGISTER is behind an UNREGISTER.
InOrder(s) ==
    \A i, j \in DOMAIN s : i < j /\ s[i] = "unregister" => s[j] # "register"

NoReply(s, ok) == \A i \in DOMAIN s : s[i] # Package("unregister", ok)

\* Before its UNREGISTER a process has nothing of it on the way; a confirmation
\* finds it unknown.
Promise(p) ==
    /\ InOrder(chan[p])
    /\ flag[p] = "not_sent" =>
            /\ Without(chan[p], "unregister")
            /\ NoReply(inbox[p], TRUE) /\ NoReply(inbox[p], FALSE)
    /\ flag[p] = "has_conf" \/ ~ NoReply(inbox[p], TRUE) =>
            p \notin known /\ Without(chan[p], "register")

FpInv ==
    /\ FcTypeOK
    /\ \A p \in Pid : thread[p] = "none" => flag[p] = "not_sent"
    /\ \A p \in Pid : ~ rejoin[p] => Promise(p)

=============================================================================
