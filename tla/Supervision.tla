----------------------------- MODULE Supervision ----------------------------
(***************************************************************************)
(* The whole system at work: the daemon of Watchdog, the applications of   *)
(* FeedClient and the processes both act on.  A request is served by the   *)
(* daemon's handler and answered in one step, and start_the_monitor_app    *)
(* kills and starts processes.                                             *)
(*                                                                         *)
(* Time is prompt: a second passes only when every timer that expired has  *)
(* been handled and every buffer of a running process is empty, which is   *)
(* what a machine that is not overloaded does.  The applications are those *)
(* of app_main.c, whose main thread never reaches unregister_watchdog.     *)
(***************************************************************************)
EXTENDS Watchdog, FeedClient, FiniteSets

CONSTANTS
    FeedPeriod,   \* feed_period of each application
    CommandOf,    \* cmd_line of each application
    LongName,     \* names longer than the 15 characters the kernel keeps
    HangAtStart,  \* an application may stop before its first REGISTER
    PidReuse,     \* the id of a dead process may be given to a new one at once
    MaxFailures,  \* bound on applications that die or hang
    MaxCrashes,   \* bound on crashes of the daemon
    MaxDown       \* bound on the seconds the daemon stays down

ASSUME SupConstants ==
    /\ Name # {}
    /\ FeedPeriod \in [Name -> Nat \ {0}]
    /\ CommandOf \in [Name -> Cmd]
    /\ \A n, m \in Name : CommandOf[n] = CommandOf[m] => n = m
    /\ {FeedPeriod[n] : n \in Name} \subseteq WirePeriod
    /\ Client = Name \X Pid
    /\ LongName \subseteq Name
    /\ HangAtStart \in BOOLEAN
    /\ PidReuse \in BOOLEAN
    /\ MaxFailures \in Nat
    /\ MaxCrashes \in Nat
    /\ MaxDown \in Nat

VARIABLES
    life,      \* life[p]: the process exists and runs, hangs, or is dead
    prog,      \* prog[p]: the application p runs, or ran last
    left,      \* left[p]: seconds to the next timeout of p's feed timer
    killed,    \* start_the_monitor_app has passed its kill()
    failures,  \* applications that died or hung so far
    crashes,   \* crashes of the daemon so far
    down       \* seconds the daemon has been down

procVars == <<life, prog, left>>
boundVars == <<failures, crashes, down>>
SupVars == <<WdVars, FcVars, procVars, killed, boundVars>>

Alive(p) == life[p] # "dead"

\* Mutant: the result of strcmp is taken for its truth value.
CommDiffers(p, n) == Alive(p) /\ prog[p] # n

\* get_comm_with_pid(p) gives the name n: the kernel cuts long names.
CommIs(p, n) == Alive(p) /\ prog[p] = n /\ n \notin LongName

Healthy(p, n) == life[p] = "runs" /\ prog[p] = n

-----------------------------------------------------------------------------
(* Processes.                                                              *)

\* A new process: its feed thread is created, its timer starts.
Spawn(p, n) ==
    /\ life[p] = "dead"
    /\ chan[p] = << >>
    /\ PidReuse \/ WithPid(p) = {}
    /\ life' = [life EXCEPT ![p] = "runs"]
    /\ prog' = [prog EXCEPT ![p] = n]
    /\ left' = [left EXCEPT ![p] = FeedPeriod[n]]
    /\ CreateFeedThread(p)

\* The process is gone, and the state of its library with it.
Bury(p) ==
    /\ life' = [life EXCEPT ![p] = "dead"]
    /\ left' = [left EXCEPT ![p] = 0]
    /\ thread' = [thread EXCEPT ![p] = "none"]
    /\ reg' = [reg EXCEPT ![p] = "not_conf"]
    /\ miss' = [miss EXCEPT ![p] = 0]
    /\ server' = [server EXCEPT ![p] = None]
    /\ leaked' = [leaked EXCEPT ![p] = 0]
    /\ main' = [main EXCEPT ![p] = "none"]
    /\ inbox' = [inbox EXCEPT ![p] = << >>]
    /\ UNCHANGED <<prog, flag, rejoin, tries, result, live, portFile, chan>>

\* The operator starts an application that is not monitored yet.
Boot(p, n) ==
    /\ n \notin NamesIn(conf) \union NamesIn(apps)
    /\ \A q \in Pid : ~ (Alive(q) /\ prog[q] = n)
    /\ Spawn(p, n)
    /\ UNCHANGED <<WdVars, killed, boundVars>>

AppDies(p) ==
    /\ life[p] = "runs"
    /\ failures < MaxFailures
    /\ failures' = failures + 1
    /\ Bury(p)
    /\ UNCHANGED <<WdVars, killed, crashes, down>>

\* The process stays and none of its threads runs any more.
AppHangs(p) ==
    /\ life[p] = "runs"
    /\ HangAtStart \/ reg[p] = "has_conf"
    /\ failures < MaxFailures
    /\ failures' = failures + 1
    /\ life' = [life EXCEPT ![p] = "hangs"]
    /\ UNCHANGED <<WdVars, FcVars, prog, left, killed, crashes, down>>

\* The feed thread of a running process; its timer is periodic.
AppOpens(p) ==
    /\ life[p] = "runs"
    /\ OpenSocket(p)
    /\ UNCHANGED <<WdVars, procVars, killed, boundVars>>

AppTimeout(p) ==
    /\ life[p] = "runs"
    /\ left[p] = 0
    /\ left' = [left EXCEPT ![p] = FeedPeriod[prog[p]]]
    /\ FeedTimeout(p)
    /\ UNCHANGED <<WdVars, life, prog, killed, boundVars>>

AppReceives(p) ==
    /\ life[p] = "runs"
    /\ ReceiveDatagram(p)
    /\ UNCHANGED <<WdVars, procVars, killed, boundVars>>

-----------------------------------------------------------------------------
(* The daemon.                                                             *)

\* get_wd_configure asks the system for a process of each name in the file.
Found == {r \in [Name -> Pid \union {NoPid}] :
            \A n \in Name :
                IF \E p \in Pid : CommIs(p, n)
                THEN r[n] \in Pid /\ CommIs(r[n], n)
                ELSE r[n] = NoPid}

DaemonStarts(found, port) ==
    /\ Start(found)
    /\ BindPort(port)
    /\ down' = 0
    /\ UNCHANGED <<feedVars, mainVars, procVars, killed, failures, crashes>>

DaemonPublishes ==
    /\ PublishPort
    /\ UNCHANGED <<WdVars, feedVars, mainVars, procVars, killed, boundVars>>

DaemonCrashes ==
    /\ crashes < MaxCrashes
    /\ crashes' = crashes + 1
    /\ Crash
    /\ ClosePort
    /\ killed' = FALSE
    /\ UNCHANGED <<feedVars, mainVars, procVars, failures, down>>

\* socket_ev_r_cb, with the reply it ends with.
Handles(p, cmd, ok) ==
    /\ Serving
    /\ chan[p] # << >>
    /\ Head(chan[p]) = cmd
    /\ chan' = [chan EXCEPT ![p] = Tail(@)]
    /\ Reply(p, cmd, ok, thread[p] = "loop")
    /\ UNCHANGED <<feedVars, mainVars, live, portFile, procVars, killed, boundVars>>

HandleRegister(p) ==
    /\ Handles(p, "register", TRUE)
    /\ Register(prog[p], p, FeedPeriod[prog[p]], CommandOf[prog[p]])

HandleFeed(p) == Handles(p, "feed", TRUE) /\ Feed(p)

HandleStrayFeed(p) ==
    /\ wpc = "idle"
    /\ WithPid(p) = {}
    /\ Handles(p, "feed", FALSE)
    /\ UNCHANGED WdVars

DaemonScans ==
    /\ Serving
    /\ TimeoutBegin \/ CheckFresh \/ CheckOverdue(FALSE) \/ TimeoutEnd
    /\ UNCHANGED <<FcVars, procVars, killed, boundVars>>

\* start_the_monitor_app, first half: the process the node knows is killed
\* if it still has the application's name.
Kill ==
    /\ wpc = "restart"
    /\ ~ killed
    /\ killed' = TRUE
    /\ LET p == apps[cursor].pid
           n == apps[cursor].name
       IN  IF p # NoPid /\ CommIs(p, n)
           THEN Bury(p)
           ELSE UNCHANGED <<FcVars, procVars>>
    /\ UNCHANGED <<WdVars, boundVars>>

\* Second half: the command is run.  The node is not told the child's id.
Exec(p) ==
    /\ killed
    /\ killed' = FALSE
    /\ \E n \in Name : CommandOf[n] = apps[cursor].cmd /\ Spawn(p, n)
    /\ Restart
    /\ UNCHANGED boundVars

-----------------------------------------------------------------------------
(* Time.                                                                   *)

Quiet ==
    /\ IF Up THEN Serving /\ wpc = "idle" /\ ~ due ELSE down < MaxDown
    /\ \A p \in Pid :
        /\ Up => chan[p] = << >>
        /\ life[p] = "runs" =>
                thread[p] = "loop" /\ inbox[p] = << >> /\ left[p] > 0

Second ==
    /\ Quiet
    /\ Tick
    /\ left' = [p \in Pid |-> IF life[p] = "runs" THEN left[p] - 1 ELSE left[p]]
    /\ down' = IF Up THEN 0 ELSE down + 1
    /\ UNCHANGED <<FcVars, life, prog, killed, failures, crashes>>

-----------------------------------------------------------------------------
SupInit ==
    /\ WdInit
    /\ FcInit
    /\ life = [p \in Pid |-> "dead"]
    /\ prog = [p \in Pid |-> CHOOSE n \in Name : TRUE]
    /\ left = [p \in Pid |-> 0]
    /\ killed = FALSE
    /\ failures = 0
    /\ crashes = 0
    /\ down = 0

DaemonStep ==
    \/ \E found \in Found, port \in Port : DaemonStarts(found, port)
    \/ DaemonPublishes
    \/ \E p \in Pid : HandleRegister(p) \/ HandleFeed(p) \/ HandleStrayFeed(p)
    \/ DaemonScans
    \/ Kill
    \/ \E p \in Pid : Exec(p)

AppStep(p) == AppOpens(p) \/ AppTimeout(p) \/ AppReceives(p)

SupNext ==
    \/ \E p \in Pid, n \in Name : Boot(p, n)
    \/ \E p \in Pid : AppDies(p)
    \/ \E p \in Pid : AppHangs(p)
    \/ DaemonCrashes
    \/ DaemonStep
    \/ \E p \in Pid : AppStep(p)
    \/ Second

\* The daemon is started again when it is down, its loop and the running
\* processes are scheduled, and time passes.
SupSpec ==
    /\ SupInit /\ [][SupNext]_SupVars
    /\ WF_SupVars(DaemonStep)
    /\ \A p \in Pid : WF_SupVars(AppStep(p))
    /\ WF_SupVars(Second)

-----------------------------------------------------------------------------
(* Properties.                                                             *)

\* The processes keep their types, beside what Watchdog and FeedClient check.
SupTypeOK ==
    /\ WdTypeOK
    /\ FcTypeOK
    /\ life \in [Pid -> {"runs", "hangs", "dead"}]
    /\ prog \in [Pid -> Name]
    /\ left \in [Pid -> Nat]
    /\ killed \in BOOLEAN

\* No application runs twice: the process that stopped feeding is killed
\* before its command is run again, and the wait before the next attempt is
\* long enough for the new process to register ("to avoid doubly starting
\* the app", timeout_cb).
OneInstance ==
    \A p, q \in Pid : Alive(p) /\ Alive(q) /\ prog[p] = prog[q] => p = q

FalseRestart ==
    /\ wpc = "restart"
    /\ ~ killed
    /\ \E p \in Pid : Healthy(p, apps[cursor].name)

\* A daemon that was never restarted does not restart an application that
\* runs: its feeds arrive before the time of its missed feeds is over.
NoFalseRestart == crashes = 0 => ~ FalseRestart

\* "If app doesn't feed for DEFAULT_MAX_MISSED_FEED_TIMES*FEED_PERIOD
\* seconds, watchdog will restart the app" (mit_data_define.h): one whose
\* feed timer never stopped expiring is not restarted.
FeedingIsNotRestarted == ~ FalseRestart

\* An application that believes it is registered has a node with its name
\* and its process id in a daemon that serves, whoever restarted meanwhile,
\* unless a failed save lost the list at the daemon's last start.
ConfirmedHasNode ==
    \A p \in Pid :
        life[p] = "runs" /\ reg[p] = "has_conf" /\ Up /\ acked[prog[p]] = "in" =>
            \E i \in DOMAIN apps : apps[i].pid = p /\ apps[i].name = prog[p]

\* Whatever dies, hangs or crashes, in the end every application of the
\* file runs, is registered and is the process its node names.
Converges ==
    <>[](\A n \in NamesIn(conf) : \E p \in Pid :
            /\ Healthy(p, n)
            /\ reg[p] = "has_conf"
            /\ \E i \in DOMAIN apps : apps[i].name = n /\ apps[i].pid = p)

-----------------------------------------------------------------------------
(* What the properties rest on: facts that every step preserves together.  *)

\* The setting in which the code keeps one process per application: no name
\* is cut, no application stops before its first REGISTER, no process id or
\* command line is mistaken for another's, and an application registers for
\* the first time before even a node with the default period is overdue.
Undisturbed ==
    /\ LongName = {}
    /\ ~ HangAtStart
    /\ ~ PidReuse
    /\ SaveFault \subseteq {"open"}
    /\ \A n \in Name : Reloaded[CommandOf[n]] = CommandOf[n]
    /\ \A n \in Name : FeedPeriod[n] <= MaxMissed * DefaultPeriod
    /\ MaxMissed >= 1
    /\ MaxFd >= 1

\* The daemon has a socket as long as it runs, and its timer runs only in its
\* loop.  One that was never restarted was given no list.
DaemonPlaces ==
    /\ crashes \in Nat
    /\ Up <=> live # None
    /\ ~ Up => \A p \in Pid : chan[p] = << >>
    /\ ~ Up => apps = << >>
    /\ ~ Up /\ crashes = 0 => conf = << >>
    /\ wpc \in {"scan", "restart"} => Serving
    /\ wpc = "restart" => apps[cursor].age = 0
    /\ killed => wpc = "restart"

\* Nodes and lines of the file have the command and a period of their
\* application, and the process id of one of its processes.
NodesOwn ==
    /\ \A i \in DOMAIN apps :
        /\ apps[i].cmd = CommandOf[apps[i].name]
        /\ apps[i].period \in {DefaultPeriod, FeedPeriod[apps[i].name]}
        /\ apps[i].pid # NoPid => prog[apps[i].pid] = apps[i].name
    /\ \A i \in DOMAIN conf : conf[i].cmd = CommandOf[conf[i].name]

\* Nothing of a dead process's library is left.
DeadAreGone ==
    \A p \in Pid :
        /\ ~ Alive(p) => /\ thread[p] = "none" /\ reg[p] = "not_conf"
                         /\ leaked[p] = 0 /\ inbox[p] = << >>
        /\ left[p] <= FeedPeriod[prog[p]]

Fresh(p) ==
    /\ life[p] = "runs"
    /\ reg[p] = "not_conf"
    /\ leaked[p] = 0
    /\ left[p] = FeedPeriod[prog[p]]
    /\ chan[p] = << >>
    /\ inbox[p] = << >>

\* A process that lives beside a request of another of its application was
\* started within this second.
LateRequests ==
    \A p, q \in Pid :
        p # q /\ Alive(p) /\ prog[p] = prog[q] /\ chan[q] # << >> => Fresh(p)

\* p will have registered before node a can be overdue.
WillRegister(p, a) ==
    /\ Serving
    /\ life[p] = "runs"
    /\ reg[p] = "not_conf"
    /\ inbox[p] = << >>
    /\ \/ leaked[p] = 0 /\ chan[p] = << >> /\ a.age + left[p] <= FeedPeriod[a.name]
       \/ chan[p] = <<"register">> /\ left[p] > 0 /\ a.age <= FeedPeriod[a.name]

\* A node has the id of its application's process, or is about to.
NodeKnowsProcess ==
    \A p \in Pid : \A i \in DOMAIN apps :
        Alive(p) /\ prog[p] = apps[i].name =>
            apps[i].pid = p \/ WillRegister(p, apps[i])

\* Of the application that is to be started only the process its node names
\* may live, and none after the kill.
RestartIsSafe ==
    wpc = "restart" =>
        \A p \in Pid : Alive(p) /\ prog[p] = apps[cursor].name =>
            ~ killed /\ apps[cursor].pid = p

InstanceInv ==
    /\ DaemonPlaces
    /\ NodesOwn
    /\ DeadAreGone
    /\ OneInstance
    /\ LateRequests
    /\ NodeKnowsProcess
    /\ RestartIsSafe

\* What was confirmed is in the list, and in the file while that is all.
ConfirmedIsKept ==
    /\ Up => \A n \in Name : acked[n] = "in" => n \in NamesIn(apps)
    /\ ~ Up /\ synced => \A n \in Name : acked[n] = "in" => n \in NamesIn(conf)

\* A running process and a daemon that was never restarted have one request
\* or one answer between them, and that within the second of its timeout.
Talks(p) ==
    /\ reg[p] = "has_conf" \/ inbox[p] # << >> =>
            Serving /\ server[p] = live /\ WithPid(p) # {}
    /\ \/ chan[p] = << >> /\ inbox[p] = << >> /\ (reg[p] = "has_conf" => miss[p] = 0)
       \/ /\ left[p] > 0 /\ thread[p] = "loop" /\ server[p] = live
          /\ \/ chan[p] = <<"register">> /\ inbox[p] = << >> /\ reg[p] = "not_conf"
             \/ chan[p] = <<"feed">> /\ inbox[p] = << >> /\ reg[p] = "has_conf"
             \/ chan[p] = << >> /\ inbox[p] = <<Package("register", TRUE)>>
             \/ /\ chan[p] = << >> /\ inbox[p] = <<Package("feed", TRUE)>>
                /\ reg[p] = "has_conf"

\* Its node is fed before the next timeout.
Fed(p, a) ==
    /\ reg[p] = "has_conf" \/ inbox[p] # << >>
    /\ a.age <= FeedPeriod[a.name]
    /\ chan[p] = << >> => a.age + left[p] <= FeedPeriod[a.name]

\* A running process and its node are in touch.
InTouch(p) ==
    life[p] = "runs" => Talks(p) /\ \A i \in WithPid(p) : Fed(p, apps[i])

FeedingInv == crashes = 0 => NoFalseRestart /\ \A p \in Pid : InTouch(p)

=============================================================================
