------------------------------ MODULE Watchdog ------------------------------
(***************************************************************************)
(* The device watchdog daemon (device_watchdog/wd_configure.c): its list   *)
(* of monitored applications, the configuration file the list is saved to  *)
(* and loaded from, the three datagram handlers that change the list, and  *)
(* the one second timer that restarts the applications that stopped        *)
(* feeding.  The daemon is one libevent loop in one thread: a handler runs *)
(* to its end before the next one starts, but the timer callback is split  *)
(* at the points where another process can act between two of its steps.   *)
(*                                                                         *)
(* Times are kept as ages: "age" is time(NULL) - app_last_feed_time, cut   *)
(* off at AgeCap, beyond which no comparison of the code changes.          *)
(***************************************************************************)
EXTENDS Integers, SequencesExt, Processes

CONSTANTS
    Name,           \* application names
    Cmd,            \* command lines
    NoPid,          \* get_pid_with_comm found no process: app_pid is 0
    NoCmd,          \* a line of the file that get_wd_configure refuses
    Client,         \* the <<name, pid>> pairs that may send datagrams
    WirePeriod,     \* values of the period field of a REGISTER datagram
    DefaultPeriod,  \* default_feed_period
    MaxMissed,      \* max_missed_feed_times
    AgeCap,         \* bound on ages: reached ages stop growing
    Reloaded,       \* what the loader reads back for a saved command line
    SaveFault       \* the ways save_monitor_apps_info may fail

ASSUME WdConstants ==
    /\ NoPid \notin Pid
    /\ NoCmd \notin Cmd
    /\ Client \subseteq Name \X Pid
    /\ WirePeriod \subseteq Int
    /\ DefaultPeriod \in Nat \ {0}
    /\ MaxMissed \in Nat
    /\ AgeCap \in Nat
    /\ \A w \in WirePeriod \union {DefaultPeriod} : MaxMissed * w < AgeCap
    /\ Reloaded \in [Cmd -> Cmd]
    /\ SaveFault \subseteq {"open", "torn", "crash"}

VARIABLES
    wpc,     \* where the daemon is: not running, in the loop, in timeout_cb
    cursor,  \* timeout_cb's tmp: index of the node under examination
    due,     \* the one second timer has expired and timeout_cb has not run
    apps,    \* apps_list_head .. apps_list_tail
    count,   \* monitored_apps_count
    conf,    \* the default_process lines of configure.cfg
    synced,  \* ghost: the last save reached the file in full
    acked,   \* ghost: the last confirmed request of each application
    since    \* ghost: seconds since this daemon last decided to exec a name

WdVars == <<wpc, cursor, due, apps, count, conf, synced, acked, since>>

-----------------------------------------------------------------------------
(* The data of the registry.                                               *)

Period == {DefaultPeriod} \union {w \in WirePeriod : w > 0}

App == [name : Name, cmd : Cmd, period : Period,
        pid : Pid \union {NoPid}, age : 0..AgeCap]

Line == [name : Name, cmd : Cmd \union {NoCmd}]

NamesIn(list) == {list[i].name : i \in DOMAIN list}

WithPid(p) == {i \in DOMAIN apps : apps[i].pid = p}

\* Mutant: the name of the sender is not looked for.
MatchingPid(n, p) == WithPid(p)

\* The nodes add_monitored_app takes for the sender's own.
Matching(n, p) == {i \in DOMAIN apps : apps[i].pid = p \/ apps[i].name = n}

\* The list walks of the code stop at the first node that satisfies a test.
IsFirst(i, S) == i \in S /\ \A j \in S : i <= j

\* Mutant: the period is taken from the datagram as it is.
RawPeriod(w) == w

EffectivePeriod(w) == IF w <= 0 THEN DefaultPeriod ELSE w

Older(a) == IF a < AgeCap THEN a + 1 ELSE AgeCap

Up == wpc # "down"

-----------------------------------------------------------------------------
(* Saving.  The file is opened with "w", which empties it, and written     *)
(* through a buffer that only fclose is sure to flush: a crash before that *)
(* or a full disk leaves the head of the text, whose last line may be cut. *)
(* A cut in the two lines of numbers before the list is told as a cut in   *)
(* the first line of the list: either makes the file unreadable.           *)

Image(list) ==
    [i \in DOMAIN list |-> [name |-> list[i].name, cmd |-> list[i].cmd]]

CutLines(line) == [name : {line.name}, cmd : Cmd \union {NoCmd}]

Torn(text) ==
    UNION { {SubSeq(text, 1, k)} \union
            {Append(SubSeq(text, 1, k), line) : line \in CutLines(text[k + 1])}
            : k \in 0 .. Len(text) - 1 }

\* Mutants: the node at the tail is left out; nothing is written.
SaveButLast(list) == conf' = Image(Front(list)) /\ synced' = TRUE
ForgetSave(list) == UNCHANGED <<conf, synced>>

Save(list) ==
    \/ conf' = Image(list) /\ synced' = TRUE
    \/ "open" \in SaveFault /\ synced' = FALSE /\ UNCHANGED conf
    \/ "torn" \in SaveFault /\ synced' = FALSE /\ conf' \in Torn(Image(list))

-----------------------------------------------------------------------------
(* Starting and stopping the daemon.                                       *)

\* A line whose command line is missing makes get_wd_configure return NULL
\* and the daemon exit: it starts only from a file it can read.
Loadable == \A i \in DOMAIN conf : conf[i].cmd # NoCmd

\* What get_wd_configure builds from the file; running[n] is the process
\* get_pid_with_comm finds.  Without one, app_last_feed_time stays 0.
Loaded(running) ==
    [i \in DOMAIN conf |->
        [name   |-> conf[i].name,
         cmd    |-> Reloaded[conf[i].cmd],
         period |-> DefaultPeriod,
         pid    |-> running[conf[i].name],
         age    |-> IF running[conf[i].name] = NoPid THEN AgeCap ELSE 0]]

Running == {r \in [Name -> Pid \union {NoPid}] :
                \A n \in Name : r[n] # NoPid => <<n, r[n]>> \in Client}

Start(running) ==
    /\ wpc = "down"
    /\ Loadable
    /\ wpc' = "idle"
    /\ apps' = Loaded(running)
    /\ count' = Len(conf)
    /\ due' = FALSE
    /\ cursor' = 1
    /\ acked' = IF synced THEN acked ELSE [n \in Name |-> "none"]
    /\ synced' = TRUE
    /\ since' = [n \in Name |-> AgeCap]
    /\ UNCHANGED conf

\* The memory of the process is gone, whatever it was doing.
LoseMemory ==
    /\ wpc' = "down"
    /\ apps' = << >>
    /\ count' = 0
    /\ due' = FALSE
    /\ cursor' = 1
    /\ UNCHANGED <<acked, since>>

Crash == Up /\ LoseMemory /\ UNCHANGED <<conf, synced>>

-----------------------------------------------------------------------------
(* The datagram handlers.                                                  *)

\* Mutant: the node keeps the id of the process that ran before.
RegisterKnownOldPid(n, p, w, c) ==
    \E i \in DOMAIN apps :
        /\ IsFirst(i, Matching(n, p))
        /\ apps' = [apps EXCEPT ![i] = [@ EXCEPT !.age = 0,
                                !.period = EffectivePeriod(w), !.cmd = c]]
        /\ UNCHANGED <<count, conf, synced>>

RegisterKnown(n, p, w, c) ==
    \E i \in DOMAIN apps :
        /\ IsFirst(i, Matching(n, p))
        /\ apps' = [apps EXCEPT ![i] = [@ EXCEPT !.age = 0, !.pid = p,
                                !.period = EffectivePeriod(w), !.cmd = c]]
        /\ UNCHANGED <<count, conf, synced>>

RegisterNew(n, p, w, c) ==
    LET node == [name |-> n, cmd |-> c, period |-> EffectivePeriod(w),
                 pid |-> p, age |-> 0]
    IN  /\ Matching(n, p) = {}
        /\ apps' = Append(apps, node)
        /\ count' = count + 1
        /\ Save(apps')

Register(n, p, w, c) ==
    /\ wpc = "idle"
    /\ RegisterKnown(n, p, w, c) \/ RegisterNew(n, p, w, c)
    /\ acked' = [acked EXCEPT ![n] = "in"]
    /\ UNCHANGED <<wpc, cursor, due, since>>

\* The daemon dies between the fopen and the fclose of RegisterNew's save.
CrashInSave(n, p, w, c) ==
    /\ "crash" \in SaveFault
    /\ wpc = "idle"
    /\ Matching(n, p) = {}
    /\ conf' \in Torn(Append(Image(apps), [name |-> n, cmd |-> c]))
    /\ synced' = FALSE
    /\ LoseMemory

\* Mutant: the time of the feed is not stored.
FeedUnstored(p) == wpc = "idle" /\ WithPid(p) # {} /\ UNCHANGED WdVars

Feed(p) ==
    /\ wpc = "idle"
    /\ \E i \in DOMAIN apps :
        /\ IsFirst(i, WithPid(p))
        /\ apps' = [apps EXCEPT ![i].age = 0]
    /\ UNCHANGED <<wpc, cursor, due, count, conf, synced, acked, since>>

\* Mutant: the node before is not linked to the node behind.
UnregisterTail(n, p) ==
    /\ wpc = "idle"
    /\ \E i \in DOMAIN apps :
        /\ IsFirst(i, WithPid(p))
        /\ apps' = SubSeq(apps, 1, i - 1)
    /\ count' = count - 1
    /\ acked' = [acked EXCEPT ![n] = "out"]
    /\ UNCHANGED <<wpc, cursor, due, conf, synced, since>>

\* The node is taken out of the list, and the file is left as it is.
UnregisterKnown(n, p) ==
    /\ wpc = "idle"
    /\ \E i \in DOMAIN apps :
        /\ IsFirst(i, WithPid(p))
        /\ apps' = RemoveAt(apps, i)
    /\ count' = count - 1
    /\ acked' = [acked EXCEPT ![n] = "out"]
    /\ UNCHANGED <<wpc, cursor, due, conf, synced, since>>

\* No such node: the request is refused, after the file has been saved.
UnregisterUnknown(p) ==
    /\ wpc = "idle"
    /\ WithPid(p) = {}
    /\ Save(apps)
    /\ UNCHANGED <<wpc, cursor, due, apps, count, acked, since>>

-----------------------------------------------------------------------------
(* timeout_cb.                                                             *)

TimeoutBegin ==
    /\ wpc = "idle"
    /\ due
    /\ wpc' = "scan"
    /\ cursor' = 1
    /\ due' = FALSE
    /\ UNCHANGED <<apps, count, conf, synced, acked, since>>

\* Mutants: one second early; only processes that were seen are started.
OverdueEarly(a) == a.age >= MaxMissed * a.period
OverdueIfSeen(a) == a.pid # NoPid /\ a.age > MaxMissed * a.period

Overdue(a) == a.age > MaxMissed * a.period

CheckFresh ==
    /\ wpc = "scan"
    /\ cursor \in DOMAIN apps
    /\ ~ Overdue(apps[cursor])
    /\ cursor' = cursor + 1
    /\ UNCHANGED <<wpc, due, apps, count, conf, synced, acked, since>>

\* locked: the update lock file of the application exists.
CheckOverdue(locked) ==
    /\ wpc = "scan"
    /\ cursor \in DOMAIN apps
    /\ Overdue(apps[cursor])
    /\ apps' = [apps EXCEPT ![cursor].age = 0]
    /\ IF locked
       THEN cursor' = cursor + 1 /\ UNCHANGED <<wpc, since>>
       ELSE /\ wpc' = "restart"
            /\ since' = [since EXCEPT ![apps[cursor].name] = 0]
            /\ UNCHANGED cursor
    /\ UNCHANGED <<due, count, conf, synced, acked>>

\* start_the_monitor_app: the effect on the processes is the environment's.
Restart ==
    /\ wpc = "restart"
    /\ wpc' = "scan"
    /\ cursor' = cursor + 1
    /\ UNCHANGED <<due, apps, count, conf, synced, acked, since>>

TimeoutEnd ==
    /\ wpc = "scan"
    /\ cursor = Len(apps) + 1
    /\ wpc' = "idle"
    /\ cursor' = 1
    /\ UNCHANGED <<due, apps, count, conf, synced, acked, since>>

\* One second passes.
Tick ==
    /\ due' = Up
    /\ apps' = [i \in DOMAIN apps |-> [apps[i] EXCEPT !.age = Older(@)]]
    /\ since' = [n \in Name |-> Older(since[n])]
    /\ UNCHANGED <<wpc, cursor, count, conf, synced, acked>>

-----------------------------------------------------------------------------
WdInit ==
    /\ wpc = "down"
    /\ cursor = 1
    /\ due = FALSE
    /\ apps = << >>
    /\ count = 0
    /\ conf = << >>
    /\ synced = TRUE
    /\ acked = [n \in Name |-> "none"]
    /\ since = [n \in Name |-> AgeCap]

WdNext ==
    \/ \E running \in Running : Start(running)
    \/ Crash
    \/ \E cl \in Client, w \in WirePeriod, c \in Cmd :
            Register(cl[1], cl[2], w, c)
    \/ \E cl \in Client, w \in WirePeriod, c \in Cmd :
            CrashInSave(cl[1], cl[2], w, c)
    \/ \E p \in Pid : Feed(p)
    \/ \E cl \in Client : UnregisterKnown(cl[1], cl[2])
    \/ \E p \in Pid : UnregisterUnknown(p)
    \/ TimeoutBegin
    \/ CheckFresh
    \/ \E locked \in BOOLEAN : CheckOverdue(locked)
    \/ Restart
    \/ TimeoutEnd
    \/ Tick

WdSpec == WdInit /\ [][WdNext]_WdVars

-----------------------------------------------------------------------------
(* Properties.                                                             *)

\* Every variable keeps its type: the list holds whole nodes with a positive
\* period, whatever a REGISTER datagram or a cut file said.
WdTypeOK ==
    /\ wpc \in {"down", "idle", "scan", "restart"}
    /\ cursor \in Nat \ {0}
    /\ due \in BOOLEAN
    /\ apps \in Seq(App)
    /\ count \in Nat
    /\ conf \in Seq(Line)
    /\ synced \in BOOLEAN
    /\ acked \in [Name -> {"none", "in", "out"}]
    /\ since \in [Name -> 0..AgeCap]

\* No application is monitored by two nodes, which would start it twice, and
\* monitored_apps_count is the length of the list, across registrations,
\* removals in the middle of the list, crashes and reloads of a cut file.
RegistryConsistent ==
    /\ \A i, j \in DOMAIN apps : apps[i].name = apps[j].name => i = j
    /\ count = Len(apps)

\* While no save has failed, a running daemon monitors nothing that its file
\* would not bring back: a crash at this point loses no application.
Persisted == Up /\ synced => NamesIn(apps) \subseteq NamesIn(conf)

\* An application whose last confirmed request is a REGISTER is monitored,
\* also after crashes of the daemon, unless a failed save lost the list.
RegisteredIsMonitored ==
    Up => \A n \in Name : acked[n] = "in" => n \in NamesIn(apps)

\* Two decisions to start one application are more than the time of its
\* missed feeds apart: "update the last feed time to avoid doubly starting
\* the app" (timeout_cb), whatever was registered, fed or locked in between.
StartsSpaced ==
    [][wpc = "scan" /\ wpc' = "restart" =>
        since[apps[cursor].name] > MaxMissed * apps[cursor].period]_WdVars

\* An application whose UNREGISTER was confirmed is not monitored again
\* until it registers: unregister_watchdog's caller reports that "Watchdog
\* will restart the app later" for the other outcome only.
UnregisteredStaysGone ==
    Up => \A n \in Name : acked[n] = "out" => n \notin NamesIn(apps)

\* The condition on the environment under which a process id identifies one
\* application: it fails when the system hands a dead process's id out again.
PidsUnshared ==
    \A a, b \in Client : a[2] = b[2] => a[1] = b[1]

\* The abstract registry, seen through the names in the list and in the file.
Abstract == INSTANCE Registry WITH
    up <- Up, monitored <- NamesIn(apps), saved <- NamesIn(conf)

\* The daemon keeps what Registry promises: each of its steps, the crashes in
\* the middle of a save and the removals from the middle of the list included,
\* enters or removes one application, saves, starts from the file, or changes
\* nothing that can be seen of the set.
RegistryKept == Abstract!RegistrySpec

-----------------------------------------------------------------------------
(* What the properties rest on: facts that every step preserves together.  *)

\* No name has two lines in the file, so none has two nodes after a load.
LinesDistinct == \A i, j \in DOMAIN conf : conf[i].name = conf[j].name => i = j

\* A node's feed is never older than the last decision to exec its name.
FedSinceStart == \A i \in DOMAIN apps : apps[i].age <= since[apps[i].name]

RegistryInv ==
    /\ WdTypeOK
    /\ RegistryConsistent
    /\ LinesDistinct
    /\ Persisted
    /\ FedSinceStart

\* The process id of a node is one its application has.
OwnPids ==
    \A i \in DOMAIN apps :
        apps[i].pid # NoPid => <<apps[i].name, apps[i].pid>> \in Client

\* What the file promises while the daemon is down.
RegisteredIsSaved ==
    synced => \A n \in Name : acked[n] = "in" => n \in NamesIn(conf)

PromiseInv ==
    /\ OwnPids
    /\ RegisteredIsSaved
    /\ RegisteredIsMonitored

=============================================================================
