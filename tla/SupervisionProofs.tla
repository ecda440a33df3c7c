-------------------------- MODULE SupervisionProofs -------------------------
(* Proofs about the whole system, for every value of its constants.  First *)
(* that Supervision implements Watchdog: the daemon among its applications *)
(* does nothing the daemon alone cannot do, so that what is proved about   *)
(* the daemon holds here.  Then, for a system that is Undisturbed, that an *)
(* application has one process, that what the daemon confirmed has a node, *)
(* and that a running process is not restarted.                            *)
EXTENDS Supervision, WatchdogProofs, FeedLemmas

-----------------------------------------------------------------------------
(* The daemon in the system.                                               *)

Programs == prog \in [Pid -> Name]

\* Every process runs one of the applications.
LEMMA ProgramsKept == SupSpec => []Programs
<1>1. SupInit => Programs
  BY SupConstants DEF SupInit, Programs
<1>2. Programs /\ [SupNext]_SupVars => Programs'
  <2> SUFFICES ASSUME Programs, [SupNext]_SupVars
               PROVE  Programs'
    OBVIOUS
  <2> USE DEF Programs, procVars
  <2>1. ASSUME NEW p \in Pid, NEW n \in Name, Spawn(p, n)
        PROVE  Programs'
    BY <2>1 DEF Spawn
  <2>2. ASSUME NEW p, Bury(p)
        PROVE  Programs'
    BY <2>2 DEF Bury
  <2>3. CASE Kill
    BY <2>2, <2>3 DEF Kill
  <2>4. CASE (\E p \in Pid, n \in Name : Boot(p, n)) \/ (\E p \in Pid : Exec(p))
    BY <2>1, <2>4 DEF Boot, Exec
  <2>5. CASE \E p \in Pid : AppDies(p)
    BY <2>2, <2>5 DEF AppDies
  <2>6. CASE \/ \E p \in Pid : AppHangs(p) \/ AppStep(p)
             \/ DaemonCrashes \/ Second \/ UNCHANGED SupVars
             \/ DaemonPublishes \/ DaemonScans
             \/ \E found \in Found, port \in Port : DaemonStarts(found, port)
             \/ \E p \in Pid : HandleRegister(p) \/ HandleFeed(p) \/ HandleStrayFeed(p)
    BY <2>6 DEF AppHangs, AppStep, AppOpens, AppTimeout, AppReceives, DaemonCrashes,
                Second, SupVars, DaemonPublishes, DaemonScans, DaemonStarts,
                HandleRegister, HandleFeed, HandleStrayFeed, Handles
  <2> QED BY <2>3, <2>4, <2>5, <2>6 DEF SupNext, DaemonStep
<1> QED BY <1>1, <1>2, PTL DEF SupSpec

\* The processes the daemon finds at its start are among those it may find.
LEMMA FoundAreClients == Found \subseteq Running
<1> SUFFICES ASSUME NEW r \in Found, NEW n \in Name, r[n] # NoPid
             PROVE  <<n, r[n]>> \in Client
  BY DEF Found, Running
<1>1. r[n] \in Pid
  BY DEF Found
<1> QED BY <1>1, SupConstants

\* Whatever the applications, the processes and the clock do, the daemon of
\* the whole system behaves as the daemon alone.
THEOREM DaemonInSystem == SupSpec => WdSpec
<1>1. SupInit => WdInit
  BY DEF SupInit
<1>2. Programs /\ [SupNext]_SupVars => [WdNext]_WdVars
  <2> SUFFICES ASSUME Programs, [SupNext]_SupVars
               PROVE  WdNext \/ UNCHANGED WdVars
    OBVIOUS
  <2>1. ASSUME NEW found \in Found, NEW port \in Port, DaemonStarts(found, port)
        PROVE  WdNext
    BY <2>1, FoundAreClients DEF DaemonStarts, WdNext
  <2>2. ASSUME NEW p \in Pid, HandleRegister(p)
        PROVE  WdNext
    <3>1. prog[p] \in Name
      BY DEF Programs
    <3>2. /\ <<prog[p], p>> \in Client
          /\ FeedPeriod[prog[p]] \in WirePeriod
          /\ CommandOf[prog[p]] \in Cmd
      BY <3>1, SupConstants
    <3>3. Register(<<prog[p], p>>[1], <<prog[p], p>>[2],
                   FeedPeriod[prog[p]], CommandOf[prog[p]])
      BY <2>2 DEF HandleRegister
    <3> QED BY <3>2, <3>3 DEF WdNext
  <2>3. ASSUME NEW p \in Pid, HandleFeed(p)
        PROVE  WdNext
    BY <2>3 DEF HandleFeed, WdNext
  <2>4. CASE DaemonScans
    BY <2>4 DEF DaemonScans, WdNext
  <2>5. CASE \E p \in Pid : Exec(p)
    BY <2>5 DEF Exec, WdNext
  <2>6. CASE DaemonCrashes
    BY <2>6 DEF DaemonCrashes, WdNext
  <2>7. CASE Second
    BY <2>7 DEF Second, WdNext
  <2>8. CASE \/ DaemonPublishes \/ Kill \/ UNCHANGED SupVars
             \/ \E p \in Pid : HandleStrayFeed(p)
             \/ \E p \in Pid, n \in Name : Boot(p, n)
             \/ \E p \in Pid : AppDies(p) \/ AppHangs(p) \/ AppStep(p)
    BY <2>8 DEF DaemonPublishes, Kill, SupVars, HandleStrayFeed, Boot, AppDies,
                AppHangs, AppStep, AppOpens, AppTimeout, AppReceives
  <2> QED BY <2>1, <2>2, <2>3, <2>4, <2>5, <2>6, <2>7, <2>8 DEF SupNext, DaemonStep
<1> QED BY <1>1, <1>2, ProgramsKept, PTL DEF SupSpec, WdSpec

\* In the whole system the monitored applications are the abstract registry,
\* and no application is started twice within the time of its missed feeds.
THEOREM SystemKeepsRegistry ==
    SupSpec => RegistryKept /\ []RegistryConsistent /\ []Persisted /\ StartsSpaced
BY DaemonInSystem, RegistryRefined, RegistryIsConsistent, ListIsPersisted,
   StartsAreSpaced, PTL

\* timeout_cb's place in the list: it stands on a node while it restarts it.
OnNode == wpc = "restart" => cursor \in DOMAIN apps

\* No node is removed under timeout_cb while it kills and starts a process.
LEMMA RestartsNode == WdSpec => []OnNode
<1>1. WdInit => OnNode
  BY DEF WdInit, OnNode
<1>2. WdTypeOK /\ OnNode /\ [WdNext]_WdVars => OnNode'
  <2> SUFFICES ASSUME WdTypeOK, OnNode, [WdNext]_WdVars, wpc' = "restart"
               PROVE  cursor' \in DOMAIN apps'
    BY DEF OnNode
  <2>1. CASE \E locked \in BOOLEAN : CheckOverdue(locked)
    <3>1. /\ cursor \in DOMAIN apps /\ cursor' = cursor
          /\ apps' = [apps EXCEPT ![cursor].age = 0]
      BY <2>1 DEF CheckOverdue
    <3> QED BY <3>1
  <2>2. CASE Tick
    BY <2>2 DEF Tick, OnNode
  <2>3. CASE UNCHANGED WdVars
    BY <2>3 DEF WdVars, OnNode
  <2> QED BY <2>1, <2>2, <2>3
          DEF WdNext, Start, Crash, LoseMemory, Register, CrashInSave, Feed,
              UnregisterKnown, UnregisterUnknown, TimeoutBegin, CheckFresh,
              Restart, TimeoutEnd
<1> QED BY <1>1, <1>2, TypeCorrect, PTL DEF WdSpec

-----------------------------------------------------------------------------
(* Types.                                                                  *)

\* What the composition adds to the types of the daemon.
SystemTypes ==
    /\ FcTypeOK
    /\ life \in [Pid -> {"runs", "hangs", "dead"}]
    /\ prog \in [Pid -> Name]
    /\ left \in [Pid -> Nat]
    /\ killed \in BOOLEAN

\* A process that starts has a program, a running timer and a new library.
LEMMA SpawnKeepsTypes ==
    ASSUME SystemTypes, NEW p \in Pid, NEW n \in Name, Spawn(p, n),
           killed' \in BOOLEAN
    PROVE  SystemTypes'
<1>1. FcTypeOK'
  BY ThreadKeepsTypes DEF Spawn, SystemTypes
<1>2. FeedPeriod[n] \in Nat
  BY SupConstants
<1> QED BY <1>1, <1>2 DEF Spawn, SystemTypes

\* A process that is gone leaves well typed variables behind.
LEMMA BuryKeepsTypes ==
    ASSUME SystemTypes, NEW p \in Pid, Bury(p), killed' \in BOOLEAN
    PROVE  SystemTypes'
<1>1. << >> \in Seq(Datagram) /\ Len(<< >>) = 0
  BY EmptySeq
<1>2. 0 \in 0..MaxMissFeedback /\ 0 \in 0..MaxFd /\ 0 <= Room
  BY FeedConstants, TransportConstants
<1>3. /\ inbox' \in [Pid -> Seq(Datagram)]
      /\ \A q \in Pid : Len(inbox'[q]) <= Room
  BY <1>1, <1>2 DEF SystemTypes, FcTypeOK, NetTypeOK, Bury
<1>4. FcTypeOK'
  BY <1>2, <1>3 DEF SystemTypes, FcTypeOK, NetTypeOK, Bury
<1> QED BY <1>4 DEF SystemTypes, Bury

\* A step of the feed thread of a running process.
LEMMA AppStepKeepsTypes ==
    ASSUME SystemTypes, NEW p \in Pid, AppStep(p)
    PROVE  SystemTypes'
<1>1. FcTypeOK'
  BY ThreadKeepsTypes DEF AppStep, AppOpens, AppTimeout, AppReceives, SystemTypes
<1>2. FeedPeriod[prog[p]] \in Nat
  BY SupConstants DEF SystemTypes
<1> QED BY <1>1, <1>2 DEF AppStep, AppOpens, AppTimeout, AppReceives, procVars, SystemTypes

\* A step of the daemon.
LEMMA DaemonStepKeepsTypes ==
    ASSUME SystemTypes, WdTypeOK, OnNode, DaemonStep
    PROVE  SystemTypes'
<1> USE DEF procVars
<1>1. ASSUME NEW found \in Found, NEW port \in Port, DaemonStarts(found, port)
      PROVE  SystemTypes'
  <2>1. FcTypeOK'
    BY <1>1, SocketKeepsTypes DEF DaemonStarts, SystemTypes
  <2> QED BY <1>1, <2>1 DEF DaemonStarts, SystemTypes
<1>2. CASE DaemonPublishes
  <2>1. FcTypeOK'
    BY <1>2, SocketKeepsTypes DEF DaemonPublishes, SystemTypes
  <2> QED BY <1>2, <2>1 DEF DaemonPublishes, SystemTypes
<1>3. ASSUME NEW p \in Pid, NEW cmd \in Request, NEW ok \in BOOLEAN,
             Handles(p, cmd, ok)
      PROVE  SystemTypes'
  <2>1. FcTypeOK'
    BY <1>3, AnswerKeepsTypes DEF Handles, SystemTypes
  <2> QED BY <1>3, <2>1 DEF Handles, SystemTypes
<1>4. CASE DaemonScans
  BY <1>4 DEF DaemonScans, SystemTypes, FcVars, feedVars, mainVars, netVars,
              FcTypeOK, NetTypeOK
<1>5. CASE Kill
  <2>1. CASE \E p \in Pid : Bury(p)
    BY <1>5, <2>1, BuryKeepsTypes DEF Kill
  <2>2. CASE UNCHANGED <<FcVars, procVars>>
    BY <1>5, <2>2 DEF Kill, SystemTypes, FcVars, feedVars, mainVars, netVars,
                      FcTypeOK, NetTypeOK
  <2>3. (\E p \in Pid : Bury(p)) \/ UNCHANGED <<FcVars, procVars>>
    <3>1. ASSUME apps[cursor].pid # NoPid, CommIs(apps[cursor].pid, apps[cursor].name)
          PROVE  apps[cursor].pid \in Pid
      <4>1. cursor \in DOMAIN apps
        BY <1>5 DEF Kill, OnNode
      <4> QED BY <3>1, <4>1, NodeTypes DEF App
    <3> QED BY <1>5, <3>1 DEF Kill
  <2> QED BY <2>1, <2>2, <2>3
<1>6. ASSUME NEW p \in Pid, Exec(p)
      PROVE  SystemTypes'
  BY <1>6, SpawnKeepsTypes DEF Exec
<1> QED BY <1>1, <1>2, <1>3, <1>4, <1>5, <1>6
        DEF DaemonStep, HandleRegister, HandleFeed, HandleStrayFeed, Request

\* Type correctness of the whole system: of the daemon, of the library of each
\* process, of the buffers between them and of the processes.
THEOREM SystemTypeCorrect == SupSpec => []SupTypeOK
<1>1. SupInit => SystemTypes
  <2>1. << >> \in Seq(Request) /\ << >> \in Seq(Datagram) /\ Len(<< >>) = 0
    BY EmptySeq
  <2>2. FcInit => FcTypeOK
    BY <2>1, FeedConstants, TransportConstants
       DEF FcInit, NetInit, FcTypeOK, NetTypeOK
  <2> SUFFICES ASSUME SupInit
               PROVE  SystemTypes
    OBVIOUS
  <2>3. prog \in [Pid -> Name] /\ left \in [Pid -> Nat]
    BY SupConstants DEF SupInit
  <2>4. life \in [Pid -> {"runs", "hangs", "dead"}]
    BY DEF SupInit
  <2>5. killed \in BOOLEAN
    BY DEF SupInit
  <2> QED BY <2>2, <2>3, <2>4, <2>5 DEF SupInit, SystemTypes
<1>2. SystemTypes /\ WdTypeOK /\ OnNode /\ [SupNext]_SupVars => SystemTypes'
  <2> SUFFICES ASSUME SystemTypes, WdTypeOK, OnNode, [SupNext]_SupVars
               PROVE  SystemTypes'
    OBVIOUS
  <2> USE DEF procVars
  <2>1. CASE \E p \in Pid, n \in Name : Boot(p, n)
    BY <2>1, SpawnKeepsTypes DEF Boot, SystemTypes
  <2>2. CASE \E p \in Pid : AppDies(p)
    BY <2>2, BuryKeepsTypes DEF AppDies, SystemTypes
  <2>3. CASE \E p \in Pid : AppStep(p)
    BY <2>3, AppStepKeepsTypes
  <2>4. CASE DaemonStep
    BY <2>4, DaemonStepKeepsTypes
  <2>5. CASE DaemonCrashes
    <3>1. FcTypeOK'
      BY <2>5, SocketKeepsTypes DEF DaemonCrashes, SystemTypes
    <3> QED BY <2>5, <3>1 DEF DaemonCrashes, SystemTypes
  <2>6. CASE (\E p \in Pid : AppHangs(p)) \/ Second \/ UNCHANGED SupVars
    <3>1. UNCHANGED FcVars
      BY <2>6 DEF AppHangs, Second, SupVars
    <3>2. FcTypeOK'
      BY <3>1 DEF FcVars, feedVars, mainVars, netVars, SystemTypes, FcTypeOK, NetTypeOK
    <3>3. left' \in [Pid -> Nat]
      <4>1. CASE Second
        <5>1. \A p \in Pid : life[p] = "runs" => left[p] \in Nat /\ left[p] > 0
          BY <4>1 DEF Second, Quiet, SystemTypes
        <5>2. \A p \in Pid : life[p] = "runs" => left[p] - 1 \in Nat
          BY <5>1
        <5> QED BY <4>1, <5>2 DEF Second, SystemTypes
      <4>2. CASE ~ Second
        BY <2>6, <4>2 DEF AppHangs, SupVars, SystemTypes
      <4> QED BY <4>1, <4>2
    <3> QED BY <2>6, <3>2, <3>3 DEF AppHangs, Second, SupVars, SystemTypes
  <2> QED BY <2>1, <2>2, <2>3, <2>4, <2>5, <2>6 DEF SupNext
<1>3. SystemTypes /\ WdTypeOK => SupTypeOK
  BY DEF SystemTypes, SupTypeOK
<1> QED BY <1>1, <1>2, <1>3, DaemonInSystem, TypeCorrect, RestartsNode, PTL DEF SupSpec

-----------------------------------------------------------------------------
(* InstanceInv: one process per application.                               *)

\* What is known of every state of an undisturbed system, before InstanceInv.
Calm == Undisturbed /\ SupTypeOK /\ RegistryInv /\ OnNode

\* A period is positive, is not changed on the wire, and is not longer than
\* the time after which a node with it, or with the default one, is overdue.
LEMMA Periods ==
    ASSUME Undisturbed, NEW n \in Name
    PROVE  /\ FeedPeriod[n] \in Nat \ {0}
           /\ EffectivePeriod(FeedPeriod[n]) = FeedPeriod[n]
           /\ FeedPeriod[n] <= MaxMissed * FeedPeriod[n]
           /\ FeedPeriod[n] <= MaxMissed * DefaultPeriod
           /\ FeedPeriod[n] < AgeCap
<1>1. /\ FeedPeriod[n] \in Nat \ {0} /\ FeedPeriod[n] \in WirePeriod
      /\ FeedPeriod[n] <= MaxMissed * DefaultPeriod
      /\ MaxMissed \in Nat \ {0}
  BY SupConstants, WdConstants DEF Undisturbed
<1>2. FeedPeriod[n] <= MaxMissed * FeedPeriod[n]
  <2>1. \A k \in Nat, m \in Nat \ {0} : k <= m * k
    OBVIOUS
  <2> QED BY <1>1, <2>1
<1>3. MaxMissed * FeedPeriod[n] < AgeCap /\ AgeCap \in Nat
  BY <1>1, WdConstants
<1>4. MaxMissed * FeedPeriod[n] \in Nat
  BY <1>1
<1> QED BY <1>1, <1>2, <1>3, <1>4 DEF EffectivePeriod

\* The parts of a node and of its process are in their ranges.
LEMMA Ranges ==
    ASSUME Calm, NEW i \in DOMAIN apps
    PROVE  /\ i \in Nat \ {0}
           /\ apps[i] \in App
           /\ apps[i].name \in Name
           /\ apps[i].pid \in Pid \union {NoPid}
           /\ apps[i].age \in Nat /\ apps[i].age <= AgeCap
           /\ \A j \in DOMAIN apps : apps[i].name = apps[j].name => i = j
<1>1. apps \in Seq(App) /\ apps[i] \in App
  BY NodeTypes DEF Calm, SupTypeOK, WdTypeOK
<1>2. i \in Nat \ {0}
  BY <1>1, LenProperties
<1>3. /\ apps[i].name \in Name
      /\ apps[i].pid \in Pid \union {NoPid}
      /\ apps[i].age \in Nat /\ apps[i].age <= AgeCap
  BY <1>1, WdConstants DEF App
<1>4. \A j \in DOMAIN apps : apps[i].name = apps[j].name => i = j
  BY DEF Calm, RegistryInv, RegistryConsistent
<1> QED BY <1>1, <1>2, <1>3, <1>4

\* A node that is no older than its application's period is not overdue.
LEMMA InTime ==
    ASSUME Calm, NodesOwn, NEW i \in DOMAIN apps,
           apps[i].age <= FeedPeriod[apps[i].name]
    PROVE  ~ Overdue(apps[i])
<1>1. apps[i].age \in Nat /\ apps[i].name \in Name
  BY Ranges
<1>2. \/ apps[i].period = DefaultPeriod
      \/ apps[i].period = FeedPeriod[apps[i].name]
  BY DEF NodesOwn
<1>3. MaxMissed * DefaultPeriod \in Nat /\ MaxMissed * FeedPeriod[apps[i].name] \in Nat
  BY <1>1, WdConstants, SupConstants
<1> QED BY <1>1, <1>2, <1>3, Periods DEF Overdue, Calm

SameProcess(p) ==
    /\ life'[p] = life[p] /\ prog'[p] = prog[p] /\ left'[p] = left[p]
    /\ reg'[p] = reg[p] /\ leaked'[p] = leaked[p]
    /\ chan'[p] = chan[p] /\ inbox'[p] = inbox[p]

\* A process that a step leaves alone is known to the nodes as before, however
\* young the step makes them.
LEMMA StillKnown ==
    ASSUME Calm, NEW p \in Pid, NEW i \in DOMAIN apps,
           SameProcess(p), Serving => Serving',
           apps'[i].name = apps[i].name, apps'[i].pid = apps[i].pid,
           apps'[i].age = apps[i].age \/ apps'[i].age = 0,
           apps[i].pid = p \/ WillRegister(p, apps[i])
    PROVE  apps'[i].pid = p \/ WillRegister(p, apps[i])'
<1>1. apps[i].age \in Nat /\ left[p] \in Nat /\ FeedPeriod[apps[i].name] \in Nat
  BY Ranges, SupConstants DEF Calm, SupTypeOK
<1> QED BY <1>1 DEF SameProcess, WillRegister

\* A process that starts is the only one of its application and starts afresh;
\* to the others and to the nodes nothing changes.
LEMMA SpawnIsFresh ==
    ASSUME Calm, InstanceInv, NEW p \in Pid, NEW n \in Name, Spawn(p, n),
           \A q \in Pid : ~ (Alive(q) /\ prog[q] = n),
           UNCHANGED <<apps, conf>>
    PROVE  /\ NodesOwn' /\ DeadAreGone' /\ OneInstance' /\ LateRequests'
           /\ Fresh(p)' /\ prog'[p] = n
           /\ UNCHANGED netVars
           /\ \A q \in Pid \ {p} : SameProcess(q)
           /\ WithPid(p) = {}
<1> USE DEF CreateFeedThread, Spawn, netVars
<1>1. /\ life \in [Pid -> {"runs", "hangs", "dead"}]
      /\ prog \in [Pid -> Name] /\ left \in [Pid -> Nat]
      /\ thread \in [Pid -> {"none", "starting", "loop", "ended"}]
      /\ reg \in [Pid -> {"not_conf", "has_conf"}]
  BY DEF Calm, SupTypeOK, FcTypeOK
<1>2. UNCHANGED netVars /\ UNCHANGED <<leaked>>
  OBVIOUS
<1>3. \A q \in Pid \ {p} : SameProcess(q) /\ thread'[q] = thread[q]
  BY <1>1, <1>2 DEF SameProcess
<1>4. /\ life'[p] = "runs" /\ prog'[p] = n /\ left'[p] = FeedPeriod[n]
      /\ reg'[p] = "not_conf" /\ ~ Alive(p)
  BY <1>1 DEF Alive
<1>5. Fresh(p)'
  BY <1>1, <1>2, <1>4 DEF InstanceInv, DeadAreGone, Fresh
<1>6. WithPid(p) = {}
  BY DEF Calm, Undisturbed
<1>7. NodesOwn'
  <2>1. ASSUME NEW i \in DOMAIN apps, apps[i].pid # NoPid
        PROVE  prog'[apps[i].pid] = apps[i].name
    <3>1. apps[i].pid \in Pid \ {p}
      BY <1>6, <2>1, Ranges DEF WithPid
    <3> QED BY <1>3, <2>1, <3>1 DEF InstanceInv, NodesOwn, SameProcess
  <2> QED BY <2>1 DEF InstanceInv, NodesOwn
<1>8. DeadAreGone'
  <2>1. FeedPeriod[n] \in Nat
    BY SupConstants
  <2> QED BY <1>2, <1>3, <1>4, <2>1 DEF InstanceInv, DeadAreGone, Alive, SameProcess
<1>9. OneInstance'
  BY <1>3, <1>4 DEF InstanceInv, OneInstance, Alive, SameProcess
<1>10. LateRequests'
  <2> SUFFICES ASSUME NEW x \in Pid, NEW q \in Pid, x # q, Alive(x)',
                      prog'[x] = prog'[q], chan'[q] # << >>
               PROVE  Fresh(x)'
    BY DEF LateRequests
  <2>1. CASE x = p
    BY <1>5, <2>1
  <2>2. CASE x # p
    <3>1. q # p
      BY <1>2
    <3> QED BY <1>3, <2>2, <3>1 DEF InstanceInv, LateRequests, Alive, SameProcess, Fresh
  <2> QED BY <2>1, <2>2
<1> QED BY <1>2, <1>3, <1>4, <1>5, <1>6, <1>7, <1>8, <1>9, <1>10

\* The operator starts only an application that is not monitored.
LEMMA BootIsSafe ==
    ASSUME Calm, InstanceInv, NEW p \in Pid, NEW n \in Name, Boot(p, n)
    PROVE  InstanceInv'
<1>1. /\ UNCHANGED WdVars /\ UNCHANGED <<killed, crashes>>
      /\ Spawn(p, n) /\ \A q \in Pid : ~ (Alive(q) /\ prog[q] = n)
      /\ n \notin NamesIn(apps)
  BY DEF Boot, boundVars
<1>2. /\ NodesOwn' /\ DeadAreGone' /\ OneInstance' /\ LateRequests'
      /\ prog'[p] = n /\ UNCHANGED netVars
      /\ \A q \in Pid \ {p} : SameProcess(q)
  BY <1>1, SpawnIsFresh DEF WdVars
<1>3. UNCHANGED <<wpc, cursor, apps, conf>>
  BY <1>1 DEF WdVars
<1>4. \A i \in DOMAIN apps : apps[i].name # n
  BY <1>1 DEF NamesIn
<1>5. DaemonPlaces'
  BY <1>1, <1>2, <1>3 DEF InstanceInv, DaemonPlaces, Up, Serving, netVars
<1>6. NodeKnowsProcess'
  <2> SUFFICES ASSUME NEW x \in Pid, NEW i \in DOMAIN apps, Alive(x)',
                      prog'[x] = apps[i].name
               PROVE  apps'[i].pid = x \/ WillRegister(x, apps[i])'
    BY <1>3 DEF NodeKnowsProcess
  <2>1. x # p
    BY <1>2, <1>4
  <2>2. SameProcess(x) /\ (Serving => Serving')
    BY <1>2, <2>1 DEF Serving, netVars
  <2>3. apps[i].pid = x \/ WillRegister(x, apps[i])
    BY <2>2 DEF InstanceInv, NodeKnowsProcess, SameProcess, Alive
  <2> QED BY <1>3, <2>2, <2>3, StillKnown
<1>7. RestartIsSafe'
  <2> SUFFICES ASSUME wpc = "restart", NEW x \in Pid, Alive(x)',
                      prog'[x] = apps[cursor].name
               PROVE  ~ killed /\ apps[cursor].pid = x
    BY <1>1, <1>3 DEF RestartIsSafe
  <2>1. cursor \in DOMAIN apps
    BY DEF Calm, OnNode
  <2>2. SameProcess(x)
    BY <1>2, <1>4, <2>1
  <2> QED BY <2>2 DEF InstanceInv, RestartIsSafe, SameProcess, Alive
<1> QED BY <1>2, <1>5, <1>6, <1>7 DEF InstanceInv

\* The command of an overdue application is run after its old process is gone,
\* and the new one will register before the node is overdue again.
LEMMA ExecIsSafe ==
    ASSUME Calm, InstanceInv, NEW p \in Pid, Exec(p)
    PROVE  InstanceInv'
<1>1. /\ killed /\ killed' = FALSE /\ wpc = "restart" /\ wpc' = "scan"
      /\ UNCHANGED <<apps, conf, crashes>>
  BY DEF Exec, Restart, boundVars
<1>2. PICK n \in Name : CommandOf[n] = apps[cursor].cmd /\ Spawn(p, n)
  BY DEF Exec
<1>3. cursor \in DOMAIN apps
  BY <1>1 DEF Calm, OnNode
<1>4. n = apps[cursor].name
  <2>1. apps[cursor].name \in Name
    BY <1>3, Ranges
  <2> QED BY <1>2, <1>3, <2>1, SupConstants DEF InstanceInv, NodesOwn
<1>5. \A q \in Pid : ~ (Alive(q) /\ prog[q] = n)
  BY <1>1, <1>4 DEF InstanceInv, RestartIsSafe
<1>6. /\ NodesOwn' /\ DeadAreGone' /\ OneInstance' /\ LateRequests'
      /\ Fresh(p)' /\ prog'[p] = n /\ UNCHANGED netVars
      /\ \A q \in Pid \ {p} : SameProcess(q)
  BY <1>1, <1>2, <1>5, SpawnIsFresh
<1>7. Serving /\ Serving'
  BY <1>1, <1>6 DEF InstanceInv, DaemonPlaces, Serving, netVars
<1>8. DaemonPlaces'
  <2>1. killed' => wpc' = "restart"
    BY <1>1
  <2> QED BY <1>1, <1>6, <1>7, <2>1 DEF InstanceInv, DaemonPlaces, Up, netVars
<1>9. NodeKnowsProcess'
  <2> SUFFICES ASSUME NEW x \in Pid, NEW i \in DOMAIN apps, Alive(x)',
                      prog'[x] = apps[i].name
               PROVE  apps'[i].pid = x \/ WillRegister(x, apps[i])'
    BY <1>1 DEF NodeKnowsProcess
  <2>1. CASE x = p
    <3>1. i = cursor
      BY <1>3, <1>4, <1>6, <2>1, Ranges
    <3>2. apps[i].age = 0 /\ FeedPeriod[n] \in Nat
      BY <1>1, <3>1, SupConstants DEF InstanceInv, DaemonPlaces
    <3> QED BY <1>1, <1>4, <1>6, <1>7, <2>1, <3>1, <3>2 DEF Fresh, WillRegister
  <2>2. CASE x # p
    <3>1. SameProcess(x)
      BY <1>6, <2>2
    <3>2. apps[i].pid = x \/ WillRegister(x, apps[i])
      BY <3>1 DEF InstanceInv, NodeKnowsProcess, SameProcess, Alive
    <3> QED BY <1>1, <1>7, <3>1, <3>2, StillKnown
  <2> QED BY <2>1, <2>2
<1>10. RestartIsSafe'
  BY <1>1 DEF RestartIsSafe
<1> QED BY <1>6, <1>8, <1>9, <1>10 DEF InstanceInv

\* A process that is gone takes nothing from the others.
LEMMA BuryIsSafe ==
    ASSUME Calm, InstanceInv, NEW p \in Pid, Bury(p),
           UNCHANGED <<apps, conf>>
    PROVE  /\ NodesOwn' /\ DeadAreGone' /\ OneInstance' /\ LateRequests'
           /\ NodeKnowsProcess'
           /\ UNCHANGED <<prog, live, portFile, chan>>
           /\ \A q \in Pid \ {p} : SameProcess(q)
           /\ life' = [life EXCEPT ![p] = "dead"] /\ ~ Alive(p)'
<1> USE DEF Bury
<1>1. /\ life \in [Pid -> {"runs", "hangs", "dead"}]
      /\ prog \in [Pid -> Name] /\ left \in [Pid -> Nat]
      /\ thread \in [Pid -> {"none", "starting", "loop", "ended"}]
      /\ reg \in [Pid -> {"not_conf", "has_conf"}]
      /\ leaked \in [Pid -> 0..MaxFd] /\ inbox \in [Pid -> Seq(Datagram)]
  BY DEF Calm, SupTypeOK, FcTypeOK, NetTypeOK
<1>2. UNCHANGED <<prog, live, portFile, chan>>
  OBVIOUS
<1>3. \A q \in Pid \ {p} : SameProcess(q) /\ thread'[q] = thread[q]
  BY <1>1, <1>2 DEF SameProcess
<1>4. /\ ~ Alive(p)' /\ left'[p] = 0 /\ thread'[p] = "none"
      /\ reg'[p] = "not_conf" /\ leaked'[p] = 0 /\ inbox'[p] = << >>
  BY <1>1 DEF Alive
<1>5. NodesOwn'
  BY <1>2 DEF InstanceInv, NodesOwn
<1>6. DeadAreGone'
  <2>1. \A n \in Name : FeedPeriod[n] \in Nat
    BY SupConstants
  <2>2. 0 <= FeedPeriod[prog[p]]
    BY <1>1, <2>1
  <2> QED BY <1>2, <1>3, <1>4, <2>2 DEF InstanceInv, DeadAreGone, Alive, SameProcess
<1>7. OneInstance'
  BY <1>3, <1>4 DEF InstanceInv, OneInstance, Alive, SameProcess
<1>8. LateRequests'
  BY <1>2, <1>3, <1>4 DEF InstanceInv, LateRequests, Alive, SameProcess, Fresh
<1>9. NodeKnowsProcess'
  <2> SUFFICES ASSUME NEW x \in Pid, NEW i \in DOMAIN apps, Alive(x)',
                      prog'[x] = apps[i].name
               PROVE  apps'[i].pid = x \/ WillRegister(x, apps[i])'
    BY DEF NodeKnowsProcess
  <2>1. SameProcess(x)
    BY <1>3, <1>4
  <2>2. apps[i].pid = x \/ WillRegister(x, apps[i])
    BY <2>1 DEF InstanceInv, NodeKnowsProcess, SameProcess, Alive
  <2> QED BY <1>2, <2>1, <2>2, StillKnown DEF Serving
<1> QED BY <1>2, <1>3, <1>4, <1>5, <1>6, <1>7, <1>8, <1>9

\* An application may die at any time.
LEMMA DeathIsSafe ==
    ASSUME Calm, InstanceInv, NEW p \in Pid, AppDies(p)
    PROVE  InstanceInv'
<1>1. /\ UNCHANGED WdVars /\ UNCHANGED <<killed, crashes>> /\ Bury(p)
  BY DEF AppDies
<1>2. UNCHANGED <<wpc, cursor, apps, conf>>
  BY <1>1 DEF WdVars
<1>3. /\ NodesOwn' /\ DeadAreGone' /\ OneInstance' /\ LateRequests'
      /\ NodeKnowsProcess'
      /\ UNCHANGED <<prog, live, portFile, chan>>
      /\ \A q \in Pid \ {p} : SameProcess(q)
      /\ ~ Alive(p)'
  BY <1>1, <1>2, BuryIsSafe
<1>4. DaemonPlaces'
  BY <1>1, <1>2, <1>3 DEF InstanceInv, DaemonPlaces, Up, Serving
<1>5. RestartIsSafe'
  BY <1>1, <1>2, <1>3 DEF InstanceInv, RestartIsSafe, Alive, SameProcess
<1> QED BY <1>3, <1>4, <1>5 DEF InstanceInv

\* start_the_monitor_app kills the only process the application can have.
LEMMA KillIsSafe ==
    ASSUME Calm, InstanceInv, Kill
    PROVE  InstanceInv'
<1> DEFINE p == apps[cursor].pid
           n == apps[cursor].name
<1>1. /\ wpc = "restart" /\ ~ killed /\ killed' = TRUE
      /\ UNCHANGED WdVars /\ UNCHANGED crashes
  BY DEF Kill, boundVars
<1>2. UNCHANGED <<wpc, cursor, apps, conf>>
  BY <1>1 DEF WdVars
<1>3. cursor \in DOMAIN apps
  BY <1>1 DEF Calm, OnNode
<1>4. CASE p # NoPid /\ CommIs(p, n)
  <2>1. p \in Pid
    BY <1>3, <1>4, Ranges
  <2>2. Bury(p)
    BY <1>4 DEF Kill
  <2>3. /\ NodesOwn' /\ DeadAreGone' /\ OneInstance' /\ LateRequests'
        /\ NodeKnowsProcess'
        /\ UNCHANGED <<prog, live, portFile, chan>>
        /\ \A q \in Pid \ {p} : SameProcess(q)
        /\ ~ Alive(p)'
    BY <1>2, <2>1, <2>2, BuryIsSafe
  <2>4. DaemonPlaces'
    BY <1>1, <1>2, <2>3 DEF InstanceInv, DaemonPlaces, Up, Serving
  <2>5. ASSUME NEW x \in Pid, Alive(x)', prog'[x] = apps[cursor].name
        PROVE  FALSE
    <3>1. x # p /\ Alive(x) /\ prog[x] = apps[cursor].name
      BY <1>2, <2>3, <2>5 DEF SameProcess, Alive
    <3> QED BY <1>1, <3>1 DEF InstanceInv, RestartIsSafe
  <2>6. RestartIsSafe'
    BY <1>2, <2>5 DEF RestartIsSafe
  <2> QED BY <2>3, <2>4, <2>6 DEF InstanceInv
<1>5. CASE ~ (p # NoPid /\ CommIs(p, n))
  <2>1. UNCHANGED <<FcVars, procVars>>
    BY <1>5 DEF Kill
  <2>2. UNCHANGED <<life, prog, left, thread, reg, leaked, live, portFile, chan, inbox>>
    BY <2>1 DEF FcVars, feedVars, netVars, procVars
  <2>3. ASSUME NEW x \in Pid, Alive(x), prog[x] = n
        PROVE  FALSE
    <3>1. p = x
      BY <1>1, <2>3 DEF InstanceInv, RestartIsSafe
    <3>2. n \in Name /\ n \notin LongName
      BY <1>3, Ranges DEF Calm, Undisturbed
    <3> QED BY <1>5, <2>3, <3>1, <3>2, WdConstants DEF CommIs
  <2>4. RestartIsSafe'
    BY <1>2, <2>2, <2>3 DEF RestartIsSafe, Alive
  <2>5. DaemonPlaces'
    BY <1>1, <1>2, <2>2 DEF InstanceInv, DaemonPlaces, Up, Serving
  <2>6. NodesOwn' /\ DeadAreGone' /\ OneInstance'
    BY <1>2, <2>2 DEF InstanceInv, NodesOwn, DeadAreGone, OneInstance, Alive
  <2>7. LateRequests'
    BY <2>2 DEF InstanceInv, LateRequests, Fresh, Alive
  <2>8. NodeKnowsProcess'
    BY <1>2, <2>2 DEF InstanceInv, NodeKnowsProcess, WillRegister, Serving, Alive
  <2> QED BY <2>4, <2>5, <2>6, <2>7, <2>8 DEF InstanceInv
<1> QED BY <1>4, <1>5

\* An application hangs after its first REGISTER was confirmed.
LEMMA HangIsSafe ==
    ASSUME Calm, InstanceInv, NEW p \in Pid, AppHangs(p)
    PROVE  InstanceInv'
<1>1. /\ UNCHANGED WdVars /\ UNCHANGED FcVars /\ UNCHANGED <<prog, left, killed, crashes>>
      /\ life[p] = "runs" /\ life' = [life EXCEPT ![p] = "hangs"]
      /\ reg[p] = "has_conf"
  BY DEF AppHangs, Calm, Undisturbed
<1>2. UNCHANGED <<wpc, cursor, apps, conf, thread, reg, leaked, live, portFile, chan, inbox>>
  BY <1>1 DEF WdVars, FcVars, feedVars, netVars
<1>3. /\ life \in [Pid -> {"runs", "hangs", "dead"}]
      /\ reg \in [Pid -> {"not_conf", "has_conf"}]
  BY DEF Calm, SupTypeOK, FcTypeOK
<1>4. \A q \in Pid : Alive(q)' <=> Alive(q)
  BY <1>1, <1>3 DEF Alive
<1>5. \A q \in Pid : reg[q] = "not_conf" => life'[q] = life[q]
  BY <1>1, <1>3
<1>6. DaemonPlaces'
  BY <1>1, <1>2 DEF InstanceInv, DaemonPlaces, Up, Serving
<1>7. NodesOwn' /\ DeadAreGone' /\ OneInstance' /\ RestartIsSafe'
  BY <1>1, <1>2, <1>4 DEF InstanceInv, NodesOwn, DeadAreGone, OneInstance, RestartIsSafe
<1>8. LateRequests'
  BY <1>1, <1>2, <1>4, <1>5 DEF InstanceInv, LateRequests, Fresh
<1>9. NodeKnowsProcess'
  BY <1>1, <1>2, <1>4, <1>5 DEF InstanceInv, NodeKnowsProcess, WillRegister, Serving
<1> QED BY <1>6, <1>7, <1>8, <1>9 DEF InstanceInv

\* A step of a feed thread concerns its own process, and sends nothing to a
\* daemon that is down.
LEMMA ThreadStaysHome ==
    ASSUME Calm, NEW p \in Pid, AppStep(p)
    PROVE  /\ UNCHANGED WdVars
           /\ UNCHANGED <<live, portFile, life, prog, killed, crashes>>
           /\ \A q \in Pid \ {p} : SameProcess(q) /\ thread'[q] = thread[q]
           /\ \A q \in Pid \ {p} : server'[q] = server[q] /\ miss'[q] = miss[q]
           /\ life[p] = "runs"
           /\ live = None => UNCHANGED chan
<1> USE DEF AppStep, AppOpens, AppTimeout, AppReceives, OpenSocket, FeedTimeout,
            TimeoutRegister, TimeoutFeed, TimeoutGiveUp, ReceiveDatagram, Receives,
            OnRegisterReply, OnFeedReply, OnSelfUnregister, OnUnregisterReply,
            procVars, boundVars, netVars
<1>1. /\ UNCHANGED WdVars
      /\ UNCHANGED <<live, portFile, life, prog, killed, crashes>>
      /\ life[p] = "runs"
  OBVIOUS
<1>2. /\ \A q \in Pid \ {p} : chan'[q] = chan[q] /\ leaked'[q] = leaked[q]
      /\ \A q \in Pid \ {p} : server'[q] = server[q]
      /\ live = None => UNCHANGED chan
  <2>1. CASE SendRegister(p)
    BY <2>1 DEF SendRegister, SendTo, Calm, SupTypeOK, FcTypeOK, NetTypeOK
  <2>2. CASE \E cmd \in Request : SendAction(p, cmd)
    BY <2>2 DEF SendAction, SendTo, Calm, SupTypeOK, FcTypeOK, NetTypeOK
  <2>3. CASE UNCHANGED <<chan, leaked, server>>
    BY <2>3
  <2> QED BY <2>1, <2>2, <2>3 DEF Request
<1>3. \A q \in Pid \ {p} : left'[q] = left[q] /\ thread'[q] = thread[q]
  BY DEF Calm, SupTypeOK, FcTypeOK
<1>4. \A q \in Pid \ {p} : reg'[q] = reg[q] /\ miss'[q] = miss[q]
  BY DEF Calm, SupTypeOK, FcTypeOK
<1>5. \A q \in Pid \ {p} : inbox'[q] = inbox[q]
  BY DEF Calm, SupTypeOK, FcTypeOK, NetTypeOK
<1> QED BY <1>1, <1>2, <1>3, <1>4, <1>5 DEF SameProcess

\* What a step of a feed thread preserves whatever it sends: no other process
\* of the application lives, so nobody minds a new request.
LEMMA ThreadKeeps ==
    ASSUME Calm, InstanceInv, NEW p \in Pid, AppStep(p),
           left'[p] <= FeedPeriod[prog[p]],
           Fresh(p) => Fresh(p)',
           \A i \in DOMAIN apps :
                WillRegister(p, apps[i]) /\ prog[p] = apps[i].name =>
                    WillRegister(p, apps[i])'
    PROVE  InstanceInv'
<1>1. /\ UNCHANGED WdVars
      /\ UNCHANGED <<live, portFile, life, prog, killed, crashes>>
      /\ \A q \in Pid \ {p} : SameProcess(q) /\ thread'[q] = thread[q]
      /\ life[p] = "runs"
      /\ live = None => UNCHANGED chan
  BY ThreadStaysHome
<1>2. UNCHANGED <<wpc, cursor, apps, conf>>
  BY <1>1 DEF WdVars
<1>3. DaemonPlaces'
  BY <1>1, <1>2 DEF InstanceInv, DaemonPlaces, Up, Serving
<1>4. NodesOwn' /\ OneInstance' /\ RestartIsSafe'
  BY <1>1, <1>2 DEF InstanceInv, NodesOwn, OneInstance, RestartIsSafe, Alive
<1>5. DeadAreGone'
  <2> SUFFICES ASSUME NEW q \in Pid
               PROVE  /\ ~ Alive(q)' => /\ thread'[q] = "none" /\ reg'[q] = "not_conf"
                                        /\ leaked'[q] = 0 /\ inbox'[q] = << >>
                      /\ left'[q] <= FeedPeriod[prog'[q]]
    BY DEF DeadAreGone
  <2>1. CASE q = p
    BY <1>1, <2>1 DEF Alive
  <2>2. CASE q # p
    BY <1>1, <2>2 DEF InstanceInv, DeadAreGone, Alive, SameProcess
  <2> QED BY <2>1, <2>2
<1>6. LateRequests'
  <2> SUFFICES ASSUME NEW x \in Pid, NEW q \in Pid, x # q, Alive(x)',
                      prog'[x] = prog'[q], chan'[q] # << >>
               PROVE  Fresh(x)'
    BY DEF LateRequests
  <2>1. Alive(x) /\ Alive(p) /\ prog[x] = prog[q]
    BY <1>1, <1>2 DEF Alive
  <2>2. q # p
    BY <2>1 DEF InstanceInv, OneInstance
  <2>3. Fresh(x)
    BY <1>1, <2>1, <2>2 DEF InstanceInv, LateRequests, SameProcess
  <2>4. CASE x = p
    BY <2>3, <2>4
  <2>5. CASE x # p
    BY <1>1, <2>3, <2>5 DEF Fresh, SameProcess
  <2> QED BY <2>4, <2>5
<1>7. NodeKnowsProcess'
  <2> SUFFICES ASSUME NEW x \in Pid, NEW i \in DOMAIN apps, Alive(x)',
                      prog'[x] = apps[i].name
               PROVE  apps'[i].pid = x \/ WillRegister(x, apps[i])'
    BY <1>2 DEF NodeKnowsProcess
  <2>1. Alive(x) /\ prog[x] = apps[i].name
    BY <1>1 DEF Alive
  <2>2. apps[i].pid = x \/ WillRegister(x, apps[i])
    BY <2>1 DEF InstanceInv, NodeKnowsProcess
  <2>3. CASE x = p
    BY <1>2, <2>1, <2>2, <2>3
  <2>4. CASE x # p
    BY <1>1, <1>2, <2>2, <2>4, StillKnown DEF Serving
  <2> QED BY <2>3, <2>4
<1> QED BY <1>3, <1>4, <1>5, <1>6, <1>7 DEF InstanceInv

\* A REGISTER to a daemon that serves arrives.
LEMMA RegisterArrives ==
    ASSUME Calm, NEW p \in Pid, SendRegister(p), Serving,
           leaked[p] # MaxFd, chan[p] = << >>
    PROVE  chan'[p] = <<"register">> /\ server'[p] = live
<1>1. portFile = live /\ live # None /\ live # Empty
  BY TransportConstants DEF Serving, Calm, SupTypeOK, FcTypeOK, NetTypeOK
<1>2. Queued(<< >>, "register") = <<"register">>
  BY TransportConstants DEF Queued
<1>3. /\ chan' = [chan EXCEPT ![p] = Queued(@, "register")]
      /\ server' = [server EXCEPT ![p] = portFile]
  BY <1>1 DEF SendRegister, SendTo
<1> QED BY <1>1, <1>2, <1>3 DEF Calm, SupTypeOK, FcTypeOK, NetTypeOK

\* At the first timeout of its feed timer a process registers.
LEMMA TimeoutIsSafe ==
    ASSUME Calm, InstanceInv, NEW p \in Pid, AppTimeout(p)
    PROVE  InstanceInv'
<1>1. /\ life[p] = "runs" /\ left[p] = 0 /\ left' = [left EXCEPT ![p] = FeedPeriod[prog[p]]]
      /\ FeedTimeout(p) /\ AppStep(p)
      /\ UNCHANGED <<life, prog>> /\ UNCHANGED WdVars
  BY DEF AppTimeout, AppStep
<1>2. /\ prog[p] \in Name /\ FeedPeriod[prog[p]] \in Nat \ {0}
      /\ left'[p] = FeedPeriod[prog[p]]
  BY <1>1, SupConstants DEF Calm, SupTypeOK
<1>3. ~ Fresh(p)
  BY <1>1, <1>2 DEF Fresh
<1>4. ASSUME NEW i \in DOMAIN apps, WillRegister(p, apps[i]), prog[p] = apps[i].name
      PROVE  WillRegister(p, apps[i])'
  <2>1. apps[i].age \in Nat
    BY Ranges
  <2>2. /\ Serving /\ reg[p] = "not_conf" /\ inbox[p] = << >>
        /\ leaked[p] = 0 /\ chan[p] = << >>
        /\ apps[i].age <= FeedPeriod[apps[i].name]
    BY <1>1, <1>4, <2>1 DEF WillRegister
  <2>3. TimeoutRegister(p)
    BY <1>1, <2>2 DEF FeedTimeout, TimeoutFeed, TimeoutGiveUp
  <2>4. MaxFd # 0
    BY FeedConstants DEF Calm, Undisturbed
  <2>5. chan'[p] = <<"register">>
    BY <2>2, <2>3, <2>4, RegisterArrives DEF TimeoutRegister
  <2>6. Serving' /\ reg'[p] = "not_conf" /\ inbox'[p] = << >>
    BY <2>2, <2>3 DEF TimeoutRegister, Serving
  <2>7. UNCHANGED apps
    BY <1>1 DEF WdVars
  <2> QED BY <1>1, <1>2, <2>2, <2>5, <2>6, <2>7 DEF WillRegister
<1> QED BY <1>1, <1>2, <1>3, <1>4, ThreadKeeps

\* The other steps of a feed thread: a process that got an answer has already
\* registered.
LEMMA ThreadIsSafe ==
    ASSUME Calm, InstanceInv, NEW p \in Pid, AppOpens(p) \/ AppReceives(p)
    PROVE  InstanceInv'
<1>1. AppStep(p) /\ left' = left
  BY DEF AppStep, AppOpens, AppReceives, procVars
<1>2. left'[p] <= FeedPeriod[prog[p]]
  BY <1>1 DEF InstanceInv, DeadAreGone
<1>3. CASE AppOpens(p)
  <2>1. UNCHANGED <<life, prog, left, reg, leaked, chan, inbox, live, portFile, apps>>
    BY <1>3 DEF AppOpens, OpenSocket, procVars, netVars, WdVars
  <2> QED BY <1>1, <1>2, <2>1, ThreadKeeps DEF Fresh, WillRegister, Serving
<1>4. CASE AppReceives(p)
  <2>1. inbox[p] # << >>
    BY <1>4 DEF AppReceives, ReceiveDatagram, Receives, OnRegisterReply, OnFeedReply,
                OnSelfUnregister, OnUnregisterReply
  <2> QED BY <1>1, <1>2, <2>1, ThreadKeeps DEF Fresh, WillRegister
<1> QED BY <1>3, <1>4

\* A daemon that starts finds the one process of each application.
LEMMA StartIsSafe ==
    ASSUME Calm, InstanceInv, NEW found \in Found, NEW port \in Port,
           DaemonStarts(found, port)
    PROVE  InstanceInv'
<1>1. /\ wpc = "down" /\ wpc' = "idle" /\ live' = port /\ apps' = Loaded(found)
      /\ UNCHANGED <<conf, chan, inbox, crashes, killed>>
      /\ UNCHANGED <<life, prog, left, thread, reg, leaked>>
  BY DEF DaemonStarts, Start, BindPort, feedVars, procVars
<1>2. /\ DOMAIN apps' = DOMAIN conf
      /\ \A i \in DOMAIN conf :
            /\ apps'[i].name = conf[i].name
            /\ apps'[i].cmd = Reloaded[conf[i].cmd]
            /\ apps'[i].period = DefaultPeriod
            /\ apps'[i].pid = found[conf[i].name]
  BY <1>1 DEF Loaded
<1>3. \A i \in DOMAIN conf : conf[i].name \in Name
  <2>1. \A i \in DOMAIN conf : conf[i] \in Line
    BY ElementOfSeq, LenProperties DEF Calm, SupTypeOK, WdTypeOK
  <2> QED BY <2>1 DEF Line
<1>4. \A q \in Pid : chan[q] = << >>
  BY <1>1 DEF InstanceInv, DaemonPlaces, Up
<1>5. DaemonPlaces'
  <2>1. ~ killed
    BY <1>1 DEF InstanceInv, DaemonPlaces
  <2>2. ~ killed'
    BY <1>1, <2>1
  <2>3. live' # None
    BY <1>1, TransportConstants
  <2> QED BY <1>1, <2>2, <2>3 DEF InstanceInv, DaemonPlaces, Up
<1>6. NodesOwn'
  <2>1. ASSUME NEW i \in DOMAIN conf
        PROVE  /\ apps'[i].cmd = CommandOf[apps'[i].name]
               /\ apps'[i].period \in {DefaultPeriod, FeedPeriod[apps'[i].name]}
               /\ apps'[i].pid # NoPid => prog'[apps'[i].pid] = apps'[i].name
    <3>1. conf[i].cmd = CommandOf[conf[i].name]
      BY DEF InstanceInv, NodesOwn
    <3>2. Reloaded[conf[i].cmd] = CommandOf[conf[i].name]
      BY <1>3, <3>1 DEF Calm, Undisturbed
    <3>3. found[conf[i].name] # NoPid => prog[found[conf[i].name]] = conf[i].name
      BY <1>3 DEF Found, CommIs
    <3> QED BY <1>1, <1>2, <3>2, <3>3
  <2> QED BY <1>1, <1>2, <2>1 DEF InstanceInv, NodesOwn
<1>7. DeadAreGone' /\ OneInstance'
  BY <1>1 DEF InstanceInv, DeadAreGone, OneInstance, Alive
<1>8. LateRequests'
  BY <1>1, <1>4 DEF LateRequests
<1>9. NodeKnowsProcess'
  <2> SUFFICES ASSUME NEW x \in Pid, NEW i \in DOMAIN conf, Alive(x),
                      prog[x] = conf[i].name
               PROVE  apps'[i].pid = x
    BY <1>1, <1>2 DEF NodeKnowsProcess, Alive
  <2>1. CommIs(x, conf[i].name)
    BY <1>3 DEF CommIs, Calm, Undisturbed
  <2>2. found[conf[i].name] \in Pid /\ CommIs(found[conf[i].name], conf[i].name)
    BY <1>3, <2>1 DEF Found
  <2>3. found[conf[i].name] = x
    BY <2>1, <2>2 DEF CommIs, InstanceInv, OneInstance
  <2> QED BY <1>2, <2>3
<1>10. RestartIsSafe'
  BY <1>1 DEF RestartIsSafe
<1> QED BY <1>5, <1>6, <1>7, <1>8, <1>9, <1>10 DEF InstanceInv

\* The port becomes known; a daemon that dies takes list and requests along.
LEMMA SocketIsSafe ==
    ASSUME Calm, InstanceInv, DaemonPublishes \/ DaemonCrashes
    PROVE  InstanceInv'
<1> USE DEF feedVars, procVars
<1>1. CASE DaemonPublishes
  <2>1. /\ UNCHANGED <<wpc, cursor, apps, conf, crashes, killed, live, chan, inbox>>
        /\ UNCHANGED <<life, prog, left, thread, reg, leaked>>
        /\ ~ Serving /\ Serving'
    BY <1>1 DEF DaemonPublishes, PublishPort, WdVars, boundVars, Serving
  <2>2. DaemonPlaces' /\ RestartIsSafe'
    BY <2>1 DEF InstanceInv, DaemonPlaces, RestartIsSafe, Up
  <2>3. NodesOwn' /\ DeadAreGone' /\ OneInstance'
    BY <2>1 DEF InstanceInv, NodesOwn, DeadAreGone, OneInstance, Alive
  <2>4. LateRequests'
    BY <2>1 DEF InstanceInv, LateRequests, Alive, Fresh
  <2>5. NodeKnowsProcess'
    BY <2>1 DEF InstanceInv, NodeKnowsProcess, Alive, WillRegister
  <2> QED BY <2>2, <2>3, <2>4, <2>5 DEF InstanceInv
<1>2. CASE DaemonCrashes
  <2>1. /\ wpc' = "down" /\ apps' = << >> /\ live' = None /\ crashes' = crashes + 1
        /\ UNCHANGED <<conf, life, prog, left, thread, reg, leaked, inbox>>
        /\ \A q \in Pid : chan'[q] = << >>
    BY <1>2 DEF DaemonCrashes, Crash, LoseMemory, ClosePort
  <2>2. ~ killed'
    BY <1>2 DEF DaemonCrashes
  <2>3. crashes \in Nat /\ crashes' \in Nat /\ crashes' # 0
    BY <2>1 DEF InstanceInv, DaemonPlaces
  <2>4. DaemonPlaces'
    BY <2>1, <2>2, <2>3 DEF DaemonPlaces, Up
  <2>5. NodesOwn' /\ DeadAreGone' /\ OneInstance'
    BY <2>1 DEF InstanceInv, NodesOwn, DeadAreGone, OneInstance, Alive
  <2>6. LateRequests' /\ NodeKnowsProcess' /\ RestartIsSafe'
    BY <2>1 DEF LateRequests, NodeKnowsProcess, RestartIsSafe
  <2> QED BY <2>4, <2>5, <2>6 DEF InstanceInv
<1> QED BY <1>1, <1>2

\* What the daemon does to the buffers when it handles a request of p.
LEMMA RequestHandled ==
    ASSUME Calm, InstanceInv, NEW p \in Pid, NEW cmd \in Request, NEW ok \in BOOLEAN,
           Handles(p, cmd, ok)
    PROVE  /\ UNCHANGED <<life, prog, left, thread, reg, leaked, miss, server>>
           /\ UNCHANGED <<live, portFile, killed, crashes>>
           /\ Serving /\ Serving'
           /\ chan[p] # << >> /\ Head(chan[p]) = cmd
           /\ chan'[p] = Tail(chan[p])
           /\ \A q \in Pid \ {p} : SameProcess(q)
           /\ DeadAreGone' /\ OneInstance' /\ LateRequests'
<1>1. /\ UNCHANGED <<life, prog, left, thread, reg, leaked, miss, server>>
      /\ UNCHANGED <<live, portFile, killed, crashes>>
      /\ Serving /\ Serving'
      /\ chan[p] # << >> /\ Head(chan[p]) = cmd
      /\ chan' = [chan EXCEPT ![p] = Tail(@)]
  BY DEF Handles, feedVars, procVars, boundVars, Serving
<1>2. /\ \A q \in Pid \ {p} : chan'[q] = chan[q]
      /\ chan'[p] = Tail(chan[p])
  BY <1>1 DEF Calm, SupTypeOK, FcTypeOK, NetTypeOK
<1>3. /\ \A q \in Pid \ {p} : inbox'[q] = inbox[q]
      /\ thread[p] # "loop" => UNCHANGED inbox
  BY DEF Handles, Reply, Calm, SupTypeOK, FcTypeOK, NetTypeOK
<1>4. \A q \in Pid \ {p} : SameProcess(q)
  BY <1>1, <1>2, <1>3 DEF SameProcess
<1>5. DeadAreGone' /\ OneInstance'
  BY <1>1, <1>3 DEF InstanceInv, DeadAreGone, OneInstance, Alive
<1>6. LateRequests'
  <2> SUFFICES ASSUME NEW x \in Pid, NEW q \in Pid, x # q, Alive(x),
                      prog[x] = prog[q], chan'[q] # << >>
               PROVE  Fresh(x)'
    BY <1>1 DEF LateRequests, Alive
  <2>1. chan[q] # << >>
    BY <1>1, <1>2
  <2>2. Fresh(x)
    BY <2>1 DEF InstanceInv, LateRequests
  <2>3. x # p
    BY <1>1, <2>2 DEF Fresh
  <2> QED BY <1>4, <2>2, <2>3 DEF Fresh, SameProcess
<1> QED BY <1>1, <1>2, <1>4, <1>5, <1>6

\* A REGISTER renews the node of the sender's application, or appends one: no
\* node of another application is taken for it.
LEMMA RegistersOwnNode ==
    ASSUME Calm, NodesOwn, NEW p \in Pid, HandleRegister(p)
    PROVE  /\ wpc = "idle" /\ UNCHANGED wpc
           /\ DOMAIN apps \subseteq DOMAIN apps'
           /\ conf' = conf \/ conf' = Image(apps')
           /\ \E i \in DOMAIN apps' :
                /\ apps'[i] = [name |-> prog[p], cmd |-> CommandOf[prog[p]],
                               period |-> FeedPeriod[prog[p]], pid |-> p, age |-> 0]
                /\ i \in DOMAIN apps => apps[i].name = prog[p]
                /\ \A j \in DOMAIN apps' \ {i} :
                    /\ j \in DOMAIN apps /\ apps'[j] = apps[j]
                    /\ apps[j].name # prog[p] /\ apps[j].pid # p
<1> DEFINE n == prog[p]
           w == FeedPeriod[n]
           c == CommandOf[n]
           node == [name |-> n, cmd |-> c, period |-> w, pid |-> p, age |-> 0]
<1>1. /\ wpc = "idle" /\ UNCHANGED wpc
      /\ RegisterKnown(n, p, w, c) \/ RegisterNew(n, p, w, c)
  BY DEF HandleRegister, Register
<1>2. n \in Name /\ c \in Cmd /\ apps \in Seq(App) /\ p # NoPid
  BY SupConstants, WdConstants DEF Calm, SupTypeOK, WdTypeOK
<1>3. EffectivePeriod(w) = w
  BY <1>2, Periods DEF Calm
<1>4. \A j \in Matching(n, p) : apps[j].name = n
  BY <1>2 DEF Matching, NodesOwn
<1>5. CASE RegisterKnown(n, p, w, c)
  <2>1. PICK i \in DOMAIN apps :
            /\ IsFirst(i, Matching(n, p))
            /\ apps' = [apps EXCEPT ![i] = [@ EXCEPT !.age = 0, !.pid = p,
                                !.period = EffectivePeriod(w), !.cmd = c]]
            /\ UNCHANGED conf
    BY <1>5 DEF RegisterKnown
  <2>2. apps[i].name = n /\ apps[i] \in App
    BY <1>4, <2>1, Ranges DEF IsFirst
  <2>3. apps'[i] = node
    BY <1>3, <2>1, <2>2 DEF App
  <2>4. ASSUME NEW j \in DOMAIN apps \ {i}
        PROVE  apps'[j] = apps[j] /\ apps[j].name # n /\ apps[j].pid # p
    <3>1. apps'[j] = apps[j]
      BY <2>1
    <3>2. apps[j].name # n
      BY <2>2, <2>4, Ranges
    <3>3. apps[j].pid # p
      BY <1>4, <3>2 DEF Matching
    <3> QED BY <3>1, <3>2, <3>3
  <2>5. DOMAIN apps' = DOMAIN apps
    BY <2>1
  <2> QED BY <1>1, <2>1, <2>2, <2>3, <2>4, <2>5
<1>6. CASE RegisterNew(n, p, w, c)
  <2>1. Matching(n, p) = {} /\ apps' = Append(apps, node) /\ Save(apps')
    BY <1>3, <1>6 DEF RegisterNew
  <2>2. conf' = conf \/ conf' = Image(apps')
    BY <2>1 DEF Save, Calm, Undisturbed
  <2>3. /\ DOMAIN apps = 1 .. Len(apps) /\ Len(apps) \in Nat
        /\ DOMAIN apps' = 1 .. Len(apps) + 1
        /\ apps'[Len(apps) + 1] = node
        /\ \A j \in 1 .. Len(apps) : apps'[j] = apps[j]
    <3>1. node \in App
      <4>1. w \in WirePeriod /\ w > 0 /\ AgeCap \in Nat
        BY <1>2, SupConstants, WdConstants
      <4> QED BY <1>2, <4>1 DEF App, Period
    <3>2. /\ apps' \in Seq(App) /\ Len(apps') = Len(apps) + 1
          /\ \A j \in 1 .. Len(apps) : apps'[j] = apps[j]
          /\ apps'[Len(apps) + 1] = node
      BY <1>2, <2>1, <3>1, AppendProperties
    <3>3. DOMAIN apps = 1 .. Len(apps) /\ Len(apps) \in Nat
      BY <1>2, LenProperties
    <3>4. DOMAIN apps' = 1 .. Len(apps')
      BY <3>2, LenProperties
    <3> QED BY <3>2, <3>3, <3>4
  <2>4. \A j \in DOMAIN apps : apps[j].name # n /\ apps[j].pid # p
    BY <2>1 DEF Matching
  <2> QED BY <1>1, <2>2, <2>3, <2>4
<1> QED BY <1>1, <1>5, <1>6

\* A REGISTER that is handled late is one of a process that is gone: whoever
\* lives now registers in time.
LEMMA RegisterIsSafe ==
    ASSUME Calm, InstanceInv, NEW p \in Pid, HandleRegister(p)
    PROVE  InstanceInv'
<1>1. /\ UNCHANGED <<life, prog, left, thread, reg, leaked>>
      /\ UNCHANGED <<live, portFile, killed, crashes>>
      /\ Serving /\ Serving' /\ chan[p] # << >>
      /\ \A q \in Pid \ {p} : SameProcess(q)
      /\ DeadAreGone' /\ OneInstance' /\ LateRequests'
  BY RequestHandled DEF HandleRegister, Request
<1>2. /\ wpc = "idle" /\ UNCHANGED wpc
      /\ DOMAIN apps \subseteq DOMAIN apps'
      /\ conf' = conf \/ conf' = Image(apps')
  BY RegistersOwnNode DEF InstanceInv
<1>3. PICK i \in DOMAIN apps' :
        /\ apps'[i] = [name |-> prog[p], cmd |-> CommandOf[prog[p]],
                       period |-> FeedPeriod[prog[p]], pid |-> p, age |-> 0]
        /\ i \in DOMAIN apps => apps[i].name = prog[p]
        /\ \A j \in DOMAIN apps' \ {i} :
            /\ j \in DOMAIN apps /\ apps'[j] = apps[j]
            /\ apps[j].name # prog[p] /\ apps[j].pid # p
  BY RegistersOwnNode DEF InstanceInv
<1>4. DaemonPlaces'
  <2>1. ~ killed /\ Up
    BY <1>2 DEF InstanceInv, DaemonPlaces, Up
  <2>2. ~ killed' /\ Up'
    BY <1>1, <1>2, <2>1 DEF Up
  <2> QED BY <1>1, <1>2, <2>1, <2>2 DEF InstanceInv, DaemonPlaces
<1>5. NodesOwn'
  <2>1. ASSUME NEW j \in DOMAIN apps'
        PROVE  /\ apps'[j].cmd = CommandOf[apps'[j].name]
               /\ apps'[j].period \in {DefaultPeriod, FeedPeriod[apps'[j].name]}
               /\ apps'[j].pid # NoPid => prog[apps'[j].pid] = apps'[j].name
    <3>1. CASE j = i
      BY <1>3, <3>1
    <3>2. CASE j # i
      BY <1>3, <3>2 DEF InstanceInv, NodesOwn
    <3> QED BY <3>1, <3>2
  <2>2. ASSUME NEW j \in DOMAIN conf'
        PROVE  conf'[j].cmd = CommandOf[conf'[j].name]
    BY <1>2, <2>1 DEF InstanceInv, NodesOwn, Image
  <2> QED BY <1>1, <2>1, <2>2 DEF NodesOwn
<1>6. NodeKnowsProcess'
  <2> SUFFICES ASSUME NEW x \in Pid, NEW j \in DOMAIN apps', Alive(x),
                      prog[x] = apps'[j].name
               PROVE  apps'[j].pid = x \/ WillRegister(x, apps[j])'
    BY <1>1 DEF NodeKnowsProcess, Alive
  <2>1. CASE j = i /\ x = p
    BY <1>3, <2>1
  <2>2. CASE j = i /\ x # p
    <3>1. Fresh(x)
      BY <1>1, <1>3, <2>2 DEF InstanceInv, LateRequests
    <3>2. FeedPeriod[prog[x]] \in Nat
      BY SupConstants DEF Calm, SupTypeOK
    <3>3. /\ Serving' /\ life'[x] = "runs" /\ reg'[x] = "not_conf"
          /\ inbox'[x] = << >> /\ leaked'[x] = 0 /\ chan'[x] = << >>
          /\ left'[x] = FeedPeriod[prog[x]]
      BY <1>1, <2>2, <3>1 DEF SameProcess, Fresh
    <3>4. apps'[j].age = 0 /\ apps'[j].name = prog[x]
      BY <1>3, <2>2
    <3> QED BY <3>2, <3>3, <3>4 DEF WillRegister
  <2>3. CASE j # i
    <3>1. j \in DOMAIN apps /\ apps'[j] = apps[j] /\ x # p
      BY <1>3, <2>3
    <3>2. apps[j].pid = x \/ WillRegister(x, apps[j])
      BY <3>1 DEF InstanceInv, NodeKnowsProcess
    <3> QED BY <1>1, <3>1, <3>2, StillKnown
  <2> QED BY <2>1, <2>2, <2>3
<1>7. RestartIsSafe'
  BY <1>2 DEF RestartIsSafe
<1> QED BY <1>1, <1>4, <1>5, <1>6, <1>7 DEF InstanceInv

\* A node that is made fresh stays with its process, in its place.
LEMMA RenewalKeeps ==
    ASSUME Calm, InstanceInv, NEW k \in DOMAIN apps,
           apps' = [apps EXCEPT ![k].age = 0],
           UNCHANGED <<conf, life, prog>>, Serving => Serving',
           \A x \in Pid : SameProcess(x) \/ \A i \in DOMAIN apps : ~ WillRegister(x, apps[i])
    PROVE  /\ NodesOwn' /\ NodeKnowsProcess'
           /\ DOMAIN apps' = DOMAIN apps
           /\ apps'[k].age = 0
           /\ \A i \in DOMAIN apps :
                /\ apps'[i].name = apps[i].name /\ apps'[i].pid = apps[i].pid
                /\ apps'[i].age = apps[i].age \/ apps'[i].age = 0
<1>1. DOMAIN apps' = DOMAIN apps
  OBVIOUS
<1>2. ASSUME NEW i \in DOMAIN apps
      PROVE  /\ apps'[i].name = apps[i].name /\ apps'[i].pid = apps[i].pid
             /\ apps'[i].cmd = apps[i].cmd /\ apps'[i].period = apps[i].period
             /\ apps'[i].age = apps[i].age \/ apps'[i].age = 0
             /\ i = k => apps'[i].age = 0
  <2>1. apps[i] \in App
    BY Ranges
  <2> QED BY <2>1 DEF App
<1>3. NodesOwn'
  BY <1>1, <1>2 DEF InstanceInv, NodesOwn
<1>4. NodeKnowsProcess'
  <2> SUFFICES ASSUME NEW x \in Pid, NEW i \in DOMAIN apps, Alive(x),
                      prog[x] = apps[i].name
               PROVE  apps'[i].pid = x \/ WillRegister(x, apps[i])'
    BY <1>1, <1>2 DEF NodeKnowsProcess, Alive
  <2>1. apps[i].pid = x \/ WillRegister(x, apps[i])
    BY DEF InstanceInv, NodeKnowsProcess
  <2>2. CASE SameProcess(x)
    BY <1>2, <2>1, <2>2, StillKnown
  <2>3. CASE ~ SameProcess(x)
    BY <1>2, <2>1, <2>3
  <2> QED BY <2>2, <2>3
<1> QED BY <1>1, <1>2, <1>3, <1>4

\* A feed, known or not, changes no more than the age of a node.
LEMMA FeedIsSafe ==
    ASSUME Calm, InstanceInv, NEW p \in Pid, HandleFeed(p) \/ HandleStrayFeed(p)
    PROVE  InstanceInv'
<1>1. PICK ok \in BOOLEAN : Handles(p, "feed", ok)
  BY DEF HandleFeed, HandleStrayFeed
<1>2. /\ UNCHANGED <<life, prog, left, thread, reg, leaked>>
      /\ UNCHANGED <<live, portFile, killed, crashes>>
      /\ Serving /\ Serving' /\ chan[p] # << >> /\ Head(chan[p]) = "feed"
      /\ \A q \in Pid \ {p} : SameProcess(q)
      /\ DeadAreGone' /\ OneInstance' /\ LateRequests'
  BY <1>1, RequestHandled DEF Request
<1>3. /\ wpc = "idle" /\ UNCHANGED <<wpc, conf>>
  BY DEF HandleFeed, HandleStrayFeed, Feed, WdVars
<1>4. \A i \in DOMAIN apps : ~ WillRegister(p, apps[i])
  <2>1. Head(<<"register">>) # "feed"
    OBVIOUS
  <2> QED BY <1>2, <2>1 DEF WillRegister
<1>5. \A x \in Pid : SameProcess(x) \/ \A i \in DOMAIN apps : ~ WillRegister(x, apps[i])
  BY <1>2, <1>4
<1>6. NodesOwn' /\ NodeKnowsProcess'
  <2>1. CASE HandleFeed(p)
    <3>1. PICK k \in DOMAIN apps : apps' = [apps EXCEPT ![k].age = 0]
      BY <2>1 DEF HandleFeed, Feed
    <3> QED BY <1>2, <1>3, <1>5, <3>1, RenewalKeeps
  <2>2. CASE HandleStrayFeed(p)
    <3>1. UNCHANGED apps
      BY <2>2 DEF HandleStrayFeed, WdVars
    <3>2. NodesOwn'
      BY <1>2, <1>3, <3>1 DEF InstanceInv, NodesOwn
    <3>3. NodeKnowsProcess'
      <4> SUFFICES ASSUME NEW x \in Pid, NEW i \in DOMAIN apps, Alive(x),
                          prog[x] = apps[i].name
                   PROVE  apps'[i].pid = x \/ WillRegister(x, apps[i])'
        BY <1>2, <3>1 DEF NodeKnowsProcess, Alive
      <4>1. apps[i].pid = x \/ WillRegister(x, apps[i])
        BY DEF InstanceInv, NodeKnowsProcess
      <4>2. CASE apps[i].pid = x
        BY <3>1, <4>2
      <4>3. CASE apps[i].pid # x
        <5>1. SameProcess(x)
          BY <1>5, <4>1, <4>3
        <5> QED BY <1>2, <3>1, <4>1, <5>1, StillKnown
      <4> QED BY <4>2, <4>3
    <3> QED BY <3>2, <3>3
  <2> QED BY <2>1, <2>2
<1>7. DaemonPlaces'
  <2>1. ~ killed /\ Up
    BY <1>3 DEF InstanceInv, DaemonPlaces, Up
  <2>2. ~ killed' /\ Up'
    BY <1>2, <1>3, <2>1 DEF Up
  <2> QED BY <1>2, <1>3, <2>1, <2>2 DEF InstanceInv, DaemonPlaces
<1>8. RestartIsSafe'
  BY <1>3 DEF RestartIsSafe
<1> QED BY <1>2, <1>6, <1>7, <1>8 DEF InstanceInv

\* timeout_cb finds overdue only what no live process will register for.
LEMMA ScanIsSafe ==
    ASSUME Calm, InstanceInv, DaemonScans
    PROVE  InstanceInv'
<1>1. /\ Serving /\ UNCHANGED <<life, prog, left, killed, crashes>>
      /\ UNCHANGED <<thread, reg, leaked, live, portFile, chan, inbox>>
  BY DEF DaemonScans, FcVars, feedVars, netVars, procVars, boundVars
<1>2. /\ Serving' /\ \A x \in Pid : SameProcess(x)
  BY <1>1 DEF Serving, SameProcess
<1>3. DeadAreGone' /\ OneInstance' /\ LateRequests'
  BY <1>1 DEF InstanceInv, DeadAreGone, OneInstance, LateRequests, Fresh, Alive
<1>4. CASE TimeoutBegin \/ CheckFresh \/ TimeoutEnd
  <2>1. /\ UNCHANGED <<apps, conf>>
        /\ wpc \in {"idle", "scan"} /\ wpc' \in {"idle", "scan"}
    BY <1>4 DEF TimeoutBegin, CheckFresh, TimeoutEnd
  <2>2. NodesOwn'
    BY <1>1, <2>1 DEF InstanceInv, NodesOwn
  <2>3. NodeKnowsProcess'
    BY <1>1, <1>2, <2>1 DEF InstanceInv, NodeKnowsProcess, WillRegister, Alive
  <2>4. DaemonPlaces'
    <3>1. ~ killed /\ Up
      BY <2>1 DEF InstanceInv, DaemonPlaces, Up
    <3>2. ~ killed' /\ Up'
      BY <1>1, <2>1, <3>1 DEF Up
    <3> QED BY <1>1, <1>2, <2>1, <3>1, <3>2 DEF InstanceInv, DaemonPlaces
  <2>5. RestartIsSafe'
    BY <2>1 DEF RestartIsSafe
  <2> QED BY <1>3, <2>2, <2>3, <2>4, <2>5 DEF InstanceInv
<1>5. CASE CheckOverdue(FALSE)
  <2>1. /\ wpc = "scan" /\ wpc' = "restart" /\ cursor' = cursor
        /\ cursor \in DOMAIN apps /\ Overdue(apps[cursor])
        /\ apps' = [apps EXCEPT ![cursor].age = 0] /\ UNCHANGED conf
    BY <1>5 DEF CheckOverdue
  <2>2. /\ NodesOwn' /\ NodeKnowsProcess'
        /\ apps'[cursor].age = 0
        /\ apps'[cursor].name = apps[cursor].name /\ apps'[cursor].pid = apps[cursor].pid
    BY <1>1, <1>2, <2>1, RenewalKeeps
  <2>3. ~ killed
    BY <2>1 DEF InstanceInv, DaemonPlaces
  <2>4. RestartIsSafe'
    <3> SUFFICES ASSUME NEW x \in Pid, Alive(x), prog[x] = apps[cursor].name
                 PROVE  apps[cursor].pid = x
      BY <1>1, <2>1, <2>2, <2>3 DEF RestartIsSafe, Alive
    <3>1. apps[cursor].pid = x \/ WillRegister(x, apps[cursor])
      BY <2>1 DEF InstanceInv, NodeKnowsProcess
    <3>2. ~ WillRegister(x, apps[cursor])
      <4> SUFFICES ASSUME WillRegister(x, apps[cursor])
                   PROVE  FALSE
        OBVIOUS
      <4>1. apps[cursor].age \in Nat /\ left[x] \in Nat
            /\ FeedPeriod[apps[cursor].name] \in Nat
        BY <2>1, Ranges, SupConstants DEF Calm, SupTypeOK
      <4>2. apps[cursor].age <= FeedPeriod[apps[cursor].name]
        BY <4>1 DEF WillRegister
      <4> QED BY <2>1, <4>2, InTime DEF InstanceInv
    <3> QED BY <3>1, <3>2
  <2>5. DaemonPlaces'
    <3>1. ~ killed' /\ Up /\ Up'
      BY <1>1, <2>1, <2>3 DEF Up
    <3> QED BY <1>1, <1>2, <2>1, <2>2, <3>1 DEF InstanceInv, DaemonPlaces
  <2> QED BY <1>3, <2>2, <2>4, <2>5 DEF InstanceInv
<1> QED BY <1>4, <1>5 DEF DaemonScans

\* A second makes every node older and brings every running process nearer to
\* its next timeout, when nothing is on its way.
LEMMA SecondPasses ==
    ASSUME Calm, DaemonPlaces, Second
    PROVE  /\ UNCHANGED <<wpc, cursor, conf, live, portFile, killed, crashes>>
           /\ UNCHANGED <<life, prog, thread, reg, miss, server, leaked, chan, inbox>>
           /\ wpc \in {"idle", "down"} /\ ~ killed
           /\ DOMAIN apps' = DOMAIN apps
           /\ \A i \in DOMAIN apps :
                /\ apps'[i].name = apps[i].name /\ apps'[i].pid = apps[i].pid
                /\ apps'[i].cmd = apps[i].cmd /\ apps'[i].period = apps[i].period
                /\ apps[i].age \in Nat /\ apps'[i].age \in Nat
                /\ apps'[i].age <= apps[i].age + 1
           /\ \A p \in Pid : chan[p] = << >> /\ left[p] \in Nat
           /\ \A p \in Pid : life[p] = "runs" =>
                    /\ thread[p] = "loop" /\ inbox[p] = << >>
                    /\ left[p] > 0 /\ left'[p] = left[p] - 1
           /\ \A p \in Pid : life[p] # "runs" => left'[p] = left[p]
<1>1. /\ UNCHANGED <<wpc, cursor, conf, live, portFile, killed, crashes>>
      /\ UNCHANGED <<life, prog, thread, reg, miss, server, leaked, chan, inbox>>
      /\ apps' = [i \in DOMAIN apps |-> [apps[i] EXCEPT !.age = Older(@)]]
  BY DEF Second, Tick, FcVars, feedVars, netVars
<1>2. wpc \in {"idle", "down"}
  BY DEF Second, Quiet, Up
<1>3. ~ killed
  BY <1>2 DEF DaemonPlaces
<1>4. DOMAIN apps' = DOMAIN apps
  BY <1>1
<1>5. ASSUME NEW i \in DOMAIN apps
      PROVE  /\ apps'[i].name = apps[i].name /\ apps'[i].pid = apps[i].pid
             /\ apps'[i].cmd = apps[i].cmd /\ apps'[i].period = apps[i].period
             /\ apps[i].age \in Nat /\ apps'[i].age \in Nat
             /\ apps'[i].age <= apps[i].age + 1
  <2>1. apps[i] \in App /\ apps[i].age \in Nat /\ apps[i].age <= AgeCap /\ AgeCap \in Nat
    BY Ranges, WdConstants
  <2>2. apps'[i] = [apps[i] EXCEPT !.age = Older(@)]
    BY <1>1
  <2>3. /\ apps'[i].name = apps[i].name /\ apps'[i].pid = apps[i].pid
        /\ apps'[i].cmd = apps[i].cmd /\ apps'[i].period = apps[i].period
        /\ apps'[i].age = Older(apps[i].age)
    BY <2>1, <2>2 DEF App
  <2> QED BY <2>1, <2>3 DEF Older
<1>6. \A p \in Pid : chan[p] = << >>
  BY DEF Second, Quiet, DaemonPlaces
<1>7. left \in [Pid -> Nat]
  BY DEF Calm, SupTypeOK
<1>8. \A p \in Pid : life[p] = "runs" =>
            /\ thread[p] = "loop" /\ inbox[p] = << >>
            /\ left[p] > 0 /\ left'[p] = left[p] - 1
  BY DEF Second, Quiet
<1>9. \A p \in Pid : life[p] # "runs" => left'[p] = left[p]
  BY DEF Second
<1> QED BY <1>1, <1>2, <1>3, <1>4, <1>5, <1>6, <1>7, <1>8, <1>9

\* What will be registered in time will be so a second later.
LEMMA SecondIsSafe ==
    ASSUME Calm, InstanceInv, Second
    PROVE  InstanceInv'
<1>1. /\ UNCHANGED <<wpc, cursor, conf, live, portFile, killed, crashes>>
      /\ UNCHANGED <<life, prog, thread, reg, leaked, chan, inbox>>
      /\ wpc \in {"idle", "down"} /\ ~ killed
      /\ DOMAIN apps' = DOMAIN apps
      /\ \A i \in DOMAIN apps :
           /\ apps'[i].name = apps[i].name /\ apps'[i].pid = apps[i].pid
           /\ apps'[i].cmd = apps[i].cmd /\ apps'[i].period = apps[i].period
           /\ apps[i].age \in Nat /\ apps'[i].age \in Nat
           /\ apps'[i].age <= apps[i].age + 1
      /\ \A p \in Pid : chan[p] = << >> /\ left[p] \in Nat
      /\ \A p \in Pid : life[p] = "runs" => left[p] > 0 /\ left'[p] = left[p] - 1
      /\ \A p \in Pid : life[p] # "runs" => left'[p] = left[p]
  BY SecondPasses DEF InstanceInv
<1>2. DaemonPlaces'
  <2>1. ~ killed'
    BY <1>1
  <2>2. ~ Up => apps' = << >>
    BY DEF InstanceInv, DaemonPlaces, Second, Tick
  <2> QED BY <1>1, <2>1, <2>2 DEF InstanceInv, DaemonPlaces, Up
<1>3. NodesOwn' /\ OneInstance'
  BY <1>1 DEF InstanceInv, NodesOwn, OneInstance, Alive
<1>4. DeadAreGone'
  <2> SUFFICES ASSUME NEW q \in Pid
               PROVE  left'[q] <= FeedPeriod[prog[q]]
    BY <1>1 DEF InstanceInv, DeadAreGone, Alive
  <2>1. left[q] <= FeedPeriod[prog[q]] /\ FeedPeriod[prog[q]] \in Nat
    BY SupConstants DEF InstanceInv, DeadAreGone, Calm, SupTypeOK
  <2>2. left'[q] \in {left[q], left[q] - 1} /\ left[q] \in Nat
    BY <1>1
  <2> QED BY <2>1, <2>2
<1>5. LateRequests' /\ RestartIsSafe'
  BY <1>1 DEF LateRequests, RestartIsSafe
<1>6. NodeKnowsProcess'
  <2> SUFFICES ASSUME NEW x \in Pid, NEW i \in DOMAIN apps, Alive(x),
                      prog[x] = apps[i].name, apps[i].pid # x
               PROVE  WillRegister(x, apps[i])'
    BY <1>1 DEF NodeKnowsProcess, Alive
  <2>1. WillRegister(x, apps[i])
    BY DEF InstanceInv, NodeKnowsProcess
  <2>2. /\ apps[i].age + left[x] <= FeedPeriod[apps[i].name]
        /\ life[x] = "runs" /\ leaked[x] = 0
    <3>1. chan[x] # <<"register">>
      BY <1>1
    <3> QED BY <2>1, <3>1 DEF WillRegister
  <2>3. apps'[i].age + left'[x] <= FeedPeriod[apps[i].name]
    <3>1. FeedPeriod[apps[i].name] \in Nat
      BY Ranges, SupConstants
    <3> QED BY <1>1, <2>2, <3>1
  <2>4. /\ Serving' /\ life'[x] = "runs" /\ reg'[x] = "not_conf" /\ inbox'[x] = << >>
        /\ leaked'[x] = 0 /\ chan'[x] = << >> /\ apps'[i].name = apps[i].name
    BY <1>1, <2>1, <2>2 DEF WillRegister, Serving
  <2> QED BY <2>3, <2>4 DEF WillRegister
<1> QED BY <1>2, <1>3, <1>4, <1>5, <1>6 DEF InstanceInv

\* InstanceInv holds of an undisturbed system: every application has one
\* process, its node has the process's id or will get it before it can be
\* overdue, and between the kill of a process and the start of the next there
\* is none (timeout_cb, start_the_monitor_app).
THEOREM InstanceInvariant ==
    ASSUME Undisturbed
    PROVE  SupSpec => []InstanceInv
<1>1. SupInit => InstanceInv
  <2> SUFFICES ASSUME SupInit
               PROVE  InstanceInv
    OBVIOUS
  <2>1. /\ wpc = "down" /\ apps = << >> /\ conf = << >> /\ live = None /\ crashes = 0
        /\ \A p \in Pid : /\ life[p] = "dead" /\ left[p] = 0 /\ chan[p] = << >>
                         /\ thread[p] = "none" /\ reg[p] = "not_conf"
                         /\ leaked[p] = 0 /\ inbox[p] = << >>
    BY DEF SupInit, WdInit, FcInit, NetInit
  <2>2. ~ killed
    BY DEF SupInit
  <2>3. DaemonPlaces
    BY <2>1, <2>2 DEF DaemonPlaces, Up
  <2>4. \A p \in Pid : FeedPeriod[prog[p]] \in Nat
    BY SupConstants DEF SupInit
  <2>5. DeadAreGone
    BY <2>1, <2>4 DEF DeadAreGone
  <2> QED BY <2>1, <2>3, <2>5
          DEF InstanceInv, NodesOwn, OneInstance, LateRequests, NodeKnowsProcess,
              RestartIsSafe, Alive
<1>2. Calm /\ InstanceInv /\ [SupNext]_SupVars => InstanceInv'
  <2> SUFFICES ASSUME Calm, InstanceInv, [SupNext]_SupVars
               PROVE  InstanceInv'
    OBVIOUS
  <2>1. CASE \E p \in Pid, n \in Name : Boot(p, n)
    BY <2>1, BootIsSafe
  <2>2. CASE \E p \in Pid : AppDies(p)
    BY <2>2, DeathIsSafe
  <2>3. CASE \E p \in Pid : AppHangs(p)
    BY <2>3, HangIsSafe
  <2>4. CASE \E p \in Pid : AppStep(p)
    BY <2>4, TimeoutIsSafe, ThreadIsSafe DEF AppStep
  <2>5. CASE DaemonCrashes \/ DaemonPublishes
    BY <2>5, SocketIsSafe
  <2>6. CASE \E found \in Found, port \in Port : DaemonStarts(found, port)
    BY <2>6, StartIsSafe
  <2>7. CASE \E p \in Pid : HandleRegister(p) \/ HandleFeed(p) \/ HandleStrayFeed(p)
    BY <2>7, RegisterIsSafe, FeedIsSafe
  <2>8. CASE DaemonScans
    BY <2>8, ScanIsSafe
  <2>9. CASE Kill \/ \E p \in Pid : Exec(p)
    BY <2>9, KillIsSafe, ExecIsSafe
  <2>10. CASE Second
    BY <2>10, SecondIsSafe
  <2>11. CASE UNCHANGED SupVars
    <3>1. /\ UNCHANGED <<wpc, cursor, apps, conf, killed, crashes, life, prog, left>>
          /\ UNCHANGED <<thread, reg, leaked, live, portFile, chan, inbox>>
      BY <2>11 DEF SupVars, WdVars, FcVars, feedVars, netVars, procVars, boundVars
    <3>2. DaemonPlaces' /\ RestartIsSafe'
      BY <3>1 DEF InstanceInv, DaemonPlaces, RestartIsSafe, Up, Serving, Alive
    <3>3. NodesOwn' /\ DeadAreGone' /\ OneInstance'
      BY <3>1 DEF InstanceInv, NodesOwn, DeadAreGone, OneInstance, Alive
    <3>4. LateRequests' /\ NodeKnowsProcess'
      BY <3>1 DEF InstanceInv, LateRequests, NodeKnowsProcess, Fresh, WillRegister,
                  Serving, Alive
    <3> QED BY <3>2, <3>3, <3>4 DEF InstanceInv
  <2> QED BY <2>1, <2>2, <2>3, <2>4, <2>5, <2>6, <2>7, <2>8, <2>9, <2>10, <2>11
          DEF SupNext, DaemonStep
<1>3. Undisturbed /\ SupTypeOK /\ RegistryInv /\ OnNode => Calm
  BY DEF Calm
<1>4. SupSpec => []RegistryInv /\ []OnNode /\ []SupTypeOK
  BY DaemonInSystem, RegistryInvariant, RestartsNode, SystemTypeCorrect, PTL
<1> QED BY <1>1, <1>2, <1>3, <1>4, PTL DEF SupSpec

\* OneInstance: no application runs twice, however often it dies, hangs or
\* is started again, and however often the daemon crashes and comes back.
THEOREM SystemHasOneInstance ==
    ASSUME Undisturbed
    PROVE  SupSpec => []OneInstance
<1>1. InstanceInv => OneInstance
  BY DEF InstanceInv
<1> QED BY <1>1, InstanceInvariant, PTL

-----------------------------------------------------------------------------
(* ConfirmedIsKept: who believes to be registered has a node.              *)

\* What the daemon has confirmed is in its list, and in its file after a crash
\* unless a save failed.
LEMMA ConfirmedInvariant ==
    ASSUME Undisturbed
    PROVE  SupSpec => []ConfirmedIsKept
<1>1. SupInit => ConfirmedIsKept
  BY DEF SupInit, WdInit, ConfirmedIsKept, Up
<1>2. Calm /\ InstanceInv /\ ConfirmedIsKept /\ [SupNext]_SupVars => ConfirmedIsKept'
  <2> SUFFICES ASSUME Calm, InstanceInv, ConfirmedIsKept, [SupNext]_SupVars
               PROVE  ConfirmedIsKept'
    OBVIOUS
  <2>1. CASE /\ DOMAIN apps' = DOMAIN apps
             /\ \A i \in DOMAIN apps : apps'[i].name = apps[i].name
             /\ UNCHANGED <<conf, acked, synced>> /\ Up' = Up
    <3>1. NamesIn(apps)' = NamesIn(apps) /\ NamesIn(conf)' = NamesIn(conf)
      BY <2>1 DEF NamesIn
    <3> QED BY <2>1, <3>1 DEF ConfirmedIsKept
  <2>2. ASSUME NEW found \in Found, NEW port \in Port, DaemonStarts(found, port)
        PROVE  ConfirmedIsKept'
    <3>1. /\ Start(found) /\ ~ Up /\ Up'
      BY <2>2 DEF DaemonStarts, Start, Up
    <3>2. NamesIn(apps)' = NamesIn(conf)
      BY <3>1 DEF Start, Loaded, NamesIn
    <3> QED BY <3>1, <3>2 DEF ConfirmedIsKept, Start
  <2>3. CASE DaemonCrashes
    <3>1. Up /\ ~ Up' /\ UNCHANGED <<conf, acked, synced>>
      BY <2>3 DEF DaemonCrashes, Crash, LoseMemory, Up
    <3>2. NamesIn(conf)' = NamesIn(conf)
      BY <3>1 DEF NamesIn
    <3>3. synced => NamesIn(apps) \subseteq NamesIn(conf)
      BY <3>1 DEF Calm, RegistryInv, Persisted
    <3> QED BY <3>1, <3>2, <3>3 DEF ConfirmedIsKept
  <2>4. ASSUME NEW p \in Pid, HandleRegister(p)
        PROVE  ConfirmedIsKept'
    <3>1. /\ wpc = "idle" /\ UNCHANGED wpc
          /\ DOMAIN apps \subseteq DOMAIN apps'
          /\ \E i \in DOMAIN apps' :
                /\ apps'[i].name = prog[p]
                /\ i \in DOMAIN apps => apps[i].name = prog[p]
                /\ \A j \in DOMAIN apps' \ {i} : apps'[j] = apps[j]
      BY <2>4, RegistersOwnNode DEF InstanceInv
    <3>2. NamesIn(apps) \union {prog[p]} \subseteq NamesIn(apps')
      BY <3>1 DEF NamesIn
    <3>3. acked' = [acked EXCEPT ![prog[p]] = "in"] /\ acked \in [Name -> {"none", "in", "out"}]
      BY <2>4 DEF HandleRegister, Register, Calm, SupTypeOK, WdTypeOK
    <3>4. Up /\ Up'
      BY <3>1 DEF Up
    <3>5. \A n \in Name : acked'[n] = "in" => n \in NamesIn(apps')
      BY <3>2, <3>3, <3>4 DEF ConfirmedIsKept
    <3> QED BY <3>4, <3>5 DEF ConfirmedIsKept, NamesIn
  <2>5. CASE Second
    BY <2>1, <2>5, SecondPasses DEF InstanceInv, Second, Tick, Up
  <2>6. ASSUME NEW k \in DOMAIN apps, apps' = [apps EXCEPT ![k].age = 0],
               UNCHANGED <<conf, acked, synced>>, Up' = Up
        PROVE  ConfirmedIsKept'
    <3>1. apps[k] \in App
      BY Ranges
    <3>2. \A i \in DOMAIN apps : apps'[i].name = apps[i].name
      BY <2>6, <3>1 DEF App
    <3> QED BY <2>1, <2>6, <3>2
  <2>7. ASSUME NEW p \in Pid, HandleFeed(p)
        PROVE  ConfirmedIsKept'
    <3>1. PICK k \in DOMAIN apps : apps' = [apps EXCEPT ![k].age = 0]
      BY <2>7 DEF HandleFeed, Feed
    <3> QED BY <2>6, <2>7, <3>1 DEF HandleFeed, Feed, Up
  <2>8. CASE DaemonScans
    <3>1. CASE CheckOverdue(FALSE)
      BY <2>6, <3>1 DEF CheckOverdue, Up
    <3>2. CASE TimeoutBegin \/ CheckFresh \/ TimeoutEnd
      BY <2>1, <3>2 DEF TimeoutBegin, CheckFresh, TimeoutEnd, Up
    <3> QED BY <2>8, <3>1, <3>2 DEF DaemonScans
  <2>9. CASE \E p \in Pid : Exec(p)
    BY <2>1, <2>9 DEF Exec, Restart, Up
  <2>10. CASE \/ DaemonPublishes \/ Kill \/ UNCHANGED SupVars
              \/ \E p \in Pid : HandleStrayFeed(p) \/ AppDies(p) \/ AppHangs(p) \/ AppStep(p)
              \/ \E p \in Pid, n \in Name : Boot(p, n)
    <3>1. UNCHANGED WdVars
      BY <2>10 DEF DaemonPublishes, Kill, SupVars, HandleStrayFeed, AppDies, AppHangs,
                   AppStep, AppOpens, AppTimeout, AppReceives, Boot
    <3> QED BY <2>1, <3>1 DEF WdVars, Up
  <2> QED BY <2>2, <2>3, <2>4, <2>5, <2>7, <2>8, <2>9, <2>10 DEF SupNext, DaemonStep
<1>3. Undisturbed /\ SupTypeOK /\ RegistryInv /\ OnNode => Calm
  BY DEF Calm
<1>4. SupSpec => []RegistryInv /\ []OnNode /\ []SupTypeOK
  BY DaemonInSystem, RegistryInvariant, RestartsNode, SystemTypeCorrect, PTL
<1> QED BY <1>1, <1>2, <1>3, <1>4, InstanceInvariant, PTL DEF SupSpec

\* ConfirmedHasNode: an application that believes it is registered with the
\* daemon that runs (wd_confirmed_register) has a node with its own id there.
THEOREM ConfirmedHasItsNode ==
    ASSUME Undisturbed
    PROVE  SupSpec => []ConfirmedHasNode
<1>1. SupTypeOK /\ InstanceInv /\ ConfirmedIsKept => ConfirmedHasNode
  <2> SUFFICES ASSUME SupTypeOK, InstanceInv, ConfirmedIsKept,
                      NEW p \in Pid, life[p] = "runs", reg[p] = "has_conf", Up,
                      acked[prog[p]] = "in"
               PROVE  \E i \in DOMAIN apps : apps[i].pid = p /\ apps[i].name = prog[p]
    BY DEF ConfirmedHasNode
  <2>1. prog[p] \in NamesIn(apps)
    BY DEF ConfirmedIsKept, SupTypeOK
  <2>2. PICK i \in DOMAIN apps : apps[i].name = prog[p]
    BY <2>1 DEF NamesIn
  <2>3. apps[i].pid = p
    BY <2>2 DEF InstanceInv, NodeKnowsProcess, WillRegister, Alive
  <2> QED BY <2>2, <2>3
<1> QED BY <1>1, InstanceInvariant, ConfirmedInvariant, SystemTypeCorrect, PTL

-----------------------------------------------------------------------------
(* FeedingInv: a running process is not restarted.                         *)

\* The state of p's feed thread that InTouch speaks of beside SameProcess.
SameThread(p) ==
    SameProcess(p) /\ thread'[p] = thread[p] /\ miss'[p] = miss[p] /\ server'[p] = server[p]

\* A process that a step leaves alone stays in touch, however young the step
\* makes its node.
LEMMA StillInTouch ==
    ASSUME Calm, NEW p \in Pid, InTouch(p), SameThread(p),
           Serving => Serving' /\ UNCHANGED live,
           life[p] = "runs" => (WithPid(p))' = WithPid(p),
           \A i \in WithPid(p) :
                /\ apps'[i].name = apps[i].name
                /\ apps'[i].age = apps[i].age \/ apps'[i].age = 0,
           UNCHANGED live \/ (reg[p] = "not_conf" /\ chan[p] = << >> /\ inbox[p] = << >>)
    PROVE  (InTouch(p))'
<1> SUFFICES ASSUME life'[p] = "runs"
             PROVE  (Talks(p))' /\ \A i \in (WithPid(p))' : (Fed(p, apps[i]))'
  BY DEF InTouch
<1>1. Talks(p) /\ (WithPid(p))' = WithPid(p)
  BY DEF InTouch, SameThread, SameProcess
<1>2. (Talks(p))'
  BY <1>1 DEF Talks, SameThread, SameProcess
<1>3. ASSUME NEW i \in WithPid(p)
      PROVE  (Fed(p, apps[i]))'
  <2>1. i \in DOMAIN apps
    BY DEF WithPid
  <2>2. apps[i].age \in Nat /\ left[p] \in Nat /\ FeedPeriod[apps[i].name] \in Nat
    BY <2>1, Ranges, SupConstants DEF Calm, SupTypeOK
  <2>3. Fed(p, apps[i])
    BY DEF InTouch, SameThread, SameProcess
  <2>4. /\ apps'[i].name = apps[i].name
        /\ apps'[i].age = apps[i].age \/ apps'[i].age = 0
    OBVIOUS
  <2>5. /\ apps'[i].age <= FeedPeriod[apps'[i].name]
        /\ chan[p] = << >> => apps'[i].age + left[p] <= FeedPeriod[apps'[i].name]
    BY <2>2, <2>3, <2>4 DEF Fed
  <2> QED BY <2>3, <2>5 DEF Fed, SameThread, SameProcess
<1> QED BY <1>1, <1>2, <1>3

\* A new process has nothing on its way, and no node yet.
LEMMA SpawnInTouch ==
    ASSUME Calm, InstanceInv, NEW p \in Pid, NEW n \in Name, Spawn(p, n),
           \A q \in Pid : ~ (Alive(q) /\ prog[q] = n),
           \A q \in Pid : InTouch(q),
           UNCHANGED <<apps, conf>>
    PROVE  \A q \in Pid : (InTouch(q))'
<1>1. /\ (Fresh(p))' /\ UNCHANGED netVars /\ WithPid(p) = {}
      /\ \A q \in Pid \ {p} : SameProcess(q)
  BY SpawnIsFresh
<1>2. \A q \in Pid \ {p} : SameThread(q)
  BY <1>1 DEF SameThread, Spawn, CreateFeedThread, Calm, SupTypeOK, FcTypeOK
<1>3. (WithPid(p))' = {}
  BY <1>1 DEF WithPid
<1>4. (InTouch(p))'
  BY <1>1, <1>3 DEF InTouch, Talks, Fresh
<1>5. ASSUME NEW q \in Pid \ {p}
      PROVE  (InTouch(q))'
  <2>1. (WithPid(q))' = WithPid(q)
    BY DEF WithPid
  <2> QED BY <1>1, <1>2, <2>1, StillInTouch DEF Serving, netVars
<1> QED BY <1>4, <1>5

\* One that is gone, or hangs, is not spoken of.
LEMMA BuryInTouch ==
    ASSUME Calm, InstanceInv, NEW p \in Pid, Bury(p),
           \A q \in Pid : InTouch(q),
           UNCHANGED <<apps, conf>>
    PROVE  \A q \in Pid : (InTouch(q))'
<1>1. /\ UNCHANGED <<live, portFile>> /\ life'[p] = "dead"
      /\ \A q \in Pid \ {p} : SameProcess(q)
  BY BuryIsSafe DEF Alive
<1>2. \A q \in Pid \ {p} : SameThread(q)
  BY <1>1 DEF SameThread, Bury, Calm, SupTypeOK, FcTypeOK
<1>3. ASSUME NEW q \in Pid
      PROVE  (InTouch(q))'
  <2>1. (WithPid(q))' = WithPid(q)
    BY DEF WithPid
  <2>2. CASE q = p
    BY <1>1, <2>2 DEF InTouch
  <2>3. CASE q # p
    BY <1>1, <1>2, <2>1, <2>3, StillInTouch DEF Serving
  <2> QED BY <2>2, <2>3
<1> QED BY <1>3

\* A step of a feed thread leaves the other processes in touch.
LEMMA ThreadInTouch ==
    ASSUME Calm, InstanceInv, NEW p \in Pid, AppStep(p),
           \A q \in Pid : InTouch(q), (InTouch(p))'
    PROVE  \A q \in Pid : (InTouch(q))'
<1>1. /\ UNCHANGED WdVars /\ UNCHANGED <<live, portFile>>
      /\ \A q \in Pid \ {p} : SameThread(q)
  BY ThreadStaysHome DEF SameThread
<1>2. ASSUME NEW q \in Pid \ {p}
      PROVE  (InTouch(q))'
  <2>1. UNCHANGED apps
    BY <1>1 DEF WdVars
  <2>2. (WithPid(q))' = WithPid(q)
    BY <2>1 DEF WithPid
  <2> QED BY <1>1, <2>1, <2>2, StillInTouch DEF Serving
<1> QED BY <1>2

\* A timeout comes when nothing is on its way, and sends a REGISTER that may
\* be lost, or a FEED that is not.
LEMMA TimeoutInTouch ==
    ASSUME Calm, InstanceInv, MaxMissFeedback >= 1, NEW p \in Pid, AppTimeout(p),
           InTouch(p)
    PROVE  (InTouch(p))'
<1>1. /\ life[p] = "runs" /\ left[p] = 0 /\ left' = [left EXCEPT ![p] = FeedPeriod[prog[p]]]
      /\ FeedTimeout(p) /\ UNCHANGED <<life, prog>> /\ UNCHANGED WdVars
  BY DEF AppTimeout
<1>2. left'[p] > 0
  BY <1>1, SupConstants DEF Calm, SupTypeOK
<1>3. Talks(p) /\ \A i \in WithPid(p) : Fed(p, apps[i])
  BY <1>1 DEF InTouch
<1>4. chan[p] = << >> /\ inbox[p] = << >> /\ (reg[p] = "has_conf" => miss[p] = 0)
  BY <1>1, <1>3 DEF Talks
<1>5. UNCHANGED <<apps, live, portFile, inbox, thread>> /\ (WithPid(p))' = WithPid(p)
  BY <1>1 DEF WdVars, FeedTimeout, TimeoutRegister, TimeoutFeed, TimeoutGiveUp, netVars, WithPid
<1>6. CASE TimeoutRegister(p)
  <2>1. reg[p] = "not_conf" /\ UNCHANGED <<reg, miss>> /\ SendRegister(p) /\ thread[p] = "loop"
    BY <1>6 DEF TimeoutRegister
  <2>2. WithPid(p) = {}
    BY <1>3, <1>4, <2>1 DEF Fed
  <2>3. \/ UNCHANGED chan
        \/ /\ chan'[p] = <<"register">> /\ server'[p] = live
    <3>1. CASE Serving /\ leaked[p] # MaxFd
      BY <1>4, <2>1, <3>1, RegisterArrives
    <3>2. CASE ~ (Serving /\ leaked[p] # MaxFd)
      BY <2>1, <3>2 DEF SendRegister, SendTo, Serving
    <3> QED BY <3>1, <3>2
  <2>4. (Talks(p))'
    BY <1>2, <1>4, <1>5, <2>1, <2>3 DEF Talks
  <2> QED BY <1>5, <2>2, <2>4 DEF InTouch
<1>7. CASE TimeoutFeed(p)
  <2>1. /\ reg[p] = "has_conf" /\ UNCHANGED <<reg, server>> /\ SendTo(p, server[p], "feed")
        /\ thread[p] = "loop"
    BY <1>7 DEF TimeoutFeed, SendAction
  <2>2. Serving /\ server[p] = live /\ live # None
    BY <1>3, <2>1 DEF Talks, Serving
  <2>3. chan' = [chan EXCEPT ![p] = Queued(@, "feed")]
    BY <2>1, <2>2 DEF SendTo
  <2>4. Queued(<< >>, "feed") = <<"feed">>
    BY TransportConstants DEF Queued
  <2>5. chan'[p] = <<"feed">>
    BY <1>4, <2>3, <2>4 DEF Calm, SupTypeOK, FcTypeOK, NetTypeOK
  <2>6. (Talks(p))'
    BY <1>2, <1>3, <1>4, <1>5, <2>1, <2>2, <2>5 DEF Talks, Serving
  <2>7. \A i \in WithPid(p) : (Fed(p, apps[i]))'
    BY <1>3, <1>5, <2>1, <2>5 DEF Fed
  <2> QED BY <1>5, <2>6, <2>7 DEF InTouch
<1>8. CASE TimeoutGiveUp(p)
  <2>1. ~ (miss[p] < MaxMissFeedback) /\ reg[p] = "has_conf"
    BY <1>8 DEF TimeoutGiveUp, Patient
  <2> QED BY <1>4, <2>1, FeedConstants
<1> QED BY <1>1, <1>6, <1>7, <1>8 DEF FeedTimeout

\* Each handler takes the datagram with its own command.
LEMMA HandlersReceive ==
    ASSUME NEW p
    PROVE  /\ OnRegisterReply(p) => Receives(p, "register")
           /\ OnFeedReply(p) => Receives(p, "feed")
           /\ OnSelfUnregister(p) => Receives(p, "self_unreg")
           /\ OnUnregisterReply(p) => Receives(p, "unregister")
<1>1. OnRegisterReply(p) => Receives(p, "register")
  BY DEF OnRegisterReply
<1>2. OnFeedReply(p) => Receives(p, "feed")
  BY DEF OnFeedReply
<1>3. OnSelfUnregister(p) => Receives(p, "self_unreg")
  BY DEF OnSelfUnregister
<1>4. OnUnregisterReply(p) => Receives(p, "unregister")
  BY DEF OnUnregisterReply
<1> QED BY <1>1, <1>2, <1>3, <1>4

\* The one answer a process may find in its buffer confirms what it asked.
LEMMA AnswerInTouch ==
    ASSUME Calm, InstanceInv, NEW p \in Pid, AppReceives(p), InTouch(p)
    PROVE  (InTouch(p))'
<1>1. /\ life[p] = "runs" /\ ReceiveDatagram(p) /\ UNCHANGED <<life, prog, left>>
      /\ UNCHANGED WdVars /\ inbox[p] # << >>
      /\ inbox' = [inbox EXCEPT ![p] = Tail(@)] /\ UNCHANGED <<live, portFile>>
  <2>1. \E cmd \in {"register", "feed", "self_unreg", "unregister"} : Receives(p, cmd)
    BY HandlersReceive DEF AppReceives, ReceiveDatagram
  <2> QED BY <2>1 DEF AppReceives, procVars, Receives
<1>2. Talks(p) /\ \A i \in WithPid(p) : Fed(p, apps[i])
  BY <1>1 DEF InTouch
<1>3. PICK cmd \in {"register", "feed"} :
        /\ inbox[p] = <<Package(cmd, TRUE)>> /\ chan[p] = << >>
        /\ cmd = "feed" => reg[p] = "has_conf"
  BY <1>1, <1>2 DEF Talks
<1>4. Head(inbox[p]).cmd = cmd /\ Head(inbox[p]).ok /\ inbox'[p] = << >>
  <2>1. Head(inbox[p]) = Package(cmd, TRUE) /\ Tail(inbox[p]) = << >>
    BY <1>3
  <2> QED BY <1>1, <2>1 DEF Package, Calm, SupTypeOK, FcTypeOK, NetTypeOK
<1>5. \/ OnRegisterReply(p) /\ cmd = "register"
      \/ OnFeedReply(p) /\ cmd = "feed"
  <2>1. /\ Receives(p, "register") => cmd = "register"
        /\ Receives(p, "feed") => cmd = "feed"
        /\ ~ Receives(p, "self_unreg") /\ ~ Receives(p, "unregister")
    BY <1>3, <1>4 DEF Receives
  <2>2. ~ OnSelfUnregister(p) /\ ~ OnUnregisterReply(p)
    BY <2>1, HandlersReceive
  <2>3. OnRegisterReply(p) \/ OnFeedReply(p)
    BY <1>1, <2>2 DEF ReceiveDatagram
  <2> QED BY <2>1, <2>3, HandlersReceive
<1>6. /\ reg'[p] = "has_conf" /\ miss'[p] = 0
      /\ UNCHANGED <<server, chan>>
  <2>1. CASE OnRegisterReply(p) /\ cmd = "register"
    BY <1>4, <2>1 DEF OnRegisterReply, Calm, SupTypeOK, FcTypeOK
  <2>2. CASE OnFeedReply(p) /\ cmd = "feed"
    BY <1>3, <1>4, <2>2 DEF OnFeedReply, Calm, SupTypeOK, FcTypeOK
  <2> QED BY <1>5, <2>1, <2>2
<1>7. UNCHANGED apps /\ (WithPid(p))' = WithPid(p)
  BY <1>1 DEF WdVars, WithPid
<1>8. (Talks(p))'
  BY <1>1, <1>2, <1>3, <1>4, <1>6, <1>7 DEF Talks, Serving
<1>9. \A i \in WithPid(p) : (Fed(p, apps[i]))'
  BY <1>1, <1>2, <1>3, <1>6, <1>7 DEF Fed
<1> QED BY <1>7, <1>8, <1>9 DEF InTouch

\* The first daemon starts with no list, and no process has heard of one.
LEMMA StartInTouch ==
    ASSUME Calm, InstanceInv, crashes = 0, NEW found \in Found, NEW port \in Port,
           DaemonStarts(found, port), \A q \in Pid : InTouch(q)
    PROVE  \A q \in Pid : (InTouch(q))'
<1>1. /\ wpc = "down" /\ apps' = Loaded(found)
      /\ UNCHANGED <<chan, inbox, life, left, thread, reg, miss, server>>
  BY DEF DaemonStarts, Start, BindPort, feedVars, procVars
<1>2. conf = << >> /\ live = None /\ \A q \in Pid : chan[q] = << >>
  BY <1>1 DEF InstanceInv, DaemonPlaces, Up
<1>3. DOMAIN apps' = {}
  BY <1>1, <1>2 DEF Loaded
<1>4. ASSUME NEW q \in Pid, life[q] = "runs"
      PROVE  reg[q] # "has_conf" /\ inbox[q] = << >>
  BY <1>2, <1>4 DEF InTouch, Talks, Serving
<1>5. ASSUME NEW q \in Pid
      PROVE  (InTouch(q))'
  BY <1>1, <1>2, <1>3, <1>4 DEF InTouch, Talks, WithPid
<1> QED BY <1>5

\* So does publishing the port leave everyone in touch.
LEMMA PublishInTouch ==
    ASSUME Calm, DaemonPublishes, \A q \in Pid : InTouch(q)
    PROVE  \A q \in Pid : (InTouch(q))'
<1>1. /\ UNCHANGED <<apps, live, chan, inbox, life, prog, left>>
      /\ UNCHANGED <<thread, reg, miss, server, leaked>> /\ Serving'
  BY DEF DaemonPublishes, PublishPort, WdVars, feedVars, procVars, Serving
<1>2. ASSUME NEW q \in Pid
      PROVE  (InTouch(q))'
  <2>1. (WithPid(q))' = WithPid(q)
    BY <1>1 DEF WithPid
  <2>2. SameThread(q)
    BY <1>1 DEF SameThread, SameProcess
  <2> QED BY <1>1, <2>1, <2>2, StillInTouch
<1> QED BY <1>2

\* A datagram that finds the buffer empty is alone in it.
LEMMA QueuedFirst ==
    ASSUME NEW m
    PROVE  Queued(<< >>, m) = <<m>>
<1>1. Len(<< >>) < Room
  BY TransportConstants
<1> QED BY <1>1 DEF Queued

\* A request is answered: the process hears that it is registered or fed.
LEMMA AnsweredInTouch ==
    ASSUME Calm, InstanceInv, NEW p \in Pid, NEW cmd \in {"register", "feed"},
           Handles(p, cmd, TRUE), InTouch(p),
           (WithPid(p))' # {},
           \A i \in (WithPid(p))' : apps'[i].age = 0 /\ apps'[i].name = prog[p]
    PROVE  (InTouch(p))'
<1> SUFFICES ASSUME life'[p] = "runs"
             PROVE  (Talks(p))' /\ \A i \in (WithPid(p))' : (Fed(p, apps[i]))'
  BY DEF InTouch
<1>1. /\ UNCHANGED <<life, prog, left, thread, reg, leaked, miss, server>>
      /\ UNCHANGED <<live, portFile>> /\ Serving /\ Serving'
      /\ chan[p] # << >> /\ Head(chan[p]) = cmd /\ chan'[p] = Tail(chan[p])
  BY RequestHandled DEF Request
<1>2. Talks(p)
  BY <1>1 DEF InTouch
<1>3. /\ left[p] > 0 /\ thread[p] = "loop" /\ server[p] = live /\ inbox[p] = << >>
      /\ \/ chan[p] = <<"register">> /\ reg[p] = "not_conf"
         \/ chan[p] = <<"feed">> /\ reg[p] = "has_conf"
  BY <1>1, <1>2 DEF Talks
<1>4. chan'[p] = << >> /\ chan[p] = <<cmd>>
  <2>1. PICK c \in {"register", "feed"} : chan[p] = <<c>>
    BY <1>3
  <2>2. Head(chan[p]) = c /\ Tail(chan[p]) = << >>
    BY <2>1
  <2> QED BY <1>1, <2>1, <2>2
<1>5. inbox'[p] = <<Package(cmd, TRUE)>>
  <2>1. inbox' = [inbox EXCEPT ![p] = Queued(@, Package(cmd, TRUE))]
    BY <1>3 DEF Handles, Reply
  <2>2. Queued(<< >>, Package(cmd, TRUE)) = <<Package(cmd, TRUE)>>
    BY QueuedFirst
  <2>3. inbox'[p] = Queued(inbox[p], Package(cmd, TRUE))
    BY <2>1 DEF Calm, SupTypeOK, FcTypeOK, NetTypeOK
  <2> QED BY <1>3, <2>2, <2>3
<1>6. cmd = "feed" => reg[p] = "has_conf"
  BY <1>3, <1>4
<1>7. (Talks(p))'
  <2>1. inbox'[p] # << >>
    BY <1>5
  <2> QED BY <1>1, <1>3, <1>4, <1>5, <1>6, <2>1 DEF Talks
<1>8. ASSUME NEW i \in (WithPid(p))'
      PROVE  (Fed(p, apps[i]))'
  <2>1. apps'[i].age = 0 /\ apps'[i].name = prog[p]
    OBVIOUS
  <2>2. /\ left'[p] <= FeedPeriod[prog[p]] /\ left[p] \in Nat
        /\ FeedPeriod[prog[p]] \in Nat
    BY <1>1, SupConstants DEF InstanceInv, DeadAreGone, Calm, SupTypeOK
  <2>3. inbox'[p] # << >>
    BY <1>5
  <2> QED BY <1>1, <2>1, <2>2, <2>3 DEF Fed
<1> QED BY <1>7, <1>8

\* The node of a running process belongs to no other: who registers takes
\* over the node of a process that is gone, if any.
LEMMA RegisterInTouch ==
    ASSUME Calm, InstanceInv, NEW p \in Pid, HandleRegister(p),
           \A q \in Pid : InTouch(q)
    PROVE  \A q \in Pid : (InTouch(q))'
<1>1. /\ UNCHANGED <<life, prog, thread, miss, server, live>>
      /\ Serving /\ Serving' /\ chan[p] # << >>
      /\ \A q \in Pid \ {p} : SameProcess(q)
  BY RequestHandled DEF HandleRegister, Request
<1>2. PICK i \in DOMAIN apps' :
        /\ apps'[i].name = prog[p] /\ apps'[i].pid = p /\ apps'[i].age = 0
        /\ i \in DOMAIN apps => apps[i].name = prog[p]
        /\ \A j \in DOMAIN apps' \ {i} :
            /\ j \in DOMAIN apps /\ apps'[j] = apps[j]
            /\ apps[j].name # prog[p] /\ apps[j].pid # p
  BY RegistersOwnNode DEF InstanceInv
<1>3. DOMAIN apps \subseteq DOMAIN apps'
  BY RegistersOwnNode DEF InstanceInv
<1>4. (InTouch(p))'
  <2>1. (WithPid(p))' = {i}
    BY <1>2 DEF WithPid
  <2> QED BY <1>2, <2>1, AnsweredInTouch DEF HandleRegister
<1>5. ASSUME NEW q \in Pid \ {p}
      PROVE  (InTouch(q))'
  <2>1. SameThread(q)
    BY <1>1 DEF SameThread
  <2>2. CASE life[q] # "runs"
    BY <1>1, <2>2 DEF InTouch
  <2>3. CASE life[q] = "runs"
    <3>1. i \notin WithPid(q)
      <4> SUFFICES ASSUME i \in WithPid(q)
                   PROVE  FALSE
        OBVIOUS
      <4>1. i \in DOMAIN apps /\ apps[i].pid = q /\ q # NoPid
        BY WdConstants DEF WithPid
      <4>2. prog[q] = prog[p]
        BY <1>2, <4>1 DEF InstanceInv, NodesOwn
      <4>3. Fresh(q)
        BY <1>1, <2>3, <4>2 DEF InstanceInv, LateRequests, Alive
      <4>4. Fed(q, apps[i])
        BY <2>3 DEF InTouch
      <4> QED BY <4>3, <4>4 DEF Fresh, Fed
    <3>2. (WithPid(q))' = WithPid(q)
      BY <1>2, <1>3, <3>1 DEF WithPid
    <3>3. \A j \in WithPid(q) : apps'[j] = apps[j]
      BY <1>2, <1>3, <3>1 DEF WithPid
    <3> QED BY <1>1, <2>1, <3>2, <3>3, StillInTouch
  <2> QED BY <2>2, <2>3
<1> QED BY <1>4, <1>5

\* A feed renews the sender's own node.
LEMMA FeedInTouch ==
    ASSUME Calm, InstanceInv, NEW p \in Pid, HandleFeed(p),
           \A q \in Pid : InTouch(q)
    PROVE  \A q \in Pid : (InTouch(q))'
<1>1. /\ UNCHANGED <<life, prog, thread, miss, server, live>>
      /\ Serving /\ Serving'
      /\ \A q \in Pid \ {p} : SameProcess(q)
  BY RequestHandled DEF HandleFeed, Request
<1>2. PICK k \in DOMAIN apps : k \in WithPid(p) /\ apps' = [apps EXCEPT ![k].age = 0]
  BY DEF HandleFeed, Feed, IsFirst
<1>3. /\ DOMAIN apps' = DOMAIN apps /\ apps'[k].age = 0
      /\ \A i \in DOMAIN apps :
            /\ apps'[i].name = apps[i].name /\ apps'[i].pid = apps[i].pid
            /\ apps'[i].age = apps[i].age \/ apps'[i].age = 0
  <2>1. DOMAIN apps' = DOMAIN apps
    BY <1>2
  <2>2. ASSUME NEW i \in DOMAIN apps
        PROVE  /\ apps'[i].name = apps[i].name /\ apps'[i].pid = apps[i].pid
               /\ apps'[i].age = apps[i].age \/ apps'[i].age = 0
               /\ i = k => apps'[i].age = 0
    <3>1. apps[i] \in App
      BY Ranges
    <3> QED BY <1>2, <3>1 DEF App
  <2> QED BY <2>1, <2>2
<1>4. \A q \in Pid : (WithPid(q))' = WithPid(q)
  BY <1>3 DEF WithPid
<1>5. (InTouch(p))'
  <2>1. ASSUME NEW i \in WithPid(p)
        PROVE  apps'[i].age = 0 /\ apps'[i].name = prog[p]
    <3>1. /\ i \in DOMAIN apps /\ apps[i].pid = p /\ apps[k].pid = p /\ p # NoPid
      BY <1>2, WdConstants DEF WithPid
    <3>2. apps[i].name = prog[p] /\ apps[k].name = prog[p]
      BY <3>1 DEF InstanceInv, NodesOwn
    <3>3. i = k
      BY <3>1, <3>2, Ranges
    <3> QED BY <1>3, <3>1, <3>2, <3>3
  <2> QED BY <1>2, <1>4, <2>1, AnsweredInTouch DEF HandleFeed
<1>6. ASSUME NEW q \in Pid \ {p}
      PROVE  (InTouch(q))'
  <2>1. SameThread(q)
    BY <1>1 DEF SameThread
  <2>2. \A i \in WithPid(q) : i \in DOMAIN apps
    BY DEF WithPid
  <2> QED BY <1>1, <1>3, <1>4, <2>1, <2>2, StillInTouch
<1> QED BY <1>5, <1>6

\* A feed of a process that has no node is one of a process that is gone.
LEMMA StrayInTouch ==
    ASSUME Calm, InstanceInv, NEW p \in Pid, HandleStrayFeed(p),
           \A q \in Pid : InTouch(q)
    PROVE  \A q \in Pid : (InTouch(q))'
<1>1. /\ UNCHANGED <<life, prog, thread, miss, server, live>>
      /\ Serving /\ Serving' /\ chan[p] # << >> /\ Head(chan[p]) = "feed"
      /\ \A q \in Pid \ {p} : SameProcess(q)
  BY RequestHandled DEF HandleStrayFeed, Request
<1>2. UNCHANGED apps /\ WithPid(p) = {}
  BY DEF HandleStrayFeed, WdVars
<1>3. life[p] # "runs"
  <2> SUFFICES ASSUME life[p] = "runs"
               PROVE  FALSE
    OBVIOUS
  <2>1. Head(<<"register">>) # "feed"
    OBVIOUS
  <2>2. reg[p] = "has_conf"
    BY <1>1, <2>1 DEF InTouch, Talks
  <2> QED BY <1>2, <2>2 DEF InTouch, Talks
<1>4. ASSUME NEW q \in Pid
      PROVE  (InTouch(q))'
  <2>1. CASE q = p
    BY <1>1, <1>3, <2>1 DEF InTouch
  <2>2. CASE q # p
    <3>1. SameThread(q) /\ (WithPid(q))' = WithPid(q)
      BY <1>1, <1>2, <2>2 DEF SameThread, WithPid
    <3> QED BY <1>1, <1>2, <3>1, StillInTouch
  <2> QED BY <2>1, <2>2
<1> QED BY <1>4

\* timeout_cb takes no running process for one that stopped feeding.
LEMMA ScanInTouch ==
    ASSUME Calm, InstanceInv, crashes = 0, DaemonScans,
           NoFalseRestart, \A q \in Pid : InTouch(q)
    PROVE  NoFalseRestart' /\ \A q \in Pid : (InTouch(q))'
<1>1. /\ Serving /\ UNCHANGED <<life, prog, left, killed, crashes>>
      /\ UNCHANGED <<thread, reg, leaked, miss, server, live, portFile, chan, inbox>>
  BY DEF DaemonScans, FcVars, feedVars, netVars, procVars, boundVars
<1>2. Serving' /\ \A q \in Pid : SameThread(q)
  BY <1>1 DEF Serving, SameThread, SameProcess
<1>3. CASE TimeoutBegin \/ CheckFresh \/ TimeoutEnd
  <2>1. UNCHANGED apps /\ wpc' # "restart"
    BY <1>3 DEF TimeoutBegin, CheckFresh, TimeoutEnd
  <2>2. ASSUME NEW q \in Pid
        PROVE  (InTouch(q))'
    <3>1. (WithPid(q))' = WithPid(q)
      BY <2>1 DEF WithPid
    <3> QED BY <1>1, <1>2, <2>1, <3>1, StillInTouch
  <2> QED BY <2>1, <2>2 DEF NoFalseRestart, FalseRestart
<1>4. CASE CheckOverdue(FALSE)
  <2>1. /\ cursor \in DOMAIN apps /\ cursor' = cursor /\ Overdue(apps[cursor])
        /\ apps' = [apps EXCEPT ![cursor].age = 0] /\ UNCHANGED conf
    BY <1>4 DEF CheckOverdue
  <2>2. /\ DOMAIN apps' = DOMAIN apps
        /\ \A i \in DOMAIN apps :
            /\ apps'[i].name = apps[i].name /\ apps'[i].pid = apps[i].pid
            /\ apps'[i].age = apps[i].age \/ apps'[i].age = 0
    BY <1>1, <1>2, <2>1, RenewalKeeps DEF SameThread
  <2>3. ASSUME NEW x \in Pid, life[x] = "runs", prog[x] = apps[cursor].name
        PROVE  FALSE
    <3>1. apps[cursor].pid = x \/ WillRegister(x, apps[cursor])
      BY <2>1, <2>3 DEF InstanceInv, NodeKnowsProcess, Alive
    <3>2. apps[cursor].age <= FeedPeriod[apps[cursor].name]
      <4>1. CASE apps[cursor].pid = x
        BY <2>1, <2>3, <4>1 DEF InTouch, Fed, WithPid
      <4>2. CASE WillRegister(x, apps[cursor])
        <5>1. apps[cursor].age \in Nat /\ left[x] \in Nat
              /\ FeedPeriod[apps[cursor].name] \in Nat
          BY <2>1, Ranges, SupConstants DEF Calm, SupTypeOK
        <5> QED BY <4>2, <5>1 DEF WillRegister
      <4> QED BY <3>1, <4>1, <4>2
    <3> QED BY <2>1, <3>2, InTime DEF InstanceInv
  <2>4. NoFalseRestart'
    BY <1>1, <2>1, <2>2, <2>3 DEF NoFalseRestart, FalseRestart, Healthy
  <2>5. ASSUME NEW q \in Pid
        PROVE  (InTouch(q))'
    <3>1. (WithPid(q))' = WithPid(q) /\ \A i \in WithPid(q) : i \in DOMAIN apps
      BY <2>2 DEF WithPid
    <3> QED BY <1>1, <1>2, <2>2, <3>1, StillInTouch
  <2> QED BY <2>4, <2>5
<1> QED BY <1>3, <1>4 DEF DaemonScans

\* A second passes when nothing is on its way, and brings the next feed as
\* much nearer as the node gets older.
LEMMA SecondInTouch ==
    ASSUME Calm, InstanceInv, Second, \A q \in Pid : InTouch(q)
    PROVE  \A q \in Pid : (InTouch(q))'
<1> SUFFICES ASSUME NEW q \in Pid, life'[q] = "runs"
             PROVE  (Talks(q))' /\ \A i \in (WithPid(q))' : (Fed(q, apps[i]))'
  BY DEF InTouch
<1>1. /\ UNCHANGED <<live, portFile, life, prog, thread, reg, miss, server, chan, inbox>>
      /\ DOMAIN apps' = DOMAIN apps
      /\ \A i \in DOMAIN apps :
           /\ apps'[i].name = apps[i].name /\ apps'[i].pid = apps[i].pid
           /\ apps[i].age \in Nat /\ apps'[i].age \in Nat
           /\ apps'[i].age <= apps[i].age + 1
      /\ chan[q] = << >> /\ left[q] \in Nat /\ inbox[q] = << >>
      /\ left[q] > 0 /\ left'[q] = left[q] - 1
  BY SecondPasses DEF InstanceInv
<1>2. (WithPid(q))' = WithPid(q)
  BY <1>1 DEF WithPid
<1>3. Talks(q) /\ \A i \in WithPid(q) : Fed(q, apps[i])
  BY <1>1 DEF InTouch
<1>4. (Talks(q))'
  BY <1>1, <1>2, <1>3 DEF Talks, Serving
<1>5. ASSUME NEW i \in WithPid(q)
      PROVE  (Fed(q, apps[i]))'
  <2>1. i \in DOMAIN apps /\ apps[i].name \in Name
    BY Ranges DEF WithPid
  <2>2. FeedPeriod[apps[i].name] \in Nat
    BY <2>1, SupConstants
  <2>3. reg[q] = "has_conf" /\ apps[i].age + left[q] <= FeedPeriod[apps[i].name]
    BY <1>1, <1>3 DEF Fed
  <2>4. apps'[i].age + left'[q] <= FeedPeriod[apps[i].name] /\ left'[q] >= 0
    BY <1>1, <2>1, <2>2, <2>3
  <2>5. apps'[i].age <= FeedPeriod[apps[i].name]
    BY <1>1, <2>1, <2>2, <2>4
  <2> QED BY <1>1, <2>1, <2>3, <2>4, <2>5 DEF Fed
<1> QED BY <1>2, <1>4, <1>5

\* As long as the daemon has not crashed every running process is in touch.
LEMMA FeedingInvariant ==
    ASSUME Undisturbed, MaxMissFeedback >= 1
    PROVE  SupSpec => []FeedingInv
<1>1. SupInit => FeedingInv
  <2> SUFFICES ASSUME SupInit
               PROVE  FeedingInv
    OBVIOUS
  <2>1. wpc = "down" /\ \A p \in Pid : life[p] = "dead"
    BY DEF SupInit, WdInit
  <2> QED BY <2>1 DEF FeedingInv, NoFalseRestart, FalseRestart, InTouch
<1>2. Calm /\ InstanceInv /\ FeedingInv /\ [SupNext]_SupVars => FeedingInv'
  <2> SUFFICES ASSUME Calm, InstanceInv, FeedingInv, [SupNext]_SupVars, crashes' = 0
               PROVE  NoFalseRestart' /\ \A q \in Pid : (InTouch(q))'
    BY DEF FeedingInv
  <2>1. CASE DaemonCrashes
    <3>1. crashes \in Nat /\ crashes' = crashes + 1
      BY <2>1 DEF DaemonCrashes, InstanceInv, DaemonPlaces
    <3> QED BY <3>1
  <2>2. CASE ~ DaemonCrashes
    <3> USE <2>2
    <3>1. UNCHANGED crashes
      BY DEF SupNext, SupVars, boundVars, Boot, AppDies, AppHangs, AppStep, AppOpens,
             AppTimeout, AppReceives, DaemonStep, DaemonStarts, DaemonPublishes,
             HandleRegister, HandleFeed, HandleStrayFeed, Handles, DaemonScans, Kill,
             Exec, Second
    <3>2. crashes = 0 /\ NoFalseRestart /\ \A q \in Pid : InTouch(q)
      BY <3>1 DEF FeedingInv
    <3>3. ~ FalseRestart
      BY <3>2 DEF NoFalseRestart
    <3>4. ASSUME UNCHANGED <<wpc, cursor, apps, killed>>,
                 \A x \in Pid, n \in NamesIn(apps) : Healthy(x, n)' => Healthy(x, n)
          PROVE  NoFalseRestart'
      <4>1. wpc = "restart" => apps[cursor].name \in NamesIn(apps)
        BY DEF NamesIn, Calm, OnNode
      <4> QED BY <3>3, <3>4, <4>1 DEF NoFalseRestart, FalseRestart, Healthy
    <3>5. wpc' # "restart" \/ killed' => NoFalseRestart'
      BY DEF NoFalseRestart, FalseRestart
    <3>6. ASSUME NEW p \in Pid, NEW n \in Name, Boot(p, n)
          PROVE  NoFalseRestart' /\ \A q \in Pid : (InTouch(q))'
      <4>1. /\ Spawn(p, n) /\ n \notin NamesIn(apps) /\ UNCHANGED WdVars
            /\ \A q \in Pid : ~ (Alive(q) /\ prog[q] = n)
        BY <3>6 DEF Boot
      <4>2. UNCHANGED <<wpc, cursor, apps, conf>> /\ UNCHANGED killed
        BY <3>6, <4>1 DEF WdVars, Boot
      <4>3. prog'[p] = n /\ \A q \in Pid \ {p} : SameProcess(q)
        BY <4>1, <4>2, SpawnIsFresh
      <4>4. \A x \in Pid, m \in NamesIn(apps) : Healthy(x, m)' => Healthy(x, m)
        BY <4>1, <4>3 DEF Healthy, SameProcess
      <4> QED BY <3>2, <3>4, <4>1, <4>2, <4>4, SpawnInTouch
    <3>7. ASSUME NEW p \in Pid, AppDies(p)
          PROVE  NoFalseRestart' /\ \A q \in Pid : (InTouch(q))'
      <4>1. Bury(p) /\ UNCHANGED WdVars /\ UNCHANGED killed
        BY <3>7 DEF AppDies
      <4>2. UNCHANGED <<wpc, cursor, apps, conf>>
        BY <4>1 DEF WdVars
      <4>3. UNCHANGED prog /\ life' = [life EXCEPT ![p] = "dead"]
        BY <4>1 DEF Bury
      <4>4. \A x \in Pid, m \in NamesIn(apps) : Healthy(x, m)' => Healthy(x, m)
        BY <4>3 DEF Healthy, Calm, SupTypeOK
      <4> QED BY <3>2, <3>4, <4>1, <4>2, <4>4, BuryInTouch
    <3>8. ASSUME NEW p \in Pid, AppHangs(p)
          PROVE  NoFalseRestart' /\ \A q \in Pid : (InTouch(q))'
      <4>1. /\ UNCHANGED WdVars /\ UNCHANGED FcVars /\ UNCHANGED <<prog, left, killed>>
            /\ life' = [life EXCEPT ![p] = "hangs"]
        BY <3>8 DEF AppHangs
      <4>2. /\ UNCHANGED <<wpc, cursor, apps>>
            /\ UNCHANGED <<thread, reg, miss, server, leaked, live, portFile, chan, inbox>>
        BY <4>1 DEF WdVars, FcVars, feedVars, netVars
      <4>3. \A x \in Pid : life'[x] = "runs" => life[x] = "runs"
        BY <4>1 DEF Calm, SupTypeOK
      <4>4. \A x \in Pid, m \in NamesIn(apps) : Healthy(x, m)' => Healthy(x, m)
        BY <4>1, <4>3 DEF Healthy
      <4>5. ASSUME NEW q \in Pid
            PROVE  (InTouch(q))'
        BY <3>2, <4>1, <4>2, <4>3 DEF InTouch, Talks, Fed, WithPid, Serving
      <4> QED BY <3>4, <4>1, <4>2, <4>4, <4>5
    <3>9. ASSUME NEW p \in Pid, AppStep(p)
          PROVE  NoFalseRestart' /\ \A q \in Pid : (InTouch(q))'
      <4>1. UNCHANGED WdVars /\ UNCHANGED <<live, portFile, life, prog, killed>>
        BY <3>9, ThreadStaysHome
      <4>2. NoFalseRestart'
        BY <3>4, <4>1 DEF WdVars, Healthy
      <4>3. (InTouch(p))'
        <5>1. CASE AppOpens(p)
          <6>1. /\ thread[p] = "starting"
                /\ UNCHANGED <<life, left, reg, miss, server, chan, inbox, apps, live, portFile>>
            BY <5>1 DEF AppOpens, OpenSocket, procVars, netVars, WdVars
          <6> QED BY <3>2, <6>1 DEF InTouch, Talks, Fed, WithPid, Serving
        <5>2. CASE AppTimeout(p)
          BY <3>2, <5>2, TimeoutInTouch
        <5>3. CASE AppReceives(p)
          BY <3>2, <5>3, AnswerInTouch
        <5> QED BY <3>9, <5>1, <5>2, <5>3 DEF AppStep
      <4> QED BY <3>2, <3>9, <4>2, <4>3, ThreadInTouch
    <3>10. ASSUME NEW found \in Found, NEW port \in Port, DaemonStarts(found, port)
           PROVE  NoFalseRestart' /\ \A q \in Pid : (InTouch(q))'
      BY <3>2, <3>5, <3>10, StartInTouch DEF DaemonStarts, Start
    <3>11. CASE DaemonPublishes
      <4>1. UNCHANGED WdVars /\ UNCHANGED <<life, prog, killed>>
        BY <3>11 DEF DaemonPublishes, procVars
      <4>2. NoFalseRestart'
        BY <3>4, <4>1 DEF WdVars, Healthy
      <4> QED BY <3>2, <3>11, <4>2, PublishInTouch
    <3>12. ASSUME NEW p \in Pid, HandleRegister(p) \/ HandleFeed(p) \/ HandleStrayFeed(p)
           PROVE  NoFalseRestart' /\ \A q \in Pid : (InTouch(q))'
      <4>1. wpc' # "restart"
        BY <3>12 DEF HandleRegister, HandleFeed, HandleStrayFeed, Register, Feed, WdVars
      <4> QED BY <3>2, <3>5, <3>12, <4>1, RegisterInTouch, FeedInTouch, StrayInTouch
    <3>13. CASE DaemonScans
      BY <3>2, <3>13, ScanInTouch
    <3>14. CASE Kill
      <4>1. killed'
        BY <3>14 DEF Kill
      <4>2. UNCHANGED <<apps, conf>>
        BY <3>14 DEF Kill, WdVars
      <4>3. CASE \E p \in Pid : Bury(p)
        BY <3>2, <3>5, <4>1, <4>2, <4>3, BuryInTouch
      <4>4. CASE UNCHANGED <<FcVars, procVars>>
        <5>1. UNCHANGED <<life, prog, left, thread, reg, miss, server, leaked,
                          live, portFile, chan, inbox>>
          BY <4>4 DEF FcVars, feedVars, netVars, procVars
        <5>2. \A q \in Pid : (InTouch(q))'
          BY <3>2, <4>2, <5>1 DEF InTouch, Talks, Fed, WithPid, Serving
        <5> QED BY <3>5, <4>1, <5>2
      <4>5. (\E p \in Pid : Bury(p)) \/ UNCHANGED <<FcVars, procVars>>
        <5>1. cursor \in DOMAIN apps
          BY <3>14 DEF Kill, Calm, OnNode
        <5>2. apps[cursor].pid # NoPid => apps[cursor].pid \in Pid
          BY <5>1, Ranges
        <5> QED BY <3>14, <5>2 DEF Kill
      <4> QED BY <4>3, <4>4, <4>5
    <3>15. ASSUME NEW p \in Pid, Exec(p)
           PROVE  NoFalseRestart' /\ \A q \in Pid : (InTouch(q))'
      <4>1. /\ killed /\ wpc = "restart" /\ wpc' = "scan" /\ UNCHANGED <<apps, conf>>
        BY <3>15 DEF Exec, Restart
      <4>2. PICK n \in Name : CommandOf[n] = apps[cursor].cmd /\ Spawn(p, n)
        BY <3>15 DEF Exec
      <4>3. \A q \in Pid : ~ (Alive(q) /\ prog[q] = n)
        <5>1. cursor \in DOMAIN apps
          BY <4>1 DEF Calm, OnNode
        <5>2. apps[cursor].name \in Name
          BY <5>1, Ranges
        <5>3. n = apps[cursor].name
          BY <4>2, <5>1, <5>2, SupConstants DEF InstanceInv, NodesOwn
        <5> QED BY <4>1, <5>3 DEF InstanceInv, RestartIsSafe
      <4> QED BY <3>2, <3>5, <4>1, <4>2, <4>3, SpawnInTouch
    <3>16. CASE Second
      <4>1. wpc' # "restart"
        BY <3>16, SecondPasses DEF InstanceInv
      <4> QED BY <3>2, <3>5, <3>16, <4>1, SecondInTouch
    <3>17. CASE UNCHANGED SupVars
      <4>1. /\ UNCHANGED <<wpc, cursor, apps, killed, life, prog, left>>
            /\ UNCHANGED <<thread, reg, miss, server, leaked, live, portFile, chan, inbox>>
        BY <3>17 DEF SupVars, WdVars, FcVars, feedVars, netVars, procVars
      <4>2. NoFalseRestart'
        BY <3>4, <4>1 DEF Healthy
      <4>3. \A q \in Pid : (InTouch(q))'
        BY <3>2, <4>1 DEF InTouch, Talks, Fed, WithPid, Serving
      <4> QED BY <4>2, <4>3
    <3> QED BY <3>6, <3>7, <3>8, <3>9, <3>10, <3>11, <3>12, <3>13, <3>14, <3>15, <3>16,
               <3>17 DEF SupNext, DaemonStep
  <2> QED BY <2>1, <2>2
<1>3. Undisturbed /\ SupTypeOK /\ RegistryInv /\ OnNode => Calm
  BY DEF Calm
<1>4. SupSpec => []RegistryInv /\ []OnNode /\ []SupTypeOK
  BY DaemonInSystem, RegistryInvariant, RestartsNode, SystemTypeCorrect, PTL
<1> QED BY <1>1, <1>2, <1>3, <1>4, InstanceInvariant, PTL DEF SupSpec

\* NoFalseRestart: a daemon that was never restarted neither kills nor starts
\* an application whose process runs, because each round of a feed and its
\* answer ends within a second of the timeout that began it.
THEOREM RunningIsNotRestarted ==
    ASSUME Undisturbed, MaxMissFeedback >= 1
    PROVE  SupSpec => []NoFalseRestart
<1>1. FeedingInv => NoFalseRestart
  BY DEF FeedingInv, NoFalseRestart
<1> QED BY <1>1, FeedingInvariant, PTL

=============================================================================
