---------------------------- MODULE UpdateProofs ----------------------------
(* Proofs about UpdateDaemon, for every list of updates and every number   *)
(* of faults.                                                              *)
EXTENDS UpdateDaemon, SequenceLemmas

Command == [does : DOMAIN Uses, open : BOOLEAN, alone : BOOLEAN]

\* The tables of update_c_app written out.
LEMMA Stages ==
    /\ DOMAIN Does = {"lock", "backup", "replace", "unlock"}
    /\ Does["lock"] = "touch" /\ Does["backup"] = "backup"
    /\ Does["replace"] = "replace" /\ Does["unlock"] = "remove"
    /\ DOMAIN After = {"locking", "backing", "replacing", "unlocking"}
    /\ After["locking"] = "backup" /\ After["backing"] = "kill"
    /\ After["replacing"] = "unlock" /\ After["unlocking"] = "scan"
    /\ Waiting["touch"] = "locking" /\ Waiting["backup"] = "backing"
    /\ Waiting["replace"] = "replacing" /\ Waiting["remove"] = "unlocking"
    /\ DOMAIN Uses = {"touch", "backup", "replace", "remove"}
BY DEF Does, After, Waiting, Uses

\* Two commands share a file when both are at the lock, or neither is.
LEMMA Sharing ==
    ASSUME NEW c \in Command, NEW does \in DOMAIN Uses
    PROVE  Shares(c, does) <=>
             (c.does \in {"touch", "remove"} <=> does \in {"touch", "remove"})
<1>1. c.does \in {"touch", "backup", "replace", "remove"}
  BY Stages DEF Command
<1>2. does \in {"touch", "backup", "replace", "remove"}
  BY Stages
<1>3. /\ Uses["touch"] = {"lock"} /\ Uses["remove"] = {"lock"}
      /\ Uses["backup"] = {"bin", "bak"} /\ Uses["replace"] = {"bin"}
  BY DEF Uses
<1> QED BY <1>1, <1>2, <1>3 DEF Shares

\* When a command is over the others are there as before, in their order.
LEMMA OverShifts ==
    ASSUME commands \in Seq(Command), NEW i \in DOMAIN commands,
           commands' = RemoveAt(commands, i)
    PROVE  /\ commands' \in Seq(Command)
           /\ Len(commands') = Len(commands) - 1
           /\ \A j \in DOMAIN commands' :
                 LET k == IF j < i THEN j ELSE j + 1 IN
                 k \in DOMAIN commands /\ commands'[j] = commands[k]
           /\ i \in 1 .. Len(commands)
<1>1. /\ DOMAIN commands = 1 .. Len(commands) /\ Len(commands) \in Nat
      /\ i \in 1 .. Len(commands)
  BY LenProperties
<1>2. /\ commands' \in Seq(Command)
      /\ Len(commands') = Len(commands) - 1
      /\ \A j \in 1 .. Len(commands) - 1 :
            commands'[j] = IF j < i THEN commands[j] ELSE commands[j + 1]
  BY RemoveAtShifts
<1>3. DOMAIN commands' = 1 .. Len(commands) - 1
  BY <1>2, LenProperties
<1> QED BY <1>1, <1>2, <1>3

\* What the end of a command, however it came, leaves of the invariant.
LEMMA OverKeeps ==
    ASSUME UpInv, NEW i \in DOMAIN commands, Over(i)
    PROVE  /\ commands' \in Seq(Command)
           /\ updates' \in Seq({"c", "kmodule", "java"})
           /\ at' = at
           /\ upc' \in {"off", "idle", "scan", "kill"} \union DOMAIN Does \union DOMAIN After
           /\ OnNode' /\ LastAwaited'
           /\ \A j \in DOMAIN commands' : \E k \in DOMAIN commands :
                 k # i /\ commands'[j] = commands[k]
           /\ \A k \in DOMAIN commands \ {i} : \E j \in DOMAIN commands' :
                 commands'[j] = commands[k]
           /\ spoilt \subseteq spoilt' => Apart'
           /\ Awaited(i) => upc = Waiting[commands[i].does] /\ upc' = After[upc]
           /\ ~ Awaited(i) => upc' = upc
<1>1. commands \in Seq(Command) /\ upc \in {"off", "idle", "scan", "kill"} \union DOMAIN Does \union DOMAIN After
  BY DEF UpInv, UpTypeOK, Command
<1>2. commands' = RemoveAt(commands, i) /\ at' = at
  BY DEF Over
<1>3. /\ commands' \in Seq(Command)
      /\ Len(commands') = Len(commands) - 1
      /\ \A j \in DOMAIN commands' :
            LET k == IF j < i THEN j ELSE j + 1 IN
            k \in DOMAIN commands /\ commands'[j] = commands[k]
      /\ i \in 1 .. Len(commands)
  BY <1>1, <1>2, OverShifts
<1>4. /\ DOMAIN commands = 1 .. Len(commands) /\ Len(commands) \in Nat
      /\ DOMAIN commands' = 1 .. Len(commands) - 1
  BY <1>1, <1>3, LenProperties
<1>5. Awaited(i) => upc = Waiting[commands[i].does] /\ upc' = After[upc]
  BY DEF Awaited, Over, UpInv, LastAwaited
<1>6. ~ Awaited(i) => upc' = upc /\ updates' = updates
  BY DEF Over
<1>7. upc' \in {"off", "idle", "scan", "kill"} \union DOMAIN Does \union DOMAIN After
  BY <1>1, <1>5, <1>6, Stages DEF Awaited
<1>8. updates' \in Seq({"c", "kmodule", "java"}) /\ OnNode'
  <2>1. updates \in Seq({"c", "kmodule", "java"}) /\ OnNode
    BY DEF UpInv, UpTypeOK
  <2>2. CASE Awaited(i) /\ upc = "unlocking"
    <3>1. updates' = RemoveAt(updates, at) /\ upc' = "scan"
      BY <1>5, <2>2, Stages DEF Over
    <3>2. at \in DOMAIN updates
      BY <2>1, <2>2, Stages DEF OnNode, Updating
    <3> QED BY <2>1, <3>1, <3>2, RemoveAtShifts, Stages DEF OnNode, Updating
  <2>3. CASE ~ (Awaited(i) /\ upc = "unlocking")
    <3>1. updates' = updates
      BY <2>3 DEF Over
    <3>2. upc' \in Updating => upc \in Updating
      BY <1>5, <1>6, Stages DEF Updating, Awaited
    <3> QED BY <1>2, <2>1, <3>1, <3>2 DEF OnNode
  <2> QED BY <2>2, <2>3
<1>9. LastAwaited'
  <2>1. CASE Awaited(i)
    <3>1. upc' \notin DOMAIN After
      BY <1>5, <2>1, Stages DEF Awaited
    <3> QED BY <3>1 DEF LastAwaited
  <2>2. CASE ~ Awaited(i)
    <3> SUFFICES ASSUME upc \in DOMAIN After
                 PROVE  commands' # << >> /\ Waiting[commands'[Len(commands')].does] = upc
      BY <1>6, <2>2 DEF LastAwaited
    <3>1. i # Len(commands) /\ Waiting[commands[Len(commands)].does] = upc
      BY <2>2 DEF Awaited, UpInv, LastAwaited
    <3>2. Len(commands') \in DOMAIN commands' /\ Len(commands') + 1 = Len(commands)
      BY <1>3, <1>4, <3>1
    <3>3. commands'[Len(commands')] = commands[Len(commands)]
      BY <1>3, <1>4, <3>1, <3>2
    <3>4. commands' # << >>
      BY <3>2
    <3> QED BY <3>1, <3>3, <3>4
  <2> QED BY <2>1, <2>2
<1>10. \A j \in DOMAIN commands' : \E k \in DOMAIN commands :
          k # i /\ commands'[j] = commands[k]
  BY <1>3, <1>4
<1>12. ASSUME NEW k \in DOMAIN commands \ {i}
       PROVE  \E j \in DOMAIN commands' : commands'[j] = commands[k]
  <2>1. CASE k < i
    BY <1>3, <1>4, <2>1
  <2>2. CASE ~ (k < i)
    <3>1. k - 1 \in DOMAIN commands' /\ ~ (k - 1 < i) /\ (k - 1) + 1 = k
      BY <1>3, <1>4, <2>2
    <3> QED BY <1>3, <3>1
  <2> QED BY <2>1, <2>2
<1>11. ASSUME spoilt \subseteq spoilt'
       PROVE  Apart'
  <2> SUFFICES ASSUME "overlap" \notin spoilt',
                      NEW j \in DOMAIN commands'
               PROVE  /\ commands'[j].alone
                      /\ \A l \in DOMAIN commands' :
                            j # l => ~ Shares(commands'[j], commands'[l].does)
    BY DEF Apart, Shares
  <2>3. "overlap" \notin spoilt
    BY <1>11
  <2> DEFINE shift(n) == IF n < i THEN n ELSE n + 1
  <2>1. shift(j) \in DOMAIN commands /\ commands'[j] = commands[shift(j)]
    BY <1>3
  <2>2. ASSUME NEW l \in DOMAIN commands', j # l
        PROVE  ~ Shares(commands'[j], commands'[l].does)
    <3>1. shift(l) \in DOMAIN commands /\ commands'[l] = commands[shift(l)]
      BY <1>3
    <3>2. shift(l) # shift(j)
      BY <1>3, <1>4, <2>2
    <3> HIDE DEF shift
    <3> QED BY <2>1, <2>3, <3>1, <3>2 DEF UpInv, Apart
  <2> HIDE DEF shift
  <2> QED BY <2>1, <2>2, <2>3 DEF UpInv, Apart
<1> QED BY <1>2, <1>3, <1>5, <1>6, <1>7, <1>8, <1>9, <1>10, <1>11, <1>12

\* When a command is over, what was not running is not.
LEMMA OverRuns ==
    ASSUME UpInv, NEW i \in DOMAIN commands, Over(i),
           NEW does, Running(does)'
    PROVE  \E k \in DOMAIN commands : k # i /\ commands[k].does = does
<1>1. PICK j \in DOMAIN commands' : commands'[j].does = does
  BY DEF Running
<1> QED BY <1>1, OverKeeps

\* A kill, whoever sends it, keeps the types of the processes.
LEMMA KillTypes ==
    ASSUME UpTypeOK, KillLatest \/ KillStray \/ KillNone
    PROVE  /\ proc' \in Whole \union {"none"}
           /\ hung' \in BOOLEAN
           /\ boot' \in {"loading", "saving", "ready", "up"}
           /\ strays' \in Nat /\ zombies' \in Nat
<1>1. /\ proc \in Whole \union {"none"} /\ hung \in BOOLEAN
      /\ boot \in {"loading", "saving", "ready", "up"}
      /\ strays \in Nat /\ zombies \in Nat
  BY DEF UpTypeOK
<1>2. hung' \in BOOLEAN
  BY <1>1 DEF KillLatest, KillStray, KillNone, process
<1>3. strays' \in Nat
  BY <1>1 DEF KillLatest, KillStray, KillNone, process
<1>4. zombies' \in Nat
  BY <1>1 DEF KillLatest, KillStray, KillNone, process
<1>5. proc' \in Whole \union {"none"}
  BY <1>1 DEF KillLatest, KillStray, KillNone, process
<1>6. boot' \in {"loading", "saving", "ready", "up"}
  BY <1>1 DEF KillLatest, KillStray, KillNone, process
<1> QED BY <1>2, <1>3, <1>4, <1>5, <1>6

\* When nothing but the application and the monitoring daemon act, and when
\* the system writes back, the update daemon and its files rest.
LEMMA OthersKeep ==
    ASSUME UpInv, AppDies \/ AppHangs \/ BootStep \/ WdStep \/ Writeback
    PROVE  UpInv'
<1> USE DEF UpInv, files, process
<1>1. UNCHANGED <<upc, updates, at, commands, lock, bin, bak, spoilt>>
  BY DEF AppDies, AppHangs, BootStep, Boots, AppOpensVersion, AppWritesVersion,
         AppRegisters, WdStep, WdTimeout, WdKill, WdExec, Writeback
<1>2. /\ LockCovers' /\ OnNode' /\ LastAwaited' /\ Apart' /\ Locked'
      /\ RemovedLast' /\ BeingReplaced' /\ BackupDone' /\ NotBeforeKill'
  BY <1>1 DEF LockCovers, OnNode, LastAwaited, Apart, Locked, RemovedLast,
              BeingReplaced, BackupDone, NotBeforeKill, Running, Excused, Loose, Shares
<1>3. UpTypeOK'
  <2>1. /\ version' \in {"none", "empty", "known"}
        /\ unsaved' \subseteq {"lock", "bin", "bak", "version"}
    BY DEF UpTypeOK, AppDies, AppHangs, BootStep, Boots, AppOpensVersion,
           AppWritesVersion, AppRegisters, WdStep, WdTimeout, WdKill, WdExec, Writeback
  <2>2. /\ proc' \in Whole \union {"none"}
        /\ hung' \in BOOLEAN
        /\ boot' \in {"loading", "saving", "ready", "up"}
        /\ strays' \in Nat /\ zombies' \in Nat
        /\ wpc' \in {"idle", "looked", "killed"}
    <3> USE DEF UpTypeOK
    <3>1. CASE AppDies
      BY <3>1, KillTypes DEF AppDies
    <3>2. CASE AppHangs \/ BootStep \/ Writeback
      BY <3>2 DEF AppHangs, BootStep, Boots, AppOpensVersion, AppWritesVersion,
                  AppRegisters, Writeback
    <3>3. CASE WdTimeout
      BY <3>3 DEF WdTimeout
    <3>4. CASE WdKill
      BY <3>4, KillTypes DEF WdKill
    <3>5. CASE WdExec
      <4>1. CASE bin \in Whole
        <5>1. /\ proc' = bin /\ boot' = "loading" /\ hung' = FALSE
              /\ strays' \in {strays, strays + 1}
              /\ UNCHANGED zombies /\ wpc' = "idle"
          BY <3>5, <4>1 DEF WdExec
        <5>2. strays \in Nat /\ zombies \in Nat
          OBVIOUS
        <5>3. strays' \in Nat /\ zombies' \in Nat /\ wpc' \in {"idle", "looked", "killed"}
          BY ONLY <5>1, <5>2
        <5>4. proc' \in Whole \union {"none"} /\ boot' \in {"loading", "saving", "ready", "up"}
          BY <4>1, <5>1
        <5>5. hung' \in BOOLEAN
          BY <5>1
        <5> QED BY <5>3, <5>4, <5>5
      <4>2. CASE bin \notin Whole
        <5>1. /\ zombies' = zombies + 1 /\ wpc' = "idle"
              /\ proc' = proc /\ hung' = hung /\ boot' = boot /\ strays' = strays
          BY <3>5, <4>2 DEF WdExec
        <5>2. strays \in Nat /\ zombies \in Nat
          OBVIOUS
        <5>3. strays' \in Nat /\ zombies' \in Nat /\ wpc' \in {"idle", "looked", "killed"}
          BY ONLY <5>1, <5>2
        <5>4. proc' \in Whole \union {"none"} /\ boot' \in {"loading", "saving", "ready", "up"}
          BY <5>1
        <5>5. hung' \in BOOLEAN
          BY <5>1
        <5> QED BY <5>3, <5>4, <5>5
      <4> QED BY <4>1, <4>2
    <3> QED BY <3>1, <3>2, <3>3, <3>4, <3>5 DEF WdStep
  <2>3. faults' \in Nat
    BY DEF UpTypeOK, AppDies, AppHangs, BootStep, Boots, AppOpensVersion,
           AppWritesVersion, AppRegisters, WdStep, WdTimeout, WdKill, WdExec,
           Writeback, Fault
  <2> QED BY <1>1, <2>1, <2>2, <2>3 DEF UpTypeOK
<1>4. StartRaced'
  BY <1>1 DEF StartRaced, LockSeen, AppDies, AppHangs, BootStep, Boots,
              AppOpensVersion, AppWritesVersion, AppRegisters, WdStep, WdTimeout,
              WdKill, WdExec, Writeback
<1> QED BY <1>2, <1>3, <1>4

\* The walk over the list, an attempt that system() ends at once, and the end
\* of the daemon: the commands and the files are as before.
LEMMA WalkKeeps ==
    ASSUME UpInv,
           UpStart \/ UpTimeout \/ UpTimeoutEnd \/ SkipNode \/ CheckVersion
              \/ CommandNotRun \/ UpCrash
    PROVE  UpInv'
<1> USE DEF UpInv, files, process
<1>1. /\ UNCHANGED <<commands, lock, bin, bak, version, unsaved>>
      /\ UNCHANGED <<proc, hung, boot, strays, zombies, wpc, spoilt>>
      /\ upc' \in {"off", "idle", "scan", "lock"}
      /\ upc' = "lock" => at' \in DOMAIN updates'
      /\ faults' \in Nat
  BY DEF UpStart, UpTimeout, UpTimeoutEnd, SkipNode, CheckVersion, CommandNotRun,
         UpCrash, KeepNode, Fault, UpTypeOK
<1>2. updates' \in Seq({"c", "kmodule", "java"}) /\ at' \in Nat \ {0}
  BY UpdateConstants DEF UpStart, UpTimeout, UpTimeoutEnd, SkipNode,
                         CheckVersion, CommandNotRun, UpCrash, KeepNode, UpTypeOK
<1>3. UpTypeOK'
  BY <1>1, <1>2, Stages DEF UpTypeOK
<1>4. OnNode' /\ LastAwaited'
  BY <1>1, Stages DEF OnNode, LastAwaited, Updating
<1>5. Apart' /\ BeingReplaced' /\ LockCovers' /\ StartRaced'
  BY <1>1 DEF Apart, BeingReplaced, LockCovers, StartRaced, Excused, Loose, Shares
<1>6. Locked' /\ RemovedLast' /\ BackupDone' /\ NotBeforeKill'
  BY <1>1, Stages DEF Locked, RemovedLast, BackupDone, NotBeforeKill, Updating,
                      Running, Excused, Loose
<1> QED BY <1>3, <1>4, <1>5, <1>6

\* The kill touches no file.
LEMMA KillKeeps ==
    ASSUME UpInv, KillApp
    PROVE  UpInv'
<1> USE DEF UpInv, files, process
<1>1. /\ upc = "kill" /\ upc' = "replace"
      /\ UNCHANGED <<updates, at, commands, lock, bin, bak, version, unsaved, wpc, faults>>
      /\ spoilt' \in {spoilt, spoilt \union {"missed"}}
  BY DEF KillApp, Spoil
<1>2. /\ proc' \in Whole \union {"none"}
      /\ hung' \in BOOLEAN /\ boot' \in {"loading", "saving", "ready", "up"}
      /\ strays' \in Nat /\ zombies' \in Nat
  BY KillTypes DEF KillApp
<1>3. UpTypeOK'
  BY <1>1, <1>2, Stages DEF UpTypeOK
<1>4. OnNode' /\ LastAwaited'
  BY <1>1, Stages DEF OnNode, LastAwaited, Updating
<1>5. Apart' /\ BeingReplaced' /\ LockCovers' /\ StartRaced'
  BY <1>1 DEF Apart, BeingReplaced, LockCovers, StartRaced, Excused, Loose, Shares
<1>6. Locked' /\ RemovedLast' /\ BackupDone' /\ NotBeforeKill'
  BY <1>1, Stages DEF Locked, RemovedLast, BackupDone, NotBeforeKill, Updating,
                      Running, Excused, Loose
<1> QED BY <1>3, <1>4, <1>5, <1>6

\* A command that begins is the last, and the ones before it are as they were
\* but for being alone.
LEMMA BeginAppends ==
    ASSUME UpInv, BeginCommand,
           NEW does, does = Does[upc]
    PROVE  LET n == Len(commands) + 1 IN
           /\ does \in DOMAIN Uses
           /\ upc' = Waiting[does]
           /\ commands' \in Seq(Command)
           /\ commands' # << >>
           /\ Len(commands') = n
           /\ DOMAIN commands' = DOMAIN commands \union {n}
           /\ n \notin DOMAIN commands
           /\ commands'[n] = [does |-> does, open |-> FALSE, alone |-> ~ Crowded(does)]
           /\ \A j \in DOMAIN commands :
                 /\ commands'[j].does = commands[j].does
                 /\ commands'[j].open = commands[j].open
                 /\ commands'[j].alone = (commands[j].alone /\ ~ Shares(commands[j], does))
<1> DEFINE n == Len(commands) + 1
           new == [does |-> does, open |-> FALSE, alone |-> ~ Crowded(does)]
<1>1. does \in DOMAIN Uses
  BY Stages DEF BeginCommand
<1>2. commands \in Seq(Command)
  BY DEF UpInv, UpTypeOK, Command
<1>3. /\ DOMAIN commands = 1 .. Len(commands) /\ Len(commands) \in Nat
      /\ \A j \in DOMAIN commands : commands[j] \in Command
  BY <1>2, LenProperties, ElementOfSeq
<1>4. /\ DOMAIN Crowd(does) = DOMAIN commands
      /\ \A j \in DOMAIN commands :
            /\ Crowd(does)[j] \in Command
            /\ Crowd(does)[j].does = commands[j].does
            /\ Crowd(does)[j].open = commands[j].open
            /\ Crowd(does)[j].alone = (commands[j].alone /\ ~ Shares(commands[j], does))
  <2>1. DOMAIN Crowd(does) = DOMAIN commands
    BY DEF Crowd
  <2>2. ASSUME NEW j \in DOMAIN commands
        PROVE  /\ Crowd(does)[j] \in Command
               /\ Crowd(does)[j].does = commands[j].does
               /\ Crowd(does)[j].open = commands[j].open
               /\ Crowd(does)[j].alone = (commands[j].alone /\ ~ Shares(commands[j], does))
    <3> DEFINE both == commands[j].alone /\ ~ Shares(commands[j], does)
    <3>1. Crowd(does)[j] = [commands[j] EXCEPT !.alone = both]
      BY DEF Crowd
    <3>2. commands[j] \in Command /\ both \in BOOLEAN
      <4>1. commands[j].alone \in BOOLEAN /\ Shares(commands[j], does) \in BOOLEAN
        BY <1>3 DEF Command, Shares
      <4> QED BY <1>3, <4>1
    <3> HIDE DEF both
    <3>3. /\ Crowd(does)[j] \in Command
          /\ Crowd(does)[j].does = commands[j].does
          /\ Crowd(does)[j].open = commands[j].open
          /\ Crowd(does)[j].alone = both
      BY <3>1, <3>2 DEF Command
    <3> QED BY <3>3 DEF both
  <2> QED BY <2>1, <2>2
<1>5. Crowd(does) \in Seq(Command) /\ Len(Crowd(does)) = Len(commands)
  <2> DEFINE c == Crowd(does)
  <2>1. DOMAIN c = 1 .. Len(commands) /\ \A j \in 1 .. Len(commands) : c[j] \in Command
    BY <1>3, <1>4
  <2>2. c = [j \in 1 .. Len(commands) |-> c[j]]
    BY <1>3 DEF Crowd
  <2> HIDE DEF c
  <2>3. c \in Seq(Command)
    BY <1>3, <2>1, <2>2, SeqDef
  <2>4. Len(c) = Len(commands)
    BY <1>3, <2>1, <2>3, LenProperties
  <2> QED BY <2>3, <2>4 DEF c
<1>6. new \in Command
  BY <1>1 DEF Command
<1>7. commands' = Append(Crowd(does), new) /\ upc' = Waiting[does]
  BY DEF BeginCommand
<1> HIDE DEF new
<1>8. /\ commands' \in Seq(Command)
      /\ Len(commands') = n
      /\ commands'[n] = new
      /\ \A j \in 1 .. Len(commands) : commands'[j] = Crowd(does)[j]
  BY <1>5, <1>6, <1>7, AppendProperties
<1>9. /\ DOMAIN commands' = DOMAIN commands \union {n} /\ n \notin DOMAIN commands
      /\ commands' # << >>
  BY <1>3, <1>8, LenProperties
<1>10. \A j \in DOMAIN commands : commands'[j] = Crowd(does)[j]
  BY <1>3, <1>8
<1>11. \A j \in DOMAIN commands :
          /\ commands'[j].does = commands[j].does
          /\ commands'[j].open = commands[j].open
          /\ commands'[j].alone = (commands[j].alone /\ ~ Shares(commands[j], does))
  BY <1>4, <1>10, Zenon
<1> HIDE DEF n
<1>12. commands'[n] = [does |-> does, open |-> FALSE, alone |-> ~ Crowded(does)]
  BY <1>8 DEF new
<1> QED BY <1>1, <1>7, <1>8, <1>9, <1>11, <1>12, Zenon DEF n

\* Two commands that run at one file are on record.
LEMMA ClashIsLoose ==
    ASSUME UpInv, NEW i \in DOMAIN commands, NEW k \in DOMAIN commands, i # k,
           commands[i].does \in {"touch", "remove"} <=> commands[k].does \in {"touch", "remove"}
    PROVE  Loose
<1>1. commands \in Seq(Command)
  BY DEF UpInv, UpTypeOK, Command
<1>2. commands[i] \in Command /\ commands[k] \in Command
  BY <1>1, LenProperties, ElementOfSeq
<1>3. commands[k].does \in DOMAIN Uses
  BY <1>2 DEF Command
<1>4. Shares(commands[i], commands[k].does)
  BY <1>2, <1>3, Sharing
<1>5. "overlap" \in spoilt
  BY <1>4 DEF UpInv, Apart
<1> QED BY <1>5 DEF Loose

\* The beginning of each command of update_c_app.
LEMMA BeginKeeps ==
    ASSUME UpInv, BeginCommand
    PROVE  UpInv'
<1> DEFINE does == Does[upc]
           n == Len(commands) + 1
<1>1. /\ does \in DOMAIN Uses
      /\ upc' = Waiting[does]
      /\ commands' \in Seq(Command)
      /\ commands' # << >>
      /\ Len(commands') = n
      /\ DOMAIN commands' = DOMAIN commands \union {n}
      /\ n \notin DOMAIN commands
      /\ commands'[n] = [does |-> does, open |-> FALSE, alone |-> ~ Crowded(does)]
      /\ \A j \in DOMAIN commands :
            /\ commands'[j].does = commands[j].does
            /\ commands'[j].open = commands[j].open
            /\ commands'[j].alone = (commands[j].alone /\ ~ Shares(commands[j], does))
  BY BeginAppends, Zenon
<1>2. /\ UNCHANGED <<updates, at, lock, bin, bak, version, unsaved>>
      /\ UNCHANGED <<proc, hung, boot, strays, zombies, wpc, faults>>
      /\ upc \in DOMAIN Does
      /\ spoilt' = IF Crowded(does) THEN spoilt \union {"overlap"} ELSE spoilt
  BY DEF BeginCommand, Spoil, files, process
<1> HIDE DEF n
<1>3. /\ (upc = "lock" /\ does = "touch" /\ upc' = "locking")
         \/ (upc = "backup" /\ does = "backup" /\ upc' = "backing")
         \/ (upc = "replace" /\ does = "replace" /\ upc' = "replacing")
         \/ (upc = "unlock" /\ does = "remove" /\ upc' = "unlocking")
  BY <1>1, <1>2, Stages
<1>4. /\ Loose => Loose'
      /\ Excused => Excused'
      /\ "raced" \in spoilt => "raced" \in spoilt'
      /\ Crowded(does) => Loose'
  BY <1>2 DEF Loose, Excused
<1> HIDE DEF does
<1>5. \A d : Running(d)' <=> Running(d) \/ d = does
  BY <1>1 DEF Running
<1>6. UpTypeOK'
  <2>1. upc' \in {"off", "idle", "scan", "kill"} \union DOMAIN Does \union DOMAIN After
    BY <1>3, Stages
  <2>2. spoilt' \subseteq {"raced", "missed", "unnoticed", "overlap", "interrupted", "unsynced"}
    BY <1>2 DEF UpInv, UpTypeOK
  <2> QED BY <1>1, <1>2, <2>1, <2>2 DEF UpInv, UpTypeOK, Command
<1>7. OnNode' /\ LastAwaited'
  <2>1. OnNode'
    BY <1>2, <1>3, Stages DEF UpInv, OnNode, Updating
  <2>2. Waiting[commands'[Len(commands')].does] = upc'
    BY <1>1
  <2> QED BY <1>1, <2>1, <2>2 DEF LastAwaited
<1>8. Apart'
  <2> SUFFICES ASSUME "overlap" \notin spoilt',
                      NEW i \in DOMAIN commands'
               PROVE  /\ commands'[i].alone
                      /\ \A j \in DOMAIN commands' :
                            i # j => ~ Shares(commands'[i], commands'[j].does)
    BY DEF Apart, Shares
  <2>1. "overlap" \notin spoilt /\ ~ Crowded(does)
    BY <1>2
  <2>2. \A k \in DOMAIN commands :
           /\ commands[k].alone /\ ~ Shares(commands[k], does)
           /\ \A j \in DOMAIN commands : k # j => ~ Shares(commands[k], commands[j].does)
    BY <2>1 DEF UpInv, Apart, Crowded
  <2>3. commands'[i].alone
    <3>1. CASE i \in DOMAIN commands
      <4>1. commands'[i].alone = (commands[i].alone /\ ~ Shares(commands[i], does))
        BY <1>1, <3>1, Zenon
      <4>2. commands[i].alone /\ ~ Shares(commands[i], does)
        BY <2>2, <3>1, Zenon
      <4> QED BY ONLY <4>1, <4>2, Zenon
    <3>2. CASE i = n
      <4>1. commands'[i].alone = ~ Crowded(does)
        BY <1>1, <3>2
      <4> QED BY <2>1, <4>1, Zenon
    <3> QED BY <1>1, <3>1, <3>2
  <2>4. ASSUME NEW j \in DOMAIN commands', i # j
        PROVE  ~ Shares(commands'[i], commands'[j].does)
    <3>1. CASE i \in DOMAIN commands /\ j \in DOMAIN commands
      BY <1>1, <2>2, <2>4, <3>1 DEF Shares
    <3>2. CASE i \in DOMAIN commands /\ j = n
      BY <1>1, <2>2, <3>2 DEF Shares
    <3>3. CASE i = n /\ j \in DOMAIN commands
      BY <1>1, <2>2, <3>3 DEF Shares
    <3> QED BY <1>1, <2>4, <3>1, <3>2, <3>3
  <2> QED BY <2>3, <2>4
<1>9. Locked'
  BY <1>2, <1>3, <1>4, <1>5, Stages DEF UpInv, Locked, Updating
<1>10. RemovedLast'
  BY <1>2, <1>3, <1>4, <1>5 DEF UpInv, Locked, RemovedLast
<1>11. BeingReplaced'
  BY <1>1, <1>2, <1>4 DEF UpInv, BeingReplaced
<1>12. BackupDone'
  <2>1. CASE does = "backup" /\ Running("replace")
    <3>1. PICK k \in DOMAIN commands : commands[k].does = "replace"
      BY <2>1 DEF Running
    <3>2. Uses["replace"] \intersect Uses["backup"] # {}
      BY DEF Uses
    <3>3. Crowded(does)
      BY <2>1, <3>1, <3>2 DEF Crowded, Shares
    <3> QED BY <1>4, <3>3 DEF BackupDone, Excused
  <2>2. CASE ~ (does = "backup" /\ Running("replace"))
    BY <1>2, <1>3, <1>4, <1>5, <2>2 DEF UpInv, BackupDone
  <2> QED BY <2>1, <2>2
<1>13. LockCovers' /\ NotBeforeKill' /\ StartRaced'
  BY <1>2, <1>3, <1>4 DEF UpInv, LockCovers, NotBeforeKill, StartRaced
<1> QED BY <1>6, <1>7, <1>8, <1>9, <1>10, <1>11, <1>12, <1>13 DEF UpInv

\* The lock file is there when touch is over.
LEMMA TouchKeeps ==
    ASSUME UpInv, NEW i \in DOMAIN commands, TouchEnds(i)
    PROVE  UpInv'
<1>1. /\ commands[i].does = "touch" /\ Over(i) /\ lock' = TRUE
      /\ UNCHANGED <<bin, bak, version, proc, hung, boot, strays, zombies, wpc, faults>>
      /\ unsaved' \in {unsaved, unsaved \union {"lock"}}
      /\ spoilt' \in {spoilt, spoilt \union {"raced"}}
      /\ ~ lock /\ wpc # "idle" => "raced" \in spoilt'
  BY DEF TouchEnds, Spoil, process
<1>2. Loose' = Loose /\ Excused' = Excused /\ spoilt \subseteq spoilt'
  BY <1>1 DEF Loose, Excused
<1>3. UpTypeOK'
  BY <1>1, OverKeeps DEF UpInv, UpTypeOK, Command
<1>4. OnNode' /\ LastAwaited' /\ Apart'
  BY <1>1, <1>2, OverKeeps
<1>5. /\ upc' = upc \/ (upc = "locking" /\ upc' = "backup")
      /\ \A does : Running(does)' => Running(does)
  <2>1. \A does : Running(does)' => Running(does)
    BY <1>1, OverRuns DEF Running
  <2>2. upc' = upc \/ (upc = "locking" /\ upc' = "backup")
    BY <1>1, OverKeeps, Stages
  <2> QED BY <2>1, <2>2
<1>6. Locked'
  <2>1. Running("remove")' => Loose
    <3> SUFFICES ASSUME Running("remove")'
                 PROVE  Loose
      OBVIOUS
    <3>1. PICK k \in DOMAIN commands : k # i /\ commands[k].does = "remove"
      BY <1>1, OverRuns
    <3> QED BY <1>1, <3>1, ClashIsLoose
  <2> QED BY <1>1, <1>2, <2>1 DEF Locked
<1>7. RemovedLast' /\ BackupDone' /\ NotBeforeKill'
  BY <1>1, <1>2, <1>5 DEF UpInv, RemovedLast, BackupDone, NotBeforeKill
<1>8. BeingReplaced'
  <2> SUFFICES ASSUME bin = "partial", ~ Excused
               PROVE  \E j \in DOMAIN commands' : commands'[j].does = "replace" /\ commands'[j].open
    BY <1>1, <1>2 DEF BeingReplaced
  <2>1. PICK k \in DOMAIN commands : commands[k].does = "replace" /\ commands[k].open
    BY DEF UpInv, BeingReplaced
  <2>2. \E j \in DOMAIN commands' : commands'[j] = commands[k]
    BY <1>1, <2>1, OverKeeps
  <2> QED BY <2>1, <2>2
<1>9. LockCovers' /\ StartRaced'
  BY <1>1 DEF UpInv, LockCovers, StartRaced
<1> QED BY <1>3, <1>4, <1>6, <1>7, <1>8, <1>9 DEF UpInv

\* The lock file is taken away when the binary is whole, by whichever daemon's
\* rm it was.
LEMMA RemoveKeeps ==
    ASSUME UpInv, NEW i \in DOMAIN commands, RemoveEnds(i)
    PROVE  UpInv'
<1>1. /\ commands[i].does = "remove" /\ Over(i) /\ lock' = FALSE
      /\ UNCHANGED <<bin, bak, version, proc, hung, boot, strays, zombies, wpc, faults, spoilt>>
      /\ unsaved' \in {unsaved, unsaved \union {"lock"}}
  BY DEF RemoveEnds, process
<1>2. Loose' = Loose /\ Excused' = Excused
  BY <1>1 DEF Loose, Excused
<1>3. UpTypeOK'
  <2>1. /\ upc' \in {"off", "idle", "scan", "kill"} \union DOMAIN Does \union DOMAIN After
        /\ updates' \in Seq({"c", "kmodule", "java"}) /\ at' = at
        /\ commands' \in Seq(Command)
    BY <1>1, OverKeeps
  <2>2. lock' \in BOOLEAN /\ unsaved' \subseteq {"lock", "bin", "bak", "version"}
    BY <1>1 DEF UpInv, UpTypeOK
  <2> QED BY <1>1, <2>1, <2>2 DEF UpInv, UpTypeOK, Command
<1>4. OnNode' /\ LastAwaited' /\ Apart'
  BY <1>1, OverKeeps
<1>5. /\ upc' = upc \/ (upc = "unlocking" /\ upc' = "scan")
      /\ \A does : Running(does)' => Running(does)
  <2>1. \A does : Running(does)' => Running(does)
    BY <1>1, OverRuns DEF Running
  <2>2. upc' = upc \/ (upc = "unlocking" /\ upc' = "scan")
    BY <1>1, OverKeeps, Stages
  <2> QED BY <2>1, <2>2
<1>6. Running("remove")
  BY <1>1 DEF Running
<1>7. (bin \in Whole /\ ~ Running("replace")) \/ Loose
  BY <1>6 DEF UpInv, RemovedLast
<1>8. Locked'
  <2> SUFFICES ASSUME ~ Loose, upc' \in Updating \ {"lock", "locking"}
               PROVE  FALSE
    BY <1>1, <1>2, <1>5, <1>6, <1>7, Stages DEF Locked, Updating
  <2>1. upc = "unlocking" /\ upc' = upc
    BY <1>5, <1>6, Stages DEF UpInv, Locked, Updating
  <2>2. ~ Awaited(i)
    BY <1>1, <2>1, OverKeeps, Stages
  <2>3. upc \in DOMAIN After
    BY <2>1, Stages
  <2>4. i # Len(commands) /\ Waiting[commands[Len(commands)].does] = "unlocking"
    BY <2>1, <2>2, <2>3 DEF Awaited, UpInv, LastAwaited
  <2>5. commands \in Seq(Command) /\ commands # << >>
    BY <2>3 DEF UpInv, UpTypeOK, Command, LastAwaited
  <2>6. Len(commands) \in DOMAIN commands
    BY <1>1, <2>5, LenProperties
  <2>7. commands[Len(commands)].does \in DOMAIN Uses
    <3>1. commands[Len(commands)] \in Command
      BY <2>5, <2>6, LenProperties, ElementOfSeq
    <3> QED BY <3>1 DEF Command
  <2>8. commands[Len(commands)].does = "remove"
    BY <2>4, <2>7, Stages
  <2> QED BY <1>1, <2>4, <2>6, <2>8, ClashIsLoose
<1>9. RemovedLast' /\ BackupDone' /\ NotBeforeKill'
  BY <1>1, <1>2, <1>5 DEF UpInv, RemovedLast, BackupDone, NotBeforeKill
<1>10. BeingReplaced' /\ LockCovers' /\ StartRaced'
  BY <1>1, <1>2, <1>7 DEF UpInv, BeingReplaced, LockCovers, StartRaced, Whole, Excused
<1> QED BY <1>3, <1>4, <1>8, <1>9, <1>10 DEF UpInv

\* cp has emptied its target: the backup before the kill, or the binary under
\* the lock.
LEMMA OpenKeeps ==
    ASSUME UpInv, NEW i \in DOMAIN commands, CopyOpens(i)
    PROVE  UpInv'
<1>1. /\ commands[i].does \in Copies
      /\ commands' = [commands EXCEPT ![i].open = TRUE]
      /\ UNCHANGED <<upc, updates, at, lock, version, proc, hung, boot, strays, zombies>>
      /\ UNCHANGED <<wpc, faults, spoilt>>
      /\ commands[i].does = "backup" => bak' = "partial" /\ bin' = bin
      /\ commands[i].does = "replace" => bin' = "partial" /\ bak' = bak
  BY DEF CopyOpens, Copies, process
<1>2. commands \in Seq(Command)
  BY DEF UpInv, UpTypeOK, Command
<1>3. /\ DOMAIN commands = 1 .. Len(commands) /\ Len(commands) \in Nat
      /\ \A j \in DOMAIN commands : commands[j] \in Command
  BY <1>2, LenProperties, ElementOfSeq
<1>4. /\ commands' \in Seq(Command) /\ Len(commands') = Len(commands)
      /\ DOMAIN commands' = DOMAIN commands
      /\ \A j \in DOMAIN commands :
            /\ commands'[j].does = commands[j].does
            /\ commands'[j].alone = commands[j].alone
      /\ \A j \in DOMAIN commands : j # i => commands'[j] = commands[j]
      /\ commands'[i].open = TRUE
  <2>1. commands[i] \in Command
    BY <1>3
  <2> DEFINE c == [commands[i] EXCEPT !.open = TRUE]
  <2>2. /\ c \in Command /\ c.does = commands[i].does
        /\ c.alone = commands[i].alone /\ c.open = TRUE
    BY <2>1 DEF Command
  <2>3. commands' = [commands EXCEPT ![i] = c]
    BY <1>1
  <2> HIDE DEF c
  <2>4. commands' \in Seq(Command) /\ Len(commands') = Len(commands)
    BY <1>2, <1>3, <2>2, <2>3, ExceptSeq
  <2>5. DOMAIN commands' = DOMAIN commands /\ commands'[i] = c
    BY <2>3
  <2>6. \A j \in DOMAIN commands : j # i => commands'[j] = commands[j]
    BY <2>3
  <2> QED BY <2>2, <2>4, <2>5, <2>6
<1>5. \A does : Running(does)' <=> Running(does)
  BY <1>4 DEF Running
<1>6. Loose' = Loose /\ Excused' = Excused
  BY <1>1 DEF Loose, Excused
<1>7. UpTypeOK'
  <2>1. unsaved' \subseteq {"lock", "bin", "bak", "version"}
    BY <1>1 DEF CopyOpens, Target, Copies, UpInv, UpTypeOK
  <2>2. bin' \in Whole \union {"partial"} /\ bak' \in Whole \union {"partial", "none"}
    BY <1>1 DEF Copies, UpInv, UpTypeOK
  <2> QED BY <1>1, <1>4, <2>1, <2>2 DEF UpInv, UpTypeOK, Command
<1>8. OnNode'
  BY <1>1 DEF UpInv, OnNode
<1>9. LastAwaited'
  <2> SUFFICES ASSUME upc \in DOMAIN After
               PROVE  commands' # << >> /\ Waiting[commands'[Len(commands')].does] = upc
    BY <1>1 DEF LastAwaited
  <2>1. commands # << >> /\ Waiting[commands[Len(commands)].does] = upc
    BY DEF UpInv, LastAwaited
  <2>2. Len(commands) \in DOMAIN commands
    BY <1>3
  <2>3. commands' # << >>
    BY <1>4
  <2> QED BY <1>4, <2>1, <2>2, <2>3
<1>10. Apart'
  <2> SUFFICES ASSUME "overlap" \notin spoilt, NEW k \in DOMAIN commands
               PROVE  /\ commands'[k].alone
                      /\ \A j \in DOMAIN commands :
                            k # j => ~ Shares(commands'[k], commands'[j].does)
    BY <1>1, <1>4 DEF Apart, Shares
  <2>1. /\ commands[k].alone
        /\ \A j \in DOMAIN commands : k # j => ~ Shares(commands[k], commands[j].does)
    BY DEF UpInv, Apart
  <2>2. commands'[k].alone
    BY <1>4, <2>1
  <2>3. \A j \in DOMAIN commands : k # j => ~ Shares(commands'[k], commands'[j].does)
    BY <1>4, <2>1 DEF Shares
  <2> QED BY <2>2, <2>3
<1>11. Locked'
  BY <1>1, <1>5, <1>6 DEF UpInv, Locked
<1>12. Running(commands[i].does)
  BY DEF Running
<1>13. RemovedLast' /\ BackupDone' /\ NotBeforeKill'
  BY <1>1, <1>5, <1>6, <1>12 DEF UpInv, RemovedLast, BackupDone, NotBeforeKill, Copies
<1>14. BeingReplaced'
  <2>1. CASE commands[i].does = "replace"
    BY <1>4, <2>1 DEF BeingReplaced
  <2>2. CASE commands[i].does = "backup"
    BY <1>1, <1>4, <1>6, <2>2 DEF UpInv, BeingReplaced
  <2> QED BY <1>1, <2>1, <2>2 DEF Copies
<1>15. LockCovers' /\ StartRaced'
  BY <1>1, <1>6, <1>12 DEF UpInv, LockCovers, StartRaced, Locked, Copies
<1> QED BY <1>7, <1>8, <1>9, <1>10, <1>11, <1>13, <1>14, <1>15 DEF UpInv

\* The end of a copy: the daemon that waits goes on to the kill with a whole
\* backup, or to the lock with a whole binary; an orphan's end disturbs neither.
LEMMA CopyKeeps ==
    ASSUME UpInv, NEW i \in DOMAIN commands, CopyEnds(i)
    PROVE  UpInv'
<1>1. /\ commands[i].does \in Copies /\ Over(i)
      /\ UNCHANGED <<lock, version, unsaved, proc, hung, boot, strays, zombies>>
      /\ UNCHANGED <<wpc, faults, spoilt>>
  BY DEF CopyEnds, process
<1>2. PICK made \in IF commands[i].alone THEN {Copied(i)} ELSE Whole \union {"partial"} :
          IF commands[i].does = "backup"
          THEN bak' = made /\ UNCHANGED bin
          ELSE bin' = made /\ UNCHANGED bak
  BY DEF CopyEnds
<1>3. Loose' = Loose /\ Excused' = Excused
  BY <1>1 DEF Loose, Excused
<1>4. commands[i].alone \/ Loose
  BY DEF UpInv, Apart, Loose
<1>5. bin \in Whole \union {"partial"} /\ made \in Whole \union {"partial"}
  <2>1. bin \in Whole \union {"partial"}
    BY DEF UpInv, UpTypeOK
  <2> QED BY <1>2, <2>1 DEF Copied, Whole
<1>6. UpTypeOK'
  <2>1. /\ upc' \in {"off", "idle", "scan", "kill"} \union DOMAIN Does \union DOMAIN After
        /\ updates' \in Seq({"c", "kmodule", "java"}) /\ at' = at
        /\ commands' \in Seq(Command)
    BY <1>1, OverKeeps
  <2>2. bin' \in Whole \union {"partial"} /\ bak' \in Whole \union {"partial", "none"}
    BY <1>2, <1>5 DEF UpInv, UpTypeOK
  <2> QED BY <1>1, <2>1, <2>2 DEF UpInv, UpTypeOK, Command
<1>7. OnNode' /\ LastAwaited' /\ Apart'
  BY <1>1, OverKeeps
<1>8. \A does : Running(does)' => Running(does)
  BY <1>1, OverRuns DEF Running
<1>9. ASSUME NEW does \in Copies, Running(does)'
      PROVE  Loose
  <2>1. PICK k \in DOMAIN commands : k # i /\ commands[k].does = does
    BY <1>1, <1>9, OverRuns
  <2> QED BY <1>1, <2>1, ClashIsLoose DEF Copies
<1>10. Running(commands[i].does)
  BY DEF Running
<1>11. CASE commands[i].does = "replace"
  <2>1. bin' = "new" \/ Loose
    BY <1>2, <1>4, <1>11 DEF Copied
  <2>2. bak' = bak
    BY <1>2, <1>11
  <2>3. upc' = upc \/ (upc = "replacing" /\ upc' = "unlock")
    BY <1>1, <1>11, OverKeeps, Stages
  <2>4. Locked'
    BY <1>1, <1>3, <1>8, <2>3, Stages DEF UpInv, Locked, Updating
  <2>5. RemovedLast'
    BY <1>3, <1>9, <2>1 DEF RemovedLast, Copies, Whole
  <2>6. BackupDone' /\ NotBeforeKill'
    BY <1>3, <1>9, <1>8, <2>2, <2>3 DEF UpInv, BackupDone, NotBeforeKill, Copies
  <2>7. BeingReplaced' /\ LockCovers' /\ StartRaced'
    BY <1>1, <1>3, <2>1 DEF UpInv, BeingReplaced, LockCovers, StartRaced, Excused
  <2> QED BY <1>6, <1>7, <2>4, <2>5, <2>6, <2>7 DEF UpInv
<1>12. CASE commands[i].does = "backup"
  <2>1. bin' = bin /\ (bak' = bin \/ Loose)
    BY <1>2, <1>4, <1>12 DEF Copied
  <2>2. upc' = upc \/ (upc = "backing" /\ upc' = "kill")
    BY <1>1, <1>12, OverKeeps, Stages
  <2>3. Locked'
    BY <1>1, <1>3, <1>8, <2>2, Stages DEF UpInv, Locked, Updating
  <2>4. RemovedLast'
    BY <1>3, <1>8, <2>1, <2>2 DEF UpInv, RemovedLast
  <2>5. bin \in Whole \/ Excused
    <3> SUFFICES ASSUME bin = "partial", ~ Excused
                 PROVE  FALSE
      BY <1>5
    <3>1. PICK k \in DOMAIN commands : commands[k].does = "replace"
      BY DEF UpInv, BeingReplaced
    <3>2. k # i
      BY <1>12, <3>1
    <3> QED BY <1>12, <3>1, <3>2, ClashIsLoose DEF Excused
  <2>6. NotBeforeKill'
    BY <1>3, <1>9 DEF NotBeforeKill, Copies
  <2>7. BackupDone'
    <3> SUFFICES ASSUME ~ Excused, upc' \in {"kill", "replace"} \/ Running("replace")'
                 PROVE  bak' \in Whole /\ ~ Running("backup")'
      BY <1>3 DEF BackupDone
    <3>1. ~ Loose
      BY DEF Excused
    <3>2. ~ Running("replace")' /\ ~ Running("backup")'
      BY <1>9, <3>1 DEF Copies
    <3> QED BY <2>1, <2>5, <3>1, <3>2
  <2>8. LockCovers' /\ StartRaced'
    BY <1>1, <1>3, <2>1 DEF UpInv, LockCovers, StartRaced
  <2>9. BeingReplaced'
    BY <1>3, <2>1, <2>5 DEF BeingReplaced, Whole
  <2> QED BY <1>6, <1>7, <2>3, <2>4, <2>6, <2>7, <2>8, <2>9 DEF UpInv
<1> QED BY <1>1, <1>11, <1>12 DEF Copies

\* An unnoticed failure is on record from then on.
LEMMA FailureKeeps ==
    ASSUME UpInv, NEW i \in DOMAIN commands, CommandFails(i)
    PROVE  UpInv'
<1>1. /\ Over(i)
      /\ UNCHANGED <<lock, bin, bak, version, unsaved, proc, hung, boot, strays, zombies, wpc>>
      /\ spoilt' = spoilt \union {"unnoticed"}
      /\ faults' \in Nat
  BY DEF CommandFails, Spoil, Fault, files, process, UpInv, UpTypeOK
<1>2. Loose' /\ Excused'
  BY <1>1 DEF Loose, Excused
<1>3. UpTypeOK'
  <2>1. /\ upc' \in {"off", "idle", "scan", "kill"} \union DOMAIN Does \union DOMAIN After
        /\ updates' \in Seq({"c", "kmodule", "java"}) /\ at' = at
        /\ commands' \in Seq(Command)
    BY <1>1, OverKeeps
  <2> QED BY <1>1, <2>1 DEF UpInv, UpTypeOK, Command
<1>4. OnNode' /\ LastAwaited' /\ Apart'
  BY <1>1, OverKeeps
<1>5. StartRaced'
  BY <1>1 DEF UpInv, StartRaced
<1> QED BY <1>2, <1>3, <1>4, <1>5 DEF UpInv, LockCovers, Locked, RemovedLast,
           BeingReplaced, BackupDone, NotBeforeKill

\* A loss of power ends everything; what it undid or cut is on record.
LEMMA PowerKeeps ==
    ASSUME UpInv, PowerLoss
    PROVE  UpInv'
<1>1. PICK lost \in SUBSET unsaved :
          /\ lock' = IF "lock" \in lost THEN ~ lock ELSE lock
          /\ bin' \in IF "bin" \in lost THEN Whole \union {"partial"} ELSE {bin}
          /\ bak' \in IF "bak" \in lost THEN Whole \union {"partial", "none"} ELSE {bak}
          /\ version' = IF "version" \in lost THEN "empty" ELSE version
          /\ spoilt' = spoilt
                \union (IF lost # {} THEN {"unsynced"} ELSE {})
                \union (IF \E i \in DOMAIN commands :
                            commands[i].does = "replace" /\ commands[i].open
                        THEN {"interrupted"} ELSE {})
  BY DEF PowerLoss
<1>2. /\ upc' = "off" /\ commands' = << >> /\ wpc' = "idle" /\ unsaved' = {}
      /\ proc' = "none" /\ hung' = FALSE /\ strays' = 0 /\ zombies' = 0
      /\ UNCHANGED <<updates, at, boot>> /\ faults' \in Nat
  BY DEF PowerLoss, Fault, UpInv, UpTypeOK
<1>3. commands' \in Seq(Command) /\ DOMAIN commands' = {}
  BY <1>2
<1>4. UpTypeOK'
  <2>1. upc' \in {"off", "idle", "scan", "kill"} \union DOMAIN Does \union DOMAIN After
    BY <1>2
  <2>2. lock' \in BOOLEAN
    BY <1>1 DEF UpInv, UpTypeOK
  <2>3. /\ bin' \in Whole \union {"partial"} /\ bak' \in Whole \union {"partial", "none"}
        /\ version' \in {"none", "empty", "known"}
    BY <1>1 DEF UpInv, UpTypeOK
  <2>4. spoilt' \subseteq {"raced", "missed", "unnoticed", "overlap", "interrupted", "unsynced"}
    BY <1>1 DEF UpInv, UpTypeOK
  <2>5. /\ proc' \in Whole \union {"none"} /\ hung' \in BOOLEAN
        /\ strays' \in Nat /\ zombies' \in Nat
        /\ unsaved' \subseteq {"lock", "bin", "bak", "version"}
        /\ wpc' \in {"idle", "looked", "killed"}
    BY <1>2
  <2> QED BY <1>2, <1>3, <2>1, <2>2, <2>3, <2>4, <2>5 DEF UpInv, UpTypeOK, Command
<1>5. \A does : ~ Running(does)'
  BY <1>3 DEF Running
<1>6. OnNode' /\ LastAwaited' /\ Apart' /\ Locked' /\ RemovedLast' /\ BackupDone'
      /\ NotBeforeKill' /\ StartRaced'
  BY <1>2, <1>3, <1>5, Stages DEF OnNode, LastAwaited, Apart, Locked, RemovedLast,
     BackupDone, NotBeforeKill, StartRaced, Updating
<1>7. BeingReplaced' /\ LockCovers'
  <2>1. CASE lost # {}
    <3>1. Loose' /\ Excused'
      BY <1>1, <2>1 DEF Loose, Excused
    <3> QED BY <3>1 DEF BeingReplaced, LockCovers
  <2>2. CASE lost = {}
    <3>1. /\ lock' = lock /\ bin' = bin /\ spoilt \subseteq spoilt'
          /\ (\E i \in DOMAIN commands : commands[i].does = "replace" /\ commands[i].open)
                => "interrupted" \in spoilt'
      BY <1>1, <2>2
    <3>2. Loose => Loose' /\ Excused'
      BY <3>1 DEF Loose, Excused
    <3>3. "interrupted" \in spoilt' => Excused'
      BY DEF Excused
    <3> QED BY <3>1, <3>2, <3>3 DEF UpInv, BeingReplaced, LockCovers, Excused
  <2> QED BY <2>1, <2>2
<1> QED BY <1>4, <1>6, <1>7 DEF UpInv

\* UpInv holds in every state of every run.
THEOREM UpdateInvariant == UpSpec => []UpInv
<1>1. UpInit => UpInv
  <2> SUFFICES ASSUME UpInit
               PROVE  UpInv
    OBVIOUS
  <2>1. proc \in {"none", "old"} /\ version \in {"none", "known"}
    BY DEF UpInit
  <2>2. UpTypeOK
    <3>1. /\ upc = "off" /\ updates = << >> /\ at = 1 /\ commands = << >>
          /\ bin = "old" /\ bak = "none" /\ boot = "up" /\ wpc = "idle"
          /\ unsaved = {} /\ strays = 0 /\ zombies = 0
          /\ faults = 0 /\ spoilt = {}
      BY DEF UpInit
    <3>2. lock \in BOOLEAN /\ hung \in BOOLEAN
      BY DEF UpInit
    <3> QED BY <2>1, <3>1, <3>2 DEF UpTypeOK, Whole
  <2>3. DOMAIN commands = {} /\ upc = "off" /\ bin = "old" /\ lock = FALSE
    BY DEF UpInit
  <2>4. /\ LockCovers /\ OnNode /\ LastAwaited /\ Apart /\ Locked /\ RemovedLast
        /\ BeingReplaced /\ BackupDone /\ NotBeforeKill /\ StartRaced
    BY <2>3, Stages DEF LockCovers, OnNode, LastAwaited, Apart, Locked, RemovedLast,
       BeingReplaced, BackupDone, NotBeforeKill, StartRaced, Updating, Running
  <2> QED BY <2>2, <2>4 DEF UpInv
<1>2. UpInv /\ [UpNext]_upVars => UpInv'
  <2> SUFFICES ASSUME UpInv, [UpNext]_upVars
               PROVE  UpInv'
    OBVIOUS
  <2>1. CASE AppDies \/ AppHangs \/ BootStep \/ WdStep \/ Writeback
    BY <2>1, OthersKeep
  <2>2. CASE UpStart \/ UpTimeout \/ UpTimeoutEnd \/ SkipNode \/ CheckVersion
                \/ CommandNotRun \/ UpCrash
    BY <2>2, WalkKeeps
  <2>3. CASE KillApp
    BY <2>3, KillKeeps
  <2>4. CASE BeginCommand
    BY <2>4, BeginKeeps
  <2>5. CASE \E i \in DOMAIN commands : CommandStep(i) \/ CommandFails(i)
    <3>1. PICK i \in DOMAIN commands : CommandStep(i) \/ CommandFails(i)
      BY <2>5
    <3> QED BY <3>1, TouchKeeps, RemoveKeeps, OpenKeeps, CopyKeeps, FailureKeeps
            DEF CommandStep
  <2>6. CASE PowerLoss
    BY <2>6, PowerKeeps
  <2>7. CASE UNCHANGED upVars
    BY <2>7 DEF upVars, files, process, UpInv, UpTypeOK, LockCovers, OnNode,
                LastAwaited, Apart, Locked, RemovedLast, BeingReplaced, BackupDone,
                NotBeforeKill, StartRaced, Running, Shares, Excused, Loose
  <2> QED BY <2>1, <2>2, <2>3, <2>4, <2>5, <2>6, <2>7 DEF UpNext, UpStep
<1> QED BY <1>1, <1>2, PTL DEF UpSpec

\* Type correctness of both daemons, the commands, the application and the files.
THEOREM UpdateTypeCorrect == UpSpec => []UpTypeOK
<1>1. UpInv => UpTypeOK
  BY DEF UpInv
<1> QED BY <1>1, UpdateInvariant, PTL

\* The lock file exists for as long as the installed binary is not whole.
THEOREM LockCoversUpdate == UpSpec => []LockCovers
<1>1. UpInv => LockCovers
  BY DEF UpInv
<1> QED BY <1>1, UpdateInvariant, PTL

\* There is always a whole binary to run or to go back to.
THEOREM BinaryOrBackup == UpSpec => []OneIsWhole
<1>1. UpInv => OneIsWhole
  BY DEF UpInv, UpTypeOK, OneIsWhole, BeingReplaced, BackupDone, Running, Excused
<1> QED BY <1>1, UpdateInvariant, PTL

\* The monitoring daemon does not execute a binary that is not whole.
THEOREM StartIsWhole == UpSpec => []StartsWhole
<1>1. UpInv => StartsWhole
  BY DEF UpInv, UpTypeOK, StartsWhole, StartRaced, LockCovers
<1> QED BY <1>1, UpdateInvariant, PTL

=============================================================================
