---------------------------- MODULE UpdateDaemon ----------------------------
(***************************************************************************)
(* The update daemon (up_apps_module.c) replaces the binary of an          *)
(* application under a lock file, while the monitoring daemon, which looks *)
(* at that file before it kills and starts the application, goes on.  The  *)
(* commands of system() are processes of their own: each survives the      *)
(* daemon that waits for it and may still run when the next daemon tries   *)
(* the update again.  Their exit status is not looked at, and nothing      *)
(* waits for what they write to be on the disk.                            *)
(* Watchdog leaves the lock open (the parameter of its CheckOverdue); here *)
(* the two sides of it meet.                                               *)
(***************************************************************************)
EXTENDS Naturals, SequencesExt

CONSTANTS
    Updates,   \* the lists start_app_update_func may build, as app_types:
               \* the code has one, <<"c", "c">>, of one application
    MaxFaults  \* bound on failed commands, crashes and deaths

ASSUME UpdateConstants ==
    /\ Updates \subseteq Seq({"c", "kmodule", "java"})
    /\ MaxFaults \in Nat

VARIABLES
    upc,      \* the update daemon: what it does next, or waits for
    updates,  \* its list
    at,       \* the place of timeout_cb in the list
    commands, \* the commands that run, in the order they were begun; the
              \* one the daemon waits for is the last
    lock,     \* the update lock file exists
    bin,      \* the installed binary
    bak,      \* its backup
    version,  \* the version file, which the application writes at its start
    unsaved,  \* the files written since they were last known to be on disk
    proc,     \* the binary the application's latest process runs
    hung,     \* it does not feed any more
    boot,     \* how far its start is
    strays,   \* older processes of the application, which nobody kills
    zombies,  \* dead ones that are not reaped yet
    wpc,      \* the monitoring daemon: how far it is in starting it again
    faults,
    spoilt    \* what went wrong that no step of the code repairs

files == <<lock, bin, bak, version, unsaved>>
process == <<proc, hung, boot, strays, zombies>>
upVars == <<upc, updates, at, commands, files, process, wpc, faults, spoilt>>

Whole == {"old", "new"}

Fault == faults < MaxFaults /\ faults' = faults + 1

Spoil(reason) == spoilt' = spoilt \union {reason}

-----------------------------------------------------------------------------
(* The update daemon.                                                      *)

UpStart ==
    /\ upc = "off"
    /\ upc' = "idle"
    /\ updates' \in Updates
    /\ at' = 1
    /\ UNCHANGED <<commands, files, process, wpc, faults, spoilt>>

UpTimeout ==
    /\ upc = "idle"
    /\ upc' = "scan"
    /\ at' = 1
    /\ UNCHANGED <<updates, commands, files, process, wpc, faults, spoilt>>

UpTimeoutEnd ==
    /\ upc = "scan"
    /\ at > Len(updates)
    /\ upc' = "idle"
    /\ UNCHANGED <<updates, at, commands, files, process, wpc, faults, spoilt>>

\* Mutant: the walk goes back to the node before.
StepBack == upc' = "scan" /\ at' = at - 1 /\ UNCHANGED updates

\* Mutant: a node is released whether its update succeeded or not.
ReleaseAlways == upc' = "scan" /\ updates' = RemoveAt(updates, at) /\ UNCHANGED at

\* The update failed: its node stays for the next timeout.
KeepNode == upc' = "scan" /\ at' = at + 1 /\ UNCHANGED updates

\* Kernel modules and java applications have no update function yet.
SkipNode ==
    /\ upc = "scan"
    /\ at \in DOMAIN updates
    /\ updates[at] # "c" \/ version # "known"
    /\ KeepNode
    /\ UNCHANGED <<commands, files, process, wpc, faults, spoilt>>

CheckVersion ==
    /\ upc = "scan"
    /\ at \in DOMAIN updates
    /\ updates[at] = "c"
    /\ version = "known"
    /\ upc' = "lock"
    /\ UNCHANGED <<updates, at, commands, files, process, wpc, faults, spoilt>>

\* Mutant: the backup is made when the binary is replaced already.
DoesBackupLate ==
    [lock |-> "touch", backup |-> "replace", replace |-> "backup", unlock |-> "remove"]

\* The command of each stage, where the daemon waits for it, and the stage
\* after that.
Does == [lock |-> "touch", backup |-> "backup", replace |-> "replace", unlock |-> "remove"]

Waiting == [touch |-> "locking", backup |-> "backing", replace |-> "replacing",
            remove |-> "unlocking"]

After == [locking |-> "backup", backing |-> "kill", replacing |-> "unlock",
          unlocking |-> "scan"]

\* The files a command of update_c_app reads or writes, and the one it writes.
Uses == [touch |-> {"lock"}, backup |-> {"bin", "bak"}, replace |-> {"bin"},
         remove |-> {"lock"}]

Target == [touch |-> "lock", backup |-> "bak", replace |-> "bin", remove |-> "lock"]

\* Mutant: the error paths clean up.
CommandNotRunCleanly ==
    /\ upc \in DOMAIN Does
    /\ Fault
    /\ KeepNode
    /\ lock' = FALSE
    /\ UNCHANGED <<commands, bin, bak, version, unsaved, process, wpc, spoilt>>

\* system() returns -1: the lock file stays as it is.
CommandNotRun ==
    /\ upc \in DOMAIN Does
    /\ Fault
    /\ KeepNode
    /\ UNCHANGED <<commands, files, process, wpc, spoilt>>

Shares(c, does) == Uses[c.does] \intersect Uses[does] # {}

Crowded(does) == \E i \in DOMAIN commands : Shares(commands[i], does)

\* The commands that run, of which those that use a file of the new one are
\* not alone with it any more.
Crowd(does) ==
    [i \in DOMAIN commands |->
        [commands[i] EXCEPT !.alone = @ /\ ~ Shares(commands[i], does)]]

\* system() starts a shell and waits.  A command that an earlier daemon began
\* may still be at the same files.
BeginCommand ==
    /\ upc \in DOMAIN Does
    /\ LET does == Does[upc] IN
       /\ upc' = Waiting[does]
       /\ commands' = Append(Crowd(does),
                             [does |-> does, open |-> FALSE, alone |-> ~ Crowded(does)])
       /\ IF Crowded(does) THEN Spoil("overlap") ELSE UNCHANGED spoilt
    /\ UNCHANGED <<updates, at, files, process, wpc, faults>>

\* get_pid_with_comm finds the first process that has the name: the latest
\* one, an older one, or a dead one that is not reaped.
KillLatest ==
    /\ proc # "none"
    /\ proc' = "none" /\ hung' = FALSE /\ zombies' = zombies + 1
    /\ UNCHANGED <<boot, strays>>

KillStray ==
    /\ strays > 0
    /\ strays' = strays - 1 /\ zombies' = zombies + 1
    /\ UNCHANGED <<proc, hung, boot>>

KillNone == UNCHANGED process

KillApp ==
    /\ upc = "kill"
    /\ upc' = "replace"
    /\ \/ KillLatest /\ UNCHANGED spoilt
       \/ /\ KillStray \/ (zombies > 0 /\ KillNone)
          /\ IF proc # "none" THEN Spoil("missed") ELSE UNCHANGED spoilt
       \/ proc = "none" /\ strays = 0 /\ KillNone /\ UNCHANGED spoilt
    /\ UNCHANGED <<updates, at, commands, files, wpc, faults>>

-----------------------------------------------------------------------------
(* The commands, awaited or not.                                           *)

Awaited(i) == upc \in DOMAIN After /\ i = Len(commands)

\* A command is over; the daemon goes on when it waited for it.  The node of
\* an update that came to its end is released.
Over(i) ==
    /\ commands' = RemoveAt(commands, i)
    /\ upc' = IF Awaited(i) THEN After[upc] ELSE upc
    /\ updates' = IF Awaited(i) /\ upc = "unlocking" THEN RemoveAt(updates, at) ELSE updates
    /\ UNCHANGED at

\* The monitoring daemon may have looked for the lock before.
TouchEnds(i) ==
    /\ commands[i].does = "touch"
    /\ Over(i)
    /\ lock' = TRUE
    /\ unsaved' = IF lock THEN unsaved ELSE unsaved \union {"lock"}
    /\ IF ~ lock /\ wpc # "idle" THEN Spoil("raced") ELSE UNCHANGED spoilt
    /\ UNCHANGED <<bin, bak, version, process, wpc, faults>>

RemoveEnds(i) ==
    /\ commands[i].does = "remove"
    /\ Over(i)
    /\ lock' = FALSE
    /\ unsaved' = IF lock THEN unsaved \union {"lock"} ELSE unsaved
    /\ UNCHANGED <<bin, bak, version, process, wpc, faults, spoilt>>

Copies == {"backup", "replace"}

\* cp empties its target, or makes a new one.
CopyOpens(i) ==
    /\ commands[i].does \in Copies
    /\ ~ commands[i].open
    /\ commands' = [commands EXCEPT ![i].open = TRUE]
    /\ IF commands[i].does = "backup"
       THEN bak' = "partial" /\ UNCHANGED bin
       ELSE bin' = "partial" /\ UNCHANGED bak
    /\ unsaved' = unsaved \union {Target[commands[i].does]}
    /\ UNCHANGED <<upc, updates, at, lock, version, process, wpc, faults, spoilt>>

\* What a copy leaves when no other command used one of its files meanwhile.
Copied(i) == IF commands[i].does = "backup" THEN bin ELSE "new"

CopyEnds(i) ==
    /\ commands[i].does \in Copies
    /\ commands[i].open
    /\ Over(i)
    /\ \E made \in IF commands[i].alone THEN {Copied(i)} ELSE Whole \union {"partial"} :
          IF commands[i].does = "backup"
          THEN bak' = made /\ UNCHANGED bin
          ELSE bin' = made /\ UNCHANGED bak
    /\ UNCHANGED <<lock, version, unsaved, process, wpc, faults, spoilt>>

\* A command ends with an error status, which is not looked at: before it did
\* anything, or in the middle of its copy.
CommandFails(i) ==
    /\ Fault
    /\ Over(i)
    /\ Spoil("unnoticed")
    /\ UNCHANGED <<files, process, wpc>>

\* The end of the daemon; the command it waits for goes on.
UpCrash ==
    /\ upc # "off"
    /\ Fault
    /\ upc' = "off"
    /\ UNCHANGED <<updates, at, commands, files, process, wpc, spoilt>>

\* The system has written everything back; no step of the code waits for it.
Writeback ==
    /\ unsaved # {}
    /\ unsaved' = {}
    /\ UNCHANGED <<upc, updates, at, commands, lock, bin, bak, version, process, wpc, faults, spoilt>>

\* The end of every process.  What was not on the disk may be undone or torn.
PowerLoss ==
    /\ Fault
    /\ upc' = "off"
    /\ commands' = << >>
    /\ wpc' = "idle"
    /\ proc' = "none" /\ hung' = FALSE /\ strays' = 0 /\ zombies' = 0
    /\ \E lost \in SUBSET unsaved :
          /\ lock' = IF "lock" \in lost THEN ~ lock ELSE lock
          /\ bin' \in IF "bin" \in lost THEN Whole \union {"partial"} ELSE {bin}
          /\ bak' \in IF "bak" \in lost THEN Whole \union {"partial", "none"} ELSE {bak}
          /\ version' = IF "version" \in lost THEN "empty" ELSE version
          /\ spoilt' = spoilt
                \union (IF lost # {} THEN {"unsynced"} ELSE {})
                \union (IF \E i \in DOMAIN commands :
                            commands[i].does = "replace" /\ commands[i].open
                        THEN {"interrupted"} ELSE {})
    /\ unsaved' = {}
    /\ UNCHANGED <<updates, at, boot>>

-----------------------------------------------------------------------------
(* The monitoring daemon.                                                  *)

Overdue == proc = "none" \/ hung

\* Mutant: the lock is not looked at.
LockIgnored == FALSE

LockSeen == lock

\* timeout_cb reaps one child; check_update_lock_file.
WdTimeout ==
    /\ wpc = "idle"
    /\ zombies > 0 \/ (Overdue /\ ~ LockSeen)
    /\ zombies' = IF zombies > 0 THEN zombies - 1 ELSE 0
    /\ wpc' = IF Overdue /\ ~ LockSeen THEN "looked" ELSE "idle"
    /\ UNCHANGED <<upc, updates, at, commands, files, proc, hung, boot, strays, faults, spoilt>>

\* Only the process whose id is in the node is killed, and a process is there
\* from its REGISTER on.
WdKill ==
    /\ wpc = "looked"
    /\ wpc' = "killed"
    /\ IF proc # "none" /\ boot = "up" THEN KillLatest ELSE KillNone
    /\ UNCHANGED <<upc, updates, at, commands, files, faults, spoilt>>

\* A binary that is not whole is not executed, and its process ends.  A process
\* that was not killed goes on beside the new one.
WdExec ==
    /\ wpc = "killed"
    /\ wpc' = "idle"
    /\ IF bin \in Whole
       THEN /\ proc' = bin /\ boot' = "loading" /\ hung' = FALSE
            /\ strays' = IF proc # "none" THEN strays + 1 ELSE strays
            /\ UNCHANGED zombies
       ELSE zombies' = zombies + 1 /\ UNCHANGED <<proc, hung, boot, strays>>
    /\ UNCHANGED <<upc, updates, at, commands, files, faults, spoilt>>

-----------------------------------------------------------------------------
(* The application.                                                        *)

Boots(from, to) ==
    /\ proc # "none" /\ ~ hung
    /\ boot = from
    /\ boot' = to
    /\ UNCHANGED <<upc, updates, at, commands, lock, bin, bak, proc, hung, strays, zombies>>
    /\ UNCHANGED <<wpc, faults, spoilt>>

\* app_main.c opens its version file for writing, then writes it.
AppOpensVersion ==
    /\ Boots("loading", "saving")
    /\ version' = "empty"
    /\ unsaved' = unsaved \union {"version"}

AppWritesVersion ==
    /\ Boots("saving", "ready")
    /\ version' = "known"
    /\ UNCHANGED unsaved

\* Its REGISTER gives the node its id.
AppRegisters ==
    /\ Boots("ready", "up")
    /\ UNCHANGED <<version, unsaved>>

AppDies ==
    /\ Fault
    /\ KillLatest \/ KillStray
    /\ UNCHANGED <<upc, updates, at, commands, files, wpc, spoilt>>

AppHangs ==
    /\ proc # "none" /\ ~ hung
    /\ Fault
    /\ hung' = TRUE
    /\ UNCHANGED <<upc, updates, at, commands, files, proc, boot, strays, zombies, wpc, spoilt>>

-----------------------------------------------------------------------------
UpInit ==
    /\ upc = "off"
    /\ updates = << >>
    /\ at = 1
    /\ commands = << >>
    /\ lock = FALSE
    /\ bin = "old"
    /\ bak = "none"
    /\ version \in {"none", "known"}
    /\ unsaved = {}
    /\ proc \in IF version = "known" THEN {"none", "old"} ELSE {"none"}
    /\ hung = FALSE
    /\ boot = "up"
    /\ strays = 0
    /\ zombies = 0
    /\ wpc = "idle"
    /\ faults = 0
    /\ spoilt = {}

UpStep ==
    \/ UpTimeout
    \/ UpTimeoutEnd
    \/ SkipNode
    \/ CheckVersion
    \/ BeginCommand
    \/ KillApp

CommandStep(i) == TouchEnds(i) \/ RemoveEnds(i) \/ CopyOpens(i) \/ CopyEnds(i)

WdStep == WdTimeout \/ WdKill \/ WdExec

BootStep == AppOpensVersion \/ AppWritesVersion \/ AppRegisters

UpNext ==
    \/ UpStart
    \/ UpStep
    \/ CommandNotRun
    \/ \E i \in DOMAIN commands : CommandStep(i) \/ CommandFails(i)
    \/ UpCrash
    \/ Writeback
    \/ PowerLoss
    \/ WdStep
    \/ BootStep
    \/ AppDies
    \/ AppHangs

\* Each daemon, the commands and the application are scheduled; nobody has to
\* start the update daemon again.
UpSpec ==
    /\ UpInit /\ [][UpNext]_upVars
    /\ WF_upVars(UpStep)
    /\ WF_upVars(\E i \in DOMAIN commands : CommandStep(i))
    /\ WF_upVars(WdStep)
    /\ WF_upVars(BootStep)

-----------------------------------------------------------------------------
(* Properties.                                                             *)

\* Every variable keeps its type; the walk stays inside its list.
UpTypeOK ==
    /\ upc \in {"off", "idle", "scan", "kill"} \union DOMAIN Does \union DOMAIN After
    /\ updates \in Seq({"c", "kmodule", "java"})
    /\ at \in Nat \ {0}
    /\ commands \in Seq([does : DOMAIN Uses, open : BOOLEAN, alone : BOOLEAN])
    /\ lock \in BOOLEAN
    /\ bin \in Whole \union {"partial"}
    /\ bak \in Whole \union {"partial", "none"}
    /\ version \in {"none", "empty", "known"}
    /\ unsaved \subseteq {"lock", "bin", "bak", "version"}
    /\ proc \in Whole \union {"none"}
    /\ hung \in BOOLEAN
    /\ boot \in {"loading", "saving", "ready", "up"}
    /\ strays \in Nat
    /\ zombies \in Nat
    /\ wpc \in {"idle", "looked", "killed"}
    /\ faults \in Nat
    /\ spoilt \subseteq {"raced", "missed", "unnoticed", "overlap", "interrupted", "unsynced"}

\* What takes the order of the commands away from the files: one that failed
\* without being noticed, one of an earlier daemon that still ran beside its
\* repetition, or a loss of power that undid what was not yet on the disk.
Loose == spoilt \intersect {"unnoticed", "overlap", "unsynced"} # {}

\* While the installed binary is not whole the lock file exists, through
\* failed attempts, the second update of the same application, the end of
\* the update daemon with the copy still running, and a loss of power; but
\* for Loose.
LockCovers == bin = "partial" => lock \/ Loose

\* At every moment the binary or its backup is whole, though the daemon may
\* die in any command and leave it running; but for Loose, and a loss of
\* power within the replacement, of which the next attempt makes its backup.
OneIsWhole ==
    bin \in Whole \/ bak \in Whole \/ Loose \/ "interrupted" \in spoilt

\* The monitoring daemon is never about to execute a binary that is not whole:
\* its look for the lock, the kill and the start are three steps, with those
\* of an update, a crash and an orphan copy between them.  But for Loose, and
\* an update that began after the look.
StartsWhole == wpc # "idle" => bin \in Whole \/ "raced" \in spoilt \/ Loose

\* The update daemon is gone, or it fails each time before its first command
\* because the application was killed while it wrote its version file.
Stalled == upc = "off" \/ (lock /\ version # "known")

\* Failed attempts, deaths and crashes notwithstanding, in the end the lock
\* is gone and the application's latest process runs the new binary.  What
\* keeps it from that is named: nobody starts the update daemon again, an
\* empty version file under the lock, a start that raced the lock, another
\* process with the name that was killed instead, or Loose.  A process that
\* hung before its REGISTER may be left beside it.
UpdateSettles ==
    <>[](\/ Stalled
         \/ Loose
         \/ spoilt \intersect {"raced", "missed"} # {}
         \/ ~ lock /\ proc = "new" /\ ~ hung)

-----------------------------------------------------------------------------
(* What the properties rest on: facts that every step preserves together.  *)

Excused == Loose \/ "interrupted" \in spoilt

Updating == {"kill"} \union DOMAIN Does \union DOMAIN After

Running(does) == \E i \in DOMAIN commands : commands[i].does = does

\* The walk stays on its node until the update is over.
OnNode == upc \in Updating => at \in DOMAIN updates

\* The command the daemon waits for is the last one.
LastAwaited ==
    upc \in DOMAIN After =>
        commands # << >> /\ Waiting[commands[Len(commands)].does] = upc

\* Commands that use one file do not run together.
Apart ==
    "overlap" \notin spoilt =>
        \A i \in DOMAIN commands :
            /\ commands[i].alone
            /\ \A j \in DOMAIN commands : i # j => ~ Shares(commands[i], commands[j].does)

\* From its second command on an update has its lock, which nothing removes
\* before the binary is whole again, and which covers a copy that outlives
\* the daemon.
Locked ==
    \/ Loose
    \/ /\ upc \in Updating \ {"lock", "locking"} => lock
       /\ Running("replace") => lock
       /\ upc \in {"backup", "backing", "kill", "replace", "replacing", "unlock"} =>
              ~ Running("remove")

\* The lock is taken away, if by an orphan, only when no copy of the binary
\* runs and it is whole.
RemovedLast ==
    Running("remove") \/ upc = "unlock" =>
        (bin \in Whole /\ ~ Running("replace")) \/ Loose

\* A binary that is not whole is being copied.
BeingReplaced ==
    bin = "partial" =>
        Excused \/ \E i \in DOMAIN commands : commands[i].does = "replace" /\ commands[i].open

\* The backup is whole, and nobody at it, when the replacement begins and
\* while it runs.
BackupDone ==
    upc \in {"kill", "replace"} \/ Running("replace") =>
        (bak \in Whole /\ ~ Running("backup")) \/ Excused

\* The binary is at rest before it is replaced.
NotBeforeKill ==
    upc \in {"kill", "replace"} => ~ Running("replace") \/ Loose

\* A start that is under way during an update looked before the lock was there.
StartRaced == wpc # "idle" /\ lock => "raced" \in spoilt

UpInv ==
    /\ UpTypeOK
    /\ LockCovers
    /\ OnNode
    /\ LastAwaited
    /\ Apart
    /\ Locked
    /\ RemovedLast
    /\ BeingReplaced
    /\ BackupDone
    /\ NotBeforeKill
    /\ StartRaced

=============================================================================
