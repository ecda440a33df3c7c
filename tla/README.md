# Verification of DeviceWatchdogModule

DeviceWatchdogModule keeps the applications of a device running. A daemon,
`dev_watchdog`, holds a list of applications; each of them links a small library
that registers it with the daemon and then feeds it periodically over UDP. An
application that stops feeding is killed and started again. An update daemon
replaces binaries, and a log module serves all of them.

This directory holds TLA+ modules translated from the C code, the instances TLC
checks, and theorems that TLAPS proves for every value of the constants. `PROJECT.json` maps each
definition to the lines it models and lists the runs, the mutated definitions each property rejects, the hazards and the findings.

## The system

| Component | State | Operations | Talks to |
|---|---|---|---|
| Daemon: registry and timer (`device_watchdog/wd_configure.c`) | list of nodes (name, command, period, process id, time of the last feed), `monitored_apps_count`, `configure.cfg` | REGISTER, FEED, UNREGISTER; `timeout_cb` each second: find an overdue node, look at its update lock, kill, start; save and load the file | applications by UDP; `/proc`, `kill`, `vfork`/`execvp`; the lock file |
| Daemon: start-up (`watchdog_main.c`, `wd_configure.c`) | socket, port file | load, bind an ephemeral port, write it to the port file, event loop | applications read the port file |
| Feed library (`monitor_app/create_feed_thread.c`) | `wd_confirmed_register`, `miss_feedback_times`, `wd_confirmed_unreg_flag`, server address | feed thread: timer and datagram callbacks; main thread: `create_feed_thread`, `unregister_watchdog` | daemon by UDP; the two threads share the flag and a datagram to themselves |
| Datagrams and helpers (`src/mit_data_define.c`) | none | pack and unpack, look processes up, start a command, write small files | all of the above |
| Update daemon (`update_app/up_apps_module.c`) | list of updates, lock file, binaries | lock, back up, kill, replace, unlock | daemon, through the lock file and the process it kills |
| Log module (`src/mit_log_module.c`) | three buffers under a read-write lock, log files and their rotations | open, write, flush, close | the two threads of an application write to it |

What is hard here: the daemon is one thread, but its list, its file, the processes
and the applications' idea of them are four copies of one truth, changed by
datagrams that may be lost, by a timer, by crashes between two writes, and by
process ids that outlive processes. The library adds two threads that share a
flag, and a port that is valid only until the daemon dies.

What makes each part correct:

* Daemon: one node per application; the count is the length of the list; the file
  brings back what the list holds; a confirmed REGISTER is kept; an application is
  not started again before the one started last had its chance.
* Library: a confirmed UNREGISTER means that the daemon forgot the process, unless it
  registered behind it or a new daemon found it by name; the call returns; a feeding application finds a daemon that came back.
* Together: one process per application; an application that feeds is not killed; who
  believes to be registered is; in the end everything runs again.
* Datagrams, file and arguments: the command an application registers with is the one
  that is executed, its name and period are the ones it is known by, and no string it may
  use stops the daemon.
* Update daemon: a half-written binary is under the lock, and the monitoring daemon keeps
  away from it; the binary or its backup is whole; the lock goes and the application
  comes back.
* Log module: the buffer is never overrun, the files hold the end of the log in its
  order, and no thread waits for the lock for ever.

## Modules

| Module | What it is |
|---|---|
| `Processes` | the constant `Pid` that the other modules share |
| `Registry` | what the daemon promises of the set of its applications (abstract) |
| `Watchdog` | the daemon: list, file, handlers, timer, crashes, properties, inductive invariants; implements `Registry` |
| `WatchdogMC` | its instances |
| `WatchdogProofs` | its theorems, and that it implements `Registry` |
| `Transport` | socket buffers, ports and the port file |
| `FeedClient` | the library, both threads (EXTENDS `Transport`) |
| `FeedProtocol` | applications against an abstract daemon that only knows process ids |
| `FeedLemmas`, `FeedProofs` | facts about `FeedClient` under any daemon, and the theorems of the protocol |
| `Supervision` | `Watchdog` and `FeedClient` composed with the processes they act on and with time; implements `Watchdog` |
| `SupervisionMC` | its instances |
| `SupervisionProofs` | that it implements `Watchdog`, and its theorems |
| `Datagrams` | string helpers and datagram octets as operators |
| `Registration`, `RegistrationMC` | one application's strings and period from the datagram to `execvp`, and its instance |
| `RegistrationProofs` | its theorems |
| `UpdateDaemon`, `UpdateMC` | the update daemon against the monitoring daemon's lock check, and its instance |
| `UpdateProofs` | its theorems |
| `LogModule`, `LogMC` | one level of the log module with its threads and files, and its instance |
| `LogProofs` | its theorems |
| `SequenceLemmas` | facts about sequences the proofs share |

### Watchdog

`apps` is the list (`apps_list_head` to `apps_list_tail`, in order), `count` is
`monitored_apps_count`, `conf` the `default_process` lines of `configure.cfg`. Times
are ages: `age` is `time(NULL) - app_last_feed_time`, which stops growing at `AgeCap`,
a bound the assumption `WdConstants` puts above every limit the code compares with.
`wpc` is where the thread is: handlers run to their end in one action, because a
libevent loop runs one callback at a time; `timeout_cb` is split (`TimeoutBegin`,
`CheckFresh`, `CheckOverdue`, `Restart`, `TimeoutEnd`) so that time, crashes and, in
`Supervision`, other processes can act between two of its steps.

`Save` has the outcomes of `save_monitor_apps_info`: the file holds the list; it could
not be opened; or it is cut (`Torn`), any number of lines from the top, the last one
possibly altered. `CrashInSave` is a REGISTER in the middle of which the daemon dies.
A line whose command is missing keeps the daemon from starting (`Loadable`), as
`get_wd_configure` returns NULL. A command cut in its middle is another command.

Ghost variables record what the properties are about: `synced` (no save failed since
the file was last complete), `acked` (the last confirmed request of an application) and
`since` (the time since an application was last started).

`Registry` forgets lists, counts, ids, periods and the timer: `monitored` and `saved` are
the names in the list and in the file. Its steps are one application entering or leaving,
an attempt to save, a start that brings back exactly what the file names, and an end at any
moment. `RegistryKept` is its specification under the mapping `up <- Up`, `monitored <-
NamesIn(apps)`, `saved <- NamesIn(conf)`.

### Transport, FeedClient, FeedProtocol

Each process has an inbox and a queue of requests in the daemon's buffer, both bounded
by `Room`; a datagram that finds a full buffer is dropped, and so is one sent to a port
nobody has. Datagrams of one sender keep their order, as on the loopback interface. The
port file goes from absent or stale to empty (opened with "w") to the new port.

A callback of the feed thread is one action, a read of the shared flag another one. In
`unregister_watchdog` the flag is read under the mutex and used after it is released:
`UnregisterCheck` and `UnregisterNotify` are separate, and the feed thread may act in
between. `sleep(2)` lasts as long as the scheduler likes.

`FeedProtocol` reduces the daemon to the set `known` of process ids in its list, which
decides every answer it gives. Crashes, refusals and losses are bounded by `MaxCrash` and
`MaxFault`. A daemon that starts may find any of the existing processes by name. `rejoin`
records the two ways in which a process that has sent its UNREGISTER comes back: its feed timer
sends a REGISTER to the daemon's socket, or a daemon starts and finds it by its name.

### Supervision

`life`, `prog` and `left` are the processes, what they run and the time to their next
feed. The actions join those of `Watchdog` and `FeedClient`: `HandleRegister` is
`Register` and the datagram that answers it; `Kill` and `Exec` are the two halves of
`start_the_monitor_app`, with `CommIs` for the name in `/proc`. `Exec` starts a process
and leaves the node's id as it was, as the code does.

Time is prompt: a second passes (`Second`) only when every expired timer was handled and
every buffer is empty. Longer delays are what `FeedProtocol` is for, where timers are
free. The applications are those of `app_main.c`, which never unregister.

### Datagrams, Registration

`Datagrams` translates `strtok_r` as the code uses it (`Token`), `strip_string_space`
(`Strip`, which makes a null pointer of a string of spaces), and each `..._new` and
`..._unpg` function on sequences of octets. An octet has `Byte` values instead of 256, so
that a short that overflows is within reach. Strings are cut by position, as pointers into
them are moved in C: `Token` and `Strip` return parts `SubSeq(s, first, last)` of their
argument, and `LineAt(file, end)` is the line that a line end closes. `Char` is the alphabet.

`Registration` follows one application: `SendRegister`, `ReceiveRegister`, then any number
of `SaveNode` and `LoadNode` (the daemon writes `configure.cfg` and the next one reads it), and
`BeginStart` and `NextWord` for the loop of `start_app_with_cmd_line`, whose array and its
growth are `argv` and `room`. `Arrived` is what `recvfrom` leaves of a text that is longer than its
buffer. A load takes the first line of the file that is a node and passes over empty lines,
comments and keys it does not know; a line, a key or a value of spaces only is a null pointer,
which kills the daemon. The process id is looked up by the name (`Found`): 0 when the process is
dead, and always for a name that `/proc/<pid>/comm` cuts (`MaxComm`) or that `fscanf` reads up to
a blank. `stage` also names the ways it ends badly: a null pointer is
read (`dead`), the datagram is refused, the daemon does not start (`unreadable`), or starts
without the application (`forgotten`). `Watchdog` takes this way as given, as its constant
`Reloaded`; `CommandKept` and `ReloadStable` say for which commands it is the identity.

### UpdateDaemon

`upc` is where `update_c_app` is. `Does` is the command of each stage (`touch` the lock, `cp`
the binary to its backup, `cp` the new one over it, `rm` the lock), and `commands` the commands
that run: a command of `system()` is a process of its own, which the daemon waits for
(`Waiting`, `Awaited`) and which outlives it. A daemon that is started again repeats the update
from its beginning, with the command that an earlier daemon began perhaps still at work beside
its own. As long as the two have no file in common (`Uses`) each does what it does alone; a copy
that was not `alone` with its files may end in any content. `CommandNotRun` is each of the error
branches on -1, all of which return with the lock in place. An exit status is not looked at by
the code: `CommandFails` is a command that fails, before or in the middle of its copy, and is
taken for done. The code never waits for the disk: `unsaved` are the files written since the
system last wrote everything back (`Writeback`, at any moment), and a `PowerLoss` may undo or
tear any of them. There is one update daemon at a time.

`wpc` is the monitoring daemon between its look for the lock (`WdTimeout`), its kill (`WdKill`)
and its start (`WdExec`). It kills the process whose id is in the node, and an id gets there by
REGISTER (`boot = "up"`): one that hung before is not killed and stays beside the next
(`strays`). A process that does not hang registers before it is overdue. The update daemon kills
the first process that has the name (`KillApp`), which may be the latest, a stray, or a dead one
that is not reaped (`zombies`). The application writes its version file in two steps before it
registers, because `update_c_app` refuses an empty one.

`spoilt` collects what went wrong that no step of the code repairs, and the properties name the
reasons they excuse, so that they say what each of these costs:

| Reason | What happened | Excused in |
|---|---|---|
| `unnoticed` | a command failed and was taken for done | all but `UpTypeOK` (`Loose`) |
| `overlap` | an orphan command and the repetition were at one file | all but `UpTypeOK` (`Loose`) |
| `unsynced` | a loss of power undid what a command or the application had written | all but `UpTypeOK` (`Loose`) |
| `interrupted` | a loss of power within the replacement | `OneIsWhole` |
| `raced` | the update began after the monitoring daemon's look for the lock | `StartsWhole`, `UpdateSettles` |
| `missed` | another process with the name was killed instead of the latest | `UpdateSettles` |

### LogModule

A message is its number, repeated for each of its bytes; `logged` is the sequence of all of
them in the order in which the calls took effect. Sections under the write lock are one
step; `MITLogWriteFile`, which runs under the read lock or without one, is a step for the
look at the directory, one for `fopen` of the next file, one for the copy, one for `ftruncate`
and one for the append. `stores` is the ring of numbered files with modification times
in seconds, which the code compares to find the oldest. `spoilt` is set when a second thread
comes into the slow path of `MITLogWrite` or into `MITLogClose` while another one is there,
when two rotations fall into one second, when the process dies within a call, and when a full
disk drops text: in each of these cases the code loses, doubles or reorders messages. On a full
disk a call does one of two things. `fwrite` returns 0 for what does not fit the buffer of
stdio, and its loop goes round until there is room: `Copy` and `AppendText` wait for `~ full`.
Or `fwrite` takes it all, `fflush` fails and stdio drops what the disk did not take, which the
code prints before it goes on, to the `ftruncate` of the origin as well: `CopyLost` and
`AppendLost` leave the beginning of the text. The module as configured
(`MITLOG_DEBUG_ENABLE` 1) prints to the terminal and has none of this; the model is of the
release build the header describes, with buffers of the shipped size 0 and of a size greater
than 0.

## What the runs show

| Run | Outcome | Bounds |
|---|---|---|
| `watchdog` | `WdTypeOK`, `RegistryConsistent`, `Persisted`, `RegisteredIsMonitored`, `StartsSpaced`, `RegistryKept` hold | 2 applications, one with two process ids, 1 command, periods 0 (default) and 2, all failures of a save |
| `unregistering` | `FcTypeOK`, `ConfirmedMeansGone`, `UnregisterReturns` hold | 1 process, 2 polls, 2 descriptors, 1 crash, 1 fault |
| `reconnecting` | `Reconnects` holds | 1 process, 4 descriptors, 1 crash, 2 faults |
| `supervision` | `SupTypeOK`, `OneInstance`, `NoFalseRestart`, `ConfirmedHasNode`, `Converges` hold | 1 application, 3 process ids, 3 failures, 1 daemon crash, saves that fail to open the file, a period of 3 seconds and a default of 2 |
| `registration` | `CommandKept`, `PlainAccepted`, `NameKept`, `PeriodKept`, `FeedsRecognised`, `ArgvFits`, `ReloadStable` hold | every command of up to 4 characters over a letter, a space, `;`, `=`, `#` and a line end; 4 names, one with a space in it; names of 2 characters in `/proc`; octets of 16 values; datagrams of 6 characters; arrays that grow by 2; 2 restarts of the daemon |
| `update` | `UpTypeOK`, `LockCovers`, `OneIsWhole`, `StartsWhole`, `UpdateSettles` hold | 1 application, the list of the code with two updates of it, 3 faults of any kind, up to the first that makes the state `Loose` |
| `log` | `LogTypeOK`, `BufferFits`, `LogIsSuffix`, `WriteReturns` hold | 2 threads, 4 messages of 1 or 2 bytes (3 once the order is lost, 2 when a full disk is to drop text), buffers of 0 and 2 bytes, files of 2 bytes, a ring of 2, 1 restart |
| `stays_gone` | `UnregisteredStaysGone` is violated | as `watchdog`, no failed save |
| `feed_success` | `SuccessMeansGone` is violated | no crash, no fault |
| `feed_descriptors` | `UnansweredRegisters` is violated | 2 descriptors, 2 crashes, no fault |
| `false_restart` | `FeedingIsNotRestarted` is violated | no failure of an application, 1 daemon crash |
| `two_instances` | `OneInstance` is violated | applications may hang before they register, no daemon crash |

Why the bounds are enough. In `watchdog`, two applications and three ids are what the
code's matching by id or by name can confuse, and a list of two has a head, a tail and a
node behind a removed one; with `MaxMissed` = 1 and periods 1 and 2 an age passes every
limit. The list of any length is covered by the proofs. In the protocol, processes
share nothing but the daemon's life, so one process shows what each of several sees;
two ports tell a stale one from a new one, two places in a buffer hold a request and
the next one behind it, and a poll that finds the flag unset, one that acts on it late
and the end of the loop need two polls. In `supervision`, three ids let an
application be replaced twice, and `MaxMissed` = 3 and `MaxMissFeedback` = 2 are the
code's values, with periods of 3 and 2 seconds so that the timer's second is shorter than a
period and a loaded node is judged by a shorter period than its application's own. Two applications at once are beyond TLC's reach there (well over a million states); the daemon's treatment of several is what `watchdog` checks.

In `registration`, four characters hold two words with a divider between them, spaces at both
ends, and every divider in every place; arrays that grow by two are full at two words, so
the last word and the null pointer each meet the growth. A short of two octets of 16 values
overflows at 128, which the periods straddle. In `update`, the list is the one the code builds, two updates
of one application; three faults let the daemon die with its command running, the repetition be
interrupted, and the application die or hang meanwhile. The constraint `Orderly` leaves out what
comes after the state is `Loose`: nothing ends that, and every property but the types excuses it,
so they lose nothing by it. In `log`, two threads are the two of an application; a ring of two has an
oldest and a newest file, four messages fill it and begin to overwrite, and a buffer of two
bytes is one that some messages fit and some do not.

### Findings

* **Unregistered applications come back** (`stays_gone`). A successful
  UNREGISTER changes the list only; the file keeps the line. After the daemon's next start
  the application is in the list again, and started when it is not running.
* **Success without a confirmation** (`feed_success`). `unregister_watchdog` returns its
  initial value when its polls run out.
* **Registrations leak descriptors** (`feed_descriptors`). The port file is never closed; an
  application without descriptors stops registering, silently.
* **A quick daemon restart kills a healthy application** (`false_restart`). Two unanswered feeds and a
  period in which nothing is sent are as long as the daemon's patience with a node it
  has loaded.
* **Two processes of one application** (`two_instances`). The id of a started child is
  not stored; a child that hangs before it registers is not killed by the next
  start.

### Fairness

`FeedProtocol`: the daemon's event loop serves a buffer that stays non-empty and publishes
its port once bound (`ServerFairness`); each of the two threads of a process is
scheduled, its timer is periodic (EV_PERSIST), its socket becomes readable when a
datagram waits (`ClientFairness`). All of it is weak fairness of steps that stay enabled
until taken. Nothing obliges the daemon to start again, an application to unregister, or
the network to lose or deliver; `Reconnects` speaks of a daemon that is up and does not
crash again. Its escape for a process without descriptors is the finding above.

`Supervision`: the daemon's steps, each application's steps and the passing of time are
weakly fair. Starting the daemon again is one of its steps: the repository has no
process that does it, so `Converges` is a statement about a device whose init does. The
bounded failures and crashes stop at some point, as for every such property.

`UpdateDaemon`: the steps of the two daemons, of the commands, and of an application that boots
are weakly fair, each group as one: a daemon is one thread, the application boots in one, and of
the finitely many commands that run it is enough that some command goes on. Nothing starts the
update daemon again, so `UpdateSettles` excuses one that is gone; a lock that it left then
stays, and the application is not started any more. Nor has anything to be written back.

`LogModule`: each thread is scheduled within its call. Nobody has to log or close, and nobody
makes room on a full
disk, which `WriteReturns` therefore excuses: while it is full a thread may stay in the loop
around `fwrite` with the read lock held, and `fflush` need not fail (`CopyLost` and `AppendLost`
are not among the fair steps).

## What is proved

In each module the argument is one inductive invariant, a lemma for each action or group of
actions that it is preserved, and a theorem that collects them. The only assumptions are the
named `ASSUME`s on the constants, which TLC evaluates in the runs.

`WatchdogProofs` proves, for any sets of applications, commands, clients and periods, any
limit of missed feeds, any reloading of commands and any kinds of failed saves:

* `TypeCorrect`, `RegistryIsConsistent`, `ListIsPersisted`: the invariants `WdTypeOK`,
  `RegistryConsistent` and `Persisted`.
* `StartsAreSpaced`: the action property `StartsSpaced`.
* `RegisteredStaysMonitored`: the invariant `RegisteredIsMonitored`, when no process id
  belongs to two applications (`PidsUnshared`). Without that condition it is false:
  `add_monitored_app` matches by id or by name, so an application with the id of another's
  dead process changes that node, gets a success, and is not in the list.

The argument is one inductive invariant, `RegistryInv`. `RegistryConsistent` is not
inductive alone: a load builds the list from the file, so no name may have two lines there
(`LinesDistinct`), and that in turn is kept by a save because the list has no double
name and by a cut because a cut file is a prefix of one that was whole
(`TornIsPrefix`). An UNREGISTER does not save, so what links list and file is the
inclusion `Persisted`, not equality. `StartsSpaced` follows from `FedSinceStart`: no node
is older than the last start of its application, because `timeout_cb` makes a node fresh
before it starts anything; an overdue node thus proves how long ago the last start was.
`RegisteredIsMonitored` needs `PromiseInv` on top: ids in nodes are ids of the node's own
application (`OwnPids`), so an UNREGISTER or a matching REGISTER never takes another's node, and
the file covers what was confirmed (`RegisteredIsSaved`), so a crash loses nothing.

The assumptions `WdConstants` are types of the constants, that the "no process" and
"no command" values are apart from real ones, and that ages are capped above every limit,
without which no node of the model would ever be overdue.

`RegistryRefined` is `WdSpec => RegistryKept`. Each action is shown to be a
step of `Registry` or to leave its three variables alone, under `RegistryInv`: that a removal
takes exactly one name out needs distinct names in the list, and that a start brings back the
file's set needs nothing but `Loaded`.

`FeedProofs` proves `FcTypeOK` and `ConfirmedMeansGone` for any number of processes, ports,
polls, descriptors, crashes and lost datagrams. What matters is the order of one process's
requests (`Promise`): but for the two exceptions of `rejoin`, behind its UNREGISTER there is no
REGISTER, since only the feed timer sends one; requests keep their order, a lost or dropped one
does not break it, and a daemon that crashed forgets more, not less, so that the promise holds
for the daemons after it as well.

`SupervisionProofs` proves `DaemonInSystem`: `SupSpec => WdSpec`. Every step of the whole system is
a step of the daemon alone or leaves its variables as they are: the sender of a request is one
of `Client` because every process runs an application (`Programs`), and the processes found at
a start are among those that may be found (`FoundAreClients`). With it what is proved of
the daemon holds among its applications (`SystemKeepsRegistry`). `SystemTypeCorrect` proves
`SupTypeOK` for any number of applications and processes; it needs that `timeout_cb` stands on
a node of the list while it kills and starts a process (`RestartsNode`), which in the code is
a pointer that is still valid. `SupConstants` assume that there is an application, that the
commands tell applications apart, and that each one's period is among those of the datagrams.

The other theorems of `SupervisionProofs` are about an *undisturbed* system: any number of
applications, process ids, ports, failures, daemon crashes and saves that fail to open the
file, any periods and limits, with the conditions of `Undisturbed`. They are on the constants
alone, `Supervision.cfg` satisfies them, and each excludes a way in which the code loses track
of a process:

* no application hangs before its first REGISTER (`two_instances` is the counterexample);
* no name is longer than the 15 characters of `/proc/<pid>/comm`, or a process is not
  recognised and not killed before the next start;
* ids are not reused while a node still has them, or a stranger's node is taken;
* a save leaves the old file or the whole new one, or a cut line restarts under another command;
* the file gives a command back as it was, which `Registration` shows for plain ones;
* `FeedPeriod <= MaxMissed * DefaultPeriod` and `MaxMissed >= 1`, so that a started application
  registers before its node, still with the default period, is overdue; and a descriptor for the
  port file, without which nothing registers.

They are proved in this order:

* `InstanceInvariant` and `SystemHasOneInstance` (`OneInstance`). That there is one process of an
  application is kept by the order of `timeout_cb`: when the command is run no process may be alive
  (`RestartIsSafe`), because the node's id was killed and no other process exists. Since the
  id of a new child is not stored, the node knows it only after its REGISTER; `NodeKnowsProcess`
  says that until then it `WillRegister`: the age of the node and the time to the process's first
  timeout together stay within its period, or the REGISTER is in the buffer and is served
  within the second. `LateRequests` is for what a dead process leaves in the daemon's buffer:
  its REGISTER may still put the old id into the node, but only while the new process is `Fresh`.
* `ConfirmedHasItsNode` (`ConfirmedHasNode`), from `ConfirmedIsKept` and the above: what the daemon
  acknowledged is in the list, or in the file while it is down and the saves succeeded; the node
  is its own by `NodeKnowsProcess`, since a process that is confirmed has no REGISTER to send.
* `RunningIsNotRestarted` (`NoFalseRestart`), with `MaxMissFeedback >= 1`. In `FeedingInv` a running
  process and its node are `InTouch`: they have at most one datagram between them, within the second of the
  timeout that sent it (`Talks`), and the age of the node and the time left to the
  next feed never exceed the period (`Fed`). With `MaxMissFeedback = 0` the library never
  sends a feed.

`InstanceInv`, `ConfirmedIsKept` and `FeedingInv` were checked by TLC before they were proved, in the
instance of the run and in one of two applications (3 to 4 million states).

`RegistrationProofs` proves `CommandKept`, `PlainAccepted`, `NameKept`, `PeriodKept`,
`FeedsRecognised` (after a load on the condition that the process was found), `ArgvFits` and the
action property `ReloadStable` (but for the process id, which each daemon looks up), for any alphabet, names,
commands, periods and ids, any size of a datagram, growth of the array and number of restarts. The
assumptions `RegistrationConstants` are types, that null is not a string or a record, that
`default_process` has none of the dividers in it, and that a process id fits a signed int;
`DatagramConstants` is that an octet has an even number of values, 16 or more.

The argument is in two layers. The first are lemmas about the C functions: what `Strip` and
`Token` return as a part of their argument between two positions, that a second `Strip` changes
nothing, that octets give a short or an int back when it fits (`ReturnRoundTrip` and its
like), and, for the file, which characters of a saved line are line ends, equals signs and
semicolons. The second is `RegInv`. A node is `Clean`: its strings are stripped, not empty and without a
semicolon, because that is how `strtok_r` leaves them, whatever was sent. A line end or an equals
sign may still be in it: then its line is cut when it is read, and the first line of
the file decides what comes back. What came back once is `OneLine`, so that from then on
saving and loading are inverse, which is `ReloadStable`. `WordsStored` is the loop of
`start_app_with_cmd_line`: the words that begin before a position that is not within a word are in
`argv`, and the rest begins there. `CommandKept` is stated by the same
positions, so no induction over the words is needed. `RegInv` was checked by TLC in the instance of the run
before it was proved.

`UpdateProofs` proves `UpTypeOK`, `LockCovers`, `OneIsWhole` and `StartsWhole` for any list of
updates and any number of faults, crashes and orphan commands. Their inductive invariant `UpInv`
says which command may still run in which stage. The command the daemon waits for is the last
that began (`LastAwaited`), and as long as no overlap was noted no two commands share a file
(`Apart`), so that no orphan is at the files of a stage. From its second command on an update
has its lock and no orphan removes it, and a copy of the binary that outlives the daemon is under
the lock too (`Locked`); the lock is removed only when the binary is whole and not being copied
(`RemovedLast`). A binary that is not whole is being copied (`BeingReplaced`), and while it is,
or is about to be, the backup is whole and nobody is at it (`BackupDone`): an orphan backup that
still ran then would have shared the file with the backup of the repetition, which is noted.
`NotBeforeKill` says the same of the binary, and `OnNode` that the walk stays on its node,
without which a release would take the wrong one out. `StartsWhole` rests on `LockCovers` and on
`StartRaced`, that a start under way beside a lock had looked before. `UpInv` was checked by TLC
before it was proved.

`LogProofs` proves `LogTypeOK`, `BufferFits` and `LogIsSuffix` for any number of threads,
sizes and limits. A thread that was told the next file's number may find that another one has
opened it meanwhile (`Rotating`); the numbers still stay within the ring, and what the buffer
holds was logged (`Buffered`). `LogIsSuffix` is stated by positions: every numbered file has a
place in `logged` and holds the text from there to the place of the next later file (`Places`),
so no fold over the files in the order of their times is needed. In a call the property does
not hold, and `OrderInv` says what does: while nothing of what `spoilt` stands for has happened, a
full disk that dropped text included, one thread is in a call
(`Alone`) and no two files have the same time (`Dated`); what the numbered files lack is the
log file with what the thread still has to write to it (`Behind`); and the file it fills
(`Filling`) is the newest one, empty before the copy and equal to the log file until that is
emptied (`Filled`). The file that `fopen` empties is a new one or the oldest of a full ring, so
the rest still ends where `logged` does; it has no place until `ftruncate`, which makes its
text the last before `Behind`. A restart takes the buffer off the end of `logged`. `LogInv` and
`OrderInv` were checked by TLC in the instance of the run before they were proved, as was that
`LogIsSuffix` says the same as joining the files in the order of their times.

Only model-checked:

* all liveness (`UnregisterReturns`, `Reconnects`, `Converges`, `UpdateSettles`, `WriteReturns`), since TLAPS
  has no support for ENABLED here;
* the violations.

## What is not modelled

* `compare_two_cmd_line` and `write_file`, which nothing calls; the pid files and the version files
  of the two daemons, which nothing reads; makefiles and shell scripts.
* In `configure.cfg`: the two numbers. A cut in the numbers is told as an
  unreadable file; a changed value that is still read (a 15 cut to a 1) is not.
* Lines longer than the daemon's buffer of 1024 characters, and the characters `isspace` knows
  besides the blank and the line end. For a line with spaces around it `strip_string_space` puts a
  buffer of the stripped length in the place of the line's own; the `memset` of 1024 octets and the
  next `fscanf` then write past its end (`wd_configure.c:94-100`, 222). That is undefined, and the
  model reads the next line as if there were room.
* In the log module: three levels at once (they share only the lock), failing `opendir`, `stat`
  and `fopen` of a rotation, two threads in `MITLogCopyFile` that take chunks from one another
  (the log is `spoilt` then in any case), and calls after `MITLogClose` or a failed
  `MITLogOpen`, which read freed or null pointers.
* Allocation failures, the clock being set, and what is undefined in C (a destroyed mutex that is
  locked, `exit` in the child of `vfork`). Zombies are in `UpdateDaemon` only.
* Processes other than the daemons and their applications.

## Plan

Done: every component above. What could follow:

1. `AppsList`: head, tail and next pointers of the list as the code keeps them, shown to
   implement the sequence of `Watchdog`.
2. The refinement of an abstract log by `LogModule`, and of an abstract update by `UpdateDaemon`.
3. The datagram that brings a reused process id, and the command line that a known
   application changes without the file, as runs of their own.
