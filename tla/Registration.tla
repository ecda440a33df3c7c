---------------------------- MODULE Registration ----------------------------
(***************************************************************************)
(* The way of one application's name, command line and period through the  *)
(* system: packed by wd_send_register_pg, unpacked and listed by the       *)
(* daemon, written to configure.cfg, read back by the next daemon, and at  *)
(* last cut into the argument vector of execvp.  Watchdog takes that way   *)
(* as given (its constant Reloaded); here it is what is checked, with the  *)
(* spaces, semicolons, equals signs and line ends a command may hold.      *)
(***************************************************************************)
EXTENDS Datagrams

CONSTANTS
    Char,           \* characters
    AppName,        \* app_name given to create_feed_thread
    CmdLine,        \* cmd_line given to create_feed_thread
    FeedPeriod,     \* feed_period given to create_feed_thread
    ProcessId,      \* monitored_pid
    Key,            \* "default_process"
    DefaultPeriod,  \* default_feed_period
    MaxText,        \* characters of name and command in one datagram
    MaxComm,        \* characters of a process's name: 15 on Linux
    Unit,           \* unit_alloc_size: 4 in the code
    MaxLoads        \* bound on restarts of the daemon

Comment == "#"

ASSUME RegistrationConstants ==
    /\ {Blank, LineEnd, Equals, Semicolon} \subseteq Char
    /\ Null \notin Seq(Char)
    /\ Null \notin [name : Seq(Char), line : Seq(Char)]
    /\ Null \notin [period : Int, pid : Int, name : Seq(Char), line : Seq(Char)]
    /\ AppName \subseteq Seq(Char)
    /\ CmdLine \subseteq Seq(Char)
    /\ Key \in Seq(Char) \ {<< >>}
    /\ Range(Key) \intersect {Blank, LineEnd, Equals, Semicolon, Comment} = {}
    /\ FeedPeriod \subseteq Nat
    /\ ProcessId \subseteq Nat \ {0}
    /\ \A p \in ProcessId : 2 * p < Shorts * Shorts
    /\ DefaultPeriod \in Nat \ {0}
    /\ Unit \in Nat \ {0}
    /\ MaxText \in Nat
    /\ MaxComm \in Nat

VARIABLES
    stage,  \* where the registration is
    conf,   \* feed_configure of the application
    pg,     \* the datagram on its way
    node,   \* the daemon's node
    file,   \* the text of configure.cfg after its two numbers
    loads,  \* times the node was read from the file
    rest,   \* start_app_with_cmd_line: what strtok_r has not seen
    argv,   \* cmd_argvs[0 .. j - 1]
    room    \* sum_alloc_size

regVars == <<stage, conf, pg, node, file, loads, rest, argv, room>>

execVars == <<rest, argv, room>>

Fails(outcome) ==
    stage' = outcome /\ UNCHANGED <<conf, pg, node, file, loads, execVars>>

-----------------------------------------------------------------------------
(* The application.                                                        *)

\* A name or command of spaces only is a null pointer for strlen().
SendRegister ==
    LET name == Strip(conf.name)
        line == Strip(conf.line)
    IN  /\ stage = "call"
        /\ IF Null \in {name, line}
           THEN Fails("dead")
           ELSE /\ stage' = "sent"
                /\ pg' = RegisterPg(name, line, conf.period, conf.pid)
                /\ UNCHANGED <<conf, node, file, loads, execVars>>

-----------------------------------------------------------------------------
(* The daemon.                                                             *)

\* Mutant: the period of the datagram is taken as it is.
EffectiveRaw(period) == period

Effective(period) == IF period <= 0 THEN DefaultPeriod ELSE period

\* recvfrom() reads what fits in its buffer.
Arrived(sent) ==
    [sent EXCEPT !.text = SubSeq(@, 1, Min({Len(sent.text), MaxText}))]

\* add_monitored_app.
ReceiveRegister ==
    LET got == RegisterUnpg(Arrived(pg))
    IN  /\ stage = "sent"
        /\ IF got = Null THEN Fails("refused")
           ELSE IF Null \in {got.name, got.line} THEN Fails("dead")
           ELSE /\ stage' = "listed"
                /\ node' = [got EXCEPT !.period = Effective(@)]
                /\ UNCHANGED <<conf, pg, file, loads, execVars>>

\* A FEED of the process is answered from the list of nodes; the answer's
\* error field is what the application looks at.
Answered(pid) ==
    LET fed   == ActionUnpg(ActionPg(Commands.feed, pid))
        error == IF node.pid = fed.pid THEN 0 ELSE 200
    IN  ReturnUnpg(ReturnPg(fed.cmd, error))

\* Mutant: the separator of name and command is written as "=".
SavedLineEq(n) ==
    Key \o <<Blank, Equals, Blank>> \o n.name \o <<Equals>> \o n.line \o <<LineEnd>>

\* Mutant: the command is written first.
SavedLineSwapped(n) ==
    Key \o <<Blank, Equals, Blank>> \o n.line \o <<Semicolon>> \o n.name \o <<LineEnd>>

SavedLine(n) ==
    Key \o <<Blank, Equals, Blank>> \o n.name \o <<Semicolon>> \o n.line \o <<LineEnd>>

SaveNode ==
    /\ stage = "listed"
    /\ loads < MaxLoads
    /\ stage' = "saved"
    /\ file' = SavedLine(node)
    /\ UNCHANGED <<conf, pg, node, loads, execVars>>

Breaks(text) == {i \in DOMAIN text : text[i] = LineEnd}

LineStart(text, end) == 1 + Max({i \in Breaks(text) : i < end} \union {0})

\* Mutant: the character before the line end is cut with it.
LineShort(text, end) == SubSeq(text, LineStart(text, end), end - 2)

\* The line that ends with this line end.
LineAt(text, end) == SubSeq(text, LineStart(text, end), end - 1)

\* One line of the file.  Null stands for each way in which the daemon fails
\* to start: get_wd_configure returns NULL, or a key or a value of spaces only
\* is a null pointer for strcmp() or strlen().
NodeOf(line) ==
    LET key   == Token(Strip(line), Equals)
        value == Token(key.rest, Equals)
        name  == Token(Strip(value.word), Semicolon)
        cmd   == Token(name.rest, Semicolon)
    IN  IF value.word = Null THEN Null
        ELSE IF Strip(key.word) = Null THEN Null
        ELSE IF Strip(key.word) # Key THEN << >>
        ELSE IF Strip(value.word) = Null THEN Null
        ELSE IF cmd.word = Null THEN Null
        ELSE [name |-> Strip(name.word), line |-> Strip(cmd.word)]

\* Empty lines, comments and unknown keys are passed over.
NodeAt(text, end) ==
    LET line == LineAt(text, end)
    IN  IF line = << >> THEN << >>
        ELSE IF Strip(line) = Null THEN Null
        ELSE IF Strip(line)[1] = Comment THEN << >>
        ELSE NodeOf(line)

\* get_pid_with_comm: 0 when the process is dead, and always when the kernel
\* cut its name or fscanf() reads it up to a space only.
Found(name) ==
    IF Len(name) > MaxComm \/ Range(name) \intersect Space # {} THEN {0} ELSE {0, conf.pid}

\* The next daemon looks the process up by its name; a file without a node
\* makes it start with an empty list.
LoadNode ==
    LET nodes == {end \in Breaks(file) : NodeAt(file, end) # << >>}
        first == NodeAt(file, Min(nodes))
    IN  /\ stage = "saved"
        /\ IF \E end \in nodes : NodeAt(file, end) = Null THEN Fails("unreadable")
           ELSE IF nodes = {} THEN Fails("forgotten")
           ELSE /\ stage' = "listed"
                /\ loads' = loads + 1
                /\ \E pid \in Found(first.name) :
                        node' = [period |-> DefaultPeriod, pid |-> pid,
                                 name |-> first.name, line |-> first.line]
                /\ UNCHANGED <<conf, pg, file, execVars>>

-----------------------------------------------------------------------------
(* start_app_with_cmd_line.                                                *)

BeginStart ==
    /\ stage = "listed"
    /\ node.line # Null
    /\ stage' = "argv"
    /\ rest' = node.line
    /\ argv' = << >>
    /\ room' = Unit
    /\ UNCHANGED <<conf, pg, node, file, loads>>

\* Mutant: the array is grown one word late.
RoomLate(j) == IF j > room THEN room + Unit ELSE room

RoomFor(j) == IF j >= room THEN room + Unit ELSE room

\* One round of the loop stores one word, or the null pointer at the end.
NextWord ==
    LET token == Token(rest, Blank)
    IN  /\ stage = "argv"
        /\ room' = RoomFor(Len(argv))
        /\ argv' = Append(argv, token.word)
        /\ rest' = token.rest
        /\ stage' = IF token.word = Null THEN "run" ELSE "argv"
        /\ UNCHANGED <<conf, pg, node, file, loads>>

-----------------------------------------------------------------------------
Settled ==
    /\ stage \in {"run", "dead", "refused", "unreadable", "forgotten"}
    /\ UNCHANGED regVars

RegInit ==
    /\ stage = "call"
    /\ conf \in [name : AppName, line : CmdLine, period : FeedPeriod, pid : ProcessId]
    /\ pg = Null
    /\ node = Null
    /\ file = << >>
    /\ loads = 0
    /\ rest = << >>
    /\ argv = << >>
    /\ room = 0

RegNext ==
    \/ SendRegister
    \/ ReceiveRegister
    \/ SaveNode
    \/ LoadNode
    \/ BeginStart
    \/ NextWord
    \/ Settled

RegSpec == RegInit /\ [][RegNext]_regVars

-----------------------------------------------------------------------------
(* Properties.                                                             *)

\* A string with a printing character, and without those that divide a
\* datagram or a line of the file.
Plain(s) == Printing(s) # {} /\ Range(s) \intersect {Semicolon, Equals, LineEnd} = {}

\* The application's strings are plain and fit one datagram (MAX_UDP_PG_SIZE).
PlainConf ==
    /\ Plain(conf.name)
    /\ Plain(conf.line)
    /\ Len(conf.name) + 1 + Len(conf.line) <= MaxText

\* Where a word begins, and the word: as far as the next space.
Starts(s) == {i \in Printing(s) : i - 1 \notin Printing(s)}

WordAt(s, i) ==
    SubSeq(s, i, Min({j \in i .. Len(s) : s[j] \in Space} \union {Len(s) + 1}) - 1)

\* These are the words of s that begin before m, each once and in order.
AreWords(words, s, m) ==
    \E at \in [DOMAIN words -> {i \in Starts(s) : i < m}] :
        /\ \A k \in DOMAIN words : words[k] = WordAt(s, at[k])
        /\ \A j, k \in DOMAIN words : j < k => at[j] < at[k]
        /\ \A i \in Starts(s) : i < m => i \in Range(at)

\* What is executed at last is what the application asked for, word by word
\* and with a null pointer behind it, however often the daemon was started
\* again in between.
CommandKept ==
    stage = "run" /\ PlainConf =>
        /\ AreWords(Front(argv), conf.line, Len(conf.line) + 1)
        /\ Last(argv) = Null

\* An application with a plain name and command is never refused, and never
\* kills the daemon or keeps the next one from starting.
PlainAccepted == PlainConf => stage \notin {"dead", "refused", "unreadable", "forgotten"}

\* The name under which the daemon looks the process up, and the identity of
\* the node when the application registers again, is the application's.
NameKept ==
    stage = "listed" /\ Plain(conf.name) => node.name = Strip(conf.name)

\* The daemon waits for the application's own period when that fits a short,
\* and never for a period of nothing.
PeriodKept ==
    stage = "listed" =>
        /\ node.period > 0
        /\ loads = 0 /\ conf.period > 0 /\ 2 * conf.period < Shorts =>
                node.period = conf.period

\* A feed of the registered process is answered with success, and one of
\* another process with an error; after a restart of the daemon as well,
\* provided that it found the process by its name.
FeedsRecognised ==
    stage = "listed" =>
        /\ loads = 0 => node.pid = conf.pid
        /\ \A p \in ProcessId :
            /\ Answered(p).cmd = Commands.feed
            /\ Answered(p).error = 0 <=> p = conf.pid /\ node.pid # 0

\* The argument vector is written inside the array that was allocated.
ArgvFits == Len(argv) <= room

\* Whatever the command was, one restart of the daemon settles it: what was
\* read once is written and read again without a change, but for the process
\* id that each daemon looks up itself.
ReloadStable ==
    [][stage = "saved" /\ loads > 0 =>
            stage' = "listed" /\ node' = [node EXCEPT !.pid = node'.pid]]_regVars

-----------------------------------------------------------------------------
(* What the properties rest on.                                            *)

\* A string as strtok_r with ";" and strip_string_space leave it.
Clean(s) ==
    /\ s \in Seq(Char) \ {<< >>}
    /\ s[1] \notin Space
    /\ s[Len(s)] \notin Space
    /\ Semicolon \notin Range(s)

\* It does not divide a line of the file.
OneLine(s) == Range(s) \intersect {Equals, LineEnd} = {}

\* The datagram is on its way as it was packed, and no daemon was restarted.
SentAsPacked ==
    /\ stage \in {"call", "sent"} => loads = 0
    /\ stage = "sent" =>
        /\ Null \notin {Strip(conf.name), Strip(conf.line)}
        /\ pg = RegisterPg(Strip(conf.name), Strip(conf.line), conf.period, conf.pid)

Monitored == stage \in {"listed", "saved", "argv", "run"}

\* The node has clean strings and the process id it came with, or the one that
\* was found by the name; after the first load nothing in it can divide a line.
NodeIsClean ==
    Monitored =>
        /\ node \in [name : Seq(Char), line : Seq(Char),
                      period : Nat \ {0}, pid : {0, conf.pid}]
        /\ Clean(node.name) /\ Clean(node.line)
        /\ loads = 0 => node.pid = conf.pid
        /\ loads = 0 /\ conf.period > 0 /\ 2 * conf.period < Shorts =>
                node.period = conf.period
        /\ loads > 0 => /\ OneLine(node.name) /\ OneLine(node.line)
                        /\ node.period = DefaultPeriod
        /\ stage = "saved" => file = SavedLine(node)

\* Plain strings are in the node as the application stripped them.
NodeAsAsked ==
    Monitored =>
        /\ Plain(conf.name) => node.name = Strip(conf.name)
        /\ PlainConf => node.line = Strip(conf.line)

\* The words before the character m were stored; m is not within a word.
WordsStored ==
    LET s == conf.line
    IN  stage = "argv" /\ PlainConf =>
            \E m \in Min(Printing(s)) .. Max(Printing(s)) + 2 :
                /\ ~ {m - 1, m} \subseteq Printing(s)
                /\ rest = SubSeq(s, m, Max(Printing(s)))
                /\ AreWords(argv, s, m)

RegTypeOK ==
    /\ stage \in {"call", "sent", "listed", "saved", "argv", "run",
                  "dead", "refused", "unreadable", "forgotten"}
    /\ conf \in [name : AppName, line : CmdLine, period : FeedPeriod, pid : ProcessId]
    /\ loads \in Nat
    /\ rest \in Seq(Char)
    /\ argv \in Seq(Seq(Char) \union {Null})
    /\ room \in Nat

RegInv ==
    /\ RegTypeOK
    /\ SentAsPacked
    /\ NodeIsClean
    /\ NodeAsAsked
    /\ PlainAccepted
    /\ WordsStored
    /\ CommandKept
    /\ ArgvFits

=============================================================================
