------------------------------ MODULE LogModule -----------------------------
(***************************************************************************)
(* mit_log_module.c as it is compiled without MITLOG_DEBUG_ENABLE: the     *)
(* messages of one level, from the threads of one process, go through a    *)
(* buffer under a read-write lock into a log file, and from there into a   *)
(* ring of numbered files.  A text is a sequence of the numbers of its     *)
(* messages, one for each byte.  Sections under the write lock are one     *)
(* step; what runs under the read lock or under no lock is not.            *)
(***************************************************************************)
EXTENDS Naturals, FiniteSets, SequencesExt

CONSTANTS
    Thread,
    BufferSizes,  \* values of MITLogBufferMaxSize; as shipped {0}
    FileMax,      \* MITLOG_MAX_FILE_SIZE
    MaxNum,       \* MITLogFileMaxNum
    Size,         \* bytes of a message
    MaxMessages,  \* bound on messages
    MaxSpoilt,    \* and on those in a log that is spoilt
    MaxLost,      \* bound on messages when a full disk drops text
    MaxRestarts   \* bound on restarts of the process

ASSUME LogConstants ==
    /\ BufferSizes \subseteq Nat
    /\ FileMax \in Nat
    /\ MaxNum \in Nat \ {0}
    /\ Size \subseteq Nat \ {0}
    /\ {MaxMessages, MaxSpoilt, MaxLost, MaxRestarts} \subseteq Nat

VARIABLES
    bufferMax,  \* MITLogBufferMaxSize of the level
    pc,         \* what each thread does next
    job,        \* why it is in MITLogWriteFile
    msg,        \* the message it writes
    next,       \* nextStoreFile
    readers,    \* threads that hold the read lock
    buffer,     \* logFileBuffer
    origin,     \* the log file
    stores,     \* the numbered files, with their modification times
    open,       \* between MITLogOpen and MITLogClose
    full,       \* the disk is full
    written,    \* number of messages so far
    restarts,
    logged,     \* all that was logged, in order
    spoilt      \* the log went through what its order does not survive

disk == <<origin, stores>>
locals == <<job, msg, next>>
env == <<full, written, restarts>>
logVars == <<bufferMax, pc, locals, readers, buffer, disk, open, env, logged, spoilt>>

Idle(t) == pc[t] = "idle"

AllIdle == \A t \in Thread : Idle(t)

Goto(t, place) == pc' = [pc EXCEPT ![t] = place]

\* What is logged from now on, and whether that is still followed.
Record(text, spoils) ==
    /\ spoilt' = (spoilt \/ spoils)
    /\ logged' = IF spoilt' THEN << >> ELSE logged \o text

\* A call ends, and its local variables with it.
LocalsEnd(t) ==
    /\ job' = [job EXCEPT ![t] = "none"]
    /\ msg' = [msg EXCEPT ![t] = << >>]
    /\ next' = [next EXCEPT ![t] = 0]

-----------------------------------------------------------------------------
(* MITLogWriteFile.                                                        *)

\* What the thread was called to write.
Text(t) == IF job[t] = "direct" THEN msg[t] ELSE buffer

WriteFile(t, why) ==
    /\ job' = [job EXCEPT ![t] = why]
    /\ Goto(t, "look")

\* Mutants: one file more than the maximum; the newest file is taken.
NextStoreMore ==
    IF Len(stores) <= MaxNum
    THEN {Len(stores) + 1}
    ELSE {i \in DOMAIN stores : \A j \in DOMAIN stores : stores[i].time <= stores[j].time}

NextStoreNewest ==
    IF Len(stores) < MaxNum
    THEN {Len(stores) + 1}
    ELSE {i \in DOMAIN stores : \A j \in DOMAIN stores : stores[i].time >= stores[j].time}

\* The first number that is free, or else a file that was modified before
\* all others, in the order of readdir.
NextStore ==
    IF Len(stores) < MaxNum
    THEN {Len(stores) + 1}
    ELSE {i \in DOMAIN stores : \A j \in DOMAIN stores : stores[i].time <= stores[j].time}

\* MITGetLogInfoByIndex, and the decision whether the log file is moved.
Look(t) ==
    /\ pc[t] = "look"
    /\ \E i \in NextStore : next' = [next EXCEPT ![t] = i]
    /\ IF FileMax < Len(origin) + Len(Text(t)) THEN Goto(t, "store") ELSE Goto(t, "append")
    /\ UNCHANGED <<bufferMax, job, msg, readers, buffer, disk, open, env, logged, spoilt>>

\* fopen(nextStoreFile, "w"), in the second of the newest file or later.
OpenStore(t) ==
    LET times == {0} \union {stores[i].time : i \in DOMAIN stores}
    IN  /\ pc[t] = "store"
        /\ \E newest \in times : \E now \in {newest, newest + 1} :
            /\ \A time \in times : time <= newest
            /\ stores' = [i \in DOMAIN stores \union {next[t]} |->
                            IF i = next[t] THEN [text |-> << >>, time |-> now] ELSE stores[i]]
            /\ Record(<< >>, \E i \in DOMAIN stores \ {next[t]} : stores[i].time = now)
        /\ Goto(t, "copy")
        /\ UNCHANGED <<bufferMax, locals, readers, buffer, origin, open, env>>

\* MITLogCopyFile, from the start of one file to the start of the other; on a
\* full disk fwrite may return 0, and its loop goes round until there is room.
Copy(t) ==
    /\ pc[t] = "copy"
    /\ ~ full
    /\ stores' = [stores EXCEPT ![next[t]].text =
                    origin \o SubSeq(@, Len(origin) + 1, Len(@))]
    /\ Goto(t, "truncate")
    /\ UNCHANGED <<bufferMax, locals, readers, buffer, origin, open, env, logged, spoilt>>

\* What fits the buffer of stdio is taken by fwrite on a full disk as well; it
\* is fflush that fails then, and drops what the disk did not take.  The error
\* is printed, and the copy goes for a whole one.
CopyLost(t) ==
    /\ pc[t] = "copy"
    /\ full
    /\ written <= MaxLost
    /\ \E n \in 0 .. Len(origin) - 1 :
        stores' = [stores EXCEPT ![next[t]].text =
                        SubSeq(origin, 1, n) \o SubSeq(@, n + 1, Len(@))]
    /\ Goto(t, "truncate")
    /\ Record(<< >>, TRUE)
    /\ UNCHANGED <<bufferMax, locals, readers, buffer, origin, open, env>>

\* ftruncate, also when the copy failed: "this step MUST be executed"
Truncate(t) ==
    /\ pc[t] = "truncate"
    /\ origin' = << >>
    /\ Goto(t, "append")
    /\ UNCHANGED <<bufferMax, locals, readers, buffer, stores, open, env, logged, spoilt>>

\* Where MITLogWriteFile returns to.
Return(t) ==
    CASE job[t] = "buffer" -> "empty"
      [] job[t] = "direct" -> "idle"
      [] job[t] = "close" -> "free"

\* Mutant: the read lock is kept.
AppendLocked(t) ==
    /\ pc[t] = "append"
    /\ ~ full
    /\ origin' = origin \o Text(t)
    /\ Goto(t, Return(t))
    /\ IF job[t] = "direct" THEN LocalsEnd(t) ELSE UNCHANGED locals
    /\ UNCHANGED <<bufferMax, readers, buffer, stores, open, env, logged, spoilt>>

\* The text is appended, and the caller gives its read lock back.
AppendText(t) ==
    /\ pc[t] = "append"
    /\ ~ full
    /\ origin' = origin \o Text(t)
    /\ readers' = readers \ {t}
    /\ Goto(t, Return(t))
    /\ IF job[t] = "direct" THEN LocalsEnd(t) ELSE UNCHANGED locals
    /\ UNCHANGED <<bufferMax, buffer, stores, open, env, logged, spoilt>>

\* The text was taken by fwrite and dropped by fflush, which only prints it.
AppendLost(t) ==
    /\ pc[t] = "append"
    /\ full
    /\ written <= MaxLost
    /\ \E n \in 0 .. Len(Text(t)) - 1 : origin' = origin \o SubSeq(Text(t), 1, n)
    /\ readers' = readers \ {t}
    /\ Goto(t, Return(t))
    /\ IF job[t] = "direct" THEN LocalsEnd(t) ELSE UNCHANGED locals
    /\ Record(<< >>, TRUE)
    /\ UNCHANGED <<bufferMax, buffer, stores, open, env>>

-----------------------------------------------------------------------------
(* MITLogWrite.                                                            *)

\* Mutant: no room is left for the terminating zero.
FitsExactly(size) == Len(buffer) + size <= bufferMax

Fits(size) == Len(buffer) + size < bufferMax

\* The write lock, and the decision whether the message fits.  The text of
\* another thread is lost when it comes behind one that will empty the buffer.
Write(t, size) ==
    LET text   == [i \in 1..size |-> written + 1]
        others == {u \in Thread \ {t} : ~ Idle(u)}
    IN  /\ open
        /\ Idle(t)
        /\ readers = {}
        /\ written' = written + 1
        /\ IF Fits(size)
           THEN /\ buffer' = buffer \o text
                /\ Record(text, \E u \in others : pc[u] = "empty" \/ job[u] = "close")
                /\ UNCHANGED <<pc, msg>>
           ELSE /\ msg' = [msg EXCEPT ![t] = text]
                /\ Goto(t, "full")
                /\ Record(<< >>, others # {})
                /\ UNCHANGED buffer
        /\ written' <= IF spoilt' THEN MaxSpoilt ELSE MaxMessages
        /\ UNCHANGED <<bufferMax, job, next, readers, disk, open, full, restarts>>

\* The read lock, under which the buffer is written; an empty one is not.
WriteBuffer(t) ==
    /\ pc[t] = "full"
    /\ IF buffer = << >>
       THEN Goto(t, "empty") /\ UNCHANGED <<job, readers>>
       ELSE WriteFile(t, "buffer") /\ readers' = readers \union {t}
    /\ UNCHANGED <<bufferMax, msg, next, buffer, disk, open, env, logged, spoilt>>

\* The write lock again: the message replaces the buffer's text, or is
\* written to the file without a lock.
EmptyBuffer(t) ==
    /\ pc[t] = "empty"
    /\ readers = {}
    /\ Record(msg[t], FALSE)
    /\ IF Len(msg[t]) < bufferMax
       THEN buffer' = msg[t] /\ Goto(t, "idle") /\ LocalsEnd(t)
       ELSE buffer' = << >> /\ WriteFile(t, "direct") /\ UNCHANGED <<msg, next>>
    /\ UNCHANGED <<bufferMax, readers, disk, open, env>>

-----------------------------------------------------------------------------
(* MITLogClose.                                                            *)

\* MITLogFlush takes no lock.
Close(t) ==
    /\ open
    /\ Idle(t)
    /\ Record(<< >>, ~ AllIdle)
    /\ job' = [job EXCEPT ![t] = "close"]
    /\ Goto(t, IF buffer = << >> THEN "free" ELSE "look")
    /\ UNCHANGED <<bufferMax, msg, next, readers, buffer, disk, open, env>>

\* The flag of MITLogOpen stays set: the module is not opened again.
Free(t) ==
    /\ pc[t] = "free"
    /\ buffer' = << >>
    /\ open' = FALSE
    /\ Goto(t, "idle")
    /\ LocalsEnd(t)
    /\ UNCHANGED <<bufferMax, readers, disk, env, logged, spoilt>>

-----------------------------------------------------------------------------
(* The environment.                                                        *)

\* The process ends, by itself or killed, and is started: MITLogOpen goes on
\* with the files it finds.
Restart ==
    /\ restarts < MaxRestarts
    /\ restarts' = restarts + 1
    /\ spoilt' = (spoilt \/ ~ AllIdle)
    /\ logged' = IF spoilt' THEN << >> ELSE SubSeq(logged, 1, Len(logged) - Len(buffer))
    /\ pc' = [t \in Thread |-> "idle"]
    /\ job' = [t \in Thread |-> "none"]
    /\ msg' = [t \in Thread |-> << >>]
    /\ next' = [t \in Thread |-> 0]
    /\ readers' = {}
    /\ buffer' = << >>
    /\ open' = TRUE
    /\ UNCHANGED <<bufferMax, disk, full, written>>

\* Somebody fills the disk, which matters while a file is written, or makes
\* room on it.
DiskChanges ==
    /\ full \/ \E t \in Thread : pc[t] \in {"copy", "append"}
    /\ full' = ~ full
    /\ UNCHANGED <<bufferMax, pc, locals, readers, buffer, disk, open, written, restarts,
                   logged, spoilt>>

\* The program logs nothing for a while.
Quiet == AllIdle /\ UNCHANGED logVars

-----------------------------------------------------------------------------
LogInit ==
    /\ bufferMax \in BufferSizes
    /\ pc = [t \in Thread |-> "idle"]
    /\ job = [t \in Thread |-> "none"]
    /\ msg = [t \in Thread |-> << >>]
    /\ next = [t \in Thread |-> 0]
    /\ readers = {}
    /\ buffer = << >>
    /\ origin = << >>
    /\ stores = << >>
    /\ open = TRUE
    /\ full = FALSE
    /\ written = 0
    /\ restarts = 0
    /\ logged = << >>
    /\ spoilt = FALSE

ThreadStep(t) ==
    \/ Look(t)
    \/ OpenStore(t)
    \/ Copy(t)
    \/ Truncate(t)
    \/ AppendText(t)
    \/ WriteBuffer(t)
    \/ EmptyBuffer(t)
    \/ Free(t)

LogNext ==
    \/ \E t \in Thread, size \in Size : Write(t, size)
    \/ \E t \in Thread : Close(t)
    \/ \E t \in Thread : ThreadStep(t) \/ CopyLost(t) \/ AppendLost(t)
    \/ Restart
    \/ DiskChanges
    \/ Quiet

\* The threads are scheduled; a full disk need not let a call go on.
LogSpec ==
    /\ LogInit /\ [][LogNext]_logVars
    /\ \A t \in Thread : WF_logVars(ThreadStep(t))

-----------------------------------------------------------------------------
(* Properties.                                                             *)

\* Every variable keeps its type, and the ring of files its length.
LogTypeOK ==
    /\ bufferMax \in BufferSizes
    /\ pc \in [Thread -> {"idle", "full", "look", "store", "copy", "truncate",
                          "append", "empty", "free"}]
    /\ job \in [Thread -> {"none", "buffer", "direct", "close"}]
    /\ msg \in [Thread -> Seq(Nat)]
    /\ next \in [Thread -> 0..MaxNum]
    /\ readers \subseteq Thread
    /\ buffer \in Seq(Nat)
    /\ origin \in Seq(Nat)
    /\ stores \in Seq([text : Seq(Nat), time : Nat])
    /\ Len(stores) <= MaxNum
    /\ open \in BOOLEAN
    /\ full \in BOOLEAN
    /\ {written, restarts} \subseteq Nat
    /\ logged \in Seq(Nat)
    /\ spoilt \in BOOLEAN

\* The text of the buffer and its terminating zero fit the memory that was
\* allocated, however the threads interleave; a buffer of no bytes is never
\* written to.
BufferFits == buffer = << >> \/ Len(buffer) < bufferMax

\* The files that were opened after this one.
Later(i) == {j \in DOMAIN stores : stores[i].time < stores[j].time}

\* Where each numbered file begins in the log, when it holds the part from
\* there to the place of the next one, and the newest up to end; all of the
\* log is there until the ring of files is full.  A file that is being filled
\* counts for nothing.
Places(end, filling) ==
    {at \in [DOMAIN stores -> 0 .. end] :
        /\ \A i \in DOMAIN stores \ filling :
            stores[i].text =
                SubSeq(logged, at[i] + 1, Min({at[j] : j \in Later(i)} \union {end}))
        /\ \A i \in filling : at[i] = end
        /\ 0 \in Range(at) \union {end} \/ Len(stores) = MaxNum}

\* The log ends with tail, and what is before that is in the files.
Kept(tail, filling) ==
    LET end == Len(logged) - Len(tail)
    IN  /\ Len(tail) <= Len(logged)
        /\ tail = SubSeq(logged, end + 1, Len(logged))
        /\ Places(end, filling) # {}

\* When no call is in progress, files and buffer hold the end of what was
\* logged, in its order, nothing twice and nothing missing; and all of it
\* until the ring of files is full.  Not after two threads were in the slow
\* path of MITLogWrite together, after two rotations within one second, after
\* the process was killed within a call, or after a full disk did not take what
\* fflush had for it.
LogIsSuffix == AllIdle /\ ~ spoilt => Kept(origin \o buffer, {})

\* A call that was begun returns, whatever the other threads do with the
\* lock, or the disk is full.
WriteReturns == \A t \in Thread : ~ Idle(t) ~> Idle(t) \/ full

-----------------------------------------------------------------------------
(* What the properties rest on: facts that every step preserves together.  *)

\* What a thread in MITLogWriteFile returns to is known, and the number it
\* chose for the next file is one of the ring, also when another thread has
\* opened that file meanwhile.
Rotating(t) ==
    /\ pc[t] \in {"look", "store", "copy", "truncate", "append"} => job[t] # "none"
    /\ pc[t] = "store" => next[t] \in 1 .. Len(stores) + 1
    /\ pc[t] = "copy" => next[t] \in DOMAIN stores

\* The buffer holds nothing that was not logged.
Buffered == ~ spoilt => Len(buffer) <= Len(logged)

LogInv ==
    /\ LogTypeOK
    /\ BufferFits
    /\ Buffered
    /\ \A t \in Thread : Rotating(t)

\* While the order is followed one thread is in a call, and no two files have
\* the same time.
Alone == ~ spoilt => \A t, u \in Thread : Idle(t) \/ Idle(u) \/ t = u

Dated == ~ spoilt => \A i, j \in DOMAIN stores : stores[i].time = stores[j].time => i = j

\* Only MITLogClose frees the buffer, and only MITLogWriteFile has a job.
Assigned(t) ==
    /\ pc[t] \in {"idle", "full"} => job[t] = "none"
    /\ pc[t] = "free" => job[t] = "close"

\* What is in the log behind the text of the numbered files, when t is in a
\* call: the buffer is in the file before it is emptied, and the message of a
\* thread comes before what others add to the buffer meanwhile.
Unsaved(t) == IF job[t] = "direct" THEN msg[t] \o buffer ELSE buffer

Behind(t) == IF pc[t] \in {"empty", "free"} THEN origin ELSE origin \o Unsaved(t)

\* The file of the ring that t is filling.
Filling(t) == IF pc[t] \in {"copy", "truncate"} THEN {next[t]} ELSE {}

\* It is the newest one, and a copy of the log file when that is emptied.
Filled(t) ==
    /\ pc[t] = "store" => next[t] \in NextStore
    /\ pc[t] \in {"copy", "truncate"} =>
        /\ next[t] \in DOMAIN stores
        /\ \A i \in DOMAIN stores \ {next[t]} : next[t] \in Later(i)
        /\ stores[next[t]].text = IF pc[t] = "copy" THEN << >> ELSE origin

InOrder ==
    ~ spoilt =>
        /\ AllIdle => Kept(origin \o buffer, {})
        /\ \A t \in Thread : ~ Idle(t) => Kept(Behind(t), Filling(t)) /\ Filled(t)

OrderInv ==
    /\ \A t \in Thread : Assigned(t)
    /\ Alone
    /\ Dated
    /\ InOrder

=============================================================================
