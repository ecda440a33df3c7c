----------------------------- MODULE LogProofs ------------------------------
(* Proofs about LogModule, for any number of threads, sizes and bounds.    *)
EXTENDS LogModule, SequenceLemmas

\* A part of a text is a text.
LEMMA PartIsText ==
    ASSUME NEW s \in Seq(Nat), NEW m \in Nat \ {0}, NEW n \in Int, n <= Len(s)
    PROVE  /\ SubSeq(s, m, n) \in Seq(Nat)
           /\ Len(SubSeq(s, m, n)) = IF m <= n THEN n - m + 1 ELSE 0
<1>1. Len(s) \in Nat /\ m \in Int
  BY LenProperties
<1>2. \A i \in m .. n : s[i] \in Nat
  BY <1>1, ElementOfSeq
<1> QED BY <1>1, <1>2, SubSeqProperties

\* What is logged stays a text, and only grows while it is followed.
LEMMA RecordKeeps ==
    ASSUME LogTypeOK, NEW text \in Seq(Nat), NEW spoils \in BOOLEAN,
           Record(text, spoils)
    PROVE  /\ logged' \in Seq(Nat)
           /\ spoilt' \in BOOLEAN
           /\ ~ spoilt' => ~ spoilt /\ logged' = logged \o text
           /\ ~ spoilt' => Len(logged') = Len(logged) + Len(text)
<1>1. logged \in Seq(Nat) /\ spoilt \in BOOLEAN
  BY DEF LogTypeOK
<1>2. logged \o text \in Seq(Nat) /\ Len(logged \o text) = Len(logged) + Len(text)
  BY <1>1, ConcatProperties
<1> QED BY <1>1, <1>2 DEF Record

\* The text a thread writes.
LEMMA TextIsText ==
    ASSUME LogTypeOK, NEW t \in Thread
    PROVE  Text(t) \in Seq(Nat)
BY DEF LogTypeOK, Text

\* One thread goes on, and the others stay where they were.
LEMMA OthersStay ==
    ASSUME LogInv, LogTypeOK', NEW t \in Thread, Rotating(t)',
           \A u \in Thread \ {t} :
                pc'[u] = pc[u] /\ job'[u] = job[u] /\ next'[u] = next[u],
           Len(stores) <= Len(stores'), DOMAIN stores \subseteq DOMAIN stores'
    PROVE  \A u \in Thread : Rotating(u)'
<1>1. Len(stores) \in Nat /\ Len(stores') \in Nat
  BY LenProperties DEF LogInv, LogTypeOK
<1>2. \A u \in Thread \ {t} : Rotating(u)'
  BY <1>1 DEF LogInv, Rotating
<1> QED BY <1>2

\* The same, when the text and the log are those they were.
LEMMA ThreadMoves ==
    ASSUME LogInv, LogTypeOK', NEW t \in Thread, Rotating(t)',
           UNCHANGED <<bufferMax, buffer, logged, spoilt>>,
           \A u \in Thread \ {t} :
                pc'[u] = pc[u] /\ job'[u] = job[u] /\ next'[u] = next[u],
           Len(stores) <= Len(stores'), DOMAIN stores \subseteq DOMAIN stores'
    PROVE  LogInv'
<1>1. \A u \in Thread : Rotating(u)'
  BY OthersStay
<1> QED BY <1>1 DEF LogInv, BufferFits, Buffered

\* The same, when a full disk took less than it was given: the order of the
\* log is not followed from there on.
LEMMA ThreadLoses ==
    ASSUME LogInv, LogTypeOK', NEW t \in Thread, Rotating(t)',
           UNCHANGED <<bufferMax, buffer>>, spoilt' = TRUE,
           \A u \in Thread \ {t} :
                pc'[u] = pc[u] /\ job'[u] = job[u] /\ next'[u] = next[u],
           Len(stores) <= Len(stores'), DOMAIN stores \subseteq DOMAIN stores'
    PROVE  LogInv'
<1>1. \A u \in Thread : Rotating(u)'
  BY OthersStay
<1> QED BY <1>1 DEF LogInv, BufferFits, Buffered

\* The choice of the next file, the copy and the truncation.
LEMMA RotationKeeps ==
    ASSUME LogInv, NEW t \in Thread, Look(t) \/ Copy(t) \/ Truncate(t)
    PROVE  LogInv'
<1> USE DEF locals, disk, env
<1>1. LogTypeOK /\ Rotating(t)
  BY DEF LogInv
<1>2. stores \in Seq([text : Seq(Nat), time : Nat]) /\ origin \in Seq(Nat)
  BY <1>1 DEF LogTypeOK
<1>3. Len(stores) \in Nat /\ DOMAIN stores = 1 .. Len(stores)
  BY <1>2, LenProperties
<1>4. CASE Look(t)
  <2>1. PICK i \in NextStore : next' = [next EXCEPT ![t] = i]
    BY <1>4 DEF Look
  <2>2. i \in 1 .. Len(stores) + 1 /\ i \in 0 .. MaxNum
    BY <1>1, <1>3, <2>1, LogConstants DEF NextStore, LogTypeOK
  <2>3. next' \in [Thread -> 0..MaxNum] /\ next'[t] = i
    BY <1>1, <2>1, <2>2 DEF LogTypeOK
  <2>4. /\ pc' \in [Thread -> {"idle", "full", "look", "store", "copy", "truncate",
                               "append", "empty", "free"}]
        /\ pc'[t] \in {"store", "append"} /\ pc[t] = "look"
        /\ \A u \in Thread \ {t} : pc'[u] = pc[u]
    BY <1>1, <1>4 DEF Look, Goto, LogTypeOK
  <2>5. UNCHANGED <<bufferMax, job, msg, readers, buffer, disk, open, env, logged, spoilt>>
    BY <1>4 DEF Look
  <2>6. LogTypeOK'
    BY <1>1, <2>3, <2>4, <2>5 DEF LogTypeOK
  <2>7. Rotating(t)'
    BY <1>1, <2>2, <2>3, <2>4, <2>5 DEF Rotating
  <2>8. \A u \in Thread \ {t} : next'[u] = next[u]
    BY <1>1, <2>1 DEF LogTypeOK
  <2> QED BY <1>3, <2>4, <2>5, <2>6, <2>7, <2>8, ThreadMoves
<1>5. CASE Copy(t)
  <2>1. /\ pc[t] = "copy" /\ next[t] \in DOMAIN stores
        /\ UNCHANGED <<bufferMax, locals, readers, buffer, origin, open, env, logged, spoilt>>
    BY <1>1, <1>5 DEF Copy, Rotating
  <2> DEFINE old == stores[next[t]].text
             new == origin \o SubSeq(old, Len(origin) + 1, Len(old))
  <2>2. stores[next[t]] \in [text : Seq(Nat), time : Nat]
    BY <1>2, <1>3, <2>1, ElementOfSeq
  <2>3. new \in Seq(Nat)
    <3>1. old \in Seq(Nat) /\ Len(old) \in Nat /\ Len(origin) \in Nat
      BY <1>2, <2>2, LenProperties
    <3> HIDE DEF old
    <3>2. Len(origin) + 1 \in Nat \ {0} /\ Len(old) \in Int /\ Len(old) <= Len(old)
      BY <3>1
    <3>3. SubSeq(old, Len(origin) + 1, Len(old)) \in Seq(Nat)
      BY <3>1, <3>2, PartIsText
    <3> QED BY <1>2, <3>3, ConcatProperties
  <2> HIDE DEF new, old
  <2>4. stores' = [stores EXCEPT ![next[t]] = [@ EXCEPT !.text = new]]
    BY <1>5 DEF Copy, new, old
  <2>5. /\ stores' \in Seq([text : Seq(Nat), time : Nat])
        /\ Len(stores') = Len(stores) /\ DOMAIN stores' = DOMAIN stores
    <3>1. [stores[next[t]] EXCEPT !.text = new] \in [text : Seq(Nat), time : Nat]
      BY <2>2, <2>3
    <3> QED BY <1>2, <1>3, <2>1, <2>4, <3>1, ExceptSeq
  <2>6. /\ pc' \in [Thread -> {"idle", "full", "look", "store", "copy", "truncate",
                               "append", "empty", "free"}]
        /\ pc'[t] = "truncate"
        /\ \A u \in Thread \ {t} : pc'[u] = pc[u]
    BY <1>1, <1>5 DEF Copy, Goto, LogTypeOK
  <2>7. LogTypeOK'
    BY <1>1, <2>1, <2>5, <2>6 DEF LogTypeOK
  <2>8. Rotating(t)'
    BY <1>1, <2>1, <2>6 DEF Rotating
  <2> QED BY <1>3, <2>1, <2>5, <2>6, <2>7, <2>8, ThreadMoves
<1>6. CASE Truncate(t)
  <2>1. /\ pc[t] = "truncate" /\ origin' = << >>
        /\ UNCHANGED <<bufferMax, locals, readers, buffer, stores, open, env, logged, spoilt>>
    BY <1>6 DEF Truncate
  <2>2. /\ pc' \in [Thread -> {"idle", "full", "look", "store", "copy", "truncate",
                               "append", "empty", "free"}]
        /\ pc'[t] = "append"
        /\ \A u \in Thread \ {t} : pc'[u] = pc[u]
    BY <1>1, <1>6 DEF Truncate, Goto, LogTypeOK
  <2>3. LogTypeOK'
    BY <1>1, <2>1, <2>2 DEF LogTypeOK
  <2>4. Rotating(t)'
    BY <1>1, <2>1, <2>2 DEF Rotating
  <2> QED BY <1>3, <2>1, <2>2, <2>3, <2>4, ThreadMoves
<1> QED BY <1>4, <1>5, <1>6

\* fopen adds a file to the ring or empties one of it.
LEMMA OpenStoreKeeps ==
    ASSUME LogInv, NEW t \in Thread, OpenStore(t)
    PROVE  LogInv'
<1> DEFINE File == [text : Seq(Nat), time : Nat]
           times == {0} \union {stores[i].time : i \in DOMAIN stores}
<1> USE DEF locals, disk, env
<1>1. LogTypeOK /\ Rotating(t) /\ pc[t] = "store"
  BY DEF LogInv, OpenStore
<1>2. stores \in Seq(File) /\ Len(stores) \in Nat /\ DOMAIN stores = 1 .. Len(stores)
  BY <1>1, LenProperties DEF LogTypeOK
<1>3. next[t] \in 1 .. Len(stores) + 1 /\ next[t] \in 0 .. MaxNum /\ MaxNum \in Nat
  BY <1>1, LogConstants DEF Rotating, LogTypeOK
<1>4. PICK newest \in times : \E now \in {newest, newest + 1} :
            /\ stores' = [i \in DOMAIN stores \union {next[t]} |->
                            IF i = next[t] THEN [text |-> << >>, time |-> now] ELSE stores[i]]
            /\ Record(<< >>, \E i \in DOMAIN stores \ {next[t]} : stores[i].time = now)
  BY DEF OpenStore
<1>5. PICK now \in {newest, newest + 1} :
            /\ stores' = [i \in DOMAIN stores \union {next[t]} |->
                            IF i = next[t] THEN [text |-> << >>, time |-> now] ELSE stores[i]]
            /\ Record(<< >>, \E i \in DOMAIN stores \ {next[t]} : stores[i].time = now)
  BY <1>4
<1>6. now \in Nat
  <2>1. \A i \in DOMAIN stores : stores[i] \in File
    BY <1>2, ElementOfSeq
  <2>2. newest \in Nat
    BY <1>4, <2>1
  <2> QED BY <1>5, <2>2
<1>7. PICK n \in Nat : /\ DOMAIN stores \union {next[t]} = 1 .. n
                       /\ Len(stores) <= n /\ n <= MaxNum
  <2>1. CASE next[t] = Len(stores) + 1
    <3>1. 1 .. Len(stores) \union {Len(stores) + 1} = 1 .. Len(stores) + 1
      BY <1>2
    <3>2. Len(stores) + 1 \in Nat /\ Len(stores) <= Len(stores) + 1 /\ Len(stores) + 1 <= MaxNum
      BY <1>2, <1>3, <2>1
    <3> QED BY <1>2, <2>1, <3>1, <3>2
  <2>2. CASE next[t] # Len(stores) + 1
    <3>1. DOMAIN stores \union {next[t]} = 1 .. Len(stores)
      BY <1>2, <1>3, <2>2
    <3>2. Len(stores) <= MaxNum
      BY <1>1 DEF LogTypeOK
    <3> QED BY <1>2, <3>1, <3>2
  <2> QED BY <2>1, <2>2
<1>8. stores' \in Seq(File) /\ Len(stores') = n /\ DOMAIN stores' = 1 .. n
  <2>1. \A i \in DOMAIN stores : stores[i] \in File
    BY <1>2, ElementOfSeq
  <2>2. [text |-> << >>, time |-> now] \in File
    BY <1>6, EmptySeq
  <2> HIDE DEF File
  <2>3. stores' \in [1 .. n -> File]
    BY <1>5, <1>7, <2>1, <2>2
  <2>4. stores' \in Seq(File)
    BY <1>7, <2>3, SeqDef
  <2> QED BY <1>7, <2>3, <2>4, LenProperties
<1>9. /\ UNCHANGED <<bufferMax, locals, readers, buffer, origin, open, env>>
      /\ pc' \in [Thread -> {"idle", "full", "look", "store", "copy", "truncate",
                             "append", "empty", "free"}]
      /\ pc'[t] = "copy"
      /\ \A u \in Thread \ {t} : pc'[u] = pc[u]
  BY <1>1 DEF OpenStore, Goto, LogTypeOK
<1>10. /\ logged' \in Seq(Nat) /\ spoilt' \in BOOLEAN
       /\ ~ spoilt' => ~ spoilt /\ Len(logged') = Len(logged) + Len(<< >>)
  <2>1. << >> \in Seq(Nat)
    BY EmptySeq
  <2>2. (\E i \in DOMAIN stores \ {next[t]} : stores[i].time = now) \in BOOLEAN
    OBVIOUS
  <2> QED BY <1>1, <1>5, <2>1, <2>2, RecordKeeps
<1>11. LogTypeOK'
  BY <1>1, <1>7, <1>8, <1>9, <1>10 DEF LogTypeOK
<1>12. Rotating(t)'
  <2>1. job[t] # "none"
    BY <1>1 DEF Rotating
  <2>2. next[t] \in DOMAIN stores'
    BY <1>7, <1>8
  <2> QED BY <1>9, <2>1, <2>2 DEF Rotating
<1>13. \A u \in Thread : Rotating(u)'
  <2>1. Len(stores) <= Len(stores') /\ DOMAIN stores \subseteq DOMAIN stores'
    BY <1>2, <1>7, <1>8
  <2> QED BY <1>9, <1>11, <1>12, <2>1, OthersStay
<1>14. Buffered'
  <2>1. Len(logged) \in Nat
    BY <1>1, LenProperties DEF LogTypeOK
  <2>2. Len(<< >>) = 0
    BY EmptySeq
  <2>3. ~ spoilt => Len(buffer) <= Len(logged)
    BY DEF LogInv, Buffered
  <2> QED BY <1>9, <1>10, <2>1, <2>2, <2>3 DEF Buffered
<1> QED BY <1>9, <1>11, <1>13, <1>14 DEF LogInv, BufferFits

\* The end of a call, and the steps that begin one or end without a lock.
LEMMA LocalsKeep ==
    ASSUME LogTypeOK, NEW t \in Thread, LocalsEnd(t)
    PROVE  /\ job' \in [Thread -> {"none", "buffer", "direct", "close"}]
           /\ msg' \in [Thread -> Seq(Nat)]
           /\ next' \in [Thread -> 0..MaxNum]
           /\ \A u \in Thread \ {t} : job'[u] = job[u] /\ next'[u] = next[u]
<1>1. << >> \in Seq(Nat) /\ 0 \in 0 .. MaxNum
  BY EmptySeq, LogConstants
<1> QED BY <1>1 DEF LogTypeOK, LocalsEnd

\* A text is appended to the log file.
LEMMA AppendTextKeeps ==
    ASSUME LogInv, NEW t \in Thread, AppendText(t)
    PROVE  LogInv'
<1> USE DEF locals, disk, env
<1>1. LogTypeOK /\ Rotating(t) /\ pc[t] = "append"
  BY DEF LogInv, AppendText
<1>2. job[t] \in {"buffer", "direct", "close"}
  BY <1>1 DEF LogTypeOK, Rotating
<1>3. Return(t) \in {"empty", "idle", "free"}
  BY <1>2 DEF Return
<1>4. /\ pc' \in [Thread -> {"idle", "full", "look", "store", "copy", "truncate",
                             "append", "empty", "free"}]
      /\ pc'[t] \in {"empty", "idle", "free"}
      /\ \A u \in Thread \ {t} : pc'[u] = pc[u]
  BY <1>1, <1>3 DEF AppendText, Goto, LogTypeOK
<1>5. origin' \in Seq(Nat)
  BY <1>1, TextIsText, ConcatProperties DEF AppendText, LogTypeOK
<1>6. /\ job' \in [Thread -> {"none", "buffer", "direct", "close"}]
      /\ msg' \in [Thread -> Seq(Nat)]
      /\ next' \in [Thread -> 0..MaxNum]
      /\ \A u \in Thread \ {t} : job'[u] = job[u] /\ next'[u] = next[u]
  <2>1. CASE job[t] = "direct"
    BY <1>1, <2>1, LocalsKeep DEF AppendText
  <2>2. CASE job[t] # "direct"
    BY <1>1, <2>2 DEF AppendText, LogTypeOK
  <2> QED BY <2>1, <2>2
<1>7. /\ readers' \subseteq Thread
      /\ UNCHANGED <<bufferMax, buffer, stores, open, env, logged, spoilt>>
  BY <1>1 DEF AppendText, LogTypeOK
<1>8. LogTypeOK'
  BY <1>1, <1>4, <1>5, <1>6, <1>7 DEF LogTypeOK
<1>9. Rotating(t)'
  BY <1>4 DEF Rotating
<1>10. Len(stores) <= Len(stores')
  BY <1>1, <1>7, LenProperties DEF LogTypeOK
<1> QED BY <1>4, <1>6, <1>7, <1>8, <1>9, <1>10, ThreadMoves

\* fflush fails: a part of the copy is in the file of the ring.
LEMMA CopyLostKeeps ==
    ASSUME LogInv, NEW t \in Thread, CopyLost(t)
    PROVE  LogInv'
<1> USE DEF locals, disk, env
<1>1. /\ LogTypeOK /\ Rotating(t)
      /\ pc[t] = "copy" /\ next[t] \in DOMAIN stores
      /\ UNCHANGED <<bufferMax, locals, readers, buffer, origin, open, env>>
  BY DEF LogInv, CopyLost, Rotating
<1>2. stores \in Seq([text : Seq(Nat), time : Nat]) /\ origin \in Seq(Nat)
  BY <1>1 DEF LogTypeOK
<1>3. Len(stores) \in Nat /\ Len(origin) \in Nat /\ DOMAIN stores = 1 .. Len(stores)
  BY <1>2, LenProperties
<1> DEFINE old == stores[next[t]].text
           part(n) == SubSeq(origin, 1, n) \o SubSeq(old, n + 1, Len(old))
<1>4. PICK n \in 0 .. Len(origin) - 1 :
        stores' = [stores EXCEPT ![next[t]] = [@ EXCEPT !.text = part(n)]]
  BY DEF CopyLost
<1>5. stores[next[t]] \in [text : Seq(Nat), time : Nat]
  BY <1>1, <1>2, <1>3, ElementOfSeq
<1>6. part(n) \in Seq(Nat)
  <2>1. old \in Seq(Nat) /\ Len(old) \in Nat
    BY <1>5, LenProperties
  <2> HIDE DEF old
  <2>2. n \in Int /\ n <= Len(origin) /\ n + 1 \in Nat \ {0} /\ 1 \in Nat \ {0}
    BY <1>3
  <2>3. SubSeq(origin, 1, n) \in Seq(Nat)
    BY <1>2, <2>2, PartIsText
  <2>4. SubSeq(old, n + 1, Len(old)) \in Seq(Nat)
    BY <2>1, <2>2, PartIsText
  <2> QED BY <2>3, <2>4, ConcatProperties
<1>7. [stores[next[t]] EXCEPT !.text = part(n)] \in [text : Seq(Nat), time : Nat]
  BY <1>5, <1>6
<1> HIDE DEF part, old
<1>8. /\ stores' \in Seq([text : Seq(Nat), time : Nat])
      /\ Len(stores') = Len(stores) /\ DOMAIN stores' = DOMAIN stores
  BY <1>1, <1>2, <1>3, <1>4, <1>7, ExceptSeq
<1>9. /\ pc' \in [Thread -> {"idle", "full", "look", "store", "copy", "truncate",
                             "append", "empty", "free"}]
      /\ pc'[t] = "truncate"
      /\ \A u \in Thread \ {t} : pc'[u] = pc[u]
  BY <1>1 DEF CopyLost, Goto, LogTypeOK
<1>10. logged' \in Seq(Nat) /\ spoilt' = TRUE
  BY EmptySeq DEF CopyLost, Record
<1>11. LogTypeOK'
  BY <1>1, <1>8, <1>9, <1>10 DEF LogTypeOK
<1>12. Rotating(t)'
  BY <1>1, <1>9 DEF Rotating
<1> QED BY <1>1, <1>3, <1>8, <1>9, <1>10, <1>11, <1>12, ThreadLoses

\* fflush fails: a part of the text is in the log file.
LEMMA AppendLostKeeps ==
    ASSUME LogInv, NEW t \in Thread, AppendLost(t)
    PROVE  LogInv'
<1> USE DEF locals, disk, env
<1>1. LogTypeOK /\ Rotating(t) /\ pc[t] = "append"
  BY DEF LogInv, AppendLost
<1>2. job[t] \in {"buffer", "direct", "close"}
  BY <1>1 DEF LogTypeOK, Rotating
<1>3. Return(t) \in {"empty", "idle", "free"}
  BY <1>2 DEF Return
<1>4. /\ pc' \in [Thread -> {"idle", "full", "look", "store", "copy", "truncate",
                             "append", "empty", "free"}]
      /\ pc'[t] \in {"empty", "idle", "free"}
      /\ \A u \in Thread \ {t} : pc'[u] = pc[u]
  BY <1>1, <1>3 DEF AppendLost, Goto, LogTypeOK
<1>5. origin' \in Seq(Nat)
  <2>1. PICK n \in 0 .. Len(Text(t)) - 1 : origin' = origin \o SubSeq(Text(t), 1, n)
    BY DEF AppendLost
  <2>2. Text(t) \in Seq(Nat) /\ Len(Text(t)) \in Nat
    BY <1>1, TextIsText, LenProperties
  <2>3. n \in Int /\ n <= Len(Text(t)) /\ 1 \in Nat \ {0}
    BY <2>2
  <2>4. SubSeq(Text(t), 1, n) \in Seq(Nat)
    BY <2>2, <2>3, PartIsText
  <2>5. origin \in Seq(Nat)
    BY <1>1 DEF LogTypeOK
  <2> QED BY <2>1, <2>4, <2>5, ConcatProperties
<1>6. /\ job' \in [Thread -> {"none", "buffer", "direct", "close"}]
      /\ msg' \in [Thread -> Seq(Nat)]
      /\ next' \in [Thread -> 0..MaxNum]
      /\ \A u \in Thread \ {t} : job'[u] = job[u] /\ next'[u] = next[u]
  <2>1. CASE job[t] = "direct"
    BY <1>1, <2>1, LocalsKeep DEF AppendLost
  <2>2. CASE job[t] # "direct"
    BY <1>1, <2>2 DEF AppendLost, LogTypeOK
  <2> QED BY <2>1, <2>2
<1>7. /\ readers' \subseteq Thread
      /\ UNCHANGED <<bufferMax, buffer, stores, open, env>>
  BY <1>1 DEF AppendLost, LogTypeOK
<1>8. logged' \in Seq(Nat) /\ spoilt' = TRUE
  BY EmptySeq DEF AppendLost, Record
<1>9. LogTypeOK'
  BY <1>1, <1>4, <1>5, <1>6, <1>7, <1>8 DEF LogTypeOK
<1>10. Rotating(t)'
  BY <1>4 DEF Rotating
<1>11. Len(stores) <= Len(stores')
  BY <1>1, <1>7, LenProperties DEF LogTypeOK
<1> QED BY <1>4, <1>6, <1>7, <1>8, <1>9, <1>10, <1>11, ThreadLoses

\* The read lock is taken, and the buffer written if there is something in it.
LEMMA WriteBufferKeeps ==
    ASSUME LogInv, NEW t \in Thread, WriteBuffer(t)
    PROVE  LogInv'
<1> USE DEF locals, disk, env
<1>1. LogTypeOK /\ pc[t] = "full"
  BY DEF LogInv, WriteBuffer
<1>2. /\ pc' \in [Thread -> {"idle", "full", "look", "store", "copy", "truncate",
                             "append", "empty", "free"}]
      /\ pc'[t] \in {"empty", "look"}
      /\ \A u \in Thread \ {t} : pc'[u] = pc[u]
      /\ job' \in [Thread -> {"none", "buffer", "direct", "close"}]
      /\ pc'[t] = "look" => job'[t] # "none"
      /\ \A u \in Thread \ {t} : job'[u] = job[u]
      /\ readers' \subseteq Thread
  BY <1>1 DEF WriteBuffer, WriteFile, Goto, LogTypeOK
<1>3. UNCHANGED <<bufferMax, msg, next, buffer, disk, open, env, logged, spoilt>>
  BY DEF WriteBuffer
<1>4. LogTypeOK'
  BY <1>1, <1>2, <1>3 DEF LogTypeOK
<1>5. Rotating(t)'
  BY <1>2 DEF Rotating
<1>6. Len(stores) <= Len(stores')
  BY <1>1, <1>3, LenProperties DEF LogTypeOK
<1> QED BY <1>2, <1>3, <1>4, <1>5, <1>6, ThreadMoves

\* The buffer is freed.
LEMMA FreeKeeps ==
    ASSUME LogInv, NEW t \in Thread, Free(t)
    PROVE  LogInv'
<1> USE DEF locals, disk, env
<1>1. LogTypeOK /\ << >> \in Seq(Nat) /\ Len(<< >>) = 0
  BY EmptySeq DEF LogInv
<1>2. /\ pc' \in [Thread -> {"idle", "full", "look", "store", "copy", "truncate",
                             "append", "empty", "free"}]
      /\ pc'[t] = "idle"
      /\ \A u \in Thread \ {t} : pc'[u] = pc[u]
  BY <1>1 DEF Free, Goto, LogTypeOK
<1>3. /\ buffer' = << >> /\ open' = FALSE
      /\ UNCHANGED <<bufferMax, readers, disk, env, logged, spoilt>>
  BY DEF Free
<1>4. /\ job' \in [Thread -> {"none", "buffer", "direct", "close"}]
      /\ msg' \in [Thread -> Seq(Nat)]
      /\ next' \in [Thread -> 0..MaxNum]
      /\ \A u \in Thread \ {t} : job'[u] = job[u] /\ next'[u] = next[u]
  BY <1>1, LocalsKeep DEF Free
<1>5. LogTypeOK'
  BY <1>1, <1>2, <1>3, <1>4 DEF LogTypeOK
<1>6. Rotating(t)'
  BY <1>2 DEF Rotating
<1>7. Len(stores) <= Len(stores') /\ Len(logged) \in Nat
  BY <1>1, <1>3, LenProperties DEF LogTypeOK
<1>8. \A u \in Thread : Rotating(u)'
  BY <1>2, <1>3, <1>4, <1>5, <1>6, <1>7, OthersStay
<1> QED BY <1>1, <1>3, <1>5, <1>7, <1>8 DEF LogInv, BufferFits, Buffered

\* The text of a message.
LEMMA MessageIsText ==
    ASSUME NEW size \in Nat, NEW n \in Nat
    PROVE  /\ [i \in 1..size |-> n] \in Seq(Nat)
           /\ Len([i \in 1..size |-> n]) = size
<1> DEFINE text == [i \in 1..size |-> n]
<1>1. text \in [1..size -> Nat]
  OBVIOUS
<1>2. text \in Seq(Nat)
  BY <1>1, SeqDef
<1>3. DOMAIN text = 1..size
  OBVIOUS
<1> HIDE DEF text
<1>4. Len(text) = size
  BY <1>2, <1>3, LenProperties
<1> QED BY <1>2, <1>4 DEF text

\* A message that fits goes behind the text of the buffer; another one waits.
LEMMA WriteKeeps ==
    ASSUME LogInv, NEW t \in Thread, NEW size \in Size, Write(t, size)
    PROVE  LogInv'
<1> DEFINE text   == [i \in 1..size |-> written + 1]
           others == {u \in Thread \ {t} : ~ Idle(u)}
<1> USE DEF locals, disk, env
<1>1. LogTypeOK /\ written + 1 \in Nat /\ bufferMax \in Nat
  <2>1. LogTypeOK
    BY DEF LogInv
  <2>2. written \in Nat
    BY <2>1 DEF LogTypeOK
  <2>3. bufferMax \in Nat
    BY <2>1, LogConstants DEF LogTypeOK
  <2> QED BY <2>1, <2>2, <2>3
<1>2. size \in Nat /\ text \in Seq(Nat) /\ Len(text) = size
  BY <1>1, LogConstants, MessageIsText
<1>3. Len(buffer) \in Nat /\ Len(logged) \in Nat
  BY <1>1, LenProperties DEF LogTypeOK
<1>4. /\ written' = written + 1 /\ pc[t] = "idle"
      /\ UNCHANGED <<bufferMax, job, next, readers, disk, open, full, restarts>>
  BY DEF Write, Idle
<1>5. Len(stores) <= Len(stores')
  BY <1>1, <1>4, LenProperties DEF LogTypeOK
<1>6. ~ spoilt => Len(buffer) <= Len(logged)
  BY DEF LogInv, Buffered
<1>7. CASE Fits(size)
  <2>1. /\ buffer' = buffer \o text /\ UNCHANGED <<pc, msg>>
        /\ Record(text, \E u \in others : pc[u] = "empty" \/ job[u] = "close")
    BY <1>7 DEF Write
  <2>2. (\E u \in others : pc[u] = "empty" \/ job[u] = "close") \in BOOLEAN
    OBVIOUS
  <2> HIDE DEF text, others
  <2>3. /\ logged' \in Seq(Nat) /\ spoilt' \in BOOLEAN
        /\ ~ spoilt' => ~ spoilt /\ Len(logged') = Len(logged) + Len(text)
    BY <1>1, <1>2, <2>1, <2>2, RecordKeeps
  <2>4. buffer' \in Seq(Nat) /\ Len(buffer') = Len(buffer) + size
    BY <1>1, <1>2, <2>1, ConcatProperties DEF LogTypeOK
  <2>5. LogTypeOK'
    BY <1>1, <1>4, <2>1, <2>3, <2>4 DEF LogTypeOK
  <2>6. Rotating(t)'
    BY <1>4, <2>1 DEF Rotating
  <2>7. \A u \in Thread : Rotating(u)'
    BY <1>4, <1>5, <2>1, <2>5, <2>6, OthersStay
  <2>8. BufferFits'
    BY <1>4, <1>7, <2>4 DEF Fits, BufferFits
  <2>9. Buffered'
    BY <1>2, <1>3, <1>6, <2>3, <2>4 DEF Buffered
  <2> QED BY <2>5, <2>7, <2>8, <2>9 DEF LogInv
<1>8. CASE ~ Fits(size)
  <2>1. /\ msg' = [msg EXCEPT ![t] = text] /\ Goto(t, "full") /\ UNCHANGED buffer
        /\ Record(<< >>, others # {})
    BY <1>8 DEF Write
  <2>2. << >> \in Seq(Nat) /\ Len(<< >>) = 0 /\ (others # {}) \in BOOLEAN
    BY EmptySeq
  <2> HIDE DEF text, others
  <2>3. /\ logged' \in Seq(Nat) /\ spoilt' \in BOOLEAN
        /\ ~ spoilt' => ~ spoilt /\ Len(logged') = Len(logged)
    <3>1. /\ logged' \in Seq(Nat) /\ spoilt' \in BOOLEAN
          /\ ~ spoilt' => ~ spoilt /\ Len(logged') = Len(logged) + Len(<< >>)
      BY <1>1, <2>1, <2>2, RecordKeeps
    <3> QED BY <1>3, <2>2, <3>1
  <2>4. /\ pc' \in [Thread -> {"idle", "full", "look", "store", "copy", "truncate",
                             "append", "empty", "free"}]
        /\ pc'[t] = "full"
        /\ \A u \in Thread \ {t} : pc'[u] = pc[u]
        /\ msg' \in [Thread -> Seq(Nat)]
    BY <1>1, <1>2, <2>1 DEF Goto, LogTypeOK
  <2>5. LogTypeOK'
    BY <1>1, <1>4, <2>1, <2>3, <2>4 DEF LogTypeOK
  <2>6. Rotating(t)'
    BY <2>4 DEF Rotating
  <2>7. \A u \in Thread : Rotating(u)'
    BY <1>4, <1>5, <2>4, <2>5, <2>6, OthersStay
  <2> QED BY <1>4, <1>6, <2>1, <2>3, <2>5, <2>7 DEF LogInv, BufferFits, Buffered
<1> QED BY <1>7, <1>8

\* The buffer begins again with the message, or the message is written.
LEMMA EmptyBufferKeeps ==
    ASSUME LogInv, NEW t \in Thread, EmptyBuffer(t)
    PROVE  LogInv'
<1> USE DEF locals, disk, env
<1>1. LogTypeOK /\ << >> \in Seq(Nat) /\ Len(<< >>) = 0
  BY EmptySeq DEF LogInv
<1>2. msg[t] \in Seq(Nat) /\ Len(msg[t]) \in Nat /\ Len(logged) \in Nat
  BY <1>1, LenProperties DEF LogTypeOK
<1>3. /\ logged' \in Seq(Nat) /\ spoilt' \in BOOLEAN
      /\ ~ spoilt' => ~ spoilt /\ Len(logged') = Len(logged) + Len(msg[t])
  BY <1>1, <1>2, RecordKeeps DEF EmptyBuffer
<1>4. UNCHANGED <<bufferMax, readers, disk, open, env>>
  BY DEF EmptyBuffer
<1>5. Len(stores) <= Len(stores')
  BY <1>1, <1>4, LenProperties DEF LogTypeOK
<1>6. /\ pc' \in [Thread -> {"idle", "full", "look", "store", "copy", "truncate",
                             "append", "empty", "free"}]
      /\ pc'[t] \in {"idle", "look"}
      /\ \A u \in Thread \ {t} : pc'[u] = pc[u]
  BY <1>1 DEF EmptyBuffer, WriteFile, Goto, LogTypeOK
<1>7. /\ buffer' = << >> \/ (buffer' = msg[t] /\ Len(msg[t]) < bufferMax)
      /\ buffer' \in Seq(Nat)
  BY <1>1, <1>2 DEF EmptyBuffer
<1>8. /\ job' \in [Thread -> {"none", "buffer", "direct", "close"}]
      /\ msg' \in [Thread -> Seq(Nat)]
      /\ next' \in [Thread -> 0..MaxNum]
      /\ pc'[t] = "look" => job'[t] # "none"
      /\ \A u \in Thread \ {t} : job'[u] = job[u] /\ next'[u] = next[u]
  <2>1. CASE Len(msg[t]) < bufferMax
    <3>1. LocalsEnd(t) /\ Goto(t, "idle")
      BY <2>1 DEF EmptyBuffer
    <3>2. pc'[t] = "idle"
      BY <1>1, <3>1 DEF Goto, LogTypeOK
    <3> QED BY <1>1, <3>1, <3>2, LocalsKeep
  <2>2. CASE ~ (Len(msg[t]) < bufferMax)
    BY <1>1, <2>2 DEF EmptyBuffer, WriteFile, LogTypeOK
  <2> QED BY <2>1, <2>2
<1>9. LogTypeOK'
  BY <1>1, <1>3, <1>4, <1>6, <1>7, <1>8 DEF LogTypeOK
<1>10. Rotating(t)'
  BY <1>6, <1>8 DEF Rotating
<1>11. \A u \in Thread : Rotating(u)'
  BY <1>4, <1>5, <1>6, <1>8, <1>9, <1>10, OthersStay
<1>12. BufferFits' /\ Buffered'
  BY <1>1, <1>2, <1>3, <1>4, <1>7 DEF BufferFits, Buffered
<1> QED BY <1>9, <1>11, <1>12 DEF LogInv

\* Close begins without a lock.
LEMMA CloseKeeps ==
    ASSUME LogInv, NEW t \in Thread, Close(t)
    PROVE  LogInv'
<1> USE DEF locals, disk, env
<1>1. LogTypeOK /\ << >> \in Seq(Nat) /\ Len(<< >>) = 0 /\ (~ AllIdle) \in BOOLEAN
  BY EmptySeq DEF LogInv
<1>2. Len(logged) \in Nat
  BY <1>1, LenProperties DEF LogTypeOK
<1>3. /\ logged' \in Seq(Nat) /\ spoilt' \in BOOLEAN
      /\ ~ spoilt' => ~ spoilt /\ Len(logged') = Len(logged)
  <2>1. /\ logged' \in Seq(Nat) /\ spoilt' \in BOOLEAN
        /\ ~ spoilt' => ~ spoilt /\ Len(logged') = Len(logged) + Len(<< >>)
    <3>1. Record(<< >>, ~ AllIdle)
      BY DEF Close
    <3> QED BY <1>1, <3>1, RecordKeeps
  <2> QED BY <1>1, <1>2, <2>1
<1>4. /\ job' = [job EXCEPT ![t] = "close"]
      /\ UNCHANGED <<bufferMax, msg, next, readers, buffer, disk, open, env>>
  BY DEF Close
<1>5. /\ pc' \in [Thread -> {"idle", "full", "look", "store", "copy", "truncate",
                             "append", "empty", "free"}]
      /\ pc'[t] \in {"free", "look"}
      /\ \A u \in Thread \ {t} : pc'[u] = pc[u]
      /\ job' \in [Thread -> {"none", "buffer", "direct", "close"}]
      /\ job'[t] # "none"
      /\ \A u \in Thread \ {t} : job'[u] = job[u]
  BY <1>1, <1>4 DEF Close, Goto, LogTypeOK
<1>6. LogTypeOK'
  BY <1>1, <1>3, <1>4, <1>5 DEF LogTypeOK
<1>7. Rotating(t)'
  BY <1>5 DEF Rotating
<1>8. Len(stores) <= Len(stores')
  BY <1>1, <1>4, LenProperties DEF LogTypeOK
<1>9. \A u \in Thread : Rotating(u)'
  BY <1>4, <1>5, <1>6, <1>7, <1>8, OthersStay
<1> QED BY <1>3, <1>4, <1>6, <1>9 DEF LogInv, BufferFits, Buffered

\* A new process has nothing in its buffer, and what was in the old one's is
\* no longer part of the log.
LEMMA RestartKeeps ==
    ASSUME LogInv, Restart
    PROVE  LogInv'
<1> USE DEF locals, disk, env
<1>1. LogTypeOK /\ << >> \in Seq(Nat) /\ Len(<< >>) = 0
  BY EmptySeq DEF LogInv
<1>2. Len(logged) \in Nat /\ Len(buffer) \in Nat
  BY <1>1, LenProperties DEF LogTypeOK
<1>3. /\ spoilt' = (spoilt \/ ~ AllIdle)
      /\ logged' = IF spoilt' THEN << >> ELSE SubSeq(logged, 1, Len(logged) - Len(buffer))
  BY DEF Restart
<1>4. spoilt' \in BOOLEAN
  BY <1>3
<1>5. SubSeq(logged, 1, Len(logged) - Len(buffer)) \in Seq(Nat)
  <2>1. /\ Len(logged) - Len(buffer) \in Int
        /\ Len(logged) - Len(buffer) <= Len(logged)
        /\ logged \in Seq(Nat) /\ 1 \in Nat \ {0}
    BY <1>1, <1>2 DEF LogTypeOK
  <2> QED BY <2>1, PartIsText
<1>6. logged' \in Seq(Nat)
  BY <1>1, <1>3, <1>5
<1>7. Len(logged') \in Nat
  BY <1>6, LenProperties
<1>8. 0 \in 0 .. MaxNum
  BY LogConstants
<1>9. /\ restarts' = restarts + 1
      /\ pc' = [t \in Thread |-> "idle"] /\ job' = [t \in Thread |-> "none"]
      /\ msg' = [t \in Thread |-> << >>] /\ next' = [t \in Thread |-> 0]
      /\ readers' = {} /\ buffer' = << >> /\ open' = TRUE
      /\ UNCHANGED <<bufferMax, disk, full, written>>
  BY DEF Restart
<1>10. LogTypeOK'
  BY <1>1, <1>4, <1>6, <1>8, <1>9 DEF LogTypeOK
<1>11. \A t \in Thread : Rotating(t)'
  BY <1>9 DEF Rotating
<1> QED BY <1>1, <1>7, <1>9, <1>10, <1>11 DEF LogInv, BufferFits, Buffered

-----------------------------------------------------------------------------
\* What every step of the log module preserves, for any number of threads and
\* any limits.
THEOREM LogInvariant == LogSpec => []LogInv
<1> USE DEF locals, disk, env
<1>1. LogInit => LogInv
  <2> SUFFICES ASSUME LogInit PROVE LogInv
    OBVIOUS
  <2>1. << >> \in Seq(Nat) /\ Len(<< >>) = 0
    BY EmptySeq
  <2>2. << >> \in Seq([text : Seq(Nat), time : Nat])
    BY EmptySeq
  <2>3. LogTypeOK
    <3>1. stores \in Seq([text : Seq(Nat), time : Nat]) /\ Len(stores) <= MaxNum
      BY <2>1, <2>2, LogConstants DEF LogInit
    <3>2. next \in [Thread -> 0..MaxNum]
      BY LogConstants DEF LogInit
    <3>3. msg \in [Thread -> Seq(Nat)]
      BY <2>1 DEF LogInit
    <3>4. {buffer, origin, logged} \subseteq Seq(Nat)
      BY <2>1 DEF LogInit
    <3>5. /\ pc \in [Thread -> {"idle", "full", "look", "store", "copy", "truncate",
                               "append", "empty", "free"}]
          /\ job \in [Thread -> {"none", "buffer", "direct", "close"}]
          /\ bufferMax \in BufferSizes /\ readers \subseteq Thread
          /\ {written, restarts} \subseteq Nat
      BY DEF LogInit
    <3>6. open \in BOOLEAN /\ full \in BOOLEAN /\ spoilt \in BOOLEAN
      BY DEF LogInit
    <3> QED BY <3>1, <3>2, <3>3, <3>4, <3>5, <3>6 DEF LogTypeOK
  <2> QED BY <2>1, <2>3 DEF LogInit, LogInv, BufferFits, Buffered, Rotating
<1>2. LogInv /\ [LogNext]_logVars => LogInv'
  <2> SUFFICES ASSUME LogInv, [LogNext]_logVars PROVE LogInv'
    OBVIOUS
  <2>1. CASE \E t \in Thread, size \in Size : Write(t, size)
    BY <2>1, WriteKeeps
  <2>2. CASE \E t \in Thread : Close(t)
    BY <2>2, CloseKeeps
  <2>3. CASE \E t \in Thread : ThreadStep(t) \/ CopyLost(t) \/ AppendLost(t)
    BY <2>3, RotationKeeps, OpenStoreKeeps, AppendTextKeeps, WriteBufferKeeps,
       EmptyBufferKeeps, FreeKeeps, CopyLostKeeps, AppendLostKeeps DEF ThreadStep
  <2>4. CASE Restart
    BY <2>4, RestartKeeps
  <2>5. CASE DiskChanges
    BY <2>5 DEF DiskChanges, LogInv, LogTypeOK, BufferFits, Buffered, Rotating
  <2>6. CASE UNCHANGED logVars
    BY <2>6 DEF logVars, LogInv, LogTypeOK, BufferFits, Buffered, Rotating
  <2> QED BY <2>1, <2>2, <2>3, <2>4, <2>5, <2>6 DEF LogNext, Quiet
<1> QED BY <1>1, <1>2, PTL DEF LogSpec

\* Type correctness, and the bound on the ring of files.
THEOREM LogTypeCorrect == LogSpec => []LogTypeOK
<1>1. LogInv => LogTypeOK
  BY DEF LogInv
<1> QED BY <1>1, LogInvariant, PTL

\* Between two sections under the write lock other threads write and empty the
\* buffer (mit_log_module.c:397-423); its text still never outgrows it.
THEOREM BufferAlwaysFits == LogSpec => []BufferFits
<1>1. LogInv => BufferFits
  BY DEF LogInv
<1> QED BY <1>1, LogInvariant, PTL

-----------------------------------------------------------------------------
(* The order of what was logged.                                           *)

\* The definitions of Later and Places for files and a log that are given.
LaterIn(files, i) == {j \in DOMAIN files : files[i].time < files[j].time}

EndOf(files, at, end, i) == Min({at[j] : j \in LaterIn(files, i)} \union {end})

PlacedAs(files, log, at, end, filling) ==
    /\ at \in [DOMAIN files -> 0 .. end]
    /\ \A i \in DOMAIN files \ filling :
        files[i].text = SubSeq(log, at[i] + 1, EndOf(files, at, end, i))
    /\ \A i \in filling : at[i] = end
    /\ 0 \in Range(at) \union {end} \/ Len(files) = MaxNum

\* The end of a file is one of the places, or that of all files.
LEMMA EndProperties ==
    ASSUME NEW files, NEW end \in Nat, NEW at \in [DOMAIN files -> 0 .. end], NEW i
    PROVE  /\ EndOf(files, at, end, i) \in {at[j] : j \in LaterIn(files, i)} \union {end}
           /\ EndOf(files, at, end, i) \in 0 .. end
           /\ \A j \in LaterIn(files, i) : EndOf(files, at, end, i) <= at[j]
<1> DEFINE S == {at[j] : j \in LaterIn(files, i)} \union {end}
<1>1. \A j \in LaterIn(files, i) : at[j] \in 0 .. end
  BY DEF LaterIn
<1>2. S \subseteq 0 .. end /\ S # {} /\ S \subseteq Nat
  BY <1>1
<1>3. Min(S) \in S /\ \A x \in S : Min(S) <= x
  BY <1>2, MinProperties
<1> QED BY <1>2, <1>3 DEF EndOf

LEMMA TextsAssociate == \A a, b, c \in Seq(Nat) : (a \o b) \o c = a \o (b \o c)
BY ConcatAssociative

\* Places do not depend on what is logged behind them.
LEMMA LogGrows ==
    ASSUME NEW files, NEW log \in Seq(Nat), NEW more \in Seq(Nat), NEW at, NEW filling,
           NEW end \in Nat, end <= Len(log), end <= Len(more),
           \A i \in 1 .. end : log[i] = more[i],
           PlacedAs(files, log, at, end, filling)
    PROVE  PlacedAs(files, more, at, end, filling)
<1>1. at \in [DOMAIN files -> 0 .. end]
  BY DEF PlacedAs
<1> SUFFICES ASSUME NEW i \in DOMAIN files
             PROVE  SubSeq(log, at[i] + 1, EndOf(files, at, end, i))
                        = SubSeq(more, at[i] + 1, EndOf(files, at, end, i))
  BY DEF PlacedAs
<1>2. PICK a \in Nat : a = at[i] + 1
  BY <1>1
<1>3. PICK b \in Nat : b = EndOf(files, at, end, i) /\ b <= end
  BY <1>1, EndProperties
<1>4. a \in Nat \ {0}
  BY <1>1, <1>2
<1>5. Len(log) \in Nat /\ Len(more) \in Nat
  BY LenProperties
<1>6. \A j \in a .. b : log[j] \in Nat /\ more[j] \in Nat /\ log[j] = more[j]
  <2> SUFFICES ASSUME NEW j \in a .. b
               PROVE  log[j] \in Nat /\ more[j] \in Nat /\ log[j] = more[j]
    OBVIOUS
  <2>1. j \in 1 .. end /\ j \in 1 .. Len(log) /\ j \in 1 .. Len(more)
    BY <1>3, <1>4, <1>5
  <2> QED BY <2>1, ElementOfSeq
<1>7. SubSeq(log, a, b) = SubSeq(more, a, b)
  <2>1. /\ SubSeq(log, a, b) \in Seq(Nat)
        /\ Len(SubSeq(log, a, b)) = IF a <= b THEN b - a + 1 ELSE 0
        /\ \A j \in 1 .. b - a + 1 : SubSeq(log, a, b)[j] = log[a + j - 1]
    BY <1>6, SubSeqProperties
  <2>2. /\ SubSeq(more, a, b) \in Seq(Nat)
        /\ Len(SubSeq(more, a, b)) = IF a <= b THEN b - a + 1 ELSE 0
        /\ \A j \in 1 .. b - a + 1 : SubSeq(more, a, b)[j] = more[a + j - 1]
    BY <1>6, SubSeqProperties
  <2>3. \A j \in 1 .. Len(SubSeq(log, a, b)) : SubSeq(log, a, b)[j] = SubSeq(more, a, b)[j]
    <3> SUFFICES ASSUME NEW j \in 1 .. Len(SubSeq(log, a, b))
                 PROVE  SubSeq(log, a, b)[j] = SubSeq(more, a, b)[j]
      OBVIOUS
    <3>1. j \in 1 .. b - a + 1
      BY <2>1, <1>4
    <3>2. a + j - 1 \in a .. b
      BY <3>1
    <3> QED BY <3>1, <3>2, <1>6, <2>1, <2>2
  <2> QED BY <2>1, <2>2, <2>3, SeqEqual
<1> QED BY <1>2, <1>3, <1>7

\* fopen: a file that is new, or was the oldest of a full ring, becomes the
\* newest and an empty one.
LEMMA FileIsOpened ==
    ASSUME NEW files, NEW opened, NEW log, NEW at, NEW end \in Nat,
           PlacedAs(files, log, at, end, {}),
           NEW x, NEW now \in Nat,
           DOMAIN opened = DOMAIN files \union {x},
           \A i \in DOMAIN files : files[i].time \in Nat,
           \A i \in DOMAIN files \ {x} : opened[i] = files[i] /\ files[i].time < now,
           opened[x].time = now,
           \/ x \notin DOMAIN files /\ Len(files) # MaxNum
           \/ /\ \A i \in DOMAIN files : files[x].time <= files[i].time
              /\ Len(opened) = MaxNum
    PROVE  \E p : PlacedAs(opened, log, p, end, {x})
<1> DEFINE p == [i \in DOMAIN opened |-> IF i = x THEN end ELSE at[i]]
<1>1. at \in [DOMAIN files -> 0 .. end]
  BY DEF PlacedAs
<1>2. p \in [DOMAIN opened -> 0 .. end] /\ p[x] = end
  BY <1>1
<1>a. \A i \in DOMAIN opened \ {x} : p[i] = at[i]
  OBVIOUS
<1> HIDE DEF p
<1>3. ASSUME NEW i \in DOMAIN opened \ {x}
      PROVE  /\ opened[i] = files[i] /\ p[i] = at[i]
             /\ EndOf(opened, p, end, i) = EndOf(files, at, end, i)
  <2>1. i \in DOMAIN files /\ opened[i] = files[i]
    OBVIOUS
  <2>2. x \notin LaterIn(files, i)
    BY <2>1 DEF LaterIn
  <2>3. LaterIn(opened, i) = LaterIn(files, i) \union {x}
    BY <2>1, <2>2 DEF LaterIn
  <2>4. \A j \in LaterIn(files, i) : p[j] = at[j]
    BY <1>a, <2>2 DEF LaterIn
  <2>5. {p[j] : j \in LaterIn(opened, i)} \union {end}
            = {at[j] : j \in LaterIn(files, i)} \union {end}
    <3> DEFINE S == {at[j] : j \in LaterIn(files, i)} \union {end}
               T == {p[j] : j \in LaterIn(opened, i)} \union {end}
    <3>1. ASSUME NEW v \in T PROVE v \in S
      <4>1. CASE v = end
        BY <4>1
      <4>2. CASE \E j \in LaterIn(opened, i) : v = p[j]
        BY <1>2, <2>3, <2>4, <4>2
      <4> QED BY <3>1, <4>1, <4>2
    <3>2. ASSUME NEW v \in S PROVE v \in T
      <4>1. CASE v = end
        BY <4>1
      <4>2. CASE \E j \in LaterIn(files, i) : v = at[j]
        BY <2>3, <2>4, <4>2
      <4> QED BY <3>2, <4>1, <4>2
    <3> HIDE DEF S, T
    <3>3. S = T
      BY <3>1, <3>2
    <3> QED BY <3>3 DEF S, T
  <2> QED BY <1>a, <2>1, <2>5 DEF EndOf
<1>4. 0 \in Range(p) \union {end} \/ Len(opened) = MaxNum
  <2>1. CASE x \notin DOMAIN files /\ 0 \in Range(at)
    <3>1. PICK i \in DOMAIN files : at[i] = 0
      BY <1>1, <2>1 DEF Range
    <3>2. p[i] = 0 /\ i \in DOMAIN p
      BY <1>2, <1>a, <2>1, <3>1
    <3> QED BY <3>2 DEF Range
  <2>2. CASE end = 0
    BY <2>2
  <2> QED BY <2>1, <2>2 DEF PlacedAs
<1> QED BY <1>2, <1>3, <1>4 DEF PlacedAs

\* Writing into the file that is being filled moves nothing.
LEMMA FileIsFilled ==
    ASSUME NEW files, NEW copied, NEW log, NEW at, NEW end \in Nat, NEW x,
           PlacedAs(files, log, at, end, {x}),
           DOMAIN copied = DOMAIN files, Len(copied) = Len(files),
           \A i \in DOMAIN files : copied[i].time = files[i].time,
           \A i \in DOMAIN files \ {x} : copied[i] = files[i]
    PROVE  PlacedAs(copied, log, at, end, {x})
<1>1. \A i \in DOMAIN files : LaterIn(copied, i) = LaterIn(files, i)
  BY DEF LaterIn
<1>2. \A i \in DOMAIN files : EndOf(copied, at, end, i) = EndOf(files, at, end, i)
  BY <1>1 DEF EndOf
<1> QED BY <1>2 DEF PlacedAs

\* ftruncate: the file that was filled with a copy of what follows the others
\* takes its place behind them, if it is the newest.
LEMMA LogFileIsEmptied ==
    ASSUME NEW files, NEW log, NEW at, NEW end \in Nat, NEW behind \in Nat, end <= behind,
           NEW x \in DOMAIN files, PlacedAs(files, log, at, end, {x}),
           \A i \in DOMAIN files : files[i].time \in Nat,
           \A i \in DOMAIN files \ {x} : files[i].time < files[x].time,
           files[x].text = SubSeq(log, end + 1, behind)
    PROVE  PlacedAs(files, log, at, behind, {})
<1>1. at \in [DOMAIN files -> 0 .. end] /\ at[x] = end
  BY DEF PlacedAs
<1>2. at \in [DOMAIN files -> 0 .. behind]
  BY <1>1
<1>3. EndOf(files, at, behind, x) = behind
  <2>1. LaterIn(files, x) = {}
    BY DEF LaterIn
  <2>2. EndOf(files, at, behind, x) \in {at[j] : j \in LaterIn(files, x)} \union {behind}
    BY <1>2, EndProperties
  <2> QED BY <2>1, <2>2
<1>4. ASSUME NEW i \in DOMAIN files \ {x}
      PROVE  EndOf(files, at, behind, i) = EndOf(files, at, end, i)
  <2>1. x \in LaterIn(files, i)
    BY DEF LaterIn
  <2>2. PICK e1 : e1 = EndOf(files, at, end, i)
    OBVIOUS
  <2>3. PICK e2 : e2 = EndOf(files, at, behind, i)
    OBVIOUS
  <2>4. /\ e1 \in {at[j] : j \in LaterIn(files, i)} \union {end} /\ e1 \in 0 .. end
        /\ \A j \in LaterIn(files, i) : e1 <= at[j]
    BY <1>1, <2>2, EndProperties
  <2>5. /\ e2 \in {at[j] : j \in LaterIn(files, i)} \union {behind} /\ e2 \in 0 .. behind
        /\ \A j \in LaterIn(files, i) : e2 <= at[j]
    BY <1>2, <2>3, EndProperties
  <2>6. e2 <= end
    BY <1>1, <2>1, <2>5
  <2>7. e1 <= e2
    <3>1. CASE e2 = behind
      BY <2>4, <2>6, <3>1
    <3>2. CASE \E j \in LaterIn(files, i) : e2 = at[j]
      BY <2>4, <3>2
    <3> QED BY <2>5, <3>1, <3>2
  <2>8. e2 <= e1
    <3>1. CASE e1 = end
      BY <2>6, <3>1
    <3>2. CASE \E j \in LaterIn(files, i) : e1 = at[j]
      BY <2>5, <3>2
    <3> QED BY <2>4, <3>1, <3>2
  <2>9. e1 = e2
    BY <2>4, <2>5, <2>7, <2>8
  <2> QED BY <2>2, <2>3, <2>9
<1>5. 0 \in Range(at) \union {behind} \/ Len(files) = MaxNum
  BY <1>1 DEF PlacedAs, Range
<1> QED BY <1>1, <1>2, <1>3, <1>4, <1>5 DEF PlacedAs

\* What is in the log after its first end bytes.
EndOfLog(log, tail, end) ==
    /\ end + Len(tail) = Len(log)
    /\ tail = SubSeq(log, end + 1, Len(log))

\* Two texts that follow each other at the end of a log.
CutInTwo(log, a, b, end) ==
    /\ a = SubSeq(log, end + 1, end + Len(a))
    /\ b = SubSeq(log, end + Len(a) + 1, Len(log))
    /\ end + Len(a) + Len(b) = Len(log)

\* The last part of a log, cut in two.
LEMMA EndIsCut ==
    ASSUME NEW log \in Seq(Nat), NEW a \in Seq(Nat), NEW b \in Seq(Nat), NEW end \in Nat,
           EndOfLog(log, a \o b, end)
    PROVE  CutInTwo(log, a, b, end)
<1>a. end + Len(a \o b) = Len(log)
  BY DEF EndOfLog
<1>b. a \o b = SubSeq(log, end + 1, Len(log))
  BY DEF EndOfLog
<1>1. PICK n \in Nat, k \in Nat, m \in Nat : n = Len(log) /\ k = Len(a) /\ m = Len(b)
  BY LenProperties
<1>2. /\ a \o b \in Seq(Nat) /\ Len(a \o b) = k + m
      /\ \A i \in 1 .. k + m : (a \o b)[i] = IF i <= k THEN a[i] ELSE b[i - k]
  <2>1. /\ a \o b \in Seq(Nat) /\ Len(a \o b) = Len(a) + Len(b)
        /\ \A i \in 1 .. Len(a) + Len(b) :
                (a \o b)[i] = IF i <= Len(a) THEN a[i] ELSE b[i - Len(a)]
    BY ConcatProperties
  <2> QED BY <1>1, <2>1
<1>3. end + k + m = n
  <2>1. end + (k + m) = n
    BY <1>a, <1>1, <1>2
  <2> QED BY <2>1
<1>4. \A i \in 1 .. n : log[i] \in Nat
  BY <1>1, ElementOfSeq
<1>5. \A i \in 1 .. k + m : (a \o b)[i] = log[end + i]
  <2>1. \A i \in 1 .. n - (end + 1) + 1 : SubSeq(log, end + 1, n)[i] = log[end + 1 + i - 1]
    <3>1. \A i \in end + 1 .. n : log[i] \in Nat
      BY <1>4
    <3>2. end + 1 \in Int /\ n \in Int
      OBVIOUS
    <3> QED BY <3>1, <3>2, SubSeqProperties
  <2>2. \A i \in 1 .. k + m : i \in 1 .. n - (end + 1) + 1 /\ end + 1 + i - 1 = end + i
    BY <1>3
  <2> QED BY <1>b, <1>1, <2>1, <2>2
<1>6. a = SubSeq(log, end + 1, end + k)
  <2>1. /\ SubSeq(log, end + 1, end + k) \in Seq(Nat)
        /\ Len(SubSeq(log, end + 1, end + k)) = k
        /\ \A i \in 1 .. k : SubSeq(log, end + 1, end + k)[i] = log[end + i]
    <3>1. \A i \in end + 1 .. end + k : log[i] \in Nat
      BY <1>3, <1>4
    <3>2. /\ end + 1 \in Int /\ end + k \in Int /\ (end + k) - (end + 1) + 1 = k
          /\ k = 0 \/ end + 1 <= end + k
          /\ \A i \in 1 .. k : end + 1 + i - 1 = end + i
      OBVIOUS
    <3>3. /\ SubSeq(log, end + 1, end + k) \in Seq(Nat)
          /\ Len(SubSeq(log, end + 1, end + k))
                = IF end + 1 <= end + k THEN (end + k) - (end + 1) + 1 ELSE 0
          /\ \A i \in 1 .. (end + k) - (end + 1) + 1 :
                SubSeq(log, end + 1, end + k)[i] = log[end + 1 + i - 1]
      BY <3>1, <3>2, SubSeqProperties
    <3> QED BY <3>2, <3>3
  <2>2. \A i \in 1 .. k : a[i] = log[end + i]
    <3> SUFFICES ASSUME NEW i \in 1 .. k PROVE a[i] = log[end + i]
      OBVIOUS
    <3>1. i \in 1 .. k + m /\ i <= k
      OBVIOUS
    <3>2. (a \o b)[i] = log[end + i]
      BY <1>5, <3>1
    <3>3. (a \o b)[i] = a[i]
      BY <1>2, <3>1
    <3> QED BY <3>2, <3>3
  <2>3. \A i \in 1 .. Len(a) : a[i] = SubSeq(log, end + 1, end + k)[i]
    BY <1>1, <2>1, <2>2
  <2> QED BY <1>1, <2>1, <2>3, SeqEqual
<1>7. b = SubSeq(log, end + k + 1, n)
  <2>1. /\ SubSeq(log, end + k + 1, n) \in Seq(Nat)
        /\ Len(SubSeq(log, end + k + 1, n)) = m
        /\ \A i \in 1 .. m : SubSeq(log, end + k + 1, n)[i] = log[end + k + i]
    <3>1. \A i \in end + k + 1 .. n : log[i] \in Nat
      BY <1>4
    <3>2. /\ end + k + 1 \in Int /\ n \in Int /\ n - (end + k + 1) + 1 = m
          /\ m = 0 \/ end + k + 1 <= n
          /\ \A i \in 1 .. m : end + k + 1 + i - 1 = end + k + i
      BY <1>3
    <3>3. /\ SubSeq(log, end + k + 1, n) \in Seq(Nat)
          /\ Len(SubSeq(log, end + k + 1, n))
                = IF end + k + 1 <= n THEN n - (end + k + 1) + 1 ELSE 0
          /\ \A i \in 1 .. n - (end + k + 1) + 1 :
                SubSeq(log, end + k + 1, n)[i] = log[end + k + 1 + i - 1]
      BY <3>1, <3>2, SubSeqProperties
    <3> QED BY <1>3, <3>2, <3>3
  <2>2. \A i \in 1 .. m : b[i] = log[end + k + i]
    <3> SUFFICES ASSUME NEW i \in 1 .. m PROVE b[i] = log[end + k + i]
      OBVIOUS
    <3>1. PICK j \in 1 .. k + m : ~ (j <= k) /\ j - k = i /\ end + j = end + k + i
      OBVIOUS
    <3>2. (a \o b)[j] = log[end + j]
      BY <1>5, <3>1
    <3>3. (a \o b)[j] = b[j - k]
      BY <1>2, <3>1
    <3> QED BY <3>1, <3>2, <3>3
  <2>3. \A i \in 1 .. Len(b) : b[i] = SubSeq(log, end + k + 1, n)[i]
    BY <1>1, <2>1, <2>2
  <2> QED BY <1>1, <2>1, <2>3, SeqEqual
<1> QED BY <1>1, <1>3, <1>6, <1>7 DEF CutInTwo

\* The last part of a log, and what is logged next.
LEMMA EndIsLonger ==
    ASSUME NEW log \in Seq(Nat), NEW tail \in Seq(Nat), NEW text \in Seq(Nat),
           NEW end \in Nat, EndOfLog(log, tail, end)
    PROVE  EndOfLog(log \o text, tail \o text, end)
<1> USE DEF EndOfLog
<1>1. PICK n \in Nat, k \in Nat, m \in Nat : n = Len(log) /\ k = Len(tail) /\ m = Len(text)
  BY LenProperties
<1>2. /\ tail \o text \in Seq(Nat) /\ Len(tail \o text) = k + m
      /\ \A i \in 1 .. k + m : (tail \o text)[i] = IF i <= k THEN tail[i] ELSE text[i - k]
  <2>1. /\ tail \o text \in Seq(Nat) /\ Len(tail \o text) = Len(tail) + Len(text)
        /\ \A i \in 1 .. Len(tail) + Len(text) :
                (tail \o text)[i] = IF i <= Len(tail) THEN tail[i] ELSE text[i - Len(tail)]
    BY ConcatProperties
  <2> QED BY <1>1, <2>1
<1>3. /\ log \o text \in Seq(Nat) /\ Len(log \o text) = n + m
      /\ \A i \in 1 .. n + m : (log \o text)[i] = IF i <= n THEN log[i] ELSE text[i - n]
  <2>1. /\ log \o text \in Seq(Nat) /\ Len(log \o text) = Len(log) + Len(text)
        /\ \A i \in 1 .. Len(log) + Len(text) :
                (log \o text)[i] = IF i <= Len(log) THEN log[i] ELSE text[i - Len(log)]
    BY ConcatProperties
  <2> QED BY <1>1, <2>1
<1>4. PICK more \in Seq(Nat) :
        /\ more = log \o text /\ Len(more) = n + m
        /\ \A i \in 1 .. n + m : more[i] = IF i <= n THEN log[i] ELSE text[i - n]
  BY <1>3
<1>a. end + k = n
  BY <1>1
<1>5. \A i \in 1 .. n + m : more[i] \in Nat
  BY <1>3, <1>4, ElementOfSeq
<1>6. /\ SubSeq(more, end + 1, n + m) \in Seq(Nat)
      /\ Len(SubSeq(more, end + 1, n + m)) = k + m
      /\ \A i \in 1 .. k + m : SubSeq(more, end + 1, n + m)[i] = more[end + i]
  <2>1. \A i \in end + 1 .. n + m : more[i] \in Nat
    BY <1>5
  <2>2. /\ end + 1 \in Int /\ n + m \in Int /\ n + m - (end + 1) + 1 = k + m
        /\ k + m = 0 \/ end + 1 <= n + m
        /\ \A i \in 1 .. k + m : end + 1 + i - 1 = end + i
    BY <1>a
  <2>3. /\ SubSeq(more, end + 1, n + m) \in Seq(Nat)
        /\ Len(SubSeq(more, end + 1, n + m))
                = IF end + 1 <= n + m THEN n + m - (end + 1) + 1 ELSE 0
        /\ \A i \in 1 .. n + m - (end + 1) + 1 :
                SubSeq(more, end + 1, n + m)[i] = more[end + 1 + i - 1]
    BY <2>1, <2>2, SubSeqProperties
  <2> QED BY <1>1, <2>2, <2>3
<1>7. \A i \in 1 .. k : tail[i] = log[end + i]
  <2>1. \A i \in end + 1 .. n : log[i] \in Nat
    BY <1>1, ElementOfSeq
  <2>2. end + 1 \in Int /\ n \in Int /\ n - (end + 1) + 1 = k
        /\ \A i \in 1 .. k : end + 1 + i - 1 = end + i
    BY <1>1
  <2>3. \A i \in 1 .. n - (end + 1) + 1 : SubSeq(log, end + 1, n)[i] = log[end + 1 + i - 1]
    BY <2>1, <2>2, SubSeqProperties
  <2> QED BY <1>1, <2>2, <2>3
<1>8. ASSUME NEW i \in 1 .. k + m
      PROVE  (tail \o text)[i] = more[end + i]
  <2>1. PICK j \in 1 .. n + m : j = end + i /\ (i <= k <=> j <= n) /\ j - n = i - k
    BY <1>a
  <2>2. CASE i <= k
    <3>1. (tail \o text)[i] = tail[i]
      BY <1>2, <2>2
    <3>a. i \in 1 .. k
      BY <2>2
    <3>b. tail[i] = log[end + i]
      BY <1>7, <3>a
    <3>2. more[j] = log[j]
      BY <1>4, <2>1, <2>2
    <3> QED BY <2>1, <2>2, <3>1, <3>b, <3>2
  <2>3. CASE ~ (i <= k)
    <3>1. (tail \o text)[i] = text[i - k]
      BY <1>2, <2>3
    <3>2. more[j] = text[j - n]
      BY <1>4, <2>1, <2>3
    <3> QED BY <2>1, <3>1, <3>2
  <2> QED BY <2>2, <2>3
<1>9. tail \o text = SubSeq(more, end + 1, n + m)
  <2>1. Len(tail \o text) = Len(SubSeq(more, end + 1, n + m))
    BY <1>2, <1>6
  <2>2. \A i \in 1 .. Len(tail \o text) : (tail \o text)[i] = SubSeq(more, end + 1, n + m)[i]
    BY <1>2, <1>6, <1>8
  <2> QED BY <1>2, <1>6, <2>1, <2>2, SeqEqual
<1>10. end + (k + m) = n + m
  BY <1>a
<1> QED BY <1>2, <1>3, <1>4, <1>9, <1>10

-----------------------------------------------------------------------------
\* Kept and InOrder in these terms.
KeptIn(files, log, tail, filling) ==
    \E end \in Nat : \E at :
        /\ EndOfLog(log, tail, end)
        /\ PlacedAs(files, log, at, end, filling)

OrderAs ==
    ~ spoilt =>
        /\ AllIdle => KeptIn(stores, logged, origin \o buffer, {})
        /\ \A t \in Thread : ~ Idle(t) =>
            KeptIn(stores, logged, Behind(t), Filling(t)) /\ Filled(t)

\* Files and log hold tail in the sense of KeptIn.
LEMMA KeptIs ==
    LogTypeOK => \A tail \in Seq(Nat) : \A filling :
        Kept(tail, filling) <=> KeptIn(stores, logged, tail, filling)
<1> SUFFICES ASSUME LogTypeOK, NEW tail \in Seq(Nat), NEW filling
             PROVE  Kept(tail, filling) <=> KeptIn(stores, logged, tail, filling)
  OBVIOUS
<1>1. Len(logged) \in Nat /\ Len(tail) \in Nat
  BY LenProperties DEF LogTypeOK
<1>2. \A end, at : at \in Places(end, filling) <=> PlacedAs(stores, logged, at, end, filling)
  BY DEF Places, PlacedAs, Later, LaterIn, EndOf
<1>3. ASSUME Kept(tail, filling)
      PROVE  KeptIn(stores, logged, tail, filling)
  <2>a. Len(tail) <= Len(logged)
    BY <1>3 DEF Kept
  <2>b. Len(logged) - Len(tail) \in Nat
    BY <1>1, <2>a
  <2>1. PICK end \in Nat : end = Len(logged) - Len(tail)
    BY <2>b
  <2>2. end + Len(tail) = Len(logged)
    BY <1>1, <2>1
  <2>3. tail = SubSeq(logged, end + 1, Len(logged)) /\ Places(end, filling) # {}
    BY <1>3, <2>1 DEF Kept
  <2>4. PICK at : at \in Places(end, filling)
    BY <2>3
  <2> QED BY <1>2, <2>2, <2>3, <2>4 DEF KeptIn, EndOfLog
<1>4. ASSUME KeptIn(stores, logged, tail, filling)
      PROVE  Kept(tail, filling)
  <2>e. PICK end \in Nat : \E at :
            /\ end + Len(tail) = Len(logged)
            /\ tail = SubSeq(logged, end + 1, Len(logged))
            /\ PlacedAs(stores, logged, at, end, filling)
    BY <1>4 DEF KeptIn, EndOfLog
  <2>1. PICK at :
            /\ end + Len(tail) = Len(logged)
            /\ tail = SubSeq(logged, end + 1, Len(logged))
            /\ PlacedAs(stores, logged, at, end, filling)
    BY <2>e
  <2>2. end = Len(logged) - Len(tail) /\ Len(tail) <= Len(logged)
    BY <1>1, <2>1
  <2>3. Places(end, filling) # {}
    BY <1>2, <2>1
  <2> QED BY <2>1, <2>2, <2>3 DEF Kept
<1> QED BY <1>3, <1>4

\* What is behind the files is a text.
LEMMA BehindIsText ==
    ASSUME LogTypeOK, NEW t \in Thread
    PROVE  /\ origin \in Seq(Nat) /\ buffer \in Seq(Nat) /\ msg[t] \in Seq(Nat)
           /\ origin \o buffer \in Seq(Nat)
           /\ Unsaved(t) \in Seq(Nat) /\ Behind(t) \in Seq(Nat)
<1>1. origin \in Seq(Nat) /\ buffer \in Seq(Nat) /\ msg[t] \in Seq(Nat)
  BY DEF LogTypeOK
<1>2. origin \o buffer \in Seq(Nat) /\ msg[t] \o buffer \in Seq(Nat)
  BY <1>1, ConcatProperties
<1>3. Unsaved(t) \in Seq(Nat)
  BY <1>1, <1>2 DEF Unsaved
<1>4. origin \o Unsaved(t) \in Seq(Nat)
  BY <1>1, <1>3, ConcatProperties
<1> QED BY <1>1, <1>2, <1>3, <1>4 DEF Behind

\* The order of the log, in both terms.
LEMMA OrderIs == LogTypeOK => (InOrder <=> OrderAs)
<1> SUFFICES ASSUME LogTypeOK PROVE InOrder <=> OrderAs
  OBVIOUS
<1>1. Kept(origin \o buffer, {}) <=> KeptIn(stores, logged, origin \o buffer, {})
  <2>1. origin \o buffer \in Seq(Nat)
    BY ConcatProperties DEF LogTypeOK
  <2> QED BY <2>1, KeptIs
<1>2. \A t \in Thread :
        Kept(Behind(t), Filling(t)) <=> KeptIn(stores, logged, Behind(t), Filling(t))
  BY BehindIsText, KeptIs
<1> QED BY <1>1, <1>2 DEF InOrder, OrderAs

Ordered ==
    /\ \A t \in Thread : Assigned(t)
    /\ Alone
    /\ Dated
    /\ OrderAs

\* A step of the only thread that is in a call, or the first of a call.
LEMMA ThreadInOrder ==
    ASSUME LogTypeOK, Ordered, NEW t \in Thread,
           spoilt' \in BOOLEAN, spoilt => spoilt',
           spoilt' \/ ~ Idle(t) \/ AllIdle,
           \A u \in Thread \ {t} : pc'[u] = pc[u] /\ job'[u] = job[u],
           Assigned(t)', Dated',
           ~ spoilt' =>
                /\ Idle(t)' => KeptIn(stores', logged', origin' \o buffer', {})
                /\ ~ Idle(t)' =>
                    KeptIn(stores', logged', Behind(t)', Filling(t)') /\ Filled(t)'
    PROVE  Ordered'
<1>1. \A u \in Thread : Assigned(u)'
  BY DEF Ordered, Assigned
<1>2. ASSUME ~ spoilt', NEW u \in Thread \ {t}
      PROVE  Idle(u)'
  BY <1>2 DEF Ordered, Alone, Idle, AllIdle
<1>3. Alone'
  BY <1>2 DEF Alone
<1>4. OrderAs'
  BY <1>2 DEF OrderAs, AllIdle
<1> QED BY <1>1, <1>3, <1>4 DEF Ordered

\* MITGetLogInfoByIndex reads the directory.
LEMMA LookInOrder ==
    ASSUME LogTypeOK, Ordered, NEW t \in Thread, Look(t)
    PROVE  Ordered'
<1> USE DEF disk, env
<1>1. /\ pc[t] = "look" /\ pc'[t] \in {"store", "append"}
      /\ \A u \in Thread \ {t} : pc'[u] = pc[u]
      /\ next'[t] \in NextStore
      /\ UNCHANGED <<job, msg, buffer, origin, stores, logged, spoilt>>
  BY DEF Look, Goto, LogTypeOK
<1>2. ~ Idle(t) /\ ~ Idle(t)'
  BY <1>1 DEF Idle
<1>3. Assigned(t)' /\ Dated'
  BY <1>1 DEF Assigned, Ordered, Dated
<1>4. Behind(t)' = Behind(t) /\ Filling(t)' = {} /\ Filling(t) = {} /\ Filled(t)'
  BY <1>1 DEF Behind, Unsaved, Filling, Filled, NextStore
<1>5. ~ spoilt => KeptIn(stores, logged, Behind(t), Filling(t))
  BY <1>2 DEF Ordered, OrderAs
<1>6. spoilt' \in BOOLEAN /\ (spoilt => spoilt')
  BY <1>1 DEF LogTypeOK
<1> QED BY <1>1, <1>2, <1>3, <1>4, <1>5, <1>6, ThreadInOrder

\* fopen(nextStoreFile, "w").
LEMMA OpenInOrder ==
    ASSUME LogTypeOK, LogTypeOK', Ordered, NEW t \in Thread, Rotating(t), OpenStore(t)
    PROVE  Ordered'
<1> USE DEF disk, env
<1>1. /\ pc[t] = "store" /\ pc'[t] = "copy"
      /\ \A u \in Thread \ {t} : pc'[u] = pc[u]
      /\ UNCHANGED <<job, msg, next, buffer, origin>>
  BY DEF OpenStore, Goto, LogTypeOK, locals
<1>2. ~ Idle(t) /\ ~ Idle(t)'
  BY <1>1 DEF Idle
<1>3. PICK x : x = next[t]
  OBVIOUS
<1>4. PICK now : \E newest \in {0} \union {stores[i].time : i \in DOMAIN stores} :
            /\ now \in {newest, newest + 1}
            /\ \A i \in DOMAIN stores : stores[i].time <= newest
            /\ stores' = [i \in DOMAIN stores \union {x} |->
                            IF i = x THEN [text |-> << >>, time |-> now] ELSE stores[i]]
            /\ Record(<< >>, \E i \in DOMAIN stores \ {x} : stores[i].time = now)
  BY <1>3 DEF OpenStore
<1>5. DOMAIN stores = 1 .. Len(stores) /\ Len(stores) \in Nat
  BY LenProperties DEF LogTypeOK
<1>6. \A i \in DOMAIN stores : stores[i].time \in Nat
  <2>1. \A i \in DOMAIN stores : stores[i] \in [text : Seq(Nat), time : Nat]
    BY <1>5, ElementOfSeq DEF LogTypeOK
  <2> QED BY <2>1
<1>7. now \in Nat /\ \A i \in DOMAIN stores : stores[i].time <= now
  BY <1>4, <1>6
<1>8. /\ DOMAIN stores' = DOMAIN stores \union {x}
      /\ stores'[x] = [text |-> << >>, time |-> now]
      /\ \A i \in DOMAIN stores \ {x} : stores'[i] = stores[i]
  BY <1>4
<1>9. /\ spoilt' \in BOOLEAN /\ (spoilt => spoilt')
      /\ ~ spoilt' => logged' = logged
      /\ ~ spoilt' => \A i \in DOMAIN stores \ {x} : stores[i].time < now
  <2>1. spoilt' = (spoilt \/ \E i \in DOMAIN stores \ {x} : stores[i].time = now)
    BY <1>4 DEF Record
  <2>2. ~ spoilt' => logged' = logged \o << >>
    BY <1>4 DEF Record
  <2>3. logged \o << >> = logged
    BY ConcatEmptySeq DEF LogTypeOK
  <2>4. spoilt' \in BOOLEAN /\ (spoilt => spoilt')
    BY <2>1 DEF LogTypeOK
  <2>5. ASSUME ~ spoilt', NEW i \in DOMAIN stores \ {x}
        PROVE  stores[i].time < now
    <3>1. stores[i].time # now
      BY <2>1, <2>5
    <3>2. stores[i].time \in Nat /\ stores[i].time <= now
      BY <1>6, <1>7
    <3> QED BY <1>7, <3>1, <3>2
  <2> QED BY <2>2, <2>3, <2>4, <2>5
<1>10. Assigned(t)'
  BY <1>1 DEF Assigned
<1>11. Dated'
  <2> SUFFICES ASSUME ~ spoilt', NEW i \in DOMAIN stores', NEW j \in DOMAIN stores',
                      stores'[i].time = stores'[j].time
               PROVE  i = j
    BY DEF Dated
  <2>1. ~ spoilt /\ \A k \in DOMAIN stores \ {x} : stores[k].time < now /\ stores'[k] = stores[k]
    BY <1>8, <1>9
  <2>2. stores'[x].time = now
    BY <1>8
  <2>3. CASE i # x /\ j # x
    BY <1>8, <2>1, <2>3 DEF Ordered, Dated
  <2>4. CASE i = x /\ j # x
    BY <1>6, <1>7, <1>8, <2>1, <2>2, <2>4
  <2>5. CASE i # x /\ j = x
    BY <1>6, <1>7, <1>8, <2>1, <2>2, <2>5
  <2> QED BY <2>3, <2>4, <2>5
<1>12. Behind(t)' = Behind(t) /\ Filling(t)' = {x} /\ Filling(t) = {}
  BY <1>1, <1>3 DEF Behind, Unsaved, Filling
<1>13. ASSUME ~ spoilt'
       PROVE  KeptIn(stores', logged', Behind(t)', Filling(t)') /\ Filled(t)'
  <2>1. KeptIn(stores, logged, Behind(t), {}) /\ Filled(t)
    BY <1>2, <1>9, <1>12, <1>13 DEF Ordered, OrderAs
  <2>e. PICK end \in Nat : \E at :
            /\ end + Len(Behind(t)) = Len(logged)
            /\ Behind(t) = SubSeq(logged, end + 1, Len(logged))
            /\ PlacedAs(stores, logged, at, end, {})
    BY <2>1 DEF KeptIn, EndOfLog
  <2>2. PICK at :
            /\ end + Len(Behind(t)) = Len(logged)
            /\ Behind(t) = SubSeq(logged, end + 1, Len(logged))
            /\ PlacedAs(stores, logged, at, end, {})
    BY <2>e
  <2>3. \/ x \notin DOMAIN stores /\ Len(stores) # MaxNum
        \/ /\ \A i \in DOMAIN stores : stores[x].time <= stores[i].time
           /\ Len(stores') = MaxNum
    <3>1. x \in NextStore
      BY <1>1, <1>3, <2>1 DEF Filled
    <3>2. CASE Len(stores) < MaxNum
      <4>1. PICK n \in Nat : n = Len(stores) /\ n < MaxNum
        BY <1>5, <3>2
      <4>2. MaxNum \in Nat /\ n + 1 \notin 1 .. n /\ DOMAIN stores = 1 .. n
        BY <1>5, <4>1, LogConstants, LenProperties DEF LogTypeOK
      <4>3. x = n + 1
        BY <3>1, <4>1 DEF NextStore
      <4> QED BY <4>1, <4>2, <4>3
    <3>3. CASE ~ (Len(stores) < MaxNum)
      <4>1. x \in DOMAIN stores /\ \A i \in DOMAIN stores : stores[x].time <= stores[i].time
        BY <3>1, <3>3 DEF NextStore
      <4>2. DOMAIN stores' = DOMAIN stores
        BY <1>8, <4>1
      <4>3. Len(stores') = Len(stores)
        BY <4>2, LenProperties DEF LogTypeOK
      <4>4. Len(stores) = MaxNum
        <5>1. PICK n \in Nat : n = Len(stores) /\ n <= MaxNum /\ ~ (n < MaxNum)
          BY <1>5, <3>3 DEF LogTypeOK
        <5>2. MaxNum \in Nat
          BY LogConstants
        <5> QED BY <5>1, <5>2
      <4> QED BY <4>1, <4>3, <4>4
    <3> QED BY <3>2, <3>3
  <2>4. PICK p : PlacedAs(stores', logged, p, end, {x})
    <3>1. stores'[x].time = now
      BY <1>8
    <3>2. \A i \in DOMAIN stores \ {x} : stores'[i] = stores[i] /\ stores[i].time < now
      BY <1>8, <1>9, <1>13
    <3> QED BY <1>6, <1>7, <1>8, <2>2, <2>3, <3>1, <3>2, FileIsOpened
  <2>5. KeptIn(stores', logged, Behind(t), {x})
    BY <2>2, <2>4 DEF KeptIn, EndOfLog
  <2>6. Filled(t)'
    <3>1. \A i \in DOMAIN stores' \ {x} : x \in Later(i)'
      BY <1>8, <1>9, <1>13 DEF Later
    <3>2. x \in DOMAIN stores' /\ stores'[x].text = << >>
      BY <1>8
    <3> QED BY <1>1, <1>3, <3>1, <3>2 DEF Filled
  <2> QED BY <1>9, <1>12, <1>13, <2>5, <2>6
<1> QED BY <1>1, <1>2, <1>9, <1>10, <1>11, <1>13, ThreadInOrder

\* MITLogCopyFile.
LEMMA CopyInOrder ==
    ASSUME LogTypeOK, LogTypeOK', Ordered, NEW t \in Thread, Copy(t)
    PROVE  Ordered'
<1> USE DEF disk, env
<1>1. /\ pc[t] = "copy" /\ pc'[t] = "truncate"
      /\ \A u \in Thread \ {t} : pc'[u] = pc[u]
      /\ UNCHANGED <<job, msg, next, buffer, origin, logged, spoilt>>
  BY DEF Copy, Goto, LogTypeOK, locals
<1>2. ~ Idle(t) /\ ~ Idle(t)'
  BY <1>1 DEF Idle
<1>3. stores' = [stores EXCEPT ![next[t]].text = origin \o SubSeq(@, Len(origin) + 1, Len(@))]
  BY DEF Copy
<1>4. stores \in Seq([text : Seq(Nat), time : Nat]) /\ stores' \in Seq([text : Seq(Nat), time : Nat])
  BY DEF LogTypeOK
<1>5. /\ DOMAIN stores' = DOMAIN stores
      /\ \A i \in DOMAIN stores \ {next[t]} : stores'[i] = stores[i]
      /\ \A i \in DOMAIN stores : stores'[i].time = stores[i].time
  BY <1>3
<1>6. Len(stores') = Len(stores)
  BY <1>4, <1>5, LenProperties
<1>7. Assigned(t)' /\ Dated'
  BY <1>1, <1>5 DEF Assigned, Ordered, Dated
<1>8. Behind(t)' = Behind(t) /\ Filling(t)' = {next[t]} /\ Filling(t) = {next[t]}
  BY <1>1 DEF Behind, Unsaved, Filling
<1>9. ASSUME ~ spoilt
      PROVE  KeptIn(stores', logged', Behind(t)', Filling(t)') /\ Filled(t)'
  <2>1. KeptIn(stores, logged, Behind(t), {next[t]}) /\ Filled(t)
    BY <1>2, <1>8, <1>9 DEF Ordered, OrderAs
  <2>e. PICK end \in Nat : \E at :
            /\ end + Len(Behind(t)) = Len(logged)
            /\ Behind(t) = SubSeq(logged, end + 1, Len(logged))
            /\ PlacedAs(stores, logged, at, end, {next[t]})
    BY <2>1 DEF KeptIn, EndOfLog
  <2>2. PICK at :
            /\ end + Len(Behind(t)) = Len(logged)
            /\ Behind(t) = SubSeq(logged, end + 1, Len(logged))
            /\ PlacedAs(stores, logged, at, end, {next[t]})
    BY <2>e
  <2>3. PlacedAs(stores', logged, at, end, {next[t]})
    BY <1>5, <1>6, <2>2, FileIsFilled
  <2>4. KeptIn(stores', logged, Behind(t), {next[t]})
    BY <2>2, <2>3 DEF KeptIn, EndOfLog
  <2>5. next[t] \in DOMAIN stores /\ stores[next[t]].text = << >>
        /\ \A i \in DOMAIN stores \ {next[t]} : next[t] \in Later(i)
    BY <1>1, <2>1 DEF Filled
  <2>6. stores'[next[t]].text = origin
    <3>a. PICK x \in DOMAIN stores : x = next[t]
      BY <2>5
    <3>b. stores' = [stores EXCEPT ![x].text = origin \o SubSeq(@, Len(origin) + 1, Len(@))]
      BY <1>3, <3>a
    <3>c. stores[x] \in [text : Seq(Nat), time : Nat]
      BY <1>4, LenProperties, ElementOfSeq
    <3>d. stores'[x].text = origin \o SubSeq(stores[x].text, Len(origin) + 1, Len(stores[x].text))
      BY <3>b, <3>c
    <3>1. stores'[next[t]].text = origin \o SubSeq(<< >>, Len(origin) + 1, Len(<< >>))
      BY <2>5, <3>a, <3>d
    <3>2. origin \in Seq(Nat) /\ Len(origin) \in Nat /\ Len(<< >>) = 0
      BY LenProperties, EmptySeq DEF LogTypeOK
    <3>3. SubSeq(<< >>, Len(origin) + 1, Len(<< >>)) = << >>
      BY <3>2, SubSeqEmpty
    <3> QED BY <3>1, <3>2, <3>3, ConcatEmptySeq
  <2>7. Filled(t)'
    <3>1. \A i \in DOMAIN stores' \ {next[t]} : next[t] \in Later(i)'
      BY <1>5, <2>5 DEF Later
    <3> QED BY <1>1, <1>5, <2>5, <2>6, <3>1 DEF Filled
  <2> QED BY <1>1, <1>8, <2>4, <2>7
<1>10. spoilt' \in BOOLEAN /\ (spoilt => spoilt')
  BY <1>1 DEF LogTypeOK
<1> QED BY <1>1, <1>2, <1>7, <1>9, <1>10, ThreadInOrder

\* ftruncate.
LEMMA TruncateInOrder ==
    ASSUME LogTypeOK, Ordered, NEW t \in Thread, Truncate(t)
    PROVE  Ordered'
<1> USE DEF disk, env
<1>1. /\ pc[t] = "truncate" /\ pc'[t] = "append" /\ origin' = << >>
      /\ \A u \in Thread \ {t} : pc'[u] = pc[u]
      /\ UNCHANGED <<job, msg, next, buffer, stores, logged, spoilt>>
  BY DEF Truncate, Goto, LogTypeOK, locals
<1>2. ~ Idle(t) /\ ~ Idle(t)'
  BY <1>1 DEF Idle
<1>3. Assigned(t)' /\ Dated'
  BY <1>1 DEF Assigned, Ordered, Dated
<1>4. PICK rest \in Seq(Nat) : rest = Unsaved(t)
  BY BehindIsText
<1>5. /\ Behind(t) = origin \o rest /\ Behind(t)' = << >> \o rest
      /\ Filling(t) = {next[t]} /\ Filling(t)' = {} /\ Filled(t)'
  BY <1>1, <1>4 DEF Behind, Unsaved, Filling, Filled
<1>6. ASSUME ~ spoilt
      PROVE  KeptIn(stores', logged', Behind(t)', Filling(t)')
  <2>1. KeptIn(stores, logged, origin \o rest, {next[t]}) /\ Filled(t)
    BY <1>2, <1>5, <1>6 DEF Ordered, OrderAs
  <2>2. PICK old \in Seq(Nat), log \in Seq(Nat) : old = origin /\ log = logged
    BY DEF LogTypeOK
  <2>e. PICK end \in Nat : \E at :
            /\ end + Len(old \o rest) = Len(log)
            /\ old \o rest = SubSeq(log, end + 1, Len(log))
            /\ PlacedAs(stores, log, at, end, {next[t]})
    BY <2>1, <2>2 DEF KeptIn, EndOfLog
  <2>3. PICK at :
            /\ end + Len(old \o rest) = Len(log)
            /\ old \o rest = SubSeq(log, end + 1, Len(log))
            /\ PlacedAs(stores, log, at, end, {next[t]})
    BY <2>e
  <2>4. /\ old = SubSeq(log, end + 1, end + Len(old))
        /\ rest = SubSeq(log, end + Len(old) + 1, Len(log))
        /\ end + Len(old) + Len(rest) = Len(log)
    <3>1. EndOfLog(log, old \o rest, end)
      BY <2>3 DEF EndOfLog
    <3>2. CutInTwo(log, old, rest, end)
      BY <3>1, EndIsCut
    <3> QED BY <3>2 DEF CutInTwo
  <2>5. PICK behind \in Nat : behind = end + Len(old) /\ end <= behind
    <3>1. Len(old) \in Nat
      BY LenProperties
    <3> QED BY <3>1
  <2>6. next[t] \in DOMAIN stores /\ stores[next[t]].text = old
        /\ \A i \in DOMAIN stores \ {next[t]} : stores[i].time < stores[next[t]].time
    BY <1>1, <2>1, <2>2 DEF Filled, Later
  <2>7. \A i \in DOMAIN stores : stores[i].time \in Nat
    <3>1. \A i \in 1 .. Len(stores) : stores[i] \in [text : Seq(Nat), time : Nat]
      BY ElementOfSeq DEF LogTypeOK
    <3>2. DOMAIN stores = 1 .. Len(stores)
      BY LenProperties DEF LogTypeOK
    <3> QED BY <3>1, <3>2
  <2>8. PlacedAs(stores, log, at, end, {next[t]})
    BY <2>3
  <2>9. stores[next[t]].text = SubSeq(log, end + 1, behind)
    BY <2>4, <2>5, <2>6
  <2>10. PlacedAs(stores, log, at, behind, {})
    BY <2>5, <2>6, <2>7, <2>8, <2>9, LogFileIsEmptied
  <2>11. KeptIn(stores, log, rest, {})
    BY <2>4, <2>5, <2>10 DEF KeptIn, EndOfLog
  <2>12. << >> \o rest = rest
    BY ConcatEmptySeq
  <2> QED BY <1>1, <1>5, <2>2, <2>11, <2>12
<1>7. spoilt' \in BOOLEAN /\ (spoilt => spoilt')
  BY <1>1 DEF LogTypeOK
<1> QED BY <1>1, <1>2, <1>3, <1>5, <1>6, <1>7, ThreadInOrder

\* The text is appended to the log file, and the caller goes on.
LEMMA AppendInOrder ==
    ASSUME LogTypeOK, Ordered, NEW t \in Thread, Rotating(t), AppendText(t)
    PROVE  Ordered'
<1> USE DEF disk, env
<1>1. /\ pc[t] = "append" /\ origin' = origin \o Text(t)
      /\ pc'[t] = Return(t)
      /\ \A u \in Thread \ {t} : pc'[u] = pc[u] /\ job'[u] = job[u]
      /\ UNCHANGED <<buffer, stores, logged, spoilt>>
  BY DEF AppendText, Goto, LogTypeOK, locals, LocalsEnd
<1>2. ~ Idle(t)
  BY <1>1 DEF Idle
<1>3. Dated' /\ Filling(t) = {}
  BY <1>1 DEF Ordered, Dated, Filling
<1>4. ~ spoilt => KeptIn(stores, logged, Behind(t), {})
  BY <1>2, <1>3 DEF Ordered, OrderAs
<1>5. spoilt' \in BOOLEAN /\ (spoilt => spoilt')
  BY <1>1 DEF LogTypeOK
<1>6. CASE job[t] = "direct"
  <2>1. pc'[t] = "idle" /\ job'[t] = "none"
    BY <1>1, <1>6 DEF AppendText, LocalsEnd, Return, LogTypeOK
  <2>2. Assigned(t)' /\ Idle(t)'
    BY <2>1 DEF Assigned, Idle
  <2>3. origin' \o buffer' = Behind(t)
    <3>1. origin' \o buffer' = (origin \o msg[t]) \o buffer
      BY <1>1, <1>6 DEF Text
    <3>2. Behind(t) = origin \o (msg[t] \o buffer)
      BY <1>1, <1>6 DEF Behind, Unsaved
    <3>3. (origin \o msg[t]) \o buffer = origin \o (msg[t] \o buffer)
      <4>1. origin \in Seq(Nat) /\ buffer \in Seq(Nat) /\ msg[t] \in Seq(Nat)
        BY BehindIsText
      <4> QED BY <4>1, TextsAssociate
    <3> QED BY <3>1, <3>2, <3>3
  <2> QED BY <1>1, <1>2, <1>3, <1>4, <1>5, <2>2, <2>3, ThreadInOrder
<1>7. CASE job[t] # "direct"
  <2>1. job' = job /\ job[t] \in {"buffer", "close"}
    BY <1>1, <1>7 DEF AppendText, Rotating, LogTypeOK, locals
  <2>2. pc'[t] = IF job[t] = "buffer" THEN "empty" ELSE "free"
    BY <1>1, <2>1 DEF Return
  <2>3. Assigned(t)' /\ ~ Idle(t)' /\ Filling(t)' = {} /\ Filled(t)'
    BY <2>1, <2>2 DEF Assigned, Idle, Filling, Filled
  <2>4. Behind(t)' = Behind(t)
    BY <1>1, <1>7, <2>2 DEF Behind, Unsaved, Text
  <2> QED BY <1>1, <1>2, <1>3, <1>4, <1>5, <2>3, <2>4, ThreadInOrder
<1> QED BY <1>6, <1>7

\* Text that a full disk did not take spoils the log.
LEMMA LostInOrder ==
    ASSUME LogTypeOK, Ordered, NEW t \in Thread, Rotating(t),
           CopyLost(t) \/ AppendLost(t)
    PROVE  Ordered'
<1>1. spoilt' = TRUE
  BY DEF CopyLost, AppendLost, Record
<1>2. Assigned(t)' /\ \A u \in Thread \ {t} : pc'[u] = pc[u] /\ job'[u] = job[u]
  <2>1. CASE CopyLost(t)
    BY <2>1 DEF CopyLost, Goto, LogTypeOK, locals, Assigned
  <2>2. CASE AppendLost(t) /\ job[t] = "direct"
    BY <2>2 DEF AppendLost, Goto, Return, LocalsEnd, LogTypeOK, Assigned
  <2>3. CASE AppendLost(t) /\ job[t] # "direct"
    <3>1. job' = job /\ job[t] \in {"buffer", "close"}
      BY <2>3 DEF AppendLost, Rotating, LogTypeOK, locals
    <3> QED BY <2>3, <3>1 DEF AppendLost, Goto, Return, LogTypeOK, Assigned
  <2> QED BY <2>1, <2>2, <2>3
<1>3. \A u \in Thread : Assigned(u)'
  BY <1>2 DEF Ordered, Assigned
<1> QED BY <1>1, <1>3 DEF Ordered, Alone, Dated, OrderAs

\* The buffer is to be written, or is empty.
LEMMA WriteBufferInOrder ==
    ASSUME LogTypeOK, Ordered, NEW t \in Thread, WriteBuffer(t)
    PROVE  Ordered'
<1> USE DEF disk, env
<1>1. /\ pc[t] = "full" /\ pc'[t] = IF buffer = << >> THEN "empty" ELSE "look"
      /\ job'[t] = IF buffer = << >> THEN job[t] ELSE "buffer"
      /\ \A u \in Thread \ {t} : pc'[u] = pc[u] /\ job'[u] = job[u]
      /\ UNCHANGED <<msg, buffer, origin, stores, logged, spoilt>>
  BY DEF WriteBuffer, WriteFile, Goto, LogTypeOK
<1>2. ~ Idle(t) /\ ~ Idle(t)' /\ job[t] = "none"
  BY <1>1 DEF Idle, Ordered, Assigned
<1>3. Dated' /\ Filling(t) = {} /\ Filling(t)' = {} /\ Filled(t)' /\ Assigned(t)'
  BY <1>1 DEF Ordered, Dated, Filling, Filled, Assigned
<1>4. ~ spoilt => KeptIn(stores, logged, Behind(t), {})
  BY <1>2, <1>3 DEF Ordered, OrderAs
<1>5. spoilt' \in BOOLEAN /\ (spoilt => spoilt')
  BY <1>1 DEF LogTypeOK
<1>6. Behind(t)' = Behind(t)
  <2>1. Behind(t) = origin \o buffer
    BY <1>1, <1>2 DEF Behind, Unsaved
  <2>2. CASE buffer = << >>
    <3>1. Behind(t)' = origin
      BY <1>1, <2>2 DEF Behind
    <3>2. origin \o << >> = origin
      BY ConcatEmptySeq DEF LogTypeOK
    <3> QED BY <2>1, <2>2, <3>1, <3>2
  <2>3. CASE buffer # << >>
    BY <1>1, <2>1, <2>3 DEF Behind, Unsaved
  <2> QED BY <2>2, <2>3
<1> QED BY <1>1, <1>2, <1>3, <1>4, <1>5, <1>6, ThreadInOrder

\* Logging adds to what is behind the files.
LEMMA MoreIsKept ==
    ASSUME NEW files, NEW log \in Seq(Nat), NEW tail \in Seq(Nat), NEW text \in Seq(Nat),
           NEW filling, KeptIn(files, log, tail, filling)
    PROVE  KeptIn(files, log \o text, tail \o text, filling)
<1>e. PICK end \in Nat : \E at :
        /\ end + Len(tail) = Len(log)
        /\ tail = SubSeq(log, end + 1, Len(log))
        /\ PlacedAs(files, log, at, end, filling)
  BY DEF KeptIn, EndOfLog
<1>1. PICK at :
        /\ end + Len(tail) = Len(log)
        /\ tail = SubSeq(log, end + 1, Len(log))
        /\ PlacedAs(files, log, at, end, filling)
  BY <1>e
<1>2. PICK more \in Seq(Nat) : /\ more = log \o text /\ end <= Len(more)
                               /\ \A i \in 1 .. end : log[i] = more[i]
  <2>1. /\ log \o text \in Seq(Nat) /\ Len(log \o text) = Len(log) + Len(text)
        /\ \A i \in 1 .. Len(log) + Len(text) :
                (log \o text)[i] = IF i <= Len(log) THEN log[i] ELSE text[i - Len(log)]
    BY ConcatProperties
  <2>2. Len(log) \in Nat /\ Len(text) \in Nat /\ Len(tail) \in Nat
    BY LenProperties
  <2>3. end <= Len(log) /\ \A i \in 1 .. end : i \in 1 .. Len(log) + Len(text) /\ i <= Len(log)
    BY <1>1, <2>2
  <2>4. PICK more \in Seq(Nat) : more = log \o text
    BY <2>1
  <2>5. end <= Len(more)
    BY <2>1, <2>2, <2>3, <2>4
  <2>6. \A i \in 1 .. end : log[i] = more[i]
    BY <2>1, <2>3, <2>4
  <2> QED BY <2>4, <2>5, <2>6
<1>3. EndOfLog(log \o text, tail \o text, end)
  <2>1. EndOfLog(log, tail, end)
    BY <1>1 DEF EndOfLog
  <2> QED BY <2>1, EndIsLonger
<1>4. end <= Len(log)
  BY <1>1, LenProperties
<1>5. PlacedAs(files, more, at, end, filling)
  BY <1>1, <1>2, <1>4, LogGrows
<1> QED BY <1>2, <1>3, <1>5 DEF KeptIn, EndOfLog

\* The message of the thread is logged, and in the buffer or to be written.
LEMMA EmptyBufferInOrder ==
    ASSUME LogTypeOK, Ordered, NEW t \in Thread, EmptyBuffer(t)
    PROVE  Ordered'
<1> USE DEF disk, env
<1>1. /\ pc[t] = "empty" /\ Record(msg[t], FALSE)
      /\ \A u \in Thread \ {t} : pc'[u] = pc[u] /\ job'[u] = job[u]
      /\ UNCHANGED <<origin, stores>>
      /\ \/ pc'[t] = "idle" /\ job'[t] = "none" /\ buffer' = msg[t]
         \/ pc'[t] = "look" /\ job'[t] = "direct" /\ buffer' = << >> /\ msg' = msg
  BY DEF EmptyBuffer, WriteFile, Goto, LocalsEnd, LogTypeOK
<1>2. ~ Idle(t)
  BY <1>1 DEF Idle
<1>3. spoilt' = spoilt /\ (~ spoilt => logged' = logged \o msg[t])
  BY <1>1 DEF Record, LogTypeOK
<1>4. Dated' /\ Filling(t) = {} /\ Filling(t)' = {} /\ Filled(t)' /\ Assigned(t)'
  BY <1>1, <1>3 DEF Ordered, Dated, Filling, Filled, Assigned
<1>5. Behind(t) = origin
  BY <1>1 DEF Behind
<1>6. /\ Idle(t)' => origin' \o buffer' = origin \o msg[t]
      /\ ~ Idle(t)' => Behind(t)' = origin \o msg[t]
  <2>1. msg[t] \o << >> = msg[t]
    BY BehindIsText, ConcatEmptySeq
  <2> QED BY <1>1, <2>1 DEF Idle, Behind, Unsaved
<1>7. ASSUME ~ spoilt
      PROVE  KeptIn(stores', logged', origin \o msg[t], {})
  <2>1. KeptIn(stores, logged, origin, {})
    BY <1>2, <1>4, <1>5, <1>7 DEF Ordered, OrderAs
  <2>2. logged \in Seq(Nat) /\ origin \in Seq(Nat) /\ msg[t] \in Seq(Nat)
    BY DEF LogTypeOK
  <2>3. KeptIn(stores, logged \o msg[t], origin \o msg[t], {})
    BY <2>1, <2>2, MoreIsKept
  <2> QED BY <1>1, <1>3, <1>7, <2>3
<1>8. spoilt' \in BOOLEAN
  BY <1>3 DEF LogTypeOK
<1> QED BY <1>1, <1>2, <1>3, <1>4, <1>6, <1>7, <1>8, ThreadInOrder

\* MITLogClose frees a buffer that is in the file.
LEMMA FreeInOrder ==
    ASSUME LogTypeOK, Ordered, NEW t \in Thread, Free(t)
    PROVE  Ordered'
<1> USE DEF disk, env
<1>1. /\ pc[t] = "free" /\ pc'[t] = "idle" /\ job'[t] = "none" /\ buffer' = << >>
      /\ \A u \in Thread \ {t} : pc'[u] = pc[u] /\ job'[u] = job[u]
      /\ UNCHANGED <<origin, stores, logged, spoilt>>
  BY DEF Free, Goto, LocalsEnd, LogTypeOK
<1>2. ~ Idle(t) /\ Idle(t)' /\ Assigned(t)' /\ Dated' /\ Filling(t) = {}
  BY <1>1 DEF Idle, Assigned, Ordered, Dated, Filling
<1>3. Behind(t) = origin /\ origin' \o buffer' = origin
  <2>1. origin \o << >> = origin
    BY ConcatEmptySeq DEF LogTypeOK
  <2> QED BY <1>1, <2>1 DEF Behind
<1>4. ~ spoilt => KeptIn(stores, logged, origin, {})
  BY <1>2, <1>3 DEF Ordered, OrderAs
<1>5. spoilt' \in BOOLEAN /\ (spoilt => spoilt')
  BY <1>1 DEF LogTypeOK
<1> QED BY <1>1, <1>2, <1>3, <1>4, <1>5, ThreadInOrder

\* MITLogClose begins, after all other calls.
LEMMA CloseInOrder ==
    ASSUME LogTypeOK, Ordered, NEW t \in Thread, Close(t)
    PROVE  Ordered'
<1> USE DEF disk, env
<1>1. /\ pc[t] = "idle" /\ pc'[t] = (IF buffer = << >> THEN "free" ELSE "look")
      /\ job'[t] = "close" /\ Record(<< >>, ~ AllIdle)
      /\ \A u \in Thread \ {t} : pc'[u] = pc[u] /\ job'[u] = job[u]
      /\ UNCHANGED <<msg, buffer, origin, stores>>
  BY DEF Close, Idle, Goto, LogTypeOK
<1>2. spoilt' = (spoilt \/ ~ AllIdle) /\ (~ spoilt' => logged' = logged)
  <2>1. logged \o << >> = logged
    BY ConcatEmptySeq DEF LogTypeOK
  <2> QED BY <1>1, <2>1 DEF Record
<1>3. ~ Idle(t)' /\ Dated' /\ Filling(t)' = {} /\ Filled(t)' /\ Assigned(t)'
  BY <1>1, <1>2 DEF Idle, Ordered, Dated, Filling, Filled, Assigned
<1>4. Behind(t)' = origin \o buffer
  <2>1. CASE buffer = << >>
    <3>1. origin \o << >> = origin
      BY ConcatEmptySeq DEF LogTypeOK
    <3> QED BY <1>1, <2>1, <3>1 DEF Behind
  <2>2. CASE buffer # << >>
    BY <1>1, <2>2 DEF Behind, Unsaved
  <2> QED BY <2>1, <2>2
<1>5. ~ spoilt' => KeptIn(stores, logged, origin \o buffer, {})
  BY <1>2 DEF Ordered, OrderAs
<1>6. spoilt' \in BOOLEAN /\ (spoilt => spoilt') /\ (spoilt' \/ AllIdle)
  BY <1>2 DEF LogTypeOK
<1> QED BY <1>1, <1>2, <1>3, <1>4, <1>5, <1>6, ThreadInOrder

\* A message goes into the buffer, also while a thread is in a call.
LEMMA BufferGrowsInOrder ==
    ASSUME LogTypeOK, Ordered, NEW t \in Thread, NEW text \in Seq(Nat), Idle(t),
           buffer' = buffer \o text,
           Record(text, \E u \in Thread \ {t} :
                            ~ Idle(u) /\ (pc[u] = "empty" \/ job[u] = "close")),
           UNCHANGED <<pc, job, msg, next, origin, stores>>
    PROVE  Ordered'
<1>1. /\ spoilt' = (spoilt \/ \E u \in Thread \ {t} :
                                ~ Idle(u) /\ (pc[u] = "empty" \/ job[u] = "close"))
      /\ ~ spoilt' => logged' = logged \o text
  BY DEF Record
<1>2. /\ \A u \in Thread : Assigned(u)'
      /\ Alone' /\ Dated'
  BY <1>1 DEF Ordered, Assigned, Alone, Idle, Dated
<1>3. \A u \in Thread : Idle(u)' = Idle(u) /\ Filling(u)' = Filling(u) /\ Filled(u)' = Filled(u)
  BY DEF Idle, Filling, Filled, NextStore, Later
<1>4. logged \in Seq(Nat) /\ origin \in Seq(Nat) /\ buffer \in Seq(Nat)
  BY DEF LogTypeOK
<1>5. ASSUME ~ spoilt', AllIdle
      PROVE  KeptIn(stores', logged', origin' \o buffer', {})
  <2>1. KeptIn(stores, logged, origin \o buffer, {})
    BY <1>1, <1>5 DEF Ordered, OrderAs
  <2>2. origin \o buffer \in Seq(Nat)
    BY <1>4, ConcatProperties
  <2>3. KeptIn(stores, logged \o text, (origin \o buffer) \o text, {})
    BY <1>4, <2>1, <2>2, MoreIsKept
  <2>4. (origin \o buffer) \o text = origin \o (buffer \o text)
    BY <1>4, TextsAssociate
  <2>5. KeptIn(stores, logged \o text, origin \o (buffer \o text), {})
    BY <2>3, <2>4
  <2> QED BY <1>1, <1>5, <2>5
<1>6. ASSUME ~ spoilt', NEW u \in Thread, ~ Idle(u)
      PROVE  KeptIn(stores', logged', Behind(u)', Filling(u)') /\ Filled(u)'
  <2>1. KeptIn(stores, logged, Behind(u), Filling(u)) /\ Filled(u)
    BY <1>1, <1>6 DEF Ordered, OrderAs
  <2>2. pc[u] \notin {"empty", "free"}
    BY <1>1, <1>6 DEF Ordered, Assigned
  <2>3. Unsaved(u) \in Seq(Nat) /\ Behind(u) \in Seq(Nat) /\ msg[u] \in Seq(Nat)
    BY BehindIsText
  <2>4. Behind(u) = origin \o Unsaved(u) /\ Behind(u)' = origin \o Unsaved(u)'
    BY <2>2 DEF Behind, Unsaved
  <2>5. Unsaved(u)' = Unsaved(u) \o text
    <3>1. msg[u] \o (buffer \o text) = (msg[u] \o buffer) \o text
      <4>1. PICK m \in Seq(Nat), b \in Seq(Nat) : m = msg[u] /\ b = buffer
        BY <1>4, <2>3
      <4>2. m \o (b \o text) = (m \o b) \o text
        BY TextsAssociate
      <4> QED BY <4>1, <4>2
    <3>2. CASE job[u] = "direct"
      BY <3>1, <3>2 DEF Unsaved
    <3>3. CASE job[u] # "direct"
      BY <3>3 DEF Unsaved
    <3> QED BY <3>2, <3>3
  <2>6. origin \o (Unsaved(u) \o text) = (origin \o Unsaved(u)) \o text
    <3>1. PICK o \in Seq(Nat), r \in Seq(Nat) : o = origin /\ r = Unsaved(u)
      BY <1>4, <2>3
    <3>2. o \o (r \o text) = (o \o r) \o text
      BY TextsAssociate
    <3> QED BY <3>1, <3>2
  <2>7. Behind(u)' = Behind(u) \o text
    BY <2>4, <2>5, <2>6
  <2>8. KeptIn(stores, logged \o text, Behind(u) \o text, Filling(u))
    BY <1>4, <2>1, <2>3, MoreIsKept
  <2> QED BY <1>1, <1>3, <1>6, <2>1, <2>7, <2>8
<1>7. OrderAs'
  BY <1>3, <1>5, <1>6 DEF OrderAs, AllIdle
<1> QED BY <1>2, <1>7 DEF Ordered

\* MITLogWrite.
LEMMA WriteInOrder ==
    ASSUME LogTypeOK, Ordered, NEW t \in Thread, NEW size \in Size, Write(t, size)
    PROVE  Ordered'
<1> USE DEF disk, env
<1> DEFINE text == [i \in 1 .. size |-> written + 1]
           others == {u \in Thread \ {t} : ~ Idle(u)}
<1>1. /\ Idle(t) /\ UNCHANGED <<job, next, origin, stores>>
      /\ IF Fits(size)
         THEN /\ buffer' = buffer \o text
              /\ Record(text, \E u \in others : pc[u] = "empty" \/ job[u] = "close")
              /\ UNCHANGED <<pc, msg>>
         ELSE /\ msg' = [msg EXCEPT ![t] = text]
              /\ Goto(t, "full")
              /\ Record(<< >>, others # {})
              /\ UNCHANGED buffer
  BY DEF Write
<1>2. text \in Seq(Nat)
  <2>1. size \in Nat /\ written + 1 \in Nat
    BY LogConstants DEF LogTypeOK
  <2> QED BY <2>1, MessageIsText
<1> HIDE DEF text
<1>3. CASE Fits(size)
  <2>1. Record(text, \E u \in Thread \ {t} :
                        ~ Idle(u) /\ (pc[u] = "empty" \/ job[u] = "close"))
    BY <1>1, <1>3 DEF Record
  <2> QED BY <1>1, <1>2, <1>3, <2>1, BufferGrowsInOrder
<1>4. CASE ~ Fits(size)
  <2>1. /\ pc[t] = "idle" /\ pc'[t] = "full" /\ buffer' = buffer
        /\ \A u \in Thread \ {t} : pc'[u] = pc[u]
        /\ Record(<< >>, others # {})
    BY <1>1, <1>4 DEF Idle, Goto, LogTypeOK
  <2>2. spoilt' = (spoilt \/ others # {}) /\ (~ spoilt' => logged' = logged)
    <3>1. logged \o << >> = logged
      BY ConcatEmptySeq DEF LogTypeOK
    <3> QED BY <2>1, <3>1 DEF Record
  <2>3. ~ spoilt' => AllIdle
    BY <1>1, <2>2 DEF AllIdle
  <2>4. job[t] = "none" /\ ~ Idle(t)'
    BY <2>1 DEF Ordered, Assigned, Idle
  <2>5. Dated' /\ Filling(t)' = {} /\ Filled(t)' /\ Assigned(t)'
    BY <1>1, <2>1, <2>2, <2>4 DEF Ordered, Dated, Filling, Filled, Assigned
  <2>6. Behind(t)' = origin \o buffer
    BY <1>1, <2>1, <2>4 DEF Behind, Unsaved
  <2>7. ~ spoilt' => KeptIn(stores, logged, origin \o buffer, {})
    BY <2>2, <2>3 DEF Ordered, OrderAs
  <2>8. spoilt' \in BOOLEAN /\ (spoilt => spoilt') /\ (spoilt' \/ AllIdle)
    BY <2>2, <2>3 DEF LogTypeOK
  <2> QED BY <1>1, <2>1, <2>2, <2>4, <2>5, <2>6, <2>7, <2>8, ThreadInOrder
<1> QED BY <1>3, <1>4

\* The process starts again between two calls: what was in the buffer is lost
\* from the end of the log.
LEMMA RestartInOrder ==
    ASSUME LogTypeOK, Ordered, Restart
    PROVE  Ordered'
<1> USE DEF disk, env
<1>1. /\ spoilt' = (spoilt \/ ~ AllIdle)
      /\ logged' = IF spoilt' THEN << >> ELSE SubSeq(logged, 1, Len(logged) - Len(buffer))
      /\ pc' = [t \in Thread |-> "idle"] /\ job' = [t \in Thread |-> "none"]
      /\ buffer' = << >> /\ UNCHANGED <<origin, stores>>
  BY DEF Restart
<1>2. /\ \A t \in Thread : Assigned(t)' /\ Idle(t)'
      /\ Alone' /\ Dated'
  BY <1>1 DEF Ordered, Assigned, Alone, Idle, Dated
<1>3. ASSUME ~ spoilt'
      PROVE  KeptIn(stores', logged', origin' \o buffer', {})
  <2>1. KeptIn(stores, logged, origin \o buffer, {})
    BY <1>1, <1>3 DEF Ordered, OrderAs
  <2>2. PICK old \in Seq(Nat), lost \in Seq(Nat), log \in Seq(Nat) :
            old = origin /\ lost = buffer /\ log = logged
    BY DEF LogTypeOK
  <2>e. PICK end \in Nat : \E at :
            /\ end + Len(old \o lost) = Len(log)
            /\ old \o lost = SubSeq(log, end + 1, Len(log))
            /\ PlacedAs(stores, log, at, end, {})
    BY <2>1, <2>2 DEF KeptIn, EndOfLog
  <2>3. PICK at :
            /\ end + Len(old \o lost) = Len(log)
            /\ old \o lost = SubSeq(log, end + 1, Len(log))
            /\ PlacedAs(stores, log, at, end, {})
    BY <2>e
  <2>4. /\ old = SubSeq(log, end + 1, end + Len(old))
        /\ lost = SubSeq(log, end + Len(old) + 1, Len(log))
        /\ end + Len(old) + Len(lost) = Len(log)
    <3>1. EndOfLog(log, old \o lost, end)
      BY <2>3 DEF EndOfLog
    <3>2. CutInTwo(log, old, lost, end)
      BY <3>1, EndIsCut
    <3> QED BY <3>2 DEF CutInTwo
  <2>5. Len(old) \in Nat /\ Len(lost) \in Nat /\ Len(log) \in Nat
    BY LenProperties
  <2>6. PICK n \in Nat : /\ n = Len(log) - Len(lost) /\ n = end + Len(old)
                         /\ n <= Len(log) /\ end <= n
    <3>1. PICK x \in Nat, y \in Nat, z \in Nat : x = Len(old) /\ y = Len(lost) /\ z = Len(log)
      BY <2>5
    <3>2. end + x + y = z
      BY <2>4, <3>1
    <3>3. z - y \in Nat /\ z - y = end + x /\ z - y <= z /\ end <= z - y
      BY <3>2
    <3> QED BY <3>1, <3>3
  <2>7. /\ SubSeq(log, 1, n) \in Seq(Nat) /\ Len(SubSeq(log, 1, n)) = n
        /\ \A i \in 1 .. n : SubSeq(log, 1, n)[i] = log[i]
    <3>1. \A i \in 1 .. n : log[i] \in Nat
      BY <2>5, <2>6, ElementOfSeq
    <3>2. /\ SubSeq(log, 1, n) \in Seq(Nat)
          /\ Len(SubSeq(log, 1, n)) = IF 1 <= n THEN n - 1 + 1 ELSE 0
          /\ \A i \in 1 .. n - 1 + 1 : SubSeq(log, 1, n)[i] = log[1 + i - 1]
      BY <3>1, SubSeqProperties
    <3> QED BY <3>2
  <2>8. PICK kept \in Seq(Nat) : /\ kept = SubSeq(log, 1, n) /\ Len(kept) = n
                                 /\ \A i \in 1 .. n : kept[i] = log[i]
    BY <2>7
  <2>9. PlacedAs(stores, kept, at, end, {})
    <3>1. end <= Len(kept) /\ end <= Len(log) /\ \A i \in 1 .. end : log[i] = kept[i]
      BY <2>5, <2>6, <2>8
    <3> QED BY <2>3, <3>1, LogGrows
  <2>10. old = SubSeq(kept, end + 1, Len(kept))
    <3>1. \A i \in end + 1 .. n : kept[i] \in Nat /\ log[i] \in Nat /\ kept[i] = log[i]
      <4>1. \A i \in end + 1 .. n : i \in 1 .. n /\ i \in 1 .. Len(log)
        BY <2>5, <2>6
      <4>2. \A i \in 1 .. Len(log) : log[i] \in Nat
        BY ElementOfSeq
      <4> QED BY <2>8, <4>1, <4>2
    <3>2. /\ SubSeq(kept, end + 1, n) \in Seq(Nat)
          /\ Len(SubSeq(kept, end + 1, n)) = IF end + 1 <= n THEN n - (end + 1) + 1 ELSE 0
          /\ \A i \in 1 .. n - (end + 1) + 1 :
                SubSeq(kept, end + 1, n)[i] = kept[end + 1 + i - 1]
      BY <3>1, SubSeqProperties
    <3>3. /\ SubSeq(log, end + 1, n) \in Seq(Nat)
          /\ Len(SubSeq(log, end + 1, n)) = IF end + 1 <= n THEN n - (end + 1) + 1 ELSE 0
          /\ \A i \in 1 .. n - (end + 1) + 1 :
                SubSeq(log, end + 1, n)[i] = log[end + 1 + i - 1]
      BY <3>1, SubSeqProperties
    <3>4. \A i \in 1 .. Len(SubSeq(log, end + 1, n)) :
                SubSeq(log, end + 1, n)[i] = SubSeq(kept, end + 1, n)[i]
      <4> SUFFICES ASSUME NEW i \in 1 .. Len(SubSeq(log, end + 1, n))
                   PROVE  SubSeq(log, end + 1, n)[i] = SubSeq(kept, end + 1, n)[i]
        OBVIOUS
      <4>1. i \in 1 .. n - (end + 1) + 1 /\ end + 1 + i - 1 \in end + 1 .. n
        BY <3>3
      <4> QED BY <3>1, <3>2, <3>3, <4>1
    <3>5. SubSeq(log, end + 1, n) = SubSeq(kept, end + 1, n)
      BY <3>2, <3>3, <3>4, SeqEqual
    <3> QED BY <2>4, <2>6, <2>8, <3>5
  <2>11. KeptIn(stores, kept, old, {})
    BY <2>6, <2>8, <2>9, <2>10 DEF KeptIn, EndOfLog
  <2>12. old \o << >> = old
    BY ConcatEmptySeq
  <2>13. logged' = kept
    BY <1>1, <1>3, <2>2, <2>6, <2>8
  <2> QED BY <1>1, <2>2, <2>11, <2>12, <2>13
<1>4. OrderAs'
  BY <1>2, <1>3 DEF OrderAs
<1> QED BY <1>2, <1>4 DEF Ordered

\* Every state of the log module whose log is not spoilt is in order: of one
\* thread in a call it is known how much of the log is in which file, and that
\* the oldest text alone is overwritten.  It is spoilt by calls that overlap, by
\* two rotations within one second, by a kill within a call and by a full disk
\* that does not take what fflush has for it.
THEOREM OrderInvariant == LogSpec => []OrderInv
<1> USE DEF locals, disk, env
<1>1. LogInit => Ordered
  <2> SUFFICES ASSUME LogInit PROVE Ordered
    OBVIOUS
  <2>1. /\ \A t \in Thread : Assigned(t) /\ Idle(t)
        /\ Alone /\ Dated
    BY DEF LogInit, Assigned, Idle, Alone, Dated
  <2>2. << >> \in Seq(Nat) /\ Len(<< >>) = 0 /\ << >> \o << >> = << >>
    BY EmptySeq, ConcatEmptySeq
  <2>3. DOMAIN << >> = {}
    BY <2>2, LenProperties
  <2>4. PICK at : at = [i \in {} |-> 0]
    OBVIOUS
  <2>5. PlacedAs(<< >>, << >>, at, 0, {})
    <3>1. at \in [DOMAIN << >> -> 0 .. 0]
      BY <2>3, <2>4
    <3>2. \A i \in DOMAIN << >> \ {} : FALSE
      BY <2>3
    <3> QED BY <3>1, <3>2 DEF PlacedAs
  <2>6. SubSeq(<< >>, 0 + 1, Len(<< >>)) = << >>
    BY <2>2, SubSeqEmpty
  <2>7. KeptIn(<< >>, << >>, << >>, {})
    BY <2>2, <2>5, <2>6 DEF KeptIn, EndOfLog
  <2>8. OrderAs
    BY <2>1, <2>2, <2>7 DEF LogInit, OrderAs
  <2> QED BY <2>1, <2>8 DEF Ordered
<1>2. LogInv /\ LogInv' /\ Ordered /\ [LogNext]_logVars => Ordered'
  <2> SUFFICES ASSUME LogInv, LogInv', Ordered, [LogNext]_logVars PROVE Ordered'
    OBVIOUS
  <2>1. LogTypeOK /\ LogTypeOK' /\ \A t \in Thread : Rotating(t)
    BY DEF LogInv
  <2>2. CASE \E t \in Thread, size \in Size : Write(t, size)
    BY <2>1, <2>2, WriteInOrder
  <2>3. CASE \E t \in Thread : Close(t)
    BY <2>1, <2>3, CloseInOrder
  <2>4. CASE \E t \in Thread : ThreadStep(t) \/ CopyLost(t) \/ AppendLost(t)
    BY <2>1, <2>4, LookInOrder, OpenInOrder, CopyInOrder, TruncateInOrder, AppendInOrder,
       WriteBufferInOrder, EmptyBufferInOrder, FreeInOrder, LostInOrder DEF ThreadStep
  <2>5. CASE Restart
    BY <2>1, <2>5, RestartInOrder
  <2>6. CASE DiskChanges \/ UNCHANGED logVars
    BY <2>6 DEF DiskChanges, logVars, Ordered, Assigned, Alone, Idle, AllIdle, Dated, OrderAs,
                Behind, Unsaved, Filling, Filled, NextStore, Later
  <2> QED BY <2>2, <2>3, <2>4, <2>5, <2>6 DEF LogNext, Quiet
<1>3. LogInv /\ Ordered => OrderInv
  BY OrderIs DEF LogInv, Ordered, OrderInv
<1> QED BY <1>1, <1>2, <1>3, LogInvariant, PTL DEF LogSpec

\* The files and the buffer hold the end of what was logged, in its order,
\* with nothing twice and nothing missing, and all of it until the ring of
\* files is full (MITLogWriteFile and what MITLogWrite keeps back): with no
\* call in progress, and in a log that was not spoilt.
THEOREM LogHasItsEnd == LogSpec => []LogIsSuffix
<1>1. OrderInv => LogIsSuffix
  BY DEF OrderInv, InOrder, LogIsSuffix
<1> QED BY <1>1, OrderInvariant, PTL

=============================================================================
