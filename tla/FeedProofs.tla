----------------------------- MODULE FeedProofs -----------------------------
(* Proofs about FeedProtocol, for every number of processes, every length  *)
(* of their buffers and every bound on waiting, crashes and losses.        *)
EXTENDS FeedProtocol, FeedLemmas

-----------------------------------------------------------------------------
(* What a buffer holds.                                                    *)

\* What a buffer of requests keeps when its head is taken.
LEMMA TailKeeps ==
    ASSUME NEW s \in Seq(Request), s # << >>
    PROVE  /\ \A cmd : Without(s, cmd) => Without(Tail(s), cmd)
           /\ InOrder(s) => InOrder(Tail(s))
           /\ InOrder(s) /\ Head(s) = "unregister" => Without(Tail(s), "register")
<1>1. /\ Head(s) = s[1] /\ 1 \in DOMAIN s
      /\ \A i \in DOMAIN Tail(s) : i + 1 \in DOMAIN s /\ Tail(s)[i] = s[i + 1]
      /\ DOMAIN Tail(s) \subseteq Nat \ {0}
  BY TailShifts, LenProperties
<1>2. \A i, j \in DOMAIN Tail(s) : i < j => i + 1 < j + 1
  BY <1>1
<1>3. \A i \in DOMAIN Tail(s) : 1 < i + 1
  BY <1>1
<1> QED BY <1>1, <1>2, <1>3 DEF Without, InOrder

\* What it keeps when a request is put behind the others.
LEMMA QueuedKeeps ==
    ASSUME NEW s \in Seq(Request), NEW m \in Request, Len(s) <= Room
    PROVE  /\ \A cmd : Without(s, cmd) /\ m # cmd => Without(Queued(s, m), cmd)
           /\ InOrder(s) /\ m # "register" => InOrder(Queued(s, m))
           /\ InOrder(s) /\ Without(s, "unregister") => InOrder(Queued(s, m))
<1> DEFINE q == Queued(s, m)
<1>0. /\ q \in Seq(Request)
      /\ \A i \in DOMAIN q :
            \/ i \in DOMAIN s /\ q[i] = s[i]
            \/ (\A j \in DOMAIN s : j < i) /\ q[i] = m
  BY QueuedAppends
<1> HIDE DEF q
<1>1. DOMAIN q \subseteq Nat /\ DOMAIN s \subseteq Nat
  BY <1>0, LenProperties
<1>2. ASSUME NEW cmd, Without(s, cmd), m # cmd
      PROVE  Without(q, cmd)
  <2>1. ASSUME NEW i \in DOMAIN q
        PROVE  q[i] # cmd
    BY <1>0, <1>1, <1>2 DEF Without
  <2> QED BY <2>1 DEF Without
<1>3. ASSUME InOrder(s), m # "register"
      PROVE  InOrder(q)
  <2>1. ASSUME NEW i \in DOMAIN q, NEW j \in DOMAIN q, i < j,
               q[i] = "unregister", q[j] = "register"
        PROVE  FALSE
    <3>1. j \in DOMAIN s /\ q[j] = s[j]
      BY <1>0, <1>1, <1>3, <2>1
    <3>2. i \in DOMAIN s /\ q[i] = s[i]
      BY <1>0, <1>1, <2>1, <3>1
    <3> QED BY <1>3, <2>1, <3>1, <3>2 DEF InOrder
  <2> QED BY <2>1 DEF InOrder
<1>4. ASSUME InOrder(s), Without(s, "unregister")
      PROVE  InOrder(q)
  <2>1. ASSUME NEW i \in DOMAIN q, NEW j \in DOMAIN q, i < j,
               q[i] = "unregister", q[j] = "register"
        PROVE  FALSE
    <3>1. ~ (i \in DOMAIN s /\ q[i] = s[i])
      BY <1>4, <2>1 DEF Without
    <3>2. (\A k \in DOMAIN s : k < i) /\ m = "unregister"
      BY <1>0, <1>1, <2>1, <3>1
    <3>3. j \in DOMAIN s
      BY <1>0, <1>1, <2>1, <3>2
    <3> QED BY <1>0, <1>1, <2>1, <3>2, <3>3
  <2> QED BY <2>1 DEF InOrder
<1> QED BY <1>2, <1>3, <1>4 DEF q

\* The same for the replies in the buffer of an application.
LEMMA RepliesKeep ==
    ASSUME NEW s \in Seq(Datagram), Len(s) <= Room, NEW ok \in BOOLEAN
    PROVE  /\ s # << >> /\ NoReply(s, ok) => NoReply(Tail(s), ok)
           /\ \A m \in Datagram :
                NoReply(s, ok) /\ m # Package("unregister", ok) =>
                    NoReply(Queued(s, m), ok)
<1>1. ASSUME s # << >>, NoReply(s, ok)
      PROVE  NoReply(Tail(s), ok)
  BY <1>1, TailShifts DEF NoReply
<1>2. ASSUME NEW m \in Datagram, NoReply(s, ok), m # Package("unregister", ok)
      PROVE  NoReply(Queued(s, m), ok)
  BY <1>2, QueuedAppends DEF NoReply
<1> QED BY <1>1, <1>2

-----------------------------------------------------------------------------
(* What the steps of the network do to the buffers.                        *)

-----------------------------------------------------------------------------
(* FpInv is inductive.  A step is that of one process, of its request in   *)
(* the daemon, or of the daemon's start or end.                            *)

\* The processes that have no part in a step keep what they have.
LEMMA OneProcess ==
    ASSUME FpInv, FcTypeOK', NEW p \in Pid, live' = live,
           \A q \in Pid : q # p =>
                /\ chan'[q] = chan[q] /\ inbox'[q] = inbox[q]
                /\ thread'[q] = thread[q] /\ flag'[q] = flag[q]
                /\ rejoin'[q] = rejoin[q]
                /\ q \in known' <=> q \in known,
           thread'[p] = "none" => flag'[p] = "not_sent",
           ~ rejoin'[p] => Promise(p)'
    PROVE  FpInv'
<1>1. ASSUME NEW q \in Pid, q # p, ~ rejoin'[q]
      PROVE  Promise(q)'
  BY <1>1 DEF FpInv, Promise
<1>2. ASSUME NEW q \in Pid, thread'[q] = "none"
      PROVE  flag'[q] = "not_sent"
  BY <1>2 DEF FpInv
<1> QED BY <1>1, <1>2 DEF FpInv

\* Steps of a process that send and receive nothing.
LEMMA SilentSteps ==
    ASSUME FpInv, NEW p \in Pid, UNCHANGED known,
           \/ CreateFeedThread(p) \/ OpenSocket(p) \/ TimeoutGiveUp(p)
           \/ UnregisterCall(p) \/ UnregisterCheck(p) \/ UnregisterWake(p)
           \/ UnregisterTimeout(p) \/ ProcessExit(p)
    PROVE  FpInv'
<1> USE DEF feedVars, mainVars, netVars
<1>1. UNCHANGED <<live, portFile, chan, inbox, server, leaked, rejoin>>
  BY DEF CreateFeedThread, OpenSocket, TimeoutGiveUp, UnregisterCall,
         UnregisterCheck, UnregisterWake, UnregisterTimeout, ProcessExit
<1>2. /\ thread \in [Pid -> {"none", "starting", "loop", "ended"}]
      /\ reg \in [Pid -> {"not_conf", "has_conf"}]
      /\ miss \in [Pid -> 0..MaxMissFeedback]
      /\ flag \in [Pid -> {"not_sent", "not_conf", "has_conf"}]
      /\ main \in [Pid -> {"none", "away", "check", "notify", "sleep", "done"}]
      /\ tries \in [Pid -> 0..MaxWait]
      /\ result \in [Pid -> {"none", "success", "fail"}]
      /\ thread[p] = "none" => flag[p] = "not_sent"
  BY DEF FpInv, FcTypeOK
<1>3. flag' = flag
  <2>1. CASE CreateFeedThread(p)
    BY <1>2, <2>1 DEF CreateFeedThread
  <2>2. CASE ~ CreateFeedThread(p)
    BY <2>2 DEF OpenSocket, TimeoutGiveUp, UnregisterCall, UnregisterCheck,
                UnregisterWake, UnregisterTimeout, ProcessExit
  <2> QED BY <2>1, <2>2
<1>4. /\ thread' \in [Pid -> {"none", "starting", "loop", "ended"}]
      /\ \A q \in Pid : thread'[q] = "none" => thread[q] = "none"
  BY <1>2 DEF CreateFeedThread, OpenSocket, TimeoutGiveUp, UnregisterCall,
              UnregisterCheck, UnregisterWake, UnregisterTimeout, ProcessExit
<1>5. /\ reg' \in [Pid -> {"not_conf", "has_conf"}]
      /\ miss' \in [Pid -> 0..MaxMissFeedback]
  BY <1>2, FeedConstants
     DEF CreateFeedThread, OpenSocket, TimeoutGiveUp, UnregisterCall,
         UnregisterCheck, UnregisterWake, UnregisterTimeout, ProcessExit
<1>6. /\ main' \in [Pid -> {"none", "away", "check", "notify", "sleep", "done"}]
      /\ result' \in [Pid -> {"none", "success", "fail"}]
  BY <1>2
     DEF CreateFeedThread, OpenSocket, TimeoutGiveUp, UnregisterCall, Return,
         UnregisterCheck, UnregisterWake, UnregisterTimeout, ProcessExit
<1>7. tries' \in [Pid -> 0..MaxWait]
  <2>1. CASE UnregisterCheck(p)
    <3>1. tries[p] + 1 \in 0..MaxWait /\ tries' = [tries EXCEPT ![p] = tries[p] + 1]
      BY <1>2, <2>1, FeedConstants DEF UnregisterCheck
    <3> QED BY <1>2, <3>1
  <2>2. CASE ~ UnregisterCheck(p)
    BY <1>2, <2>2 DEF CreateFeedThread, OpenSocket, TimeoutGiveUp, UnregisterCall,
                      UnregisterWake, UnregisterTimeout, ProcessExit
  <2> QED BY <2>1, <2>2
<1>8. FcTypeOK'
  BY <1>1, <1>2, <1>3, <1>4, <1>5, <1>6, <1>7 DEF FpInv, FcTypeOK, NetTypeOK
<1> QED BY <1>1, <1>3, <1>4, <1>8 DEF FpInv, Promise

\* A REGISTER, from the timer or in answer to a refusal.
LEMMA RegisterSteps ==
    ASSUME FpInv, NEW p \in Pid, UNCHANGED known,
           TimeoutRegister(p) \/ OnRegisterReply(p) \/ OnFeedReply(p)
    PROVE  FpInv'
<1> USE DEF mainVars
<1>1. /\ UNCHANGED <<thread, flag, main, tries, result, live, portFile>>
      /\ \/ SendRegister(p)
         \/ UNCHANGED <<server, leaked, rejoin, chan>>
  BY DEF TimeoutRegister, OnRegisterReply, OnFeedReply, Receives
<1>2. FcTypeOK
  BY DEF FpInv
<1>3. /\ chan' \in [Pid -> Seq(Request)]
      /\ \A q \in Pid : Len(chan'[q]) <= Room
      /\ \A q \in Pid : q # p => chan'[q] = chan[q] /\ rejoin'[q] = rejoin[q]
      /\ chan'[p] \in {chan[p], Queued(chan[p], "register")}
      /\ rejoin[p] => rejoin'[p]
      /\ ~ rejoin'[p] => chan'[p] = chan[p] \/ flag[p] = "not_sent"
      /\ server' \in [Pid -> Port \union {None}]
      /\ leaked' \in [Pid -> 0..MaxFd]
      /\ rejoin' \in [Pid -> BOOLEAN]
  <2>1. CASE SendRegister(p)
    BY <1>2, <2>1, RegisterSent
  <2>2. CASE UNCHANGED <<server, leaked, rejoin, chan>>
    BY <1>2, <2>2 DEF FcTypeOK, NetTypeOK
  <2> QED BY <1>1, <2>1, <2>2
<1>4. /\ inbox' \in [Pid -> Seq(Datagram)]
      /\ \A q \in Pid : Len(inbox'[q]) <= Room
      /\ \A q \in Pid : q # p => inbox'[q] = inbox[q]
      /\ inbox'[p] = inbox[p] \/ (inbox[p] # << >> /\ inbox'[p] = Tail(inbox[p]))
  <2>1. CASE TimeoutRegister(p)
    BY <1>2, <2>1 DEF TimeoutRegister, FcTypeOK, NetTypeOK
  <2>2. CASE OnRegisterReply(p) \/ OnFeedReply(p)
    <3>1. inbox[p] # << >> /\ inbox' = [inbox EXCEPT ![p] = Tail(@)]
      BY <2>2 DEF OnRegisterReply, OnFeedReply, Receives
    <3> QED BY <1>2, <3>1, DatagramTaken
  <2> QED BY <2>1, <2>2
<1>5. /\ reg' \in [Pid -> {"not_conf", "has_conf"}]
      /\ miss' \in [Pid -> 0..MaxMissFeedback]
  BY <1>2, FeedConstants
     DEF FcTypeOK, TimeoutRegister, OnRegisterReply, OnFeedReply
<1>6. FcTypeOK'
  BY <1>1, <1>2, <1>3, <1>4, <1>5 DEF FcTypeOK, NetTypeOK
<1>7. ASSUME ~ rejoin'[p]
      PROVE  Promise(p)'
  <2>1. /\ Promise(p)
        /\ chan[p] \in Seq(Request) /\ Len(chan[p]) <= Room
        /\ inbox[p] \in Seq(Datagram) /\ Len(inbox[p]) <= Room
    BY <1>2, <1>3, <1>7 DEF FpInv, FcTypeOK, NetTypeOK
  <2>2. /\ NoReply(inbox[p], TRUE) => NoReply(inbox'[p], TRUE)
        /\ NoReply(inbox[p], FALSE) => NoReply(inbox'[p], FALSE)
    BY <1>4, <2>1, RepliesKeep
  <2>3. CASE chan'[p] = chan[p]
    BY <1>1, <2>1, <2>2, <2>3 DEF Promise
  <2>4. CASE flag[p] = "not_sent" /\ chan'[p] = Queued(chan[p], "register")
    <3>1. Without(chan'[p], "unregister") /\ InOrder(chan'[p])
      BY <2>1, <2>4, QueuedKeeps DEF Promise, Request
    <3> QED BY <1>1, <2>1, <2>2, <2>4, <3>1 DEF Promise
  <2> QED BY <1>3, <1>7, <2>3, <2>4
<1>8. thread'[p] = "none" => flag'[p] = "not_sent"
  BY <1>1 DEF FpInv
<1> QED BY <1>1, <1>3, <1>4, <1>6, <1>7, <1>8, OneProcess

\* A FEED, from the timer.
LEMMA FeedSent ==
    ASSUME FpInv, NEW p \in Pid, UNCHANGED known, TimeoutFeed(p)
    PROVE  FpInv'
<1>1. /\ UNCHANGED <<thread, reg, flag, main, tries, result, live, portFile, inbox>>
      /\ UNCHANGED <<server, leaked, rejoin>>
      /\ SendTo(p, server[p], "feed")
      /\ miss' = [miss EXCEPT ![p] = @ + 1]
      /\ miss[p] < MaxMissFeedback
  BY DEF TimeoutFeed, SendAction, Patient, mainVars
<1>2. FcTypeOK
  BY DEF FpInv
<1>3. /\ chan' \in [Pid -> Seq(Request)]
      /\ \A q \in Pid : Len(chan'[q]) <= Room
      /\ \A q \in Pid : q # p => chan'[q] = chan[q]
      /\ chan'[p] \in {chan[p], Queued(chan[p], "feed")}
  BY <1>1, <1>2, SendQueues DEF Request
<1>4. FcTypeOK'
  <2>1. miss[p] + 1 \in 0..MaxMissFeedback
    BY <1>1, <1>2, FeedConstants DEF FcTypeOK
  <2>2. miss' \in [Pid -> 0..MaxMissFeedback]
    BY <1>1, <1>2, <2>1 DEF FcTypeOK
  <2> QED BY <1>1, <1>2, <1>3, <2>2 DEF FcTypeOK, NetTypeOK
<1>5. ASSUME ~ rejoin'[p]
      PROVE  Promise(p)'
  <2>1. /\ Promise(p)
        /\ chan[p] \in Seq(Request) /\ Len(chan[p]) <= Room
    BY <1>1, <1>2, <1>5 DEF FpInv, FcTypeOK, NetTypeOK
  <2>2. /\ InOrder(chan'[p])
        /\ Without(chan[p], "unregister") => Without(chan'[p], "unregister")
        /\ Without(chan[p], "register") => Without(chan'[p], "register")
    BY <1>3, <2>1, QueuedKeeps DEF Promise, Request
  <2> QED BY <1>1, <2>1, <2>2 DEF Promise
<1> QED BY <1>1, <1>3, <1>4, <1>5, OneProcess DEF FpInv

\* An UNREGISTER, when the main thread asks for it or after a refusal; and the
\* confirmation, which ends the thread.
LEMMA UnregisterSteps ==
    ASSUME FpInv, NEW p \in Pid, UNCHANGED known,
           OnSelfUnregister(p) \/ OnUnregisterReply(p)
    PROVE  FpInv'
<1>1. /\ UNCHANGED <<reg, miss, main, tries, result, live, portFile>>
      /\ UNCHANGED <<server, leaked, rejoin>>
      /\ SendTo(p, server[p], "unregister") \/ UNCHANGED chan
      /\ inbox[p] # << >> /\ inbox' = [inbox EXCEPT ![p] = Tail(@)]
      /\ thread[p] = "loop"
      /\ thread' = thread \/ thread' = [thread EXCEPT ![p] = "ended"]
  BY DEF OnSelfUnregister, OnUnregisterReply, Receives, SendAction, mainVars
<1>2. FcTypeOK
  BY DEF FpInv
<1>3. /\ chan' \in [Pid -> Seq(Request)]
      /\ \A q \in Pid : Len(chan'[q]) <= Room
      /\ \A q \in Pid : q # p => chan'[q] = chan[q]
      /\ chan'[p] \in {chan[p], Queued(chan[p], "unregister")}
  <2>1. CASE SendTo(p, server[p], "unregister")
    BY <1>2, <2>1, SendQueues DEF Request
  <2>2. CASE UNCHANGED chan
    BY <1>2, <2>2 DEF FcTypeOK, NetTypeOK
  <2> QED BY <1>1, <2>1, <2>2
<1>4. /\ inbox' \in [Pid -> Seq(Datagram)]
      /\ \A q \in Pid : Len(inbox'[q]) <= Room
      /\ \A q \in Pid : q # p => inbox'[q] = inbox[q]
      /\ inbox'[p] = Tail(inbox[p])
  BY <1>1, <1>2, DatagramTaken
<1>5. /\ thread' \in [Pid -> {"none", "starting", "loop", "ended"}]
      /\ \A q \in Pid : q # p => thread'[q] = thread[q]
      /\ thread'[p] # "none"
  BY <1>1, <1>2 DEF FcTypeOK
<1>6. /\ flag' \in [Pid -> {"not_sent", "not_conf", "has_conf"}]
      /\ \A q \in Pid : q # p => flag'[q] = flag[q]
  BY <1>2 DEF FcTypeOK, OnSelfUnregister, OnUnregisterReply
<1>7. FcTypeOK'
  BY <1>1, <1>2, <1>3, <1>4, <1>5, <1>6 DEF FcTypeOK, NetTypeOK
<1>8. ASSUME ~ rejoin'[p]
      PROVE  Promise(p)'
  <2>1. /\ Promise(p)
        /\ chan[p] \in Seq(Request) /\ Len(chan[p]) <= Room
        /\ inbox[p] \in Seq(Datagram) /\ Len(inbox[p]) <= Room
        /\ flag \in [Pid -> {"not_sent", "not_conf", "has_conf"}]
    BY <1>1, <1>2, <1>8 DEF FpInv, FcTypeOK, NetTypeOK
  <2>2. /\ InOrder(chan'[p])
        /\ Without(chan[p], "register") => Without(chan'[p], "register")
    BY <1>3, <2>1, QueuedKeeps DEF Promise, Request
  <2>3. NoReply(inbox[p], TRUE) => NoReply(inbox'[p], TRUE)
    BY <1>1, <1>4, <2>1, RepliesKeep
  <2>4. CASE OnSelfUnregister(p)
    <3>1. flag'[p] = "not_conf"
      BY <2>1, <2>4 DEF OnSelfUnregister
    <3> QED BY <1>1, <2>1, <2>2, <2>3, <3>1 DEF Promise
  <2>5. CASE OnUnregisterReply(p)
    <3>1. /\ inbox[p][1] = Head(inbox[p]) /\ 1 \in DOMAIN inbox[p]
          /\ Head(inbox[p]) \in Datagram
      BY <1>1, <2>1, TailShifts
    <3>2. Head(inbox[p]) = Package("unregister", Head(inbox[p]).ok)
      BY <2>5, <3>1 DEF OnUnregisterReply, Receives, Datagram, Package
    <3>3. CASE Head(inbox[p]).ok
      <4>1. /\ ~ NoReply(inbox[p], TRUE)
            /\ flag'[p] = "has_conf" /\ chan' = chan
        <5>1. Head(inbox[p]).ok = TRUE
          BY <3>1, <3>3 DEF Datagram
        <5> QED BY <2>1, <2>5, <3>1, <3>2, <3>3, <5>1
                DEF NoReply, OnUnregisterReply
      <4> QED BY <1>1, <2>1, <2>2, <4>1 DEF Promise
    <3>4. CASE ~ Head(inbox[p]).ok
      <4>1. Head(inbox[p]).ok = FALSE
        BY <3>1, <3>4 DEF Datagram
      <4>2. ~ NoReply(inbox[p], FALSE) /\ flag' = flag
        BY <2>5, <3>1, <3>2, <3>4, <4>1 DEF NoReply, OnUnregisterReply
      <4> QED BY <1>1, <2>1, <2>2, <2>3, <4>2 DEF Promise
    <3> QED BY <3>3, <3>4
  <2> QED BY <2>4, <2>5
<1> QED BY <1>1, <1>3, <1>4, <1>5, <1>6, <1>7, <1>8, OneProcess

\* The main thread's datagram to its own process.
LEMMA NotifyStep ==
    ASSUME FpInv, NEW p \in Pid, UNCHANGED known, UnregisterNotify(p)
    PROVE  FpInv'
<1> DEFINE note == Package("self_unreg", TRUE)
<1>1. /\ UNCHANGED <<thread, reg, miss, server, flag, leaked, rejoin>>
      /\ UNCHANGED <<tries, live, portFile, chan>>
      /\ \/ inbox' = [inbox EXCEPT ![p] = Queued(@, note)]
         \/ inbox' = inbox
  BY DEF UnregisterNotify, feedVars
<1>2. FcTypeOK /\ note \in Datagram
  BY DEF FpInv, Datagram, Package
<1>3. note # Package("unregister", TRUE) /\ note # Package("unregister", FALSE)
  BY DEF Package
<1> HIDE DEF note
<1>4. /\ inbox' \in [Pid -> Seq(Datagram)]
      /\ \A q \in Pid : Len(inbox'[q]) <= Room
      /\ \A q \in Pid : q # p => inbox'[q] = inbox[q]
      /\ inbox'[p] \in {inbox[p], Queued(inbox[p], note)}
  BY <1>1, <1>2, InboxQueues
<1>5. /\ main' \in [Pid -> {"none", "away", "check", "notify", "sleep", "done"}]
      /\ result' \in [Pid -> {"none", "success", "fail"}]
  BY <1>2 DEF FcTypeOK, UnregisterNotify, Return
<1>6. FcTypeOK'
  BY <1>1, <1>2, <1>4, <1>5 DEF FcTypeOK, NetTypeOK
<1>7. ASSUME ~ rejoin'[p]
      PROVE  Promise(p)'
  <2>1. /\ Promise(p)
        /\ inbox[p] \in Seq(Datagram) /\ Len(inbox[p]) <= Room
    BY <1>1, <1>2, <1>7 DEF FpInv, FcTypeOK, NetTypeOK
  <2>2. /\ NoReply(inbox[p], TRUE) => NoReply(inbox'[p], TRUE)
        /\ NoReply(inbox[p], FALSE) => NoReply(inbox'[p], FALSE)
    BY <1>2, <1>3, <1>4, <2>1, RepliesKeep
  <2> QED BY <1>1, <2>1, <2>2 DEF Promise
<1> QED BY <1>1, <1>4, <1>6, <1>7, OneProcess DEF FpInv

\* What every answer of the daemon has in common.
LEMMA ServedStep ==
    ASSUME FpInv, NEW p \in Pid, NEW cmd \in Request, NEW ok \in BOOLEAN,
           Serves(p, cmd), Answer(p, cmd, ok)
    PROVE  /\ UNCHANGED <<feedVars, mainVars, live, portFile>>
           /\ live # None
           /\ FcTypeOK'
           /\ \A q \in Pid : q # p => chan'[q] = chan[q] /\ inbox'[q] = inbox[q]
           /\ chan[p] # << >> /\ Head(chan[p]) = cmd /\ chan'[p] = Tail(chan[p])
           /\ inbox'[p] \in {inbox[p], Queued(inbox[p], Package(cmd, ok))}
           /\ Package(cmd, ok) \in Datagram
<1>1. /\ UNCHANGED <<feedVars, mainVars, live, portFile>>
      /\ live # None
      /\ chan[p] # << >> /\ Head(chan[p]) = cmd
      /\ chan' = [chan EXCEPT ![p] = Tail(@)]
      /\ \/ inbox' = [inbox EXCEPT ![p] = Queued(@, Package(cmd, ok))]
         \/ inbox' = inbox
  BY DEF Serves, Serving, Answer, Reply
<1>2. FcTypeOK /\ Package(cmd, ok) \in Datagram
  BY DEF FpInv, Datagram, Package
<1>3. /\ chan' \in [Pid -> Seq(Request)]
      /\ \A q \in Pid : Len(chan'[q]) <= Room
      /\ \A q \in Pid : q # p => chan'[q] = chan[q]
      /\ chan'[p] = Tail(chan[p])
  BY <1>1, <1>2, RequestTaken
<1>4. /\ inbox' \in [Pid -> Seq(Datagram)]
      /\ \A q \in Pid : Len(inbox'[q]) <= Room
      /\ \A q \in Pid : q # p => inbox'[q] = inbox[q]
      /\ inbox'[p] \in {inbox[p], Queued(inbox[p], Package(cmd, ok))}
  BY <1>1, <1>2, InboxQueues
<1>5. FcTypeOK'
  BY <1>1, <1>2, <1>3, <1>4 DEF FcTypeOK, NetTypeOK, feedVars, mainVars
<1> QED BY <1>1, <1>2, <1>3, <1>4, <1>5

\* The daemon's answers: a REGISTER enters no process whose UNREGISTER it has
\* confirmed, since there is none in front of it.
LEMMA ServeSteps ==
    ASSUME FpInv, NEW p \in Pid, Serve(p)
    PROVE  FpInv'
<1> DEFINE keeps(cmd, ok) ==
        /\ UNCHANGED <<feedVars, mainVars, live, portFile>>
        /\ live # None
        /\ FcTypeOK'
        /\ \A q \in Pid : q # p => chan'[q] = chan[q] /\ inbox'[q] = inbox[q]
        /\ chan[p] # << >> /\ Head(chan[p]) = cmd /\ chan'[p] = Tail(chan[p])
        /\ inbox'[p] \in {inbox[p], Queued(inbox[p], Package(cmd, ok))}
        /\ Package(cmd, ok) \in Datagram
<1>1. ASSUME NEW cmd \in Request, NEW ok \in BOOLEAN, keeps(cmd, ok),
             \A q \in Pid : q # p => (q \in known' <=> q \in known),
             ~ rejoin[p] /\ Promise(p) => Promise(p)'
      PROVE  FpInv'
  BY <1>1, OneProcess DEF feedVars, FpInv
<1>2. /\ FcTypeOK
      /\ chan[p] \in Seq(Request) /\ Len(chan[p]) <= Room
      /\ inbox[p] \in Seq(Datagram) /\ Len(inbox[p]) <= Room
  BY DEF FpInv, FcTypeOK, NetTypeOK
<1>3. ASSUME NEW cmd \in Request, NEW ok \in BOOLEAN, keeps(cmd, ok)
      PROVE  /\ \A c : Without(chan[p], c) => Without(chan'[p], c)
             /\ InOrder(chan[p]) => InOrder(chan'[p])
             /\ InOrder(chan[p]) /\ cmd = "unregister" => Without(chan'[p], "register")
             /\ chan[p][1] = cmd /\ 1 \in DOMAIN chan[p]
  <2>1. chan[p][1] = cmd /\ 1 \in DOMAIN chan[p]
    BY <1>2, <1>3, TailShifts
  <2> QED BY <1>2, <1>3, <2>1, TailKeeps
<1>4. ASSUME NEW cmd \in Request, NEW ok \in BOOLEAN, keeps(cmd, ok),
             NEW yes \in BOOLEAN, cmd # "unregister" \/ ok # yes
      PROVE  NoReply(inbox[p], yes) => NoReply(inbox'[p], yes)
  <2>1. Package(cmd, ok) # Package("unregister", yes)
    BY <1>4 DEF Package
  <2> QED BY <1>2, <1>4, <2>1, RepliesKeep
<1>5. CASE ServeRegister(p) \/ RefuseRegister(p)
  <2>1. PICK ok \in BOOLEAN : keeps("register", ok)
    <3>1. PICK ok \in BOOLEAN : Serves(p, "register") /\ Answer(p, "register", ok)
      BY <1>5 DEF ServeRegister, RefuseRegister
    <3> QED BY <3>1, ServedStep DEF Request
  <2>2. \A q \in Pid : q # p => (q \in known' <=> q \in known)
    BY <1>5 DEF ServeRegister, RefuseRegister
  <2>3. ASSUME ~ rejoin[p], Promise(p)
        PROVE  Promise(p)'
    <3>1. /\ InOrder(chan'[p])
          /\ Without(chan[p], "unregister") => Without(chan'[p], "unregister")
          /\ ~ Without(chan[p], "register")
      BY <1>3, <2>1, <2>3 DEF Promise, Request, Without
    <3>2. /\ NoReply(inbox[p], TRUE) => NoReply(inbox'[p], TRUE)
          /\ NoReply(inbox[p], FALSE) => NoReply(inbox'[p], FALSE)
      BY <1>4, <2>1 DEF Request
    <3> QED BY <2>1, <2>3, <3>1, <3>2 DEF Promise, feedVars
  <2> QED BY <1>1, <2>1, <2>2, <2>3 DEF Request
<1>6. CASE ServeFeed(p)
  <2> DEFINE ok == p \in known
  <2>0. ok \in BOOLEAN /\ "feed" \in Request
    BY DEF Request
  <2>1. keeps("feed", ok)
    <3>1. Serves(p, "feed") /\ Answer(p, "feed", ok)
      BY <1>6 DEF ServeFeed
    <3> QED BY <2>0, <3>1, ServedStep
  <2> HIDE DEF ok
  <2>2. known' = known
    BY <1>6 DEF ServeFeed
  <2>3. ASSUME ~ rejoin[p], Promise(p)
        PROVE  Promise(p)'
    <3>1. /\ InOrder(chan'[p])
          /\ Without(chan[p], "unregister") => Without(chan'[p], "unregister")
          /\ Without(chan[p], "register") => Without(chan'[p], "register")
      BY <1>3, <2>0, <2>1, <2>3 DEF Promise
    <3>2. /\ NoReply(inbox[p], TRUE) => NoReply(inbox'[p], TRUE)
          /\ NoReply(inbox[p], FALSE) => NoReply(inbox'[p], FALSE)
      BY <1>4, <2>0, <2>1
    <3> QED BY <2>1, <2>2, <2>3, <3>1, <3>2 DEF Promise, feedVars
  <2> QED BY <1>1, <2>0, <2>1, <2>2, <2>3
<1>7. CASE ServeUnregister(p)
  <2>1. keeps("unregister", p \in known)
    <3>1. Serves(p, "unregister") /\ Answer(p, "unregister", p \in known)
      BY <1>7 DEF ServeUnregister
    <3>2. (p \in known) \in BOOLEAN /\ "unregister" \in Request
      BY DEF Request
    <3> QED BY <3>1, <3>2, ServedStep
  <2>2. known' = known \ {p}
    BY <1>7 DEF ServeUnregister
  <2>4. (p \in known) \in BOOLEAN /\ "unregister" \in Request
    BY DEF Request
  <2>3. ASSUME ~ rejoin[p], Promise(p)
        PROVE  Promise(p)'
    <3>1. InOrder(chan[p])
      BY <2>3 DEF Promise
    <3>2. /\ InOrder(chan'[p]) /\ Without(chan'[p], "register")
          /\ chan[p][1] = "unregister" /\ 1 \in DOMAIN chan[p]
      BY <1>3, <2>1, <2>4, <3>1
    <3>3. ~ Without(chan[p], "unregister")
      BY <3>2 DEF Without
    <3>4. flag'[p] # "not_sent" /\ live' # None /\ p \notin known'
      BY <2>1, <2>2, <2>3, <3>3 DEF Promise, feedVars
    <3> QED BY <3>2, <3>4 DEF Promise
  <2> QED BY <1>1, <2>1, <2>2, <2>3, <2>4
<1> QED BY <1>5, <1>6, <1>7 DEF Serve

\* A lost datagram leaves the order of the others.
LEMMA LossSteps ==
    ASSUME FpInv, NEW p \in Pid, LoseRequest(p) \/ LoseReply(p)
    PROVE  FpInv'
<1>1. /\ FcTypeOK
      /\ chan[p] \in Seq(Request) /\ Len(chan[p]) <= Room
      /\ inbox[p] \in Seq(Datagram) /\ Len(inbox[p]) <= Room
  BY DEF FpInv, FcTypeOK, NetTypeOK
<1>2. CASE LoseRequest(p)
  <2>1. /\ UNCHANGED <<feedVars, mainVars, live, portFile, inbox, known>>
        /\ chan[p] # << >> /\ chan' = [chan EXCEPT ![p] = Tail(@)]
    BY <1>2 DEF LoseRequest
  <2>2. /\ chan' \in [Pid -> Seq(Request)]
        /\ \A q \in Pid : Len(chan'[q]) <= Room
        /\ \A q \in Pid : q # p => chan'[q] = chan[q]
        /\ chan'[p] = Tail(chan[p])
    BY <1>1, <2>1, RequestTaken
  <2>3. FcTypeOK'
    BY <1>1, <2>1, <2>2 DEF FcTypeOK, NetTypeOK, feedVars, mainVars
  <2>4. ASSUME ~ rejoin'[p]
        PROVE  Promise(p)'
    <3>1. Promise(p)
      BY <2>1, <2>4 DEF FpInv, feedVars
    <3>2. /\ InOrder(chan'[p])
          /\ Without(chan[p], "unregister") => Without(chan'[p], "unregister")
          /\ Without(chan[p], "register") => Without(chan'[p], "register")
      BY <1>1, <2>1, <2>2, <3>1, TailKeeps DEF Promise
    <3> QED BY <2>1, <3>1, <3>2 DEF Promise, feedVars
  <2> QED BY <2>1, <2>2, <2>3, <2>4, OneProcess DEF FpInv, feedVars
<1>3. CASE LoseReply(p)
  <2>1. /\ UNCHANGED <<feedVars, mainVars, live, portFile, chan, known>>
        /\ inbox[p] # << >> /\ inbox' = [inbox EXCEPT ![p] = Tail(@)]
    BY <1>3 DEF LoseReply
  <2>2. /\ inbox' \in [Pid -> Seq(Datagram)]
        /\ \A q \in Pid : Len(inbox'[q]) <= Room
        /\ \A q \in Pid : q # p => inbox'[q] = inbox[q]
        /\ inbox'[p] = Tail(inbox[p])
    BY <1>1, <2>1, DatagramTaken
  <2>3. FcTypeOK'
    BY <1>1, <2>1, <2>2 DEF FcTypeOK, NetTypeOK, feedVars, mainVars
  <2>4. ASSUME ~ rejoin'[p]
        PROVE  Promise(p)'
    <3>1. Promise(p)
      BY <2>1, <2>4 DEF FpInv, feedVars
    <3>2. /\ NoReply(inbox[p], TRUE) => NoReply(inbox'[p], TRUE)
          /\ NoReply(inbox[p], FALSE) => NoReply(inbox'[p], FALSE)
      BY <1>1, <2>1, <2>2, RepliesKeep
    <3> QED BY <2>1, <3>1, <3>2 DEF Promise, feedVars
  <2> QED BY <2>1, <2>2, <2>3, <2>4, OneProcess DEF FpInv, feedVars
<1> QED BY <1>2, <1>3

\* The daemon's start and end, and the port file it writes between them.  Its
\* start is on record for the processes it finds while they unregister.
LEMMA ServerSteps ==
    ASSUME FpInv,
           \/ \E port \in Port, found \in SUBSET Pid : ServerStart(port, found)
           \/ ServerPublish
           \/ ServerCrash
    PROVE  FpInv'
<1>1. CASE \E port \in Port, found \in SUBSET Pid : ServerStart(port, found)
  <2>1. PICK port \in Port : live = None /\ live' = port /\ portFile' = Empty
    BY <1>1 DEF ServerStart, BindPort
  <2>2. /\ UNCHANGED <<thread, reg, miss, server, flag, leaked, mainVars, chan, inbox>>
        /\ \A p \in Pid : rejoin'[p] = (rejoin[p] \/ (p \in known' /\ flag[p] # "not_sent"))
        /\ rejoin' \in [Pid -> BOOLEAN]
    <3>1. PICK found : known' = found /\ UNCHANGED <<mainVars, chan, inbox>>
                /\ UNCHANGED <<thread, reg, miss, server, flag, leaked>>
                /\ rejoin' = [p \in Pid |-> rejoin[p] \/ (p \in found /\ flag[p] # "not_sent")]
      BY <1>1 DEF ServerStart, BindPort, feedVars
    <3>2. rejoin \in [Pid -> BOOLEAN]
      BY DEF FpInv, FcTypeOK
    <3> QED BY <3>1, <3>2
  <2>3. FcTypeOK'
    BY <2>1, <2>2 DEF FpInv, FcTypeOK, NetTypeOK, mainVars
  <2>4. ASSUME NEW p \in Pid, ~ rejoin'[p]
        PROVE  Promise(p)'
    <3>1. ~ rejoin[p] /\ (p \notin known' \/ flag[p] = "not_sent")
      BY <2>2, <2>4
    <3>2. Promise(p)
      BY <3>1 DEF FpInv
    <3>3. CASE flag[p] = "not_sent"
      BY <2>2, <3>2, <3>3 DEF Promise
    <3>4. CASE p \notin known'
      BY <2>2, <3>2, <3>4 DEF Promise
    <3> QED BY <3>1, <3>3, <3>4
  <2> QED BY <2>2, <2>3, <2>4 DEF FpInv
<1>2. CASE ServerPublish
  <2>1. /\ UNCHANGED <<feedVars, mainVars, live, chan, inbox, known>>
        /\ portFile' = live
    BY <1>2 DEF ServerPublish, PublishPort
  <2>2. FcTypeOK'
    BY <2>1 DEF FpInv, FcTypeOK, NetTypeOK, feedVars, mainVars
  <2> QED BY <2>1, <2>2 DEF FpInv, Promise, feedVars
<1>3. CASE ServerCrash
  <2>1. /\ UNCHANGED <<feedVars, mainVars, portFile, inbox>>
        /\ live' = None /\ known' = {}
        /\ chan' = [p \in Pid |-> << >>]
    BY <1>3 DEF ServerCrash, ClosePort
  <2>2. FcTypeOK'
    <3>1. /\ chan' \in [Pid -> Seq(Request)]
          /\ \A p \in Pid : Len(chan'[p]) <= Room
      BY <2>1, TransportConstants
    <3> QED BY <2>1, <3>1 DEF FpInv, FcTypeOK, NetTypeOK, feedVars, mainVars
  <2>3. ASSUME NEW p \in Pid, ~ rejoin'[p]
        PROVE  Promise(p)'
    <3>1. Promise(p)
      BY <2>1, <2>3 DEF FpInv, feedVars
    <3>2. chan'[p] = << >>
      BY <2>1
    <3>3. /\ InOrder(chan'[p])
          /\ Without(chan'[p], "unregister") /\ Without(chan'[p], "register")
      BY <3>2 DEF InOrder, Without
    <3> QED BY <2>1, <3>1, <3>3 DEF Promise, feedVars
  <2> QED BY <2>1, <2>2, <2>3 DEF FpInv, feedVars
<1> QED BY <1>1, <1>2, <1>3

\* FpInv holds in every state of every run.
THEOREM FeedInvariant == FpSpec => []FpInv
<1>1. FpInit => FpInv
  <2> SUFFICES ASSUME FpInit
               PROVE  FpInv
    OBVIOUS
  <2>1. /\ live = None /\ portFile = None
        /\ chan = [p \in Pid |-> << >>] /\ inbox = [p \in Pid |-> << >>]
        /\ flag = [p \in Pid |-> "not_sent"]
    BY DEF FpInit, FcInit, NetInit
  <2>2. FcTypeOK
    <3>1. NetTypeOK
      BY <2>1, TransportConstants DEF NetTypeOK
    <3>2. 0 \in 0..MaxMissFeedback /\ 0 \in 0..MaxWait /\ 0 \in 0..MaxFd
      BY FeedConstants
    <3> QED BY <3>1, <3>2 DEF FpInit, FcInit, FcTypeOK
  <2>3. ASSUME NEW p \in Pid
        PROVE  Promise(p)
    <3>1. chan[p] = << >> /\ inbox[p] = << >> /\ flag[p] = "not_sent"
      BY <2>1
    <3>2. InOrder(<< >>) /\ Without(<< >>, "unregister")
      BY DEF InOrder, Without
    <3>3. NoReply(<< >>, TRUE) /\ NoReply(<< >>, FALSE)
      BY DEF NoReply
    <3> QED BY <3>1, <3>2, <3>3 DEF Promise
  <2> QED BY <2>1, <2>2, <2>3 DEF FpInv
<1>2. FpInv /\ [FpNext]_FpVars => FpInv'
  <2> SUFFICES ASSUME FpInv, [FpNext]_FpVars
               PROVE  FpInv'
    OBVIOUS
  <2>1. CASE \/ \E port \in Port, found \in SUBSET {p \in Pid : thread[p] \in {"starting", "loop"}} :
                    ServerStart(port, found)
             \/ ServerPublish
             \/ ServerCrash
    <3>1. \/ \E port \in Port, found \in SUBSET Pid : ServerStart(port, found)
          \/ ServerPublish
          \/ ServerCrash
      BY <2>1
    <3> QED BY <3>1, ServerSteps
  <2>2. ASSUME NEW p \in Pid, Serve(p)
        PROVE  FpInv'
    BY <2>2, ServeSteps
  <2>3. ASSUME NEW p \in Pid, LoseRequest(p) \/ LoseReply(p)
        PROVE  FpInv'
    BY <2>3, LossSteps
  <2>4. ASSUME NEW p \in Pid, ClientStep(p), UNCHANGED known
        PROVE  FpInv'
    <3>1. CASE \/ CreateFeedThread(p) \/ OpenSocket(p) \/ TimeoutGiveUp(p)
               \/ UnregisterCall(p) \/ UnregisterCheck(p) \/ UnregisterWake(p)
               \/ UnregisterTimeout(p) \/ ProcessExit(p)
      BY <2>4, <3>1, SilentSteps
    <3>2. CASE TimeoutRegister(p) \/ OnRegisterReply(p) \/ OnFeedReply(p)
      BY <2>4, <3>2, RegisterSteps
    <3>3. CASE TimeoutFeed(p)
      BY <2>4, <3>3, FeedSent
    <3>4. CASE OnSelfUnregister(p) \/ OnUnregisterReply(p)
      BY <2>4, <3>4, UnregisterSteps
    <3>5. CASE UnregisterNotify(p)
      BY <2>4, <3>5, NotifyStep
    <3> QED BY <2>4, <3>1, <3>2, <3>3, <3>4, <3>5
            DEF ClientStep, FeedTimeout, ReceiveDatagram
  <2>5. CASE UNCHANGED FpVars
    <3>1. UNCHANGED <<feedVars, mainVars, netVars, known>>
      BY <2>5 DEF FpVars, FcVars
    <3>2. FcTypeOK'
      BY <3>1 DEF FpInv, FcTypeOK, NetTypeOK, feedVars, mainVars, netVars
    <3> QED BY <3>1, <3>2 DEF FpInv, Promise, feedVars, netVars
  <2> QED BY <2>1, <2>2, <2>3, <2>4, <2>5 DEF FpNext
<1> QED BY <1>1, <1>2, PTL DEF FpSpec, FpSafety

\* Type correctness of the library, and the bounds of its counters.
THEOREM FeedTypeCorrect == FpSpec => []FcTypeOK
<1>1. FpInv => FcTypeOK
  BY DEF FpInv
<1> QED BY <1>1, FeedInvariant, PTL

\* A process that saw its UNREGISTER confirmed is unknown to the daemon, also
\* to one that starts later, unless between the two its own timer sent the
\* daemon a REGISTER or a daemon started that found it by its name; whatever
\* was lost and however its two threads interleaved.
THEOREM ConfirmedIsGone == FpSpec => []ConfirmedMeansGone
<1>1. FpInv => ConfirmedMeansGone
  BY DEF FpInv, Promise, ConfirmedMeansGone, Without
<1> QED BY <1>1, FeedInvariant, PTL

=============================================================================
