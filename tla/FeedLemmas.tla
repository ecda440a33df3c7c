----------------------------- MODULE FeedLemmas -----------------------------
(* What the steps of an application and of the sockets do to the variables *)
(* of FeedClient, whoever takes them: facts for the proofs about every     *)
(* module that composes FeedClient with a daemon.                          *)
EXTENDS FeedClient, SequenceLemmas

-----------------------------------------------------------------------------
(* What a buffer holds.                                                    *)

\* The head of a buffer is taken and the others move up.
LEMMA TailShifts ==
    ASSUME NEW S, NEW s \in Seq(S), s # << >>
    PROVE  /\ Tail(s) \in Seq(S)
           /\ Len(Tail(s)) = Len(s) - 1
           /\ Head(s) = s[1] /\ Head(s) \in S /\ 1 \in DOMAIN s
           /\ \A i \in DOMAIN Tail(s) : i + 1 \in DOMAIN s /\ Tail(s)[i] = s[i + 1]
<1>1. Len(s) \in Nat \ {0} /\ DOMAIN s = 1 .. Len(s)
  BY EmptySeq, LenProperties
<1>2. /\ Tail(s) \in Seq(S) /\ Head(s) \in S /\ Head(s) = s[1]
      /\ Len(Tail(s)) = Len(s) - 1
      /\ \A i \in 1 .. Len(Tail(s)) : Tail(s)[i] = s[i + 1]
  BY HeadTailProperties
<1>3. DOMAIN Tail(s) = 1 .. Len(s) - 1
  BY <1>2, LenProperties
<1> QED BY <1>1, <1>2, <1>3

\* A datagram is put behind the others, or dropped.
LEMMA QueuedAppends ==
    ASSUME NEW S, NEW s \in Seq(S), NEW m \in S, Len(s) <= Room
    PROVE  /\ Queued(s, m) \in Seq(S)
           /\ Len(Queued(s, m)) <= Room
           /\ \A i \in DOMAIN Queued(s, m) :
                \/ i \in DOMAIN s /\ Queued(s, m)[i] = s[i]
                \/ (\A j \in DOMAIN s : j < i) /\ Queued(s, m)[i] = m
<1>1. Len(s) \in Nat /\ DOMAIN s = 1 .. Len(s)
  BY LenProperties
<1>2. CASE Len(s) < Room
  <2>1. Queued(s, m) = Append(s, m)
    BY <1>2 DEF Queued
  <2>2. /\ Append(s, m) \in Seq(S) /\ Len(Append(s, m)) = Len(s) + 1
        /\ \A i \in 1 .. Len(s) : Append(s, m)[i] = s[i]
        /\ Append(s, m)[Len(s) + 1] = m
    BY AppendProperties
  <2>3. DOMAIN Append(s, m) = 1 .. Len(s) + 1
    BY <2>2, LenProperties
  <2>4. ASSUME NEW i \in DOMAIN Append(s, m)
        PROVE  \/ i \in DOMAIN s /\ Append(s, m)[i] = s[i]
               \/ (\A j \in DOMAIN s : j < i) /\ Append(s, m)[i] = m
    <3>1. CASE i \in 1 .. Len(s)
      BY <1>1, <2>2, <3>1
    <3>2. CASE i = Len(s) + 1
      BY <1>1, <2>2, <3>2
    <3> QED BY <1>1, <2>3, <3>1, <3>2
  <2> QED BY <1>1, <1>2, <2>1, <2>2, <2>4, TransportConstants
<1>3. CASE ~ (Len(s) < Room)
  BY <1>1, <1>3 DEF Queued
<1> QED BY <1>2, <1>3

-----------------------------------------------------------------------------
(* What the steps of the network do to the buffers.                        *)

\* A request that is sent reaches the buffer of the daemon, or is lost.
LEMMA SendQueues ==
    ASSUME FcTypeOK, NEW p \in Pid, NEW port, NEW cmd \in Request,
           SendTo(p, port, cmd)
    PROVE  /\ chan' \in [Pid -> Seq(Request)]
           /\ \A q \in Pid : Len(chan'[q]) <= Room
           /\ \A q \in Pid : q # p => chan'[q] = chan[q]
           /\ chan'[p] \in {chan[p], Queued(chan[p], cmd)}
<1>1. /\ chan \in [Pid -> Seq(Request)]
      /\ \A q \in Pid : Len(chan[q]) <= Room
  BY DEF FcTypeOK, NetTypeOK
<1>2. Queued(chan[p], cmd) \in Seq(Request) /\ Len(Queued(chan[p], cmd)) <= Room
  BY <1>1, QueuedAppends
<1>3. CASE chan' = [chan EXCEPT ![p] = Queued(@, cmd)]
  <2>1. chan' = [q \in Pid |-> IF q = p THEN Queued(chan[p], cmd) ELSE chan[q]]
    BY <1>1, <1>3
  <2> QED BY <1>1, <1>2, <2>1
<1>4. CASE chan' = chan
  BY <1>1, <1>4
<1> QED BY <1>3, <1>4 DEF SendTo

\* The daemon takes the request at the head of a buffer, or loses it.
LEMMA RequestTaken ==
    ASSUME FcTypeOK, NEW p \in Pid, chan[p] # << >>,
           chan' = [chan EXCEPT ![p] = Tail(@)]
    PROVE  /\ chan' \in [Pid -> Seq(Request)]
           /\ \A q \in Pid : Len(chan'[q]) <= Room
           /\ \A q \in Pid : q # p => chan'[q] = chan[q]
           /\ chan'[p] = Tail(chan[p])
<1>1. /\ chan \in [Pid -> Seq(Request)]
      /\ \A q \in Pid : Len(chan[q]) <= Room
  BY DEF FcTypeOK, NetTypeOK
<1>2. Tail(chan[p]) \in Seq(Request) /\ Len(Tail(chan[p])) <= Room
  <2>1. /\ Tail(chan[p]) \in Seq(Request)
        /\ Len(Tail(chan[p])) = Len(chan[p]) - 1
    BY <1>1, TailShifts
  <2>2. Len(chan[p]) \in Nat /\ Len(chan[p]) <= Room
    BY <1>1, LenProperties
  <2> QED BY <2>1, <2>2, TransportConstants
<1>3. chan' = [q \in Pid |-> IF q = p THEN Tail(chan[p]) ELSE chan[q]]
  BY <1>1
<1> QED BY <1>1, <1>2, <1>3

\* A datagram reaches the buffer of an application, or is lost.
LEMMA InboxQueues ==
    ASSUME FcTypeOK, NEW p \in Pid, NEW m \in Datagram,
           \/ inbox' = [inbox EXCEPT ![p] = Queued(@, m)]
           \/ inbox' = inbox
    PROVE  /\ inbox' \in [Pid -> Seq(Datagram)]
           /\ \A q \in Pid : Len(inbox'[q]) <= Room
           /\ \A q \in Pid : q # p => inbox'[q] = inbox[q]
           /\ inbox'[p] \in {inbox[p], Queued(inbox[p], m)}
<1>1. /\ inbox \in [Pid -> Seq(Datagram)]
      /\ \A q \in Pid : Len(inbox[q]) <= Room
  BY DEF FcTypeOK, NetTypeOK
<1>2. Queued(inbox[p], m) \in Seq(Datagram) /\ Len(Queued(inbox[p], m)) <= Room
  BY <1>1, QueuedAppends
<1>3. CASE inbox' = [inbox EXCEPT ![p] = Queued(@, m)]
  <2>1. inbox' = [q \in Pid |-> IF q = p THEN Queued(inbox[p], m) ELSE inbox[q]]
    BY <1>1, <1>3
  <2> QED BY <1>1, <1>2, <2>1
<1>4. CASE inbox' = inbox
  BY <1>1, <1>4
<1> QED BY <1>3, <1>4

\* The application takes the datagram at the head of its buffer, or loses it.
LEMMA DatagramTaken ==
    ASSUME FcTypeOK, NEW p \in Pid, inbox[p] # << >>,
           inbox' = [inbox EXCEPT ![p] = Tail(@)]
    PROVE  /\ inbox' \in [Pid -> Seq(Datagram)]
           /\ \A q \in Pid : Len(inbox'[q]) <= Room
           /\ \A q \in Pid : q # p => inbox'[q] = inbox[q]
           /\ inbox'[p] = Tail(inbox[p])
<1>1. /\ inbox \in [Pid -> Seq(Datagram)]
      /\ \A q \in Pid : Len(inbox[q]) <= Room
  BY DEF FcTypeOK, NetTypeOK
<1>2. Tail(inbox[p]) \in Seq(Datagram) /\ Len(Tail(inbox[p])) <= Room
  <2>1. /\ Tail(inbox[p]) \in Seq(Datagram)
        /\ Len(Tail(inbox[p])) = Len(inbox[p]) - 1
    BY <1>1, TailShifts
  <2>2. Len(inbox[p]) \in Nat /\ Len(inbox[p]) <= Room
    BY <1>1, LenProperties
  <2> QED BY <2>1, <2>2, TransportConstants
<1>3. inbox' = [q \in Pid |-> IF q = p THEN Tail(inbox[p]) ELSE inbox[q]]
  BY <1>1
<1> QED BY <1>1, <1>2, <1>3

\* wd_send_register_pg queues a REGISTER at most, and not behind the process's
\* own UNREGISTER unless that is on record.
LEMMA RegisterSent ==
    ASSUME FcTypeOK, NEW p \in Pid, SendRegister(p)
    PROVE  /\ chan' \in [Pid -> Seq(Request)]
           /\ \A q \in Pid : Len(chan'[q]) <= Room
           /\ \A q \in Pid : q # p => chan'[q] = chan[q] /\ rejoin'[q] = rejoin[q]
           /\ chan'[p] \in {chan[p], Queued(chan[p], "register")}
           /\ rejoin[p] => rejoin'[p]
           /\ ~ rejoin'[p] => chan'[p] = chan[p] \/ flag[p] = "not_sent"
           /\ server' \in [Pid -> Port \union {None}]
           /\ leaked' \in [Pid -> 0..MaxFd]
           /\ rejoin' \in [Pid -> BOOLEAN]
<1>1. /\ chan \in [Pid -> Seq(Request)]
      /\ \A q \in Pid : Len(chan[q]) <= Room
      /\ server \in [Pid -> Port \union {None}]
      /\ leaked \in [Pid -> 0..MaxFd]
      /\ rejoin \in [Pid -> BOOLEAN]
      /\ portFile \in Port \union {None, Empty}
  BY DEF FcTypeOK, NetTypeOK
<1>2. CASE portFile = None \/ leaked[p] = MaxFd
  BY <1>1, <1>2 DEF SendRegister
<1>3. CASE ~ (portFile = None \/ leaked[p] = MaxFd)
  <2>1. leaked' \in [Pid -> 0..MaxFd]
    <3>1. leaked[p] + 1 \in 0..MaxFd
      BY <1>1, <1>3, FeedConstants
    <3> QED BY <1>1, <1>3, <3>1 DEF SendRegister
  <2>2. CASE portFile = Empty
    BY <1>1, <1>3, <2>1, <2>2 DEF SendRegister
  <2>3. CASE portFile # Empty
    <3>1. /\ server' = [server EXCEPT ![p] = portFile]
          /\ rejoin' = [rejoin EXCEPT ![p] =
                            @ \/ (flag[p] # "not_sent" /\ portFile = live)]
          /\ SendTo(p, portFile, "register")
      BY <1>3, <2>3 DEF SendRegister
    <3>2. portFile \in Port
      BY <1>1, <1>3, <2>3
    <3>3. /\ chan' \in [Pid -> Seq(Request)]
          /\ \A q \in Pid : Len(chan'[q]) <= Room
          /\ \A q \in Pid : q # p => chan'[q] = chan[q]
          /\ chan'[p] \in {chan[p], Queued(chan[p], "register")}
      BY <3>1, SendQueues DEF Request
    <3>4. ~ rejoin'[p] => chan'[p] = chan[p] \/ flag[p] = "not_sent"
      BY <1>1, <3>1 DEF SendTo
    <3>5. rejoin[p] => rejoin'[p]
      BY <1>1, <3>1
    <3>6. /\ rejoin' \in [Pid -> BOOLEAN]
          /\ \A q \in Pid : q # p => rejoin'[q] = rejoin[q]
      <4>1. (rejoin[p] \/ (flag[p] # "not_sent" /\ portFile = live)) \in BOOLEAN
        OBVIOUS
      <4> QED BY <1>1, <3>1, <4>1, Zenon
    <3> QED BY <1>1, <2>1, <3>1, <3>2, <3>3, <3>4, <3>5, <3>6
  <2> QED BY <2>2, <2>3
<1> QED BY <1>2, <1>3

-----------------------------------------------------------------------------
(* Types.                                                                  *)

\* The creation of the feed thread and the callbacks of its loop keep every
\* variable's type.
LEMMA ThreadKeepsTypes ==
    ASSUME FcTypeOK, NEW p \in Pid,
           CreateFeedThread(p) \/ OpenSocket(p) \/ FeedTimeout(p) \/ ReceiveDatagram(p)
    PROVE  FcTypeOK'
<1> USE DEF mainVars
<1>1. /\ live' = live /\ portFile' = portFile
      /\ tries' = tries /\ result' = result
  BY DEF CreateFeedThread, OpenSocket, FeedTimeout, TimeoutRegister, TimeoutFeed,
         TimeoutGiveUp, ReceiveDatagram, OnRegisterReply, OnFeedReply,
         OnSelfUnregister, OnUnregisterReply, Receives, netVars
<1>2. /\ chan' \in [Pid -> Seq(Request)]
      /\ \A q \in Pid : Len(chan'[q]) <= Room
      /\ server' \in [Pid -> Port \union {None}]
      /\ leaked' \in [Pid -> 0..MaxFd]
      /\ rejoin' \in [Pid -> BOOLEAN]
  <2>1. CASE SendRegister(p)
    BY <2>1, RegisterSent
  <2>2. CASE /\ UNCHANGED <<server, leaked, rejoin>>
             /\ \/ UNCHANGED chan
                \/ \E cmd \in Request : SendTo(p, server[p], cmd)
    BY <2>2, SendQueues DEF FcTypeOK, NetTypeOK
  <2>3. \/ SendRegister(p)
        \/ /\ UNCHANGED <<server, leaked, rejoin>>
           /\ \/ UNCHANGED chan
              \/ \E cmd \in Request : SendTo(p, server[p], cmd)
    BY DEF CreateFeedThread, OpenSocket, FeedTimeout, TimeoutRegister, TimeoutFeed,
           TimeoutGiveUp, ReceiveDatagram, OnRegisterReply, OnFeedReply,
           OnSelfUnregister, OnUnregisterReply, SendAction, Request, netVars
  <2> QED BY <2>1, <2>2, <2>3
<1>3. inbox' \in [Pid -> Seq(Datagram)] /\ \A q \in Pid : Len(inbox'[q]) <= Room
  <2>1. \/ inbox' = inbox
        \/ inbox[p] # << >> /\ inbox' = [inbox EXCEPT ![p] = Tail(@)]
    BY DEF CreateFeedThread, OpenSocket, FeedTimeout, TimeoutRegister, TimeoutFeed,
           TimeoutGiveUp, ReceiveDatagram, OnRegisterReply, OnFeedReply,
           OnSelfUnregister, OnUnregisterReply, Receives, netVars
  <2> QED BY <2>1, DatagramTaken DEF FcTypeOK, NetTypeOK
<1>4. /\ reg' \in [Pid -> {"not_conf", "has_conf"}]
      /\ flag' \in [Pid -> {"not_sent", "not_conf", "has_conf"}]
      /\ thread' \in [Pid -> {"none", "starting", "loop", "ended"}]
      /\ main' \in [Pid -> {"none", "away", "check", "notify", "sleep", "done"}]
  BY DEF FcTypeOK, CreateFeedThread, OpenSocket, FeedTimeout, TimeoutRegister,
         TimeoutFeed, TimeoutGiveUp, ReceiveDatagram, OnRegisterReply, OnFeedReply,
         OnSelfUnregister, OnUnregisterReply, Receives, netVars
<1>5. miss' \in [Pid -> 0..MaxMissFeedback]
  <2>1. CASE TimeoutFeed(p)
    <3>1. miss[p] + 1 \in 0..MaxMissFeedback /\ miss' = [miss EXCEPT ![p] = miss[p] + 1]
      BY <2>1, FeedConstants DEF FcTypeOK, TimeoutFeed, Patient
    <3> QED BY <3>1 DEF FcTypeOK
  <2>2. CASE ~ TimeoutFeed(p)
    BY <2>2, FeedConstants
       DEF FcTypeOK, CreateFeedThread, OpenSocket, FeedTimeout, TimeoutRegister,
           TimeoutGiveUp, ReceiveDatagram, OnRegisterReply, OnFeedReply,
           OnSelfUnregister, OnUnregisterReply, netVars
  <2> QED BY <2>1, <2>2
<1> QED BY <1>1, <1>2, <1>3, <1>4, <1>5 DEF FcTypeOK, NetTypeOK

\* So do the daemon's socket, bound, published and closed, and its answers.
LEMMA SocketKeepsTypes ==
    ASSUME FcTypeOK, UNCHANGED <<feedVars, mainVars>>,
           (\E port \in Port : BindPort(port)) \/ PublishPort \/ ClosePort
    PROVE  FcTypeOK'
<1> USE DEF feedVars, mainVars
<1>1. /\ live' \in Port \union {None} /\ portFile' \in Port \union {None, Empty}
      /\ inbox' = inbox
      /\ chan' = chan \/ chan' = [p \in Pid |-> << >>]
  BY DEF BindPort, PublishPort, ClosePort, FcTypeOK, NetTypeOK
<1>2. << >> \in Seq(Request) /\ Len(<< >>) = 0 /\ 0 <= Room
  BY EmptySeq, TransportConstants
<1>3. chan' \in [Pid -> Seq(Request)] /\ \A p \in Pid : Len(chan'[p]) <= Room
  BY <1>1, <1>2 DEF FcTypeOK, NetTypeOK
<1> QED BY <1>1, <1>3 DEF FcTypeOK, NetTypeOK

\* And so does a request the daemon takes and answers.
LEMMA AnswerKeepsTypes ==
    ASSUME FcTypeOK, NEW p \in Pid, NEW cmd \in Request, NEW ok \in BOOLEAN,
           NEW listening \in BOOLEAN,
           chan[p] # << >>, chan' = [chan EXCEPT ![p] = Tail(@)],
           Reply(p, cmd, ok, listening),
           UNCHANGED <<feedVars, mainVars, live, portFile>>
    PROVE  FcTypeOK'
<1> USE DEF feedVars, mainVars
<1>1. Package(cmd, ok) \in Datagram
  BY DEF Package, Datagram
<1>2. \/ inbox' = [inbox EXCEPT ![p] = Queued(@, Package(cmd, ok))]
      \/ inbox' = inbox
  BY DEF Reply
<1>3. inbox' \in [Pid -> Seq(Datagram)] /\ \A q \in Pid : Len(inbox'[q]) <= Room
  BY <1>1, <1>2, InboxQueues
<1>4. chan' \in [Pid -> Seq(Request)] /\ \A q \in Pid : Len(chan'[q]) <= Room
  BY RequestTaken
<1> QED BY <1>3, <1>4 DEF FcTypeOK, NetTypeOK

=============================================================================
