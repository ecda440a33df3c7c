-------------------------- MODULE WatchdogProofs ----------------------------
(* Proofs about Watchdog, for every value of its constants.                *)
EXTENDS Watchdog, SequenceLemmas

-----------------------------------------------------------------------------
(* The sequences the daemon works on.                                      *)

\* A file cut by a failed save holds lines of the text that was written, the
\* last one possibly altered: no name moves and none appears.
LEMMA TornIsPrefix ==
    ASSUME NEW text \in Seq(Line), NEW t \in Torn(text)
    PROVE  /\ t \in Seq(Line)
           /\ Len(t) <= Len(text)
           /\ \A i \in DOMAIN t : t[i].name = text[i].name
<1>1. PICK k \in 0 .. Len(text) - 1 :
        \/ t = SubSeq(text, 1, k)
        \/ \E line \in CutLines(text[k + 1]) :
                t = Append(SubSeq(text, 1, k), line)
  BY DEF Torn
<1> DEFINE h == SubSeq(text, 1, k)
<1>2. Len(text) \in Nat /\ k \in Nat /\ k + 1 \in 1 .. Len(text)
  BY <1>1, LenProperties
<1>3. h \in Seq(Line) /\ Len(h) = k /\ \A i \in 1 .. k : h[i] = text[i]
  BY <1>2, SubSeqProperties
<1>4. CASE t = h
  BY <1>2, <1>3, <1>4, LenProperties
<1>5. ASSUME NEW line \in CutLines(text[k + 1]), t = Append(h, line)
      PROVE  /\ t \in Seq(Line)
             /\ Len(t) <= Len(text)
             /\ \A i \in DOMAIN t : t[i].name = text[i].name
  <2>1. text[k + 1] \in Line
    BY <1>2, ElementOfSeq
  <2>2. line \in Line /\ line.name = text[k + 1].name
    BY <2>1 DEF CutLines, Line
  <2>3. /\ t \in Seq(Line)
        /\ Len(t) = k + 1
        /\ \A i \in 1 .. k : t[i] = h[i]
        /\ t[k + 1] = line
    BY <1>3, <1>5, <2>2, AppendProperties
  <2>4. ASSUME NEW i \in DOMAIN t
        PROVE  t[i].name = text[i].name
    <3>1. i \in 1 .. k + 1
      BY <2>3, LenProperties
    <3>2. CASE i = k + 1
      BY <2>2, <2>3, <3>2
    <3>3. CASE i # k + 1
      BY <1>2, <1>3, <2>3, <3>1, <3>3
    <3> QED BY <3>2, <3>3
  <2> QED BY <1>2, <2>3, <2>4
<1> QED BY <1>1, <1>4, <1>5

\* A list and the text saved for it have the same names at the same places.
LEMMA ImageOfList ==
    ASSUME NEW list \in Seq(App)
    PROVE  /\ Image(list) \in Seq(Line)
           /\ Len(Image(list)) = Len(list)
           /\ DOMAIN Image(list) = DOMAIN list
           /\ \A i \in DOMAIN list : Image(list)[i].name = list[i].name
<1>1. DOMAIN list = 1 .. Len(list) /\ Len(list) \in Nat
  BY LenProperties
<1>2. \A i \in 1 .. Len(list) : list[i] \in App
  BY ElementOfSeq
<1>3. \A i \in 1 .. Len(list) :
        [name |-> list[i].name, cmd |-> list[i].cmd] \in Line
  BY <1>2 DEF App, Line
<1> QED BY <1>1, <1>3 DEF Image

\* Whatever becomes of a save, the file holds lines, its names stay distinct
\* if those of the list were, and a save that succeeds loses no name.
LEMMA SaveKeepsNames ==
    ASSUME NEW list \in Seq(App), Save(list),
           conf \in Seq(Line), LinesDistinct,
           \A i, j \in DOMAIN list : list[i].name = list[j].name => i = j
    PROVE  /\ conf' \in Seq(Line)
           /\ synced' \in BOOLEAN
           /\ LinesDistinct'
           /\ synced' => NamesIn(conf') = NamesIn(list)
<1>1. /\ Image(list) \in Seq(Line)
      /\ DOMAIN Image(list) = DOMAIN list
      /\ \A i \in DOMAIN list : Image(list)[i].name = list[i].name
      /\ Len(Image(list)) = Len(list)
  BY ImageOfList
<1>2. CASE conf' = Image(list) /\ synced' = TRUE
  BY <1>1, <1>2 DEF LinesDistinct, NamesIn
<1>3. CASE synced' = FALSE /\ UNCHANGED conf
  BY <1>3 DEF LinesDistinct
<1>4. CASE synced' = FALSE /\ conf' \in Torn(Image(list))
  <2>1. /\ conf' \in Seq(Line)
        /\ Len(conf') <= Len(list)
        /\ \A i \in DOMAIN conf' : conf'[i].name = Image(list)[i].name
    BY <1>1, <1>4, TornIsPrefix
  <2>2. DOMAIN conf' \subseteq DOMAIN list
    BY <2>1, LenProperties
  <2>3. \A i \in DOMAIN conf' : i \in DOMAIN list /\ conf'[i].name = list[i].name
    BY <1>1, <2>1, <2>2
  <2>4. LinesDistinct'
    BY <2>3 DEF LinesDistinct
  <2> QED BY <1>4, <2>1, <2>4
<1> QED BY <1>2, <1>3, <1>4 DEF Save

-----------------------------------------------------------------------------
(* RegistryInv is inductive.  One lemma for each action that changes the   *)
(* list, the file or an age; the others are dealt with in the theorem.     *)

\* Steps that keep every node in its place with its name, as feeds, known
\* registrations, the timer and the clock do, keep the list consistent.
LEMMA SamePlaces ==
    ASSUME RegistryConsistent, apps \in Seq(App), apps' \in Seq(App),
           Len(apps') = Len(apps), count' = count,
           \A i \in DOMAIN apps : apps'[i].name = apps[i].name
    PROVE  /\ RegistryConsistent'
           /\ NamesIn(apps') = NamesIn(apps)
<1>1. DOMAIN apps' = DOMAIN apps
  BY LenProperties
<1> QED BY <1>1 DEF RegistryConsistent, NamesIn

\* What EXCEPT on one node of the list leaves: the same places and names.
LEMMA OneNode ==
    ASSUME apps \in Seq(App), NEW i \in DOMAIN apps, NEW node \in App,
           node.name = apps[i].name, apps' = [apps EXCEPT ![i] = node]
    PROVE  /\ apps' \in Seq(App)
           /\ Len(apps') = Len(apps)
           /\ \A j \in DOMAIN apps : apps'[j].name = apps[j].name
           /\ DOMAIN apps' = DOMAIN apps
           /\ apps'[i] = node
           /\ \A j \in DOMAIN apps : j # i => apps'[j] = apps[j]
<1>1. i \in 1 .. Len(apps) /\ DOMAIN apps = 1 .. Len(apps)
  BY LenProperties
<1> QED BY <1>1, ExceptSeq

\* The parts of a node the invariants speak of are in their ranges.
LEMMA NodeTypes ==
    ASSUME WdTypeOK, NEW i \in DOMAIN apps
    PROVE  /\ apps[i] \in App
           /\ apps[i].name \in Name
           /\ apps[i].age \in 0 .. AgeCap
           /\ since[apps[i].name] \in 0 .. AgeCap
<1>1. apps[i] \in App
  BY ElementOfSeq, LenProperties DEF WdTypeOK
<1>2. apps[i].name \in Name /\ apps[i].age \in 0 .. AgeCap
  BY <1>1 DEF App
<1> QED BY <1>1, <1>2 DEF WdTypeOK

\* A step that makes one node fresh, and may restart the clock of its name,
\* keeps the registry invariant: the node's name is no other node's.
LEMMA FreshNodeKeeps ==
    ASSUME RegistryInv, NEW i \in DOMAIN apps, NEW node \in App,
           node.name = apps[i].name, node.age = 0,
           apps' = [apps EXCEPT ![i] = node],
           UNCHANGED <<count, conf, synced>>,
           since' \in [Name -> 0 .. AgeCap],
           \A m \in Name : m # node.name => since'[m] = since[m],
           Up
    PROVE  /\ apps' \in Seq(App)
           /\ RegistryConsistent'
           /\ LinesDistinct'
           /\ Persisted'
           /\ FedSinceStart'
<1> USE DEF RegistryInv
<1>1. /\ apps' \in Seq(App)
      /\ Len(apps') = Len(apps)
      /\ \A j \in DOMAIN apps : apps'[j].name = apps[j].name
      /\ DOMAIN apps' = DOMAIN apps
      /\ apps'[i] = node
      /\ \A j \in DOMAIN apps : j # i => apps'[j] = apps[j]
  BY OneNode DEF WdTypeOK
<1>2. RegistryConsistent' /\ NamesIn(apps') = NamesIn(apps)
  BY <1>1, SamePlaces DEF WdTypeOK
<1>3. LinesDistinct' /\ Persisted'
  BY <1>2 DEF LinesDistinct, Persisted, NamesIn
<1>4. FedSinceStart'
  <2>1. ASSUME NEW j \in DOMAIN apps'
        PROVE  apps'[j].age <= since'[apps'[j].name]
    <3>1. apps[j].name \in Name
      BY <1>1, NodeTypes
    <3>2. CASE j = i
      <4>1. since'[node.name] \in 0 .. AgeCap
        BY <3>1, <3>2
      <4> QED BY <1>1, <3>2, <4>1, WdConstants
    <3>3. CASE j # i
      <4>1. apps[j].name # node.name
        BY <1>1, <3>3 DEF RegistryConsistent
      <4> QED BY <1>1, <3>1, <3>3, <4>1 DEF FedSinceStart
    <3> QED BY <3>2, <3>3
  <2> QED BY <2>1 DEF FedSinceStart
<1> QED BY <1>1, <1>2, <1>3, <1>4

\* A REGISTER of an application the list knows changes one node in place and
\* neither the list's length, nor the file, nor who has the node's name.
LEMMA RegisterKnownKeeps ==
    ASSUME RegistryInv, NEW n \in Name, NEW p \in Pid,
           NEW w \in WirePeriod, NEW c \in Cmd,
           Register(n, p, w, c), RegisterKnown(n, p, w, c)
    PROVE  RegistryInv'
<1> USE DEF RegistryInv
<1>1. PICK i \in DOMAIN apps :
        apps' = [apps EXCEPT ![i] = [@ EXCEPT !.age = 0, !.pid = p,
                             !.period = EffectivePeriod(w), !.cmd = c]]
  BY DEF RegisterKnown
<1> DEFINE node == [apps[i] EXCEPT !.age = 0, !.pid = p,
                                   !.period = EffectivePeriod(w), !.cmd = c]
<1>2. /\ node \in App /\ node.name = apps[i].name /\ node.age = 0
      /\ apps' = [apps EXCEPT ![i] = node]
  <2>1. apps[i] \in App
    BY NodeTypes
  <2>2. EffectivePeriod(w) \in Period /\ 0 \in 0 .. AgeCap
    BY WdConstants DEF EffectivePeriod, Period
  <2> QED BY <1>1, <2>1, <2>2 DEF App
<1> HIDE DEF node
<1>3. /\ UNCHANGED <<wpc, cursor, due, count, conf, synced, since>>
      /\ acked' = [acked EXCEPT ![n] = "in"]
      /\ Up
  BY DEF Register, RegisterKnown, Up
<1>4. /\ apps' \in Seq(App)
      /\ RegistryConsistent'
      /\ LinesDistinct'
      /\ Persisted'
      /\ FedSinceStart'
  BY <1>2, <1>3, FreshNodeKeeps DEF WdTypeOK
<1>5. WdTypeOK'
  BY <1>3, <1>4 DEF WdTypeOK
<1> QED BY <1>4, <1>5

\* A REGISTER of an unknown application appends a node whose name no other
\* node has, counts it and saves it: the list, the count and the file agree.
LEMMA RegisterNewKeeps ==
    ASSUME RegistryInv, NEW n \in Name, NEW p \in Pid,
           NEW w \in WirePeriod, NEW c \in Cmd,
           Register(n, p, w, c), RegisterNew(n, p, w, c)
    PROVE  RegistryInv'
<1> USE DEF RegistryInv
<1> DEFINE node == [name |-> n, cmd |-> c, period |-> EffectivePeriod(w),
                    pid |-> p, age |-> 0]
<1>1. /\ Matching(n, p) = {}
      /\ apps' = Append(apps, node)
      /\ count' = count + 1
      /\ Save(apps')
      /\ UNCHANGED <<wpc, cursor, due, since>>
      /\ acked' = [acked EXCEPT ![n] = "in"]
  BY DEF Register, RegisterNew
<1>2. node \in App /\ node.name = n /\ node.age = 0
  BY WdConstants DEF EffectivePeriod, Period, App
<1> HIDE DEF node
<1>3. apps \in Seq(App) /\ Len(apps) \in Nat /\ DOMAIN apps = 1 .. Len(apps)
  BY LenProperties DEF WdTypeOK
<1>4. /\ apps' \in Seq(App)
      /\ Len(apps') = Len(apps) + 1
      /\ \A j \in DOMAIN apps : apps'[j] = apps[j]
      /\ apps'[Len(apps) + 1] = node
      /\ DOMAIN apps' = 1 .. Len(apps) + 1
  BY <1>1, <1>2, <1>3, AppendProperties, LenProperties
<1>5. \A j \in DOMAIN apps : apps[j].name # n
  BY <1>1 DEF Matching
<1>6. RegistryConsistent'
  <2>1. ASSUME NEW i \in DOMAIN apps', NEW j \in DOMAIN apps',
               apps'[i].name = apps'[j].name
        PROVE  i = j
    <3>1. i \in DOMAIN apps \/ i = Len(apps) + 1
      BY <1>3, <1>4
    <3>2. j \in DOMAIN apps \/ j = Len(apps) + 1
      BY <1>3, <1>4
    <3> QED BY <1>2, <1>4, <1>5, <2>1, <3>1, <3>2 DEF RegistryConsistent
  <2>2. count' = Len(apps')
    BY <1>1, <1>4 DEF RegistryConsistent
  <2> QED BY <2>1, <2>2 DEF RegistryConsistent
<1>7. /\ conf' \in Seq(Line)
      /\ synced' \in BOOLEAN
      /\ LinesDistinct'
      /\ Persisted'
  <2>1. \A i, j \in DOMAIN apps' : apps'[i].name = apps'[j].name => i = j
    BY <1>6 DEF RegistryConsistent
  <2>2. /\ conf' \in Seq(Line)
        /\ synced' \in BOOLEAN
        /\ LinesDistinct'
        /\ synced' => NamesIn(conf') = NamesIn(apps')
    BY <1>1, <1>4, <2>1, SaveKeepsNames DEF WdTypeOK
  <2> QED BY <2>2 DEF Persisted, NamesIn
<1>8. FedSinceStart'
  <2>1. ASSUME NEW j \in DOMAIN apps'
        PROVE  apps'[j].age <= since'[apps'[j].name]
    <3>1. CASE j \in DOMAIN apps
      BY <1>1, <1>4, <3>1 DEF FedSinceStart
    <3>2. CASE j = Len(apps) + 1
      <4>1. since[n] \in 0 .. AgeCap
        BY DEF WdTypeOK
      <4> QED BY <1>1, <1>2, <1>4, <3>2, <4>1, WdConstants
    <3> QED BY <1>3, <1>4, <3>1, <3>2
  <2> QED BY <2>1 DEF FedSinceStart
<1>9. WdTypeOK'
  <2>1. count' \in Nat
    BY <1>1 DEF WdTypeOK
  <2> QED BY <1>1, <1>4, <1>7, <2>1 DEF WdTypeOK
<1> QED BY <1>6, <1>7, <1>8, <1>9

\* A FEED sets one node's time and nothing else.
LEMMA FeedKeeps ==
    ASSUME RegistryInv, NEW p \in Pid, Feed(p)
    PROVE  RegistryInv'
<1> USE DEF RegistryInv
<1>1. PICK i \in DOMAIN apps : apps' = [apps EXCEPT ![i].age = 0]
  BY DEF Feed
<1> DEFINE node == [apps[i] EXCEPT !.age = 0]
<1>2. /\ node \in App /\ node.name = apps[i].name /\ node.age = 0
      /\ apps' = [apps EXCEPT ![i] = node]
  <2>1. apps[i] \in App
    BY NodeTypes
  <2> QED BY <1>1, <2>1, WdConstants DEF App
<1> HIDE DEF node
<1>3. UNCHANGED <<wpc, cursor, due, count, conf, synced, acked, since>> /\ Up
  BY DEF Feed, Up
<1>4. /\ apps' \in Seq(App)
      /\ RegistryConsistent'
      /\ LinesDistinct'
      /\ Persisted'
      /\ FedSinceStart'
  BY <1>2, <1>3, FreshNodeKeeps DEF WdTypeOK
<1> QED BY <1>3, <1>4 DEF WdTypeOK

\* An overdue node is made fresh before its lock is looked at, so it stays
\* fresher than the last start of its application.
LEMMA CheckOverdueKeeps ==
    ASSUME RegistryInv, NEW locked \in BOOLEAN, CheckOverdue(locked)
    PROVE  RegistryInv'
<1> USE DEF RegistryInv
<1> DEFINE node == [apps[cursor] EXCEPT !.age = 0]
<1>1. /\ cursor \in DOMAIN apps
      /\ apps' = [apps EXCEPT ![cursor] = node]
      /\ UNCHANGED <<due, count, conf, synced, acked>>
      /\ Up
  BY DEF CheckOverdue, Up
<1>2. node \in App /\ node.name = apps[cursor].name /\ node.age = 0
  <2>1. apps[cursor] \in App
    BY <1>1, NodeTypes
  <2> QED BY <2>1, WdConstants DEF App
<1>3. /\ since' \in [Name -> 0 .. AgeCap]
      /\ \A m \in Name : m # node.name => since'[m] = since[m]
      /\ wpc' \in {"down", "idle", "scan", "restart"}
      /\ cursor' \in Nat \ {0}
  <2>1. since \in [Name -> 0 .. AgeCap] /\ 0 \in 0 .. AgeCap
    BY WdConstants DEF WdTypeOK
  <2>2. CASE locked
    BY <2>1, <2>2 DEF CheckOverdue, WdTypeOK
  <2>3. CASE ~ locked
    BY <1>2, <2>1, <2>3 DEF CheckOverdue, WdTypeOK
  <2> QED BY <2>2, <2>3
<1> HIDE DEF node
<1>4. /\ apps' \in Seq(App)
      /\ RegistryConsistent'
      /\ LinesDistinct'
      /\ Persisted'
      /\ FedSinceStart'
  BY <1>1, <1>2, <1>3, FreshNodeKeeps
<1> QED BY <1>1, <1>3, <1>4 DEF WdTypeOK

\* An UNREGISTER takes one node out and counts it off; the file, which keeps
\* its line, still covers what is left.
LEMMA UnregisterKnownKeeps ==
    ASSUME RegistryInv, NEW n \in Name, NEW p \in Pid, UnregisterKnown(n, p)
    PROVE  RegistryInv'
<1> USE DEF RegistryInv
<1>1. PICK i \in DOMAIN apps : apps' = RemoveAt(apps, i)
  BY DEF UnregisterKnown
<1>2. /\ count' = count - 1
      /\ acked' = [acked EXCEPT ![n] = "out"]
      /\ UNCHANGED <<wpc, cursor, due, conf, synced, since>>
      /\ Up
  BY DEF UnregisterKnown, Up
<1>3. apps \in Seq(App) /\ Len(apps) \in Nat /\ DOMAIN apps = 1 .. Len(apps)
  BY LenProperties DEF WdTypeOK
<1>4. /\ apps' \in Seq(App)
      /\ Len(apps') = Len(apps) - 1
      /\ DOMAIN apps' = 1 .. Len(apps) - 1
      /\ \A j \in 1 .. Len(apps) - 1 :
            apps'[j] = IF j < i THEN apps[j] ELSE apps[j + 1]
  BY <1>1, <1>3, RemoveAtShifts, LenProperties
<1> DEFINE from(j) == IF j < i THEN j ELSE j + 1
<1>5. \A j \in DOMAIN apps' : from(j) \in DOMAIN apps /\ apps'[j] = apps[from(j)]
  BY <1>3, <1>4
<1>6. \A j, k \in DOMAIN apps' : from(j) = from(k) => j = k
  BY <1>3, <1>4
<1> HIDE DEF from
<1>7. RegistryConsistent'
  <2>1. \A j, k \in DOMAIN apps' : apps'[j].name = apps'[k].name => j = k
    BY <1>5, <1>6 DEF RegistryConsistent
  <2>2. count' = Len(apps')
    BY <1>2, <1>4 DEF RegistryConsistent
  <2> QED BY <2>1, <2>2 DEF RegistryConsistent
<1>8. LinesDistinct' /\ Persisted'
  <2>1. NamesIn(apps') \subseteq NamesIn(apps)
    BY <1>5 DEF NamesIn
  <2> QED BY <1>2, <2>1 DEF LinesDistinct, Persisted, NamesIn
<1>9. FedSinceStart'
  BY <1>2, <1>5 DEF FedSinceStart
<1>10. WdTypeOK'
  <2>1. count' \in Nat
    BY <1>2, <1>3, <1>4, LenProperties DEF RegistryConsistent
  <2> QED BY <1>2, <1>4, <2>1 DEF WdTypeOK
<1> QED BY <1>7, <1>8, <1>9, <1>10

\* An UNREGISTER of an unknown process saves the list as it is.
LEMMA UnregisterUnknownKeeps ==
    ASSUME RegistryInv, NEW p \in Pid, UnregisterUnknown(p)
    PROVE  RegistryInv'
<1> USE DEF RegistryInv
<1>1. /\ Save(apps)
      /\ UNCHANGED <<wpc, cursor, due, apps, count, acked, since>>
  BY DEF UnregisterUnknown
<1>2. /\ conf' \in Seq(Line)
      /\ synced' \in BOOLEAN
      /\ LinesDistinct'
      /\ synced' => NamesIn(conf') = NamesIn(apps)
  BY <1>1, SaveKeepsNames DEF WdTypeOK, RegistryConsistent
<1>3. Persisted'
  BY <1>1, <1>2 DEF Persisted, NamesIn
<1> QED BY <1>1, <1>2, <1>3 DEF WdTypeOK, RegistryConsistent, FedSinceStart

\* A daemon that stops keeps the invariant whatever is left of its file.
LEMMA LoseMemoryKeeps ==
    ASSUME RegistryInv, LoseMemory,
           conf' \in Seq(Line), synced' \in BOOLEAN, LinesDistinct'
    PROVE  RegistryInv'
<1> USE DEF RegistryInv
<1>1. apps' = << >> /\ << >> \in Seq(App) /\ Len(apps') = 0 /\ DOMAIN apps' = {}
  BY EmptySeq DEF LoseMemory
<1>2. WdTypeOK'
  <2>1. due' \in BOOLEAN
    BY DEF LoseMemory
  <2>2. /\ wpc' \in {"down", "idle", "scan", "restart"}
        /\ cursor' \in Nat \ {0}
        /\ apps' \in Seq(App)
        /\ count' \in Nat
    BY <1>1 DEF LoseMemory
  <2>3. /\ acked' \in [Name -> {"none", "in", "out"}]
        /\ since' \in [Name -> 0 .. AgeCap]
    BY DEF LoseMemory, WdTypeOK
  <2> QED BY <2>1, <2>2, <2>3 DEF WdTypeOK
<1>3. RegistryConsistent' /\ FedSinceStart'
  BY <1>1 DEF LoseMemory, RegistryConsistent, FedSinceStart
<1>4. Persisted'
  BY DEF LoseMemory, Persisted, Up
<1> QED BY <1>2, <1>3, <1>4

\* A crash in the middle of a save leaves a file without double lines.
LEMMA CrashInSaveKeeps ==
    ASSUME RegistryInv, NEW n \in Name, NEW p \in Pid,
           NEW w \in WirePeriod, NEW c \in Cmd, CrashInSave(n, p, w, c)
    PROVE  RegistryInv'
<1> USE DEF RegistryInv
<1> DEFINE line == [name |-> n, cmd |-> c]
           text == Append(Image(apps), line)
<1>1. /\ conf' \in Torn(text) /\ synced' = FALSE /\ LoseMemory
      /\ \A i \in DOMAIN apps : apps[i].name # n
  BY DEF CrashInSave, Matching
<1>2. line \in Line /\ line.name = n
  BY DEF Line
<1>3. /\ Image(apps) \in Seq(Line)
      /\ DOMAIN Image(apps) = DOMAIN apps
      /\ Len(Image(apps)) = Len(apps)
      /\ \A i \in DOMAIN apps : Image(apps)[i].name = apps[i].name
      /\ DOMAIN apps = 1 .. Len(apps) /\ Len(apps) \in Nat
  BY ImageOfList, LenProperties DEF WdTypeOK
<1> HIDE DEF line
<1>4. /\ text \in Seq(Line)
      /\ DOMAIN text = 1 .. Len(apps) + 1
      /\ Len(text) = Len(apps) + 1
      /\ \A i \in DOMAIN apps : text[i].name = apps[i].name
      /\ text[Len(apps) + 1].name = n
  BY <1>2, <1>3, AppendProperties, LenProperties
<1> HIDE DEF text
<1>5. \A i, j \in DOMAIN text : text[i].name = text[j].name => i = j
  BY <1>1, <1>3, <1>4 DEF RegistryConsistent
<1>6. /\ conf' \in Seq(Line)
      /\ Len(conf') <= Len(text)
      /\ \A i \in DOMAIN conf' : conf'[i].name = text[i].name
  BY <1>1, <1>4, TornIsPrefix
<1>7. DOMAIN conf' \subseteq DOMAIN text
  BY <1>4, <1>6, LenProperties
<1>8. LinesDistinct'
  BY <1>5, <1>6, <1>7 DEF LinesDistinct
<1> QED BY <1>1, <1>6, <1>8, LoseMemoryKeeps

\* The list loaded from a readable file has one node for each of its lines.
LEMMA StartKeeps ==
    ASSUME RegistryInv, NEW running \in Running, Start(running)
    PROVE  RegistryInv'
<1> USE DEF RegistryInv
<1>1. /\ Loadable
      /\ wpc' = "idle" /\ cursor' = 1 /\ due' = FALSE
      /\ apps' = Loaded(running)
      /\ count' = Len(conf)
      /\ acked' \in [Name -> {"none", "in", "out"}]
      /\ synced' = TRUE
      /\ since' = [n \in Name |-> AgeCap]
      /\ UNCHANGED conf
  BY DEF Start, WdTypeOK
<1>2. conf \in Seq(Line) /\ Len(conf) \in Nat /\ DOMAIN conf = 1 .. Len(conf)
  BY LenProperties DEF WdTypeOK
<1>3. ASSUME NEW i \in DOMAIN conf
      PROVE  /\ Loaded(running)[i] \in App
             /\ Loaded(running)[i].name = conf[i].name
             /\ Loaded(running)[i].name \in Name
             /\ Loaded(running)[i].age \in 0 .. AgeCap
  <2>1. conf[i] \in Line /\ conf[i].cmd # NoCmd
    BY <1>1, <1>2, ElementOfSeq DEF Loadable
  <2>2. conf[i].name \in Name /\ conf[i].cmd \in Cmd
    BY <2>1 DEF Line
  <2>3. /\ Reloaded[conf[i].cmd] \in Cmd
        /\ running[conf[i].name] \in Pid \union {NoPid}
        /\ DefaultPeriod \in Period
        /\ (IF running[conf[i].name] = NoPid THEN AgeCap ELSE 0) \in 0 .. AgeCap
    BY <2>2, WdConstants DEF Running, Period
  <2> QED BY <2>2, <2>3 DEF Loaded, App
<1>4. /\ apps' \in Seq(App)
      /\ Len(apps') = Len(conf)
      /\ DOMAIN apps' = DOMAIN conf
  BY <1>1, <1>2, <1>3 DEF Loaded
<1>5. RegistryConsistent'
  BY <1>1, <1>3, <1>4 DEF RegistryConsistent, LinesDistinct
<1>6. LinesDistinct' /\ Persisted'
  BY <1>1, <1>3, <1>4 DEF LinesDistinct, Persisted, NamesIn
<1>7. FedSinceStart'
  BY <1>1, <1>3, <1>4, WdConstants DEF FedSinceStart
<1>8. WdTypeOK'
  <2>1. since' \in [Name -> 0 .. AgeCap]
    BY <1>1, WdConstants
  <2>2. due' \in BOOLEAN /\ synced' \in BOOLEAN
    BY <1>1
  <2>3. /\ wpc' \in {"down", "idle", "scan", "restart"}
        /\ cursor' \in Nat \ {0}
        /\ count' \in Nat
        /\ conf' \in Seq(Line)
    BY <1>1, <1>2
  <2> QED BY <1>1, <1>4, <2>1, <2>2, <2>3 DEF WdTypeOK
<1> QED BY <1>5, <1>6, <1>7, <1>8

\* A second makes nodes and starts older by the same amount.
LEMMA TickKeeps ==
    ASSUME RegistryInv, Tick
    PROVE  RegistryInv'
<1> USE DEF RegistryInv
<1> DEFINE older(i) == [apps[i] EXCEPT !.age = Older(@)]
<1>1. /\ apps' = [i \in DOMAIN apps |-> older(i)]
      /\ due' = Up
      /\ since' = [n \in Name |-> Older(since[n])]
      /\ UNCHANGED <<wpc, cursor, count, conf, synced, acked>>
  BY DEF Tick
<1>2. apps \in Seq(App) /\ Len(apps) \in Nat /\ DOMAIN apps = 1 .. Len(apps)
  BY LenProperties DEF WdTypeOK
<1>3. ASSUME NEW i \in DOMAIN apps
      PROVE  /\ older(i) \in App
             /\ older(i).name = apps[i].name
             /\ older(i).age = Older(apps[i].age)
  <2>1. apps[i] \in App /\ apps[i].age \in 0 .. AgeCap
    BY NodeTypes
  <2>2. Older(apps[i].age) \in 0 .. AgeCap
    BY <2>1, WdConstants DEF Older
  <2> QED BY <2>1, <2>2 DEF App
<1> HIDE DEF older
<1>4. /\ apps' \in Seq(App)
      /\ Len(apps') = Len(apps)
      /\ DOMAIN apps' = DOMAIN apps
      /\ \A i \in DOMAIN apps : apps'[i] = older(i)
  BY <1>1, <1>2, <1>3
<1>5. RegistryConsistent' /\ NamesIn(apps') = NamesIn(apps)
  BY <1>1, <1>2, <1>3, <1>4, SamePlaces
<1>6. LinesDistinct' /\ Persisted'
  BY <1>1, <1>5 DEF LinesDistinct, Persisted, NamesIn, Up
<1>7. FedSinceStart'
  <2>1. ASSUME NEW i \in DOMAIN apps
        PROVE  Older(apps[i].age) <= since'[apps[i].name]
    <3>1. /\ apps[i].name \in Name
          /\ apps[i].age \in 0 .. AgeCap
          /\ since[apps[i].name] \in 0 .. AgeCap
      BY NodeTypes
    <3> QED BY <1>1, <3>1, WdConstants DEF FedSinceStart, Older
  <2> QED BY <1>3, <1>4, <2>1 DEF FedSinceStart
<1>8. WdTypeOK'
  <2>1. since' \in [Name -> 0 .. AgeCap]
    BY <1>1, WdConstants DEF WdTypeOK, Older
  <2>2. due' \in BOOLEAN
    BY <1>1 DEF Up
  <2> QED BY <1>1, <1>4, <2>1, <2>2 DEF WdTypeOK
<1> QED BY <1>5, <1>6, <1>7, <1>8

\* The steps of timeout_cb that only move its place in the list, and
\* stuttering: nothing the invariant relates changes.
LEMMA PlaceKeeps ==
    ASSUME RegistryInv, UNCHANGED <<apps, count, conf, synced, acked, since>>,
           wpc' = "down" <=> wpc = "down",
           wpc' \in {"down", "idle", "scan", "restart"},
           cursor' \in Nat \ {0}, due' \in BOOLEAN
    PROVE  RegistryInv'
<1> USE DEF RegistryInv
<1>1. /\ apps' \in Seq(App) /\ count' \in Nat /\ conf' \in Seq(Line)
      /\ acked' \in [Name -> {"none", "in", "out"}]
      /\ since' \in [Name -> 0 .. AgeCap]
  BY DEF WdTypeOK
<1>2. synced' \in BOOLEAN
  BY DEF WdTypeOK
<1>3. WdTypeOK'
  BY <1>1, <1>2 DEF WdTypeOK
<1>4. RegistryConsistent' /\ LinesDistinct' /\ FedSinceStart'
  BY DEF RegistryConsistent, LinesDistinct, FedSinceStart
<1>5. Persisted'
  BY DEF Persisted, NamesIn, Up
<1> QED BY <1>3, <1>4, <1>5

-----------------------------------------------------------------------------
\* RegistryInv holds in every reachable state.
THEOREM RegistryInvariant == WdSpec => []RegistryInv
<1>1. WdInit => RegistryInv
  <2> SUFFICES ASSUME WdInit PROVE RegistryInv
    OBVIOUS
  <2>1. << >> \in Seq(App) /\ << >> \in Seq(Line) /\ Len(<< >>) = 0
    BY EmptySeq
  <2>2. WdTypeOK
    <3>1. due \in BOOLEAN /\ synced \in BOOLEAN
      BY DEF WdInit
    <3>2. /\ wpc \in {"down", "idle", "scan", "restart"}
          /\ cursor \in Nat \ {0}
          /\ apps \in Seq(App)
          /\ count \in Nat
          /\ conf \in Seq(Line)
      BY <2>1 DEF WdInit
    <3>3. /\ acked \in [Name -> {"none", "in", "out"}]
          /\ since \in [Name -> 0 .. AgeCap]
      BY WdConstants DEF WdInit
    <3> QED BY <3>1, <3>2, <3>3 DEF WdTypeOK
  <2> QED BY <2>1, <2>2 DEF WdInit, RegistryInv, RegistryConsistent,
                LinesDistinct, Persisted, FedSinceStart, Up
<1>2. RegistryInv /\ [WdNext]_WdVars => RegistryInv'
  <2> SUFFICES ASSUME RegistryInv, [WdNext]_WdVars
               PROVE  RegistryInv'
    OBVIOUS
  <2> USE DEF RegistryInv
  <2>0. wpc \in {"down", "idle", "scan", "restart"} /\ cursor \in Nat \ {0}
        /\ due \in BOOLEAN
    BY DEF WdTypeOK
  <2>1. ASSUME NEW running \in Running, Start(running)
        PROVE  RegistryInv'
    BY <2>1, StartKeeps
  <2>2. CASE Crash
    <3>1. LoseMemory /\ UNCHANGED <<conf, synced>>
      BY <2>2 DEF Crash
    <3>2. conf' \in Seq(Line) /\ synced' \in BOOLEAN /\ LinesDistinct'
      BY <3>1 DEF WdTypeOK, LinesDistinct
    <3> QED BY <3>1, <3>2, LoseMemoryKeeps
  <2>3. ASSUME NEW cl \in Client, NEW w \in WirePeriod, NEW c \in Cmd,
               Register(cl[1], cl[2], w, c)
        PROVE  RegistryInv'
    <3>1. cl[1] \in Name /\ cl[2] \in Pid
      BY WdConstants
    <3>2. \/ RegisterKnown(cl[1], cl[2], w, c)
          \/ RegisterNew(cl[1], cl[2], w, c)
      BY <2>3 DEF Register
    <3> QED BY <2>3, <3>1, <3>2, RegisterKnownKeeps, RegisterNewKeeps
  <2>4. ASSUME NEW cl \in Client, NEW w \in WirePeriod, NEW c \in Cmd,
               CrashInSave(cl[1], cl[2], w, c)
        PROVE  RegistryInv'
    <3>1. cl[1] \in Name /\ cl[2] \in Pid
      BY WdConstants
    <3> QED BY <2>4, <3>1, CrashInSaveKeeps
  <2>5. ASSUME NEW p \in Pid, Feed(p)
        PROVE  RegistryInv'
    BY <2>5, FeedKeeps
  <2>6. ASSUME NEW cl \in Client, UnregisterKnown(cl[1], cl[2])
        PROVE  RegistryInv'
    <3>1. cl[1] \in Name /\ cl[2] \in Pid
      BY WdConstants
    <3> QED BY <2>6, <3>1, UnregisterKnownKeeps
  <2>7. ASSUME NEW p \in Pid, UnregisterUnknown(p)
        PROVE  RegistryInv'
    BY <2>7, UnregisterUnknownKeeps
  <2>8. CASE TimeoutBegin
    <3>1. /\ UNCHANGED <<apps, count, conf, synced, acked, since>>
          /\ wpc' = "down" <=> wpc = "down"
          /\ wpc' \in {"down", "idle", "scan", "restart"}
          /\ cursor' \in Nat \ {0}
      BY <2>0, <2>8 DEF TimeoutBegin
    <3>2. due' \in BOOLEAN
      BY <2>0, <2>8 DEF TimeoutBegin
    <3> QED BY <3>1, <3>2, PlaceKeeps
  <2>9. CASE CheckFresh
    <3>1. /\ UNCHANGED <<apps, count, conf, synced, acked, since>>
          /\ wpc' = "down" <=> wpc = "down"
          /\ wpc' \in {"down", "idle", "scan", "restart"}
          /\ cursor' \in Nat \ {0}
      BY <2>0, <2>9 DEF CheckFresh
    <3>2. due' \in BOOLEAN
      BY <2>0, <2>9 DEF CheckFresh
    <3> QED BY <3>1, <3>2, PlaceKeeps
  <2>10. ASSUME NEW locked \in BOOLEAN, CheckOverdue(locked)
         PROVE  RegistryInv'
    BY <2>10, CheckOverdueKeeps
  <2>11. CASE Restart
    <3>1. /\ UNCHANGED <<apps, count, conf, synced, acked, since>>
          /\ wpc' = "down" <=> wpc = "down"
          /\ wpc' \in {"down", "idle", "scan", "restart"}
          /\ cursor' \in Nat \ {0}
      BY <2>0, <2>11 DEF Restart
    <3>2. due' \in BOOLEAN
      BY <2>0, <2>11 DEF Restart
    <3> QED BY <3>1, <3>2, PlaceKeeps
  <2>12. CASE TimeoutEnd
    <3>1. /\ UNCHANGED <<apps, count, conf, synced, acked, since>>
          /\ wpc' = "down" <=> wpc = "down"
          /\ wpc' \in {"down", "idle", "scan", "restart"}
          /\ cursor' \in Nat \ {0}
      BY <2>0, <2>12 DEF TimeoutEnd
    <3>2. due' \in BOOLEAN
      BY <2>0, <2>12 DEF TimeoutEnd
    <3> QED BY <3>1, <3>2, PlaceKeeps
  <2>13. CASE Tick
    BY <2>13, TickKeeps
  <2>14. CASE UNCHANGED WdVars
    BY <2>0, <2>14, PlaceKeeps DEF WdVars
  <2> QED BY <2>1, <2>2, <2>3, <2>4, <2>5, <2>6, <2>7, <2>8, <2>9, <2>10,
             <2>11, <2>12, <2>13, <2>14 DEF WdNext
<1> QED BY <1>1, <1>2, PTL DEF WdSpec

\* Type correctness of the daemon's state and of its file.
THEOREM TypeCorrect == WdSpec => []WdTypeOK
<1>1. RegistryInv => WdTypeOK
  BY DEF RegistryInv
<1> QED BY <1>1, RegistryInvariant, PTL

\* No application has two nodes and the count is the length of the list.
THEOREM RegistryIsConsistent == WdSpec => []RegistryConsistent
<1>1. RegistryInv => RegistryConsistent
  BY DEF RegistryInv
<1> QED BY <1>1, RegistryInvariant, PTL

\* A daemon none of whose saves failed can lose no application in a crash.
THEOREM ListIsPersisted == WdSpec => []Persisted
<1>1. RegistryInv => Persisted
  BY DEF RegistryInv
<1> QED BY <1>1, RegistryInvariant, PTL

\* No application is started again before its missed feeds have run out,
\* counted from the last time it was started.
THEOREM StartsAreSpaced == WdSpec => StartsSpaced
<1>1. RegistryInv /\ [WdNext]_WdVars =>
        [wpc = "scan" /\ wpc' = "restart" =>
            since[apps[cursor].name] > MaxMissed * apps[cursor].period]_WdVars
  <2> SUFFICES ASSUME RegistryInv, WdNext, wpc = "scan", wpc' = "restart"
               PROVE  since[apps[cursor].name] > MaxMissed * apps[cursor].period
    BY DEF WdVars
  <2>1. \E locked \in BOOLEAN : CheckOverdue(locked)
    BY DEF WdNext, Start, Crash, Register, CrashInSave, LoseMemory, Feed,
           UnregisterKnown, UnregisterUnknown, TimeoutBegin, CheckFresh,
           Restart, TimeoutEnd, Tick
  <2>2. cursor \in DOMAIN apps /\ apps[cursor].age > MaxMissed * apps[cursor].period
    BY <2>1 DEF CheckOverdue, Overdue
  <2>3. /\ apps[cursor] \in App
        /\ apps[cursor].age \in 0 .. AgeCap
        /\ since[apps[cursor].name] \in 0 .. AgeCap
        /\ apps[cursor].age <= since[apps[cursor].name]
    BY <2>2, NodeTypes DEF RegistryInv, FedSinceStart
  <2>4. MaxMissed * apps[cursor].period \in Int
    <3>0. Period \subseteq Int
      <4>1. DefaultPeriod \in Int
        BY WdConstants
      <4>2. WirePeriod \subseteq Int
        BY WdConstants
      <4> QED BY <4>1, <4>2 DEF Period
    <3>1. apps[cursor].period \in Int
      BY <2>3, <3>0 DEF App
    <3> QED BY <3>1, WdConstants
  <2> HIDE DEF App
  <2> QED BY <2>2, <2>3, <2>4, WdConstants
<1> QED BY <1>1, RegistryInvariant, PTL DEF WdSpec, StartsSpaced

-----------------------------------------------------------------------------
(* PromiseInv is inductive relative to RegistryInv, as long as no process  *)
(* id is shared: a confirmed registration is kept.                         *)

\* Where ids are not shared, the node that matches a registration by process
\* id or by name has the sender's name.
LEMMA MatchIsOwn ==
    ASSUME WdTypeOK, OwnPids, PidsUnshared, NEW n \in Name, NEW p \in Pid,
           <<n, p>> \in Client, NEW i \in DOMAIN apps,
           apps[i].pid = p \/ apps[i].name = n
    PROVE  apps[i].name = n
<1>1. CASE apps[i].pid = p
  <2>1. <<apps[i].name, p>> \in Client
    BY <1>1, WdConstants DEF OwnPids
  <2> QED BY <2>1 DEF PidsUnshared
<1> QED BY <1>1

\* After a confirmed REGISTER its application is in the list, and in the file
\* if the save succeeded, when process ids are not shared.
LEMMA RegisterKeepsPromise ==
    ASSUME RegistryInv, RegistryInv', PromiseInv, PidsUnshared,
           NEW n \in Name, NEW p \in Pid, <<n, p>> \in Client,
           NEW w \in WirePeriod, NEW c \in Cmd, Register(n, p, w, c)
    PROVE  PromiseInv'
<1> USE DEF RegistryInv, PromiseInv
<1>1. /\ acked' = [acked EXCEPT ![n] = "in"]
      /\ Up /\ Up'
      /\ acked \in [Name -> {"none", "in", "out"}]
      /\ apps \in Seq(App) /\ Len(apps) \in Nat /\ DOMAIN apps = 1 .. Len(apps)
  BY LenProperties DEF Register, Up, WdTypeOK
<1>2. OwnPids' /\ NamesIn(apps) \union {n} \subseteq NamesIn(apps')
  <2>1. CASE RegisterKnown(n, p, w, c)
    <3>1. PICK i \in DOMAIN apps :
            /\ IsFirst(i, Matching(n, p))
            /\ apps' = [apps EXCEPT ![i] = [@ EXCEPT !.age = 0, !.pid = p,
                                 !.period = EffectivePeriod(w), !.cmd = c]]
      BY <2>1 DEF RegisterKnown
    <3>2. apps[i].name = n
      BY <3>1, MatchIsOwn DEF IsFirst, Matching
    <3>3. /\ DOMAIN apps' = DOMAIN apps
          /\ apps'[i].name = n /\ apps'[i].pid = p
          /\ \A j \in DOMAIN apps : j # i => apps'[j] = apps[j]
      <4>1. apps[i] \in App
        BY NodeTypes
      <4> QED BY <1>1, <3>1, <3>2, <4>1 DEF App
    <3>4. OwnPids'
      BY <3>3 DEF OwnPids
    <3> QED BY <3>2, <3>3, <3>4 DEF NamesIn
  <2>2. CASE RegisterNew(n, p, w, c)
    <3> DEFINE node == [name |-> n, cmd |-> c, period |-> EffectivePeriod(w),
                        pid |-> p, age |-> 0]
    <3>1. apps' = Append(apps, node) /\ node.name = n /\ node.pid = p
      BY <2>2 DEF RegisterNew
    <3> HIDE DEF node
    <3>2. /\ DOMAIN apps' = 1 .. Len(apps) + 1
          /\ apps'[Len(apps) + 1] = node
          /\ \A j \in DOMAIN apps : apps'[j] = apps[j]
      BY <1>1, <3>1
    <3>3. DOMAIN apps' = DOMAIN apps \union {Len(apps) + 1}
      BY <1>1, <3>2
    <3>4. OwnPids'
      BY <3>1, <3>2, <3>3 DEF OwnPids
    <3> QED BY <3>1, <3>2, <3>3, <3>4 DEF NamesIn
  <2> QED BY <2>1, <2>2 DEF Register
<1>3. RegisteredIsMonitored'
  BY <1>1, <1>2 DEF RegisteredIsMonitored, NamesIn
<1>4. RegisteredIsSaved'
  BY <1>1, <1>3 DEF RegisteredIsSaved, RegisteredIsMonitored, Persisted, NamesIn
<1> QED BY <1>2, <1>3, <1>4

\* An UNREGISTER takes out the node of its own sender only, when process ids
\* are not shared: no other application loses its monitoring.
LEMMA UnregisterKeepsPromise ==
    ASSUME RegistryInv, PromiseInv, PidsUnshared,
           NEW n \in Name, NEW p \in Pid, <<n, p>> \in Client,
           UnregisterKnown(n, p)
    PROVE  PromiseInv'
<1> USE DEF RegistryInv, PromiseInv
<1>1. PICK i \in DOMAIN apps : apps[i].pid = p /\ apps' = RemoveAt(apps, i)
  BY DEF UnregisterKnown, IsFirst, WithPid
<1>2. /\ acked' = [acked EXCEPT ![n] = "out"]
      /\ UNCHANGED <<wpc, conf, synced>>
      /\ acked \in [Name -> {"none", "in", "out"}]
  BY DEF UnregisterKnown, WdTypeOK
<1>3. apps \in Seq(App) /\ Len(apps) \in Nat /\ DOMAIN apps = 1 .. Len(apps)
  BY LenProperties DEF WdTypeOK
<1>4. apps[i].name = n
  BY <1>1, MatchIsOwn
<1>5. /\ DOMAIN apps' = 1 .. Len(apps) - 1
      /\ \A j \in 1 .. Len(apps) - 1 :
            apps'[j] = IF j < i THEN apps[j] ELSE apps[j + 1]
  BY <1>1, <1>3, RemoveAtShifts, LenProperties
<1>6. OwnPids'
  <2>1. ASSUME NEW j \in DOMAIN apps'
        PROVE  \E k \in DOMAIN apps : apps'[j] = apps[k]
    <3>1. CASE j < i
      BY <1>3, <1>5, <3>1
    <3>2. CASE ~ (j < i)
      <4>1. j + 1 \in DOMAIN apps
        BY <1>3, <1>5
      <4> QED BY <1>5, <3>2, <4>1
    <3> QED BY <3>1, <3>2
  <2> QED BY <2>1 DEF OwnPids
<1>7. NamesIn(apps) \ {n} \subseteq NamesIn(apps')
  <2>1. ASSUME NEW j \in DOMAIN apps, apps[j].name # n
        PROVE  \E k \in DOMAIN apps' : apps'[k].name = apps[j].name
    <3>1. CASE j < i
      BY <1>3, <1>5, <3>1
    <3>2. CASE j > i
      <4>1. j - 1 \in DOMAIN apps' /\ ~ (j - 1 < i) /\ (j - 1) + 1 = j
        BY <1>3, <1>5, <3>2
      <4> QED BY <1>5, <4>1
    <3> QED BY <1>3, <1>4, <2>1, <3>1, <3>2
  <2> QED BY <2>1 DEF NamesIn
<1>8. RegisteredIsMonitored'
  BY <1>2, <1>7 DEF RegisteredIsMonitored, NamesIn, Up
<1>9. RegisteredIsSaved'
  BY <1>2 DEF RegisteredIsSaved, NamesIn
<1> QED BY <1>6, <1>8, <1>9

\* Steps that keep the names and the ids of the nodes, and confirm nothing.
LEMMA SamePromise ==
    ASSUME PromiseInv, UNCHANGED acked, Up' => Up,
           DOMAIN apps' = DOMAIN apps,
           \A i \in DOMAIN apps :
                apps'[i].name = apps[i].name /\ apps'[i].pid = apps[i].pid,
           \/ UNCHANGED <<conf, synced>>
           \/ synced' => NamesIn(conf') = NamesIn(apps) /\ Up
    PROVE  PromiseInv'
<1> USE DEF PromiseInv
<1>1. OwnPids'
  BY DEF OwnPids
<1>2. NamesIn(apps') = NamesIn(apps)
  BY DEF NamesIn
<1>3. RegisteredIsMonitored'
  BY <1>2 DEF RegisteredIsMonitored
<1>4. RegisteredIsSaved'
  <2>1. CASE UNCHANGED <<conf, synced>>
    BY <2>1 DEF RegisteredIsSaved, NamesIn
  <2>2. CASE synced' => NamesIn(conf') = NamesIn(apps) /\ Up
    BY <2>2 DEF RegisteredIsSaved, RegisteredIsMonitored
  <2> QED BY <2>1, <2>2
<1> QED BY <1>1, <1>3, <1>4

\* A start brings back every application the file promises.
LEMMA StartKeepsPromise ==
    ASSUME RegistryInv, PromiseInv, NEW running \in Running, Start(running)
    PROVE  PromiseInv'
<1> USE DEF RegistryInv, PromiseInv
<1>1. /\ apps' = Loaded(running)
      /\ synced' = TRUE
      /\ UNCHANGED conf
      /\ acked' = IF synced THEN acked ELSE [n \in Name |-> "none"]
  BY DEF Start
<1>2. conf \in Seq(Line) /\ Len(conf) \in Nat /\ DOMAIN conf = 1 .. Len(conf)
  BY LenProperties DEF WdTypeOK
<1>3. /\ DOMAIN apps' = DOMAIN conf
      /\ \A i \in DOMAIN conf :
            /\ apps'[i].name = conf[i].name
            /\ apps'[i].pid = running[conf[i].name]
            /\ conf[i].name \in Name
  <2>1. \A i \in DOMAIN conf : conf[i] \in Line
    BY <1>2, ElementOfSeq
  <2>2. \A i \in DOMAIN conf : conf[i].name \in Name
    BY <2>1 DEF Line
  <2> QED BY <1>1, <2>2 DEF Loaded
<1>4. OwnPids'
  BY <1>3 DEF OwnPids, Running
<1>5. NamesIn(apps') = NamesIn(conf) /\ NamesIn(conf') = NamesIn(conf)
  BY <1>1, <1>3 DEF NamesIn
<1>6. \A n \in Name : acked'[n] = "in" => n \in NamesIn(conf)
  <2>1. CASE synced
    BY <1>1, <2>1 DEF RegisteredIsSaved
  <2>2. CASE ~ synced
    BY <1>1, <2>2
  <2> QED BY <2>1, <2>2
<1> QED BY <1>4, <1>5, <1>6 DEF RegisteredIsSaved, RegisteredIsMonitored

\* A crash leaves the file to keep the promises to the applications.
LEMMA LoseMemoryKeepsPromise ==
    ASSUME PromiseInv, LoseMemory,
           UNCHANGED <<conf, synced>> \/ synced' = FALSE
    PROVE  PromiseInv'
<1> USE DEF PromiseInv
<1>1. apps' = << >> /\ DOMAIN apps' = {} /\ ~ Up' /\ acked' = acked
  BY DEF LoseMemory, Up
<1>2. OwnPids' /\ RegisteredIsMonitored'
  BY <1>1 DEF OwnPids, RegisteredIsMonitored
<1>3. RegisteredIsSaved'
  <2>1. CASE UNCHANGED <<conf, synced>>
    BY <1>1, <2>1 DEF RegisteredIsSaved, NamesIn
  <2>2. CASE synced' = FALSE
    BY <2>2 DEF RegisteredIsSaved
  <2> QED BY <2>1, <2>2
<1> QED BY <1>2, <1>3

\* Feeds, the timer, the clock and refused requests break no promise.
LEMMA OtherKeepPromise ==
    ASSUME RegistryInv, PromiseInv,
           \/ \E p \in Pid : Feed(p) \/ UnregisterUnknown(p)
           \/ TimeoutBegin \/ CheckFresh \/ Restart \/ TimeoutEnd \/ Tick
           \/ \E locked \in BOOLEAN : CheckOverdue(locked)
           \/ UNCHANGED WdVars
    PROVE  PromiseInv'
<1> USE DEF RegistryInv
<1>1. apps \in Seq(App) /\ \A i \in DOMAIN apps : apps[i] \in App
  BY NodeTypes DEF WdTypeOK
<1>3. ASSUME NEW p \in Pid, Feed(p)
      PROVE  PromiseInv'
  <2>1. PICK i \in DOMAIN apps : apps' = [apps EXCEPT ![i].age = 0]
    BY <1>3 DEF Feed
  <2>2. /\ UNCHANGED <<acked, conf, synced, wpc>>
        /\ DOMAIN apps' = DOMAIN apps
    BY <1>3, <2>1 DEF Feed
  <2>3. \A j \in DOMAIN apps :
            apps'[j].name = apps[j].name /\ apps'[j].pid = apps[j].pid
    BY <1>1, <2>1 DEF App
  <2> QED BY <2>2, <2>3, SamePromise DEF Up
<1>4. ASSUME NEW p \in Pid, UnregisterUnknown(p)
      PROVE  PromiseInv'
  <2>1. UNCHANGED <<acked, apps, wpc>> /\ Up /\ Save(apps)
    BY <1>4 DEF UnregisterUnknown, Up
  <2>2. synced' => NamesIn(conf') = NamesIn(apps) /\ Up
    BY <2>1, SaveKeepsNames DEF WdTypeOK, RegistryConsistent
  <2> QED BY <2>1, <2>2, SamePromise DEF Up
<1>5. CASE TimeoutBegin \/ CheckFresh \/ Restart \/ TimeoutEnd \/ UNCHANGED WdVars
  <2>1. /\ UNCHANGED <<acked, apps, conf, synced>>
        /\ Up' => Up
    BY <1>5 DEF TimeoutBegin, CheckFresh, Restart, TimeoutEnd, WdVars, Up
  <2> QED BY <2>1, SamePromise
<1>6. CASE Tick
  <2>1. /\ UNCHANGED <<acked, conf, synced, wpc>>
        /\ DOMAIN apps' = DOMAIN apps
        /\ \A i \in DOMAIN apps : apps'[i] = [apps[i] EXCEPT !.age = Older(@)]
    BY <1>6 DEF Tick
  <2>2. \A i \in DOMAIN apps :
            apps'[i].name = apps[i].name /\ apps'[i].pid = apps[i].pid
    BY <1>1, <2>1 DEF App
  <2> QED BY <2>1, <2>2, SamePromise DEF Up
<1>7. ASSUME NEW locked \in BOOLEAN, CheckOverdue(locked)
      PROVE  PromiseInv'
  <2>1. /\ UNCHANGED <<acked, conf, synced>>
        /\ apps' = [apps EXCEPT ![cursor].age = 0]
        /\ cursor \in DOMAIN apps
        /\ Up
    BY <1>7 DEF CheckOverdue, Up
  <2>2. DOMAIN apps' = DOMAIN apps
    BY <2>1
  <2>3. \A j \in DOMAIN apps :
            apps'[j].name = apps[j].name /\ apps'[j].pid = apps[j].pid
    BY <1>1, <2>1 DEF App
  <2> QED BY <2>1, <2>2, <2>3, SamePromise
<1> QED BY <1>3, <1>4, <1>5, <1>6, <1>7

\* If no process id is ever shared by two applications, a confirmed
\* registration lasts: the application stays monitored, through crashes of
\* the daemon whose last save succeeded, until a confirmed UNREGISTER.
THEOREM RegisteredStaysMonitored ==
    PidsUnshared => (WdSpec => []RegisteredIsMonitored)
<1> SUFFICES ASSUME PidsUnshared
             PROVE  WdSpec => []RegisteredIsMonitored
  OBVIOUS
<1>1. WdInit => PromiseInv
  BY DEF WdInit, PromiseInv, OwnPids, RegisteredIsSaved,
         RegisteredIsMonitored, Up
<1>2. RegistryInv /\ RegistryInv' /\ PromiseInv /\ [WdNext]_WdVars => PromiseInv'
  <2> SUFFICES ASSUME RegistryInv, RegistryInv', PromiseInv, [WdNext]_WdVars
               PROVE  PromiseInv'
    OBVIOUS
  <2>1. ASSUME NEW running \in Running, Start(running)
        PROVE  PromiseInv'
    BY <2>1, StartKeepsPromise
  <2>2. CASE Crash
    BY <2>2, LoseMemoryKeepsPromise DEF Crash
  <2>3. ASSUME NEW cl \in Client, NEW w \in WirePeriod, NEW c \in Cmd,
               Register(cl[1], cl[2], w, c)
        PROVE  PromiseInv'
    <3>1. cl[1] \in Name /\ cl[2] \in Pid /\ <<cl[1], cl[2]>> \in Client
      BY WdConstants
    <3> QED BY <2>3, <3>1, RegisterKeepsPromise
  <2>4. ASSUME NEW cl \in Client, NEW w \in WirePeriod, NEW c \in Cmd,
               CrashInSave(cl[1], cl[2], w, c)
        PROVE  PromiseInv'
    BY <2>4, LoseMemoryKeepsPromise DEF CrashInSave
  <2>5. ASSUME NEW cl \in Client, UnregisterKnown(cl[1], cl[2])
        PROVE  PromiseInv'
    <3>1. cl[1] \in Name /\ cl[2] \in Pid /\ <<cl[1], cl[2]>> \in Client
      BY WdConstants
    <3> QED BY <2>5, <3>1, UnregisterKeepsPromise
  <2> QED BY <2>1, <2>2, <2>3, <2>4, <2>5, OtherKeepPromise DEF WdNext
<1>3. PromiseInv => RegisteredIsMonitored
  BY DEF PromiseInv
<1> QED BY <1>1, <1>2, <1>3, RegistryInvariant, PTL DEF WdSpec

-----------------------------------------------------------------------------
(* Watchdog implements Registry, for every value of its constants: one     *)
(* lemma for each action that changes the names in the list or the file,   *)
(* then the theorem.                                                       *)

\* A file cut by a failed save names only what the text named.
LEMMA TornNames ==
    ASSUME NEW text \in Seq(Line), NEW t \in Torn(text)
    PROVE  NamesIn(t) \subseteq NamesIn(text)
<1>1. /\ t \in Seq(Line)
      /\ Len(t) <= Len(text)
      /\ \A i \in DOMAIN t : t[i].name = text[i].name
  BY TornIsPrefix
<1>2. DOMAIN t \subseteq DOMAIN text
  BY <1>1, LenProperties
<1> QED BY <1>1, <1>2 DEF NamesIn

\* Whatever becomes of a save, the file names what it named before or only
\* applications of the list that was saved.
LEMMA SaveIsAttempt ==
    ASSUME NEW list \in Seq(App), conf \in Seq(Line), Save(list)
    PROVE  \/ NamesIn(conf') = NamesIn(conf)
           \/ NamesIn(conf') \subseteq NamesIn(list)
<1>1. /\ Image(list) \in Seq(Line)
      /\ DOMAIN Image(list) = DOMAIN list
      /\ \A i \in DOMAIN list : Image(list)[i].name = list[i].name
  BY ImageOfList
<1>2. NamesIn(Image(list)) = NamesIn(list)
  BY <1>1 DEF NamesIn
<1> QED BY <1>1, <1>2, TornNames DEF Save

\* A start brings back the applications the file names, and no other.
LEMMA StartBringsUp ==
    ASSUME RegistryInv, NEW running \in Running, Start(running)
    PROVE  Abstract!BringUp
<1>1. /\ apps' = Loaded(running)
      /\ ~ Up /\ Up'
      /\ conf' = conf
  BY DEF Start, Up
<1>2. /\ DOMAIN apps' = DOMAIN conf
      /\ \A i \in DOMAIN conf : apps'[i].name = conf[i].name
  BY <1>1 DEF Loaded
<1>3. NamesIn(apps') = NamesIn(conf) /\ NamesIn(conf') = NamesIn(conf)
  BY <1>1, <1>2 DEF NamesIn
<1> QED BY <1>1, <1>3 DEF Abstract!BringUp, NamesIn

\* A crash leaves the file alone, or cuts the list that was being saved.
LEMMA CrashGoesDown ==
    ASSUME RegistryInv,
           \/ Crash
           \/ \E cl \in Client, w \in WirePeriod, c \in Cmd :
                    CrashInSave(cl[1], cl[2], w, c)
    PROVE  Abstract!GoDown
<1>1. CASE Crash
  <2>1. Up /\ ~ Up' /\ apps' = << >> /\ conf' = conf
    BY <1>1 DEF Crash, LoseMemory, Up
  <2>2. NamesIn(apps') = {} /\ NamesIn(conf') = NamesIn(conf)
    BY <2>1 DEF NamesIn
  <2> QED BY <2>1, <2>2 DEF Abstract!GoDown, Abstract!SaveAttempt, NamesIn
<1>2. ASSUME NEW cl \in Client, NEW w \in WirePeriod, NEW c \in Cmd,
             CrashInSave(cl[1], cl[2], w, c)
      PROVE  Abstract!GoDown
  <2> DEFINE n == cl[1]
             line == [name |-> n, cmd |-> c]
             text == Append(Image(apps), line)
  <2>1. /\ Up /\ ~ Up' /\ apps' = << >>
        /\ conf' \in Torn(text)
    BY <1>2 DEF CrashInSave, LoseMemory, Up
  <2>2. n \in Name /\ line \in Line
    BY WdConstants DEF Line
  <2>3. /\ Image(apps) \in Seq(Line)
        /\ Len(Image(apps)) = Len(apps)
        /\ \A i \in DOMAIN apps : Image(apps)[i].name = apps[i].name
        /\ apps \in Seq(App)
    BY ImageOfList DEF RegistryInv, WdTypeOK
  <2> HIDE DEF line
  <2>4. /\ text \in Seq(Line)
        /\ DOMAIN text = 1 .. Len(apps) + 1
        /\ \A i \in 1 .. Len(apps) : text[i] = Image(apps)[i]
        /\ text[Len(apps) + 1] = line
    BY <2>2, <2>3, AppendProperties, LenProperties
  <2>5. DOMAIN apps = 1 .. Len(apps) /\ Len(apps) \in Nat
    BY <2>3, LenProperties
  <2> HIDE DEF text
  <2>6. NamesIn(text) \subseteq NamesIn(apps) \union {n}
    <3>1. ASSUME NEW i \in DOMAIN text
          PROVE  text[i].name \in NamesIn(apps) \union {n}
      <4>1. CASE i = Len(apps) + 1
        BY <2>4, <4>1 DEF line
      <4>2. CASE i # Len(apps) + 1
        <5>1. i \in DOMAIN apps
          BY <2>4, <2>5, <4>2
        <5> QED BY <2>3, <2>4, <2>5, <5>1 DEF NamesIn
      <4> QED BY <4>1, <4>2
    <3> QED BY <3>1 DEF NamesIn
  <2>7. NamesIn(conf') \subseteq NamesIn(apps) \union {n}
    BY <2>1, <2>4, <2>6, TornNames
  <2>8. NamesIn(apps') = {}
    BY <2>1 DEF NamesIn
  <2>9. Abstract!SaveAttempt(NamesIn(apps) \union {n})
    BY <2>7 DEF Abstract!SaveAttempt, NamesIn
  <2>10. NamesIn(apps)' = {}
    BY <2>8 DEF NamesIn
  <2>11. Up /\ Up' = FALSE
    BY <2>1 DEF Up
  <2> HIDE DEF n
  <2>12. \E m \in Name : Abstract!SaveAttempt(NamesIn(apps) \union {m})
    BY <2>2, <2>9
  <2> QED BY <2>10, <2>11, <2>12 DEF Abstract!GoDown
<1> QED BY <1>1, <1>2

\* A REGISTER of an application the list does not name enters it.
LEMMA RegisterNewEnters ==
    ASSUME RegistryInv, NEW n \in Name, NEW p \in Pid,
           NEW w \in WirePeriod, NEW c \in Cmd,
           Register(n, p, w, c), RegisterNew(n, p, w, c)
    PROVE  Abstract!Enter(n)
<1> DEFINE node == [name |-> n, cmd |-> c, period |-> EffectivePeriod(w),
                    pid |-> p, age |-> 0]
<1>1. /\ Matching(n, p) = {}
      /\ apps' = Append(apps, node)
      /\ Save(apps')
      /\ Up /\ Up'
  BY DEF Register, RegisterNew, Up
<1>2. node \in App /\ node.name = n
  BY WdConstants DEF EffectivePeriod, Period, App
<1> HIDE DEF node
<1>3. apps \in Seq(App) /\ Len(apps) \in Nat /\ DOMAIN apps = 1 .. Len(apps)
  BY LenProperties DEF RegistryInv, WdTypeOK
<1>4. /\ apps' \in Seq(App)
      /\ DOMAIN apps' = 1 .. Len(apps) + 1
      /\ \A j \in DOMAIN apps : apps'[j] = apps[j]
      /\ apps'[Len(apps) + 1] = node
  BY <1>1, <1>2, <1>3, AppendProperties, LenProperties
<1>5. n \notin NamesIn(apps)
  BY <1>1 DEF Matching, NamesIn
<1>6. DOMAIN apps' = DOMAIN apps \union {Len(apps) + 1}
  BY <1>3, <1>4
<1>7. NamesIn(apps') = NamesIn(apps) \union {n}
  <2>1. \A j \in DOMAIN apps' : apps'[j].name \in NamesIn(apps) \union {n}
    BY <1>2, <1>4, <1>6 DEF NamesIn
  <2>2. NamesIn(apps) \subseteq NamesIn(apps')
    BY <1>4, <1>6 DEF NamesIn
  <2>3. n \in NamesIn(apps')
    BY <1>2, <1>4, <1>6 DEF NamesIn
  <2> QED BY <2>1, <2>2, <2>3 DEF NamesIn
<1>8. \/ NamesIn(conf') = NamesIn(conf)
      \/ NamesIn(conf') \subseteq NamesIn(apps')
  BY <1>1, <1>4, SaveIsAttempt DEF RegistryInv, WdTypeOK
<1> QED BY <1>1, <1>5, <1>7, <1>8
        DEF Abstract!Enter, Abstract!SaveAttempt, NamesIn

\* An UNREGISTER takes the name of one node out of the set: no other node has
\* it, and the nodes behind it keep theirs.
LEMMA UnregisterLeaves ==
    ASSUME RegistryInv, NEW n, NEW p, UnregisterKnown(n, p)
    PROVE  \E m \in Name : Abstract!Leave(m)
<1>1. PICK i \in DOMAIN apps : apps' = RemoveAt(apps, i)
  BY DEF UnregisterKnown
<1>2. Up /\ Up' /\ conf' = conf
  BY DEF UnregisterKnown, Up
<1>3. /\ apps \in Seq(App) /\ Len(apps) \in Nat /\ DOMAIN apps = 1 .. Len(apps)
      /\ \A j, k \in DOMAIN apps : apps[j].name = apps[k].name => j = k
  BY LenProperties DEF RegistryInv, WdTypeOK, RegistryConsistent
<1>4. /\ DOMAIN apps' = 1 .. Len(apps) - 1
      /\ \A j \in 1 .. Len(apps) - 1 :
            apps'[j] = IF j < i THEN apps[j] ELSE apps[j + 1]
  BY <1>1, <1>3, RemoveAtShifts, LenProperties
<1> DEFINE m == apps[i].name
<1>5. m \in Name /\ m \in NamesIn(apps)
  BY NodeTypes DEF RegistryInv, NamesIn
<1>6. ASSUME NEW j \in DOMAIN apps'
      PROVE  \E k \in DOMAIN apps : k # i /\ apps'[j] = apps[k]
  <2>1. CASE j < i
    BY <1>3, <1>4, <2>1
  <2>2. CASE ~ (j < i)
    <3>1. j + 1 \in DOMAIN apps /\ j + 1 # i
      BY <1>3, <1>4, <2>2
    <3> QED BY <1>4, <2>2, <3>1
  <2> QED BY <2>1, <2>2
<1>7. ASSUME NEW k \in DOMAIN apps, k # i
      PROVE  \E j \in DOMAIN apps' : apps'[j] = apps[k]
  <2>1. CASE k < i
    BY <1>3, <1>4, <2>1
  <2>2. CASE k > i
    <3>1. k - 1 \in DOMAIN apps' /\ ~ (k - 1 < i) /\ (k - 1) + 1 = k
      BY <1>3, <1>4, <2>2
    <3> QED BY <1>4, <3>1
  <2> QED BY <1>3, <1>7, <2>1, <2>2
<1>8. NamesIn(apps') = NamesIn(apps) \ {m}
  BY <1>3, <1>6, <1>7 DEF NamesIn
<1>9. NamesIn(conf') = NamesIn(conf)
  BY <1>2 DEF NamesIn
<1> HIDE DEF m
<1>10. Abstract!Leave(m)
  BY <1>2, <1>5, <1>8, <1>9 DEF Abstract!Leave, NamesIn
<1> QED BY <1>5, <1>10

\* A refused UNREGISTER saves the list once more.
LEMMA RefusalSavesAgain ==
    ASSUME RegistryInv, NEW p, UnregisterUnknown(p)
    PROVE  Abstract!SaveAgain
<1>1. Up /\ Up' /\ apps' = apps /\ Save(apps)
  BY DEF UnregisterUnknown, Up
<1>2. \/ NamesIn(conf') = NamesIn(conf)
      \/ NamesIn(conf') \subseteq NamesIn(apps)
  BY <1>1, SaveIsAttempt DEF RegistryInv, WdTypeOK
<1>3. NamesIn(apps') = NamesIn(apps)
  BY <1>1 DEF NamesIn
<1> QED BY <1>1, <1>2, <1>3 DEF Abstract!SaveAgain, Abstract!SaveAttempt, NamesIn

\* Feeds, registrations of known applications, the timer and the clock change
\* nothing Registry sees.
LEMMA OthersStutter ==
    ASSUME RegistryInv,
           \/ \E n \in Name, p \in Pid, w \in WirePeriod, c \in Cmd :
                    Register(n, p, w, c) /\ RegisterKnown(n, p, w, c)
           \/ \E p \in Pid : Feed(p)
           \/ \E locked \in BOOLEAN : CheckOverdue(locked)
           \/ TimeoutBegin \/ CheckFresh \/ Restart \/ TimeoutEnd \/ Tick
           \/ UNCHANGED WdVars
    PROVE  UNCHANGED Abstract!registryVars
<1>1. apps \in Seq(App) /\ \A i \in DOMAIN apps : apps[i] \in App
  BY NodeTypes DEF RegistryInv, WdTypeOK
<1> DEFINE Unseen == /\ Up' = Up
                     /\ conf' = conf
                     /\ DOMAIN apps' = DOMAIN apps
                     /\ \A i \in DOMAIN apps : apps'[i].name = apps[i].name
<1>2. Unseen
  <2>1. ASSUME NEW n \in Name, NEW p \in Pid, NEW w \in WirePeriod, NEW c \in Cmd,
               Register(n, p, w, c), RegisterKnown(n, p, w, c)
        PROVE  Unseen
    <3>1. PICK i \in DOMAIN apps :
            apps' = [apps EXCEPT ![i] = [@ EXCEPT !.age = 0, !.pid = p,
                                 !.period = EffectivePeriod(w), !.cmd = c]]
      BY <2>1 DEF RegisterKnown
    <3>2. conf' = conf /\ wpc' = wpc
      BY <2>1 DEF Register, RegisterKnown
    <3> QED BY <1>1, <3>1, <3>2 DEF App, Up
  <2>2. ASSUME NEW p \in Pid, Feed(p)
        PROVE  Unseen
    <3>1. PICK i \in DOMAIN apps : apps' = [apps EXCEPT ![i].age = 0]
      BY <2>2 DEF Feed
    <3>2. conf' = conf /\ wpc' = wpc
      BY <2>2 DEF Feed
    <3> QED BY <1>1, <3>1, <3>2 DEF App, Up
  <2>3. ASSUME NEW locked \in BOOLEAN, CheckOverdue(locked)
        PROVE  Unseen
    <3>1. /\ apps' = [apps EXCEPT ![cursor].age = 0]
          /\ conf' = conf
          /\ Up' = Up
      BY <2>3 DEF CheckOverdue, Up
    <3> QED BY <1>1, <3>1 DEF App
  <2>4. CASE TimeoutBegin \/ CheckFresh \/ Restart \/ TimeoutEnd \/ UNCHANGED WdVars
    BY <2>4 DEF TimeoutBegin, CheckFresh, Restart, TimeoutEnd, WdVars, Up
  <2>5. CASE Tick
    <3>1. /\ conf' = conf /\ wpc' = wpc
          /\ DOMAIN apps' = DOMAIN apps
          /\ \A i \in DOMAIN apps : apps'[i] = [apps[i] EXCEPT !.age = Older(@)]
      BY <2>5 DEF Tick
    <3> QED BY <1>1, <3>1 DEF App, Up
  <2> QED BY <2>1, <2>2, <2>3, <2>4, <2>5
<1> QED BY <1>2 DEF Abstract!registryVars, NamesIn

\* The daemon keeps what Registry promises: whatever the datagrams, the timer,
\* the crashes and the failed saves, the set of monitored applications changes
\* by one application at a time and comes back from the file as it was saved.
THEOREM RegistryRefined == WdSpec => RegistryKept
<1>1. WdInit => Abstract!RegistryInit
  BY DEF WdInit, Abstract!RegistryInit, Up, NamesIn
<1>2. RegistryInv /\ [WdNext]_WdVars =>
        [Abstract!RegistryNext]_(Abstract!registryVars)
  <2> SUFFICES ASSUME RegistryInv, [WdNext]_WdVars
               PROVE  Abstract!RegistryNext \/ UNCHANGED Abstract!registryVars
    OBVIOUS
  <2> USE DEF Abstract!RegistryNext
  <2>1. ASSUME NEW running \in Running, Start(running)
        PROVE  Abstract!RegistryNext
    BY <2>1, StartBringsUp
  <2>2. CASE \/ Crash
             \/ \E cl \in Client, w \in WirePeriod, c \in Cmd :
                        CrashInSave(cl[1], cl[2], w, c)
    BY <2>2, CrashGoesDown
  <2>3. ASSUME NEW cl \in Client, NEW w \in WirePeriod, NEW c \in Cmd,
               Register(cl[1], cl[2], w, c)
        PROVE  Abstract!RegistryNext \/ UNCHANGED Abstract!registryVars
    <3>1. cl[1] \in Name /\ cl[2] \in Pid
      BY WdConstants
    <3>2. CASE RegisterNew(cl[1], cl[2], w, c)
      BY <2>3, <3>1, <3>2, RegisterNewEnters
    <3>3. CASE RegisterKnown(cl[1], cl[2], w, c)
      BY <2>3, <3>1, <3>3, OthersStutter
    <3> QED BY <2>3, <3>2, <3>3 DEF Register
  <2>4. ASSUME NEW cl \in Client, UnregisterKnown(cl[1], cl[2])
        PROVE  Abstract!RegistryNext
    BY <2>4, UnregisterLeaves
  <2>5. ASSUME NEW p \in Pid, UnregisterUnknown(p)
        PROVE  Abstract!RegistryNext
    BY <2>5, RefusalSavesAgain
  <2>6. CASE \/ \E p \in Pid : Feed(p)
             \/ \E locked \in BOOLEAN : CheckOverdue(locked)
             \/ TimeoutBegin \/ CheckFresh \/ Restart \/ TimeoutEnd \/ Tick
             \/ UNCHANGED WdVars
    BY <2>6, OthersStutter
  <2> QED BY <2>1, <2>2, <2>3, <2>4, <2>5, <2>6 DEF WdNext
<1> QED BY <1>1, <1>2, RegistryInvariant, PTL
        DEF WdSpec, RegistryKept, Abstract!RegistrySpec

=============================================================================
