--------------------------- MODULE TaskLogsProofs ---------------------------
(***************************************************************************)
(* Proofs about the output of a task and the websocket hub: what a client  *)
(* is sent (HubSound) and what is recorded (OutputInOrder), for any number *)
(* of connections, users, lines and for any sizes of the channels.         *)
(***************************************************************************)
EXTENDS TaskLogs, SequenceTheorems, TLAPS

\* A message of the hub and a record of the log: who wrote it, and its number.
Message == (Writers \cup {"status"}) \X Nat

-----------------------------------------------------------------------------
(* The hub *)

HubType ==
    /\ connections \subseteq Conns /\ closed \subseteq Conns
    /\ send \in [Conns -> Seq(Message)]
    /\ written \in [Conns -> Seq(Message)]
    /\ ws \in [Conns -> {"none", "open", "closed"}]
    /\ readPump \in [Conns -> {"none", "joining", "joined", "reading", "leaving", "closing", "done"}]
    /\ writePump \in [Conns -> {"none", "run", "closing", "done"}]
    /\ history \in [HubUsers -> Seq(Message)]
    /\ joined \in [Conns -> Nat]
    /\ messages \in Nat

(* Before the hub knows a connection, nothing is in its channel, and its   *)
(* pumps start later still.                                                *)
Early(c) ==
    /\ readPump[c] \in {"none", "joining"} =>
         c \notin connections \cup closed /\ send[c] = <<>> /\ written[c] = <<>>
    /\ readPump[c] \in {"none", "joining", "joined"} => writePump[c] = "none"

(* NoGap, position by position: what was written, and what is still in the *)
(* channel behind it, is the history from the registration on.             *)
Follows(c) ==
    LET sent == history[UserOf[c]]
        from == joined[c]
        done == joined[c] + Len(written[c])
    IN  /\ done <= Len(sent)
        /\ \A i \in 1..Len(written[c]) : written[c][i] = sent[from + i]
        /\ writePump[c] \in {"none", "run"} =>
             /\ done + Len(send[c]) <= Len(sent)
             /\ \A i \in 1..Len(send[c]) : send[c][i] = sent[done + i]
             /\ c \in connections => done + Len(send[c]) = Len(sent)

HubInv == HubType /\ ChannelsSound /\ \A c \in Conns : Early(c) /\ Follows(c)

(* The handling of one connection by the hub and its pumps.                *)
LEMMA ConnType ==
    ASSUME HubType, NEW c \in Conns, Upgrade(c) \/ PeerLeaves(c) \/ ConnStep(c)
    PROVE  HubType'
<1> USE DEF HubType, pumps, told
<1>1. CASE Upgrade(c) \/ PeerLeaves(c)
  BY <1>1 DEF Upgrade, PeerLeaves
<1>2. CASE RegisterConn(c)
  <2>1. Len(history[UserOf[c]]) \in Nat
    BY DEF HubUsers
  <2> QED
    BY <1>2, <2>1 DEF RegisterConn
<1>3. CASE StartPumps(c) \/ Unregister(c) \/ ReadFails(c) \/ ReadPumpCloses(c)
           \/ WritePumpEnds(c) \/ WritePumpCloses(c)
  BY ZenonT(30), <1>3
  DEF StartPumps, Unregister, ReadFails, ReadPumpCloses, WritePumpEnds, WritePumpCloses
<1>4. CASE WriteMessage(c)
  <2>1. send[c] \in Seq(Message) /\ send[c] # <<>> /\ written[c] \in Seq(Message)
    BY <1>4 DEF WriteMessage
  <2>2. Tail(send[c]) \in Seq(Message) /\ Append(written[c], Head(send[c])) \in Seq(Message)
    BY <2>1
  <2> QED
    BY <1>4, <2>2 DEF WriteMessage
<1> QED
  BY <1>1, <1>2, <1>3, <1>4 DEF ConnStep

(* A connection keeps its place in the history of its user.                *)
LEMMA ConnFollows ==
    ASSUME HubInv, NEW c \in Conns, Upgrade(c) \/ PeerLeaves(c) \/ ConnStep(c),
           NEW d \in Conns
    PROVE  Early(d)' /\ Follows(d)'
<1> USE DEF pumps, told
<1>0. HubType /\ Early(d) /\ Follows(d) /\ Early(c) /\ Follows(c)
  BY DEF HubInv
<1> DEFINE Same == /\ send'[d] = send[d] /\ written'[d] = written[d] /\ joined'[d] = joined[d]
                   /\ history' = history
                   /\ writePump'[d] \in {"none", "run"} => writePump[d] \in {"none", "run"}
                   /\ d \in connections' => d \in connections
<1>a. Same => Follows(d)'
  BY <1>0 DEF Follows
<1>1. CASE Upgrade(c) \/ PeerLeaves(c)
  <2>1. Same
    BY <1>1 DEF Upgrade, PeerLeaves
  <2>2. Early(d)'
    BY <1>0, <1>1 DEF Upgrade, PeerLeaves, HubType, Early
  <2> QED
    BY <1>a, <2>1, <2>2
<1>2. CASE RegisterConn(c)
  <2>1. CASE d = c
    <3>1. send[c] = <<>> /\ written[c] = <<>> /\ writePump[c] = "none"
      BY <1>0, <1>2 DEF RegisterConn, Early
    <3>2. Len(history[UserOf[c]]) \in Nat
      BY <1>0 DEF HubUsers, HubType
    <3>3. joined'[c] = Len(history[UserOf[c]]) /\ readPump'[c] = "joined"
      BY <1>0, <1>2 DEF RegisterConn, HubType
    <3> QED
      BY <1>2, <2>1, <3>1, <3>2, <3>3 DEF RegisterConn, Early, Follows
  <2>2. CASE d # c
    <3>1. Same /\ Early(d)'
      BY <1>0, <1>2, <2>2 DEF RegisterConn, HubType, Early
    <3> QED
      BY <1>a, <3>1
  <2> QED
    BY <2>1, <2>2
<1>3. CASE StartPumps(c) \/ Unregister(c) \/ ReadFails(c) \/ ReadPumpCloses(c)
  <2>1. Same
    BY <1>0, <1>3 DEF StartPumps, Unregister, ReadFails, ReadPumpCloses, HubType, Early
  <2>2. Early(d)'
    BY <1>0, <1>3 DEF StartPumps, Unregister, ReadFails, ReadPumpCloses, HubType, Early
  <2> QED
    BY <1>a, <2>1, <2>2
<1>4. CASE WritePumpEnds(c) \/ WritePumpCloses(c)
  <2>1. Same /\ Early(d)'
    BY <1>0, <1>4 DEF WritePumpEnds, WritePumpCloses, HubType, Early
  <2> QED
    BY <1>a, <2>1
<1>5. CASE WriteMessage(c)
  <2>1. CASE d # c
    <3>1. Same /\ Early(d)'
      BY <1>0, <1>5, <2>1 DEF WriteMessage, HubType, Early
    <3> QED
      BY <1>a, <3>1
  <2>2. CASE d = c
    <3>0. /\ send[c] \in Seq(Message) /\ send[c] # <<>> /\ written[c] \in Seq(Message)
          /\ joined[c] \in Nat /\ history[UserOf[c]] \in Seq(Message)
      BY <1>0, <1>5 DEF WriteMessage, HubType, HubUsers
    <3>1. Early(c)'
      BY <1>0, <1>5 DEF WriteMessage, HubType, Early
    <3>2. CASE written' = [written EXCEPT ![c] = Append(@, Head(send[c]))] /\ UNCHANGED writePump
      <4> DEFINE rest == Tail(send[c])
                 more == Append(written[c], Head(send[c]))
      <4>1. /\ Len(rest) = Len(send[c]) - 1
            /\ \A i \in 1..Len(rest) : rest[i] = send[c][i + 1]
            /\ Head(send[c]) = send[c][1]
        BY <3>0
      <4>2. /\ Len(more) = Len(written[c]) + 1
            /\ \A i \in 1..Len(written[c]) : more[i] = written[c][i]
            /\ more[Len(written[c]) + 1] = send[c][1]
        BY <3>0
      <4>3. send'[c] = rest /\ written'[c] = more
        BY <1>0, <1>5, <3>2 DEF WriteMessage, HubType
      <4>4. Len(send[c]) \in Nat \ {0} /\ Len(written[c]) \in Nat /\ Len(history[UserOf[c]]) \in Nat
        BY <3>0
      <4>5. UNCHANGED <<history, joined, connections, writePump>> /\ writePump[c] = "run"
        BY <1>5, <3>2 DEF WriteMessage
      <4> HIDE DEF rest, more
      <4> QED
        <5> DEFINE sent == history[UserOf[c]]
                   from == joined[c]
                   k == Len(written[c])
                   n == Len(send[c])
        <5>1. /\ from + k + n <= Len(sent) /\ (c \in connections => from + k + n = Len(sent))
              /\ \A i \in 1..k : written[c][i] = sent[from + i]
              /\ \A i \in 1..n : send[c][i] = sent[from + k + i]
          BY <1>0, <4>5 DEF Follows
        <5>2. k \in Nat /\ n \in Nat \ {0} /\ Len(sent) \in Nat /\ from \in Nat
          BY <3>0, <4>4
        <5> HIDE DEF k, n, sent, from
        <5>3. \A i \in 1..(k + 1) : more[i] = sent[from + i]
          <6>1. send[c][1] = sent[from + k + 1] /\ from + k + 1 = from + (k + 1)
            BY <5>1, <5>2
          <6>2. \A i \in 1..k : more[i] = sent[from + i]
            BY <4>2, <5>1 DEF k
          <6>3. more[k + 1] = sent[from + (k + 1)]
            BY <4>2, <6>1 DEF k
          <6> QED
            BY <5>2, <6>2, <6>3
        <5>4. \A i \in 1..(n - 1) : rest[i] = sent[from + (k + 1) + i]
          <6>1. ASSUME NEW i \in 1..(n - 1)
                PROVE  rest[i] = sent[from + (k + 1) + i]
            <7>1. rest[i] = send[c][i + 1] /\ i + 1 \in 1..n
              BY <4>1, <5>2 DEF n
            <7>2. send[c][i + 1] = sent[from + k + (i + 1)]
              BY <5>1, <7>1
            <7>3. from + k + (i + 1) = from + (k + 1) + i
              BY <5>2
            <7> QED
              BY <7>1, <7>2, <7>3
          <6> QED
            BY <6>1
        <5>5. Len(rest) = n - 1 /\ Len(more) = k + 1
          BY <4>1, <4>2 DEF k, n
        <5>6. /\ from + (k + 1) + (n - 1) = from + k + n
              /\ from + (k + 1) <= Len(sent)
          BY <5>1, <5>2
        <5> QED
          BY <2>2, <3>1, <4>3, <4>5, <5>1, <5>3, <5>4, <5>5, <5>6 DEF Follows, sent, from
    <3>3. CASE writePump' = [writePump EXCEPT ![c] = "closing"] /\ UNCHANGED written
      BY <1>0, <1>5, <2>2, <3>1, <3>3 DEF WriteMessage, HubType, Follows
    <3> QED
      BY <1>5, <3>2, <3>3 DEF WriteMessage
  <2> QED
    BY <2>1, <2>2
<1> QED
  BY <1>1, <1>2, <1>3, <1>4, <1>5 DEF ConnStep

(* A message goes to the connections of its user, or drops them.           *)
LEMMA BroadcastFollows ==
    ASSUME HubInv, NEW u \in HubUsers, NEW m \in Message, Broadcast(u, m), messages' \in Nat
    PROVE  HubInv'
<1> DEFINE full == {c \in Addressed(u) : Len(send[c]) >= SendSize}
<1>0. HubType /\ connections \cap closed = {}
  BY DEF HubInv, ChannelsSound
<1>1. /\ send' = [c \in Conns |-> IF c \in Addressed(u) \ full THEN Append(send[c], m) ELSE send[c]]
      /\ closed' = closed \cup full /\ connections' = connections \ full
      /\ ws' = [c \in Conns |-> IF c \in full THEN "closed" ELSE ws[c]]
      /\ history' = [history EXCEPT ![u] = Append(@, m)]
      /\ UNCHANGED <<readPump, writePump, written, joined>>
  BY DEF Broadcast, DropFull, pumps
<1>2. full \subseteq connections /\ Addressed(u) = {c \in connections : UserOf[c] = u}
  BY DEF Addressed
<1> HIDE DEF full
<1>3. HubType'
  <2>1. \A c \in Conns : Append(send[c], m) \in Seq(Message)
    BY <1>0 DEF HubType
  <2>2. Append(history[u], m) \in Seq(Message)
    BY <1>0 DEF HubType
  <2>3. send' \in [Conns -> Seq(Message)]
    BY <1>0, <1>1, <2>1 DEF HubType
  <2>4. history' \in [HubUsers -> Seq(Message)]
    BY <1>0, <1>1, <2>2 DEF HubType
  <2>5. ws' \in [Conns -> {"none", "open", "closed"}]
    BY <1>0, <1>1 DEF HubType
  <2> QED
    BY <1>0, <1>1, <1>2, <2>3, <2>4, <2>5 DEF HubType
<1>4. ChannelsSound'
  BY <1>0, <1>1, <1>2 DEF ChannelsSound
<1>5. ASSUME NEW c \in Conns
      PROVE  Early(c)' /\ Follows(c)'
  <2>0. Early(c) /\ Follows(c)
    BY DEF HubInv
  <2>1. Early(c)'
    BY <1>0, <1>1, <1>2, <2>0 DEF Early, HubType
  <2> DEFINE sent == history[UserOf[c]]
  <2>2. UserOf[c] \in HubUsers /\ sent \in Seq(Message) /\ send[c] \in Seq(Message)
        /\ written[c] \in Seq(Message) /\ joined[c] \in Nat
    BY <1>0 DEF HubType, HubUsers
  <2>3. CASE UserOf[c] # u
    <3>1. history'[UserOf[c]] = sent /\ send'[c] = send[c] /\ (c \in connections' => c \in connections)
      BY <1>0, <1>1, <1>2, <2>2, <2>3 DEF HubType
    <3> QED
      BY <1>1, <2>0, <2>1, <3>1 DEF Follows
  <2>4. CASE UserOf[c] = u
    <3> DEFINE next == Append(sent, m)
               k == Len(written[c])
               n == Len(send[c])
    <3>1. /\ history'[UserOf[c]] = next
          /\ Len(next) = Len(sent) + 1
          /\ \A i \in 1..Len(sent) : next[i] = sent[i]
          /\ next[Len(sent) + 1] = m
          /\ Len(sent) \in Nat /\ k \in Nat /\ n \in Nat
      BY <1>0, <1>1, <2>2, <2>4 DEF HubType
    <3>2. /\ joined[c] + k <= Len(sent)
          /\ \A i \in 1..k : written[c][i] = sent[joined[c] + i]
          /\ writePump[c] \in {"none", "run"} =>
               /\ joined[c] + k + n <= Len(sent)
               /\ \A i \in 1..n : send[c][i] = sent[joined[c] + k + i]
               /\ c \in connections => joined[c] + k + n = Len(sent)
      BY <2>0 DEF Follows
    <3> HIDE DEF next, k, n, sent
    <3>3. \A i \in 1..k : written[c][i] = next[joined[c] + i]
      <4>1. \A i \in 1..k : joined[c] + i \in 1..Len(sent)
        BY SMTT(20), <2>2, <3>1, <3>2
      <4> QED
        BY <3>1, <3>2, <4>1
    <3>4. writePump[c] \in {"none", "run"} => \A i \in 1..n : send[c][i] = next[joined[c] + k + i]
      <4>1. writePump[c] \in {"none", "run"} => \A i \in 1..n : joined[c] + k + i \in 1..Len(sent)
        BY SMTT(20), <2>2, <3>1, <3>2
      <4> QED
        BY <3>1, <3>2, <4>1
    <3>5. CASE c \in Addressed(u) \ full
      <4> DEFINE more == Append(send[c], m)
      <4>1. send'[c] = more /\ Len(more) = n + 1 /\ (\A i \in 1..n : more[i] = send[c][i])
            /\ more[n + 1] = m
        BY <1>1, <2>2, <3>5 DEF n
      <4>2. c \in connections
        BY <1>2, <3>5
      <4> HIDE DEF more
      <4>3. writePump[c] \in {"none", "run"} => \A i \in 1..(n + 1) : more[i] = next[joined[c] + k + i]
        <5>1. ASSUME writePump[c] \in {"none", "run"}
              PROVE  more[n + 1] = next[joined[c] + k + (n + 1)]
          <6>0. joined[c] + k + n = Len(sent)
            BY <3>2, <4>2, <5>1
          <6>1. joined[c] + k + (n + 1) = Len(sent) + 1
            <7>1. joined[c] \in Nat /\ k \in Nat /\ n \in Nat
              BY <2>2, <3>1
            <7> QED
              BY <6>0, <7>1
          <6> QED
            BY <3>1, <4>1, <6>1
        <5>2. writePump[c] \in {"none", "run"} => \A i \in 1..n : more[i] = next[joined[c] + k + i]
          BY <3>4, <4>1
        <5> QED
          BY <3>1, <5>1, <5>2
      <4>4. /\ joined[c] + k <= Len(next)
            /\ writePump[c] \in {"none", "run"} => joined[c] + k + (n + 1) = Len(next)
        BY SMTT(20), <2>2, <3>1, <3>2, <4>2
      <4>5. Len(next) \in Nat /\ joined[c] + k + (n + 1) \in Nat
        BY <2>2, <3>1
      <4> QED
        <5>1. history'[UserOf[c]] = next /\ send'[c] = more /\ Len(more) = n + 1
              /\ written'[c] = written[c] /\ joined'[c] = joined[c] /\ writePump'[c] = writePump[c]
          BY <1>1, <3>1, <4>1
        <5>2. Follows(c)'
          BY <3>3, <4>3, <4>4, <4>5, <5>1 DEF Follows, k
        <5> QED
          BY <2>1, <5>2
    <3>6. CASE c \notin Addressed(u) \ full
      <4>1. send'[c] = send[c] /\ c \notin connections'
        BY <1>1, <1>2, <2>4, <3>6
      <4>2. /\ joined[c] + k <= Len(next)
            /\ writePump[c] \in {"none", "run"} => joined[c] + k + n <= Len(next)
        BY <2>2, <3>1, <3>2
      <4> QED
        BY ZenonT(30), <1>1, <2>1, <3>1, <3>3, <3>4, <4>1, <4>2 DEF Follows, k, n
    <3> QED
      BY <3>5, <3>6
  <2> QED
    BY <2>3, <2>4
<1> QED
  BY <1>3, <1>4, <1>5 DEF HubInv

(* Position by position is as good as NoGap.                               *)
LEMMA FollowsNoGap ==
    ASSUME HubType, NEW c \in Conns, Follows(c)
    PROVE  /\ IsPrefix(written[c], Since(c))
           /\ c \in connections /\ writePump[c] \in {"none", "run"} =>
                 written[c] \o send[c] = Since(c)
<1> DEFINE sent == history[UserOf[c]]
           from == joined[c]
           k == Len(written[c])
           n == Len(send[c])
           len == Len(sent)
<1>1. /\ sent \in Seq(Message) /\ send[c] \in Seq(Message) /\ written[c] \in Seq(Message)
      /\ from \in Nat /\ k \in Nat /\ n \in Nat /\ len \in Nat
  BY DEF HubType, HubUsers
<1>2. /\ from + k <= len
      /\ \A i \in 1..k : written[c][i] = sent[from + i]
      /\ writePump[c] \in {"none", "run"} =>
           /\ \A i \in 1..n : send[c][i] = sent[from + k + i]
           /\ c \in connections => from + k + n = len
  BY DEF Follows
<1>3. Since(c) = SubSeq(sent, from + 1, len)
  BY DEF Since
<1> HIDE DEF sent, from, k, n, len
<1>4. /\ Since(c) \in Seq(Message)
      /\ Len(Since(c)) = len - from
      /\ \A i \in 1..(len - from) : Since(c)[i] = sent[from + i]
  <2>1. \A i \in (from + 1)..len : sent[i] \in Message
    BY <1>1, ElementOfSeq DEF len
  <2>2. /\ SubSeq(sent, from + 1, len) \in Seq(Message)
        /\ Len(SubSeq(sent, from + 1, len)) = IF from + 1 <= len THEN len - (from + 1) + 1 ELSE 0
        /\ \A i \in 1..(len - (from + 1) + 1) : SubSeq(sent, from + 1, len)[i] = sent[(from + 1) + i - 1]
    <3>1. from + 1 \in Int /\ len \in Int
      BY <1>1
    <3> QED
      BY <2>1, <3>1, SubSeqProperties
  <2>3. len - (from + 1) + 1 = len - from /\ (from + 1 <= len \/ len - from = 0)
    BY <1>1, <1>2
  <2>4. \A i \in 1..(len - from) : (from + 1) + i - 1 = from + i
    BY <1>1
  <2> QED
    BY <1>3, <2>2, <2>3, <2>4
<1>5. IsPrefix(written[c], Since(c))
  <2>1. k <= Len(Since(c))
    BY <1>1, <1>2, <1>4
  <2>2. SubSeq(written[c], 1, k) = written[c]
    BY <1>1, SubSeqFull DEF k
  <2>3. /\ SubSeq(Since(c), 1, k) \in Seq(Message)
        /\ Len(SubSeq(Since(c), 1, k)) = k
        /\ \A i \in 1..k : SubSeq(Since(c), 1, k)[i] = Since(c)[i]
    <3>1. \A i \in 1..k : Since(c)[i] \in Message
      BY <1>1, <1>4, <2>1, ElementOfSeq
    <3>2. /\ SubSeq(Since(c), 1, k) \in Seq(Message)
          /\ Len(SubSeq(Since(c), 1, k)) = IF 1 <= k THEN k - 1 + 1 ELSE 0
          /\ \A i \in 1..(k - 1 + 1) : SubSeq(Since(c), 1, k)[i] = Since(c)[1 + i - 1]
      <4>1. k \in Int /\ 1 \in Int
        BY <1>1
      <4> QED
        BY <3>1, <4>1, SubSeqProperties
    <3>3. k - 1 + 1 = k /\ \A i \in 1..k : 1 + i - 1 = i
      BY <1>1
    <3>4. 1 <= k \/ k = 0
      BY <1>1
    <3> QED
      BY <3>2, <3>3, <3>4
  <2>4. \A i \in 1..k : i \in 1..(len - from)
    BY <1>1, <1>4, <2>1
  <2>5. \A i \in 1..k : written[c][i] = SubSeq(Since(c), 1, k)[i]
    BY <1>2, <1>4, <2>3, <2>4
  <2>6. written[c] = SubSeq(Since(c), 1, k)
    <3>1. Len(written[c]) = Len(SubSeq(Since(c), 1, k)) /\ Len(written[c]) = k
      BY <2>3 DEF k
    <3> QED
      BY <1>1, <2>3, <2>5, <3>1, SeqEqual
  <2> QED
    BY <2>1, <2>2, <2>6 DEF IsPrefix, k
<1>6. ASSUME c \in connections, writePump[c] \in {"none", "run"}
      PROVE  written[c] \o send[c] = Since(c)
  <2> DEFINE both == written[c] \o send[c]
  <2>1. /\ both \in Seq(Message) /\ Len(both) = k + n
        /\ \A i \in 1..(k + n) : both[i] = IF i <= k THEN written[c][i] ELSE send[c][i - k]
    BY <1>1, ConcatProperties DEF k, n
  <2> HIDE DEF both
  <2>2. k + n = len - from
    BY <1>1, <1>2, <1>6
  <2>3. ASSUME NEW i \in 1..(k + n)
        PROVE  both[i] = Since(c)[i]
    <3>1. Since(c)[i] = sent[from + i]
      BY <1>4, <2>2
    <3>2. CASE i <= k
      <4>1. i \in 1..k
        BY <1>1, <3>2
      <4> QED
        BY <1>2, <2>1, <3>1, <3>2, <4>1
    <3>3. CASE ~(i <= k)
      <4>1. i - k \in 1..n /\ from + k + (i - k) = from + i
        BY <1>1, <3>3
      <4>2. send[c][i - k] = sent[from + k + (i - k)]
        BY <1>2, <1>6, <4>1
      <4> QED
        BY <2>1, <3>1, <3>3, <4>1, <4>2
    <3> QED
      BY <3>2, <3>3
  <2> QED
    <3>1. Len(both) = Len(Since(c)) /\ \A i \in 1..Len(both) : both[i] = Since(c)[i]
      BY <1>4, <2>1, <2>2, <2>3
    <3>2. both = Since(c)
      BY <1>4, <2>1, <3>1, SeqEqual
    <3> QED
      BY <3>2 DEF both
<1> QED
  BY <1>5, <1>6

-----------------------------------------------------------------------------
(* The log *)

Record == Writers \X Nat

LogType ==
    /\ quota \in [Streams -> Nat] /\ waitDelay \in BOOLEAN /\ orphans \in BOOLEAN
    /\ process \in {"running", "exited"}
    /\ caller \in {"wait", "drain", "notice", "result", "done"} /\ cut \in {"no", "noted", "silent"}
    /\ wrote \in [Streams -> Nat]
    /\ scanner \in [Streams -> {"scan", "eof", "error"}]
    /\ read \in [Streams -> Nat] /\ lines \in [Streams -> Nat] /\ taken \in [Streams -> Nat]
    /\ call \in [Writers -> [users : SUBSET TaskUsers, n : Nat]]
    /\ logger \in Seq(Record) /\ logs \in Seq(Record) /\ rows \in Seq(Record)
    /\ dropped \subseteq Record

(* The goroutines of LogWithTime's callers are among the writers.          *)
LEMMA WriterFacts ==
    /\ \A s \in Streams : s \in Writers /\ ScannerOf[s] \in Writers
    /\ {"task", "notice"} \subseteq Writers /\ NotLogging \in [users : SUBSET TaskUsers, n : Nat]
    /\ Streams \cap {ScannerOf[s] : s \in Streams} = {} /\ {"task", "notice"} \cap Streams = {}
    /\ \A s \in Streams : ScannerOf[s] \notin {"task", "notice"}
    /\ \A s, t \in Streams : ScannerOf[s] = ScannerOf[t] => s = t
    /\ "status" \notin Writers
BY DEF Writers, Streams, ScannerOf, NotLogging

(* LogWithTime: a writer starts a call, or goes on with it.                *)
LEMMA CallFacts ==
    ASSUME LogType, NEW w \in Writers, NEW n \in Nat
    PROVE  /\ <<w, n>> \in Record /\ <<w, call[w].n>> \in Record
           /\ <<w, call[w].n>> \in Message
           /\ StartLog(w, n) => call' \in [Writers -> [users : SUBSET TaskUsers, n : Nat]]
           /\ call' = [call EXCEPT ![w] = NotLogging]
                => call' \in [Writers -> [users : SUBSET TaskUsers, n : Nat]]
           /\ \A u : call' = [call EXCEPT ![w].users = @ \ {u}]
                => call' \in [Writers -> [users : SUBSET TaskUsers, n : Nat]]
<1>1. call \in [Writers -> [users : SUBSET TaskUsers, n : Nat]] /\ call[w].n \in Nat
  BY DEF LogType
<1>2. <<w, n>> \in Record /\ <<w, call[w].n>> \in Record /\ <<w, call[w].n>> \in Message
  BY <1>1 DEF Record, Message
<1>3. [users |-> TaskUsers, n |-> n] \in [users : SUBSET TaskUsers, n : Nat]
  OBVIOUS
<1>4. StartLog(w, n) => call' \in [Writers -> [users : SUBSET TaskUsers, n : Nat]]
  BY <1>1, <1>3 DEF StartLog
<1>5. call' = [call EXCEPT ![w] = NotLogging]
        => call' \in [Writers -> [users : SUBSET TaskUsers, n : Nat]]
  BY <1>1, WriterFacts
<1>6. ASSUME NEW u, call' = [call EXCEPT ![w].users = @ \ {u}]
      PROVE  call' \in [Writers -> [users : SUBSET TaskUsers, n : Nat]]
  BY <1>1, <1>6
<1> QED
  BY <1>2, <1>4, <1>5, <1>6

(* The types of the log are kept.                                          *)
LEMMA LogTypeStep ==
    ASSUME LogType, [LogNext]_<<hubVars, logVars>>
    PROVE  LogType'
<1> USE DEF command, counts, stores
<1>1. CASE UNCHANGED logVars
  BY <1>1 DEF logVars, LogType
<1>2. ASSUME NEW s \in Streams, WriteLine(s) \/ CopyLine(s) \/ ScanLine(s) \/ ScanEOF(s)
      PROVE  LogType'
  <2>0. CASE WriteLine(s)
    <3>1. /\ UNCHANGED <<quota, waitDelay, process, orphans, cut, caller, scanner, counts, call, stores>>
          /\ wrote' = [wrote EXCEPT ![s] = @ + 1]
      BY <2>0 DEF WriteLine
    <3>2. wrote' \in [Streams -> Nat]
      BY <3>1 DEF LogType
    <3> QED
      BY <3>1, <3>2 DEF LogType
  <2>1. CASE CopyLine(s)
    <3>1. /\ UNCHANGED <<command, caller, scanner, lines, taken, call, stores>>
          /\ read' = [read EXCEPT ![s] = @ + 1]
      BY <2>1 DEF CopyLine
    <3>2. read' \in [Streams -> Nat]
      BY <3>1 DEF LogType
    <3> QED
      BY <3>1, <3>2 DEF LogType
  <2>2. CASE ScanLine(s)
    BY <2>2 DEF ScanLine, LogType
  <2>3. CASE ScanEOF(s)
    BY <2>3 DEF ScanEOF, LogType
  <2> QED
    BY <1>2, <2>0, <2>1, <2>2, <2>3
<1>3. CASE Exit \/ WaitReturns \/ Finish
  BY <1>3 DEF Exit, WaitReturns, Finish, LogType
<1>4. ASSUME NEW s \in Streams, ScanFails(s) \/ TakeLine(s)
      PROVE  LogType'
  <2>1. CASE ScanFails(s)
    BY <2>1, CallFacts, WriterFacts DEF ScanFails, LogType
  <2>2. CASE TakeLine(s)
    <3>1. taken[s] + 1 \in Nat /\ s \in Writers
      BY WriterFacts DEF LogType
    <3> QED
      BY <2>2, <3>1, CallFacts DEF TakeLine, LogType
  <2> QED
    BY <1>4, <2>1, <2>2
<1>5. CASE FinishLog \/ LogResult
  <2>1. {"task", "notice"} \subseteq Writers /\ 1 \in Nat
    BY WriterFacts
  <2>2. StartLog("task", 1) \/ StartLog("notice", 1)
    BY <1>5 DEF FinishLog, LogResult
  <2>3. call' \in [Writers -> [users : SUBSET TaskUsers, n : Nat]]
    BY <2>1, <2>2, CallFacts
  <2> QED
    BY <1>5, <2>3 DEF FinishLog, LogResult, LogType
<1>6. ASSUME NEW w \in Writers, SendToLogger(w)
      PROVE  LogType'
  <2>1. <<w, call[w].n>> \in Record
    BY CallFacts
  <2>2. call' \in [Writers -> [users : SUBSET TaskUsers, n : Nat]]
    BY <1>6, CallFacts DEF SendToLogger
  <2> QED
    BY <1>6, <2>1, <2>2 DEF SendToLogger, LogType
<1>7. ASSUME NEW w \in Writers, NEW u \in TaskUsers, SendToWs(w, u)
      PROVE  LogType'
  <2>1. call' \in [Writers -> [users : SUBSET TaskUsers, n : Nat]]
    BY <1>7, CallFacts DEF SendToWs
  <2> QED
    BY <1>7, <2>1 DEF SendToWs, LogType
<1>8. ASSUME NEW batch \in Seq(Record), FlushLogs(batch), logger' \in Seq(Record),
             UNCHANGED <<command, caller, scanner, counts, call>>
      PROVE  LogType'
  <2>1. ToSet(batch) \subseteq Record
    BY <1>8, ElementOfSeq DEF ToSet
  <2>2. rows \o batch \in Seq(Record) /\ <<>> \in Seq(Record)
    BY <1>8 DEF LogType
  <2> QED
    BY <1>8, <2>1, <2>2 DEF FlushLogs, LogType
<1>9. CASE ReceiveLog
  <2>1. Tail(logger) \in Seq(Record) /\ Append(logs, Head(logger)) \in Seq(Record)
    BY <1>9 DEF ReceiveLog, LogType
  <2>2. CASE FlushLogs(Append(logs, Head(logger)))
    BY <1>8, <1>9, <2>1, <2>2 DEF ReceiveLog
  <2>3. CASE logs' = Append(logs, Head(logger)) /\ UNCHANGED <<rows, dropped>>
    BY <1>9, <2>1, <2>3 DEF ReceiveLog, LogType
  <2> QED
    BY <1>9, <2>2, <2>3 DEF ReceiveLog
<1>10. CASE LogTick
  <2>1. logs \in Seq(Record) /\ logger \in Seq(Record)
    BY DEF LogType
  <2> QED
    BY <1>8, <1>10, <2>1 DEF LogTick
<1> QED
  BY <1>1, <1>2, <1>3, <1>4, <1>5, <1>6, <1>7, <1>9, <1>10
     DEF LogNext, ProcessStep, LogStep, Tell, logVars

(* The hub gets messages from the tasks only.                              *)
LEMMA HubStep ==
    ASSUME LogType, HubInv, [LogNext]_<<hubVars, logVars>>
    PROVE  HubInv'
<1>1. CASE UNCHANGED hubVars
  BY <1>1 DEF hubVars, HubInv, HubType, ChannelsSound, Early, Follows
<1>2. ASSUME NEW w \in Writers, NEW u \in TaskUsers, SendToWs(w, u)
      PROVE  HubInv'
  <2>1. u \in HubUsers /\ <<w, call[w].n>> \in Message /\ messages' \in Nat
    BY <1>2, CallFacts, LogAssumption DEF SendToWs, HubInv, HubType
  <2> QED
    BY <1>2, <2>1, BroadcastFollows DEF SendToWs
<1>3. ASSUME NEW u \in HubUsers, StatusMessage(u)
      PROVE  HubInv'
  <2>1. messages' \in Nat
    BY <1>3 DEF StatusMessage, HubInv, HubType
  <2>2. <<"status", messages'>> \in Message
    BY <2>1 DEF Message
  <2> QED
    BY <1>3, <2>1, <2>2, BroadcastFollows DEF StatusMessage
<1>4. ASSUME NEW c \in Conns, Upgrade(c) \/ PeerLeaves(c) \/ ConnStep(c)
      PROVE  HubInv'
  <2>1. HubType'
    BY <1>4, ConnType DEF HubInv
  <2>2. \A d \in Conns : Early(d)' /\ Follows(d)'
    BY <1>4, ConnFollows
  <2>3. ChannelsSound'
    <3>1. ChannelsSound /\ Early(c)
      BY DEF HubInv
    <3> QED
      BY <1>4, <3>1 DEF Upgrade, PeerLeaves, ConnStep, RegisterConn, StartPumps, Unregister, ReadFails,
         ReadPumpCloses, WriteMessage, WritePumpEnds, WritePumpCloses, ChannelsSound, Early
  <2> QED
    BY <2>1, <2>2, <2>3 DEF HubInv
<1> QED
  BY <1>1, <1>2, <1>3, <1>4 DEF LogNext, Tell, HubNext, hubVars

(* The start of a command with no connection made yet.                     *)
LEMMA LogStart ==
    ASSUME HubInit, LogInit, quota \in [Streams -> Nat]
    PROVE  LogType /\ HubInv
<1>1. LogType
  <2>1. call \in [Writers -> [users : SUBSET TaskUsers, n : Nat]]
    BY WriterFacts DEF LogInit
  <2>2. /\ scanner \in [Streams -> {"scan", "eof", "error"}]
        /\ read \in [Streams -> Nat] /\ lines \in [Streams -> Nat] /\ taken \in [Streams -> Nat]
        /\ wrote \in [Streams -> Nat]
        /\ logger \in Seq(Record) /\ logs \in Seq(Record) /\ rows \in Seq(Record)
        /\ dropped \subseteq Record
    BY DEF LogInit
  <2>3. waitDelay \in BOOLEAN /\ orphans \in BOOLEAN
    BY Zenon DEF LogInit
  <2> QED
    BY <2>1, <2>2, <2>3 DEF LogInit, LogType
<1>2. HubType
  BY DEF HubInit, HubType
<1>3. ASSUME NEW c \in Conns
      PROVE  Early(c) /\ Follows(c)
  <2>1. /\ send[c] = <<>> /\ written[c] = <<>> /\ history[UserOf[c]] = <<>> /\ joined[c] = 0
        /\ connections = {} /\ closed = {} /\ writePump[c] = "none"
    BY DEF HubInit, HubUsers
  <2>2. Len(<<>>) = 0
    OBVIOUS
  <2>3. Early(c)
    BY <2>1 DEF Early
  <2>4. Follows(c)
    BY <2>1, <2>2 DEF Follows
  <2> QED
    BY <2>3, <2>4
<1>4. ChannelsSound
  BY DEF HubInit, ChannelsSound
<1> QED
  BY <1>1, <1>2, <1>3, <1>4 DEF HubInv

(* Whatever clients connect, fall silent or leave, and whatever is sent,   *)
(* the hub never sends to or closes a closed channel, and every client is  *)
(* sent the messages of its user in order, without a gap (hub.run, the     *)
(* pumps, LogWithTime).                                                    *)
THEOREM HubSoundHolds == LogSpec => []HubSound
<1>1. HubInit /\ LogInit /\ quota \in [Streams -> Nat] => LogType /\ HubInv
  BY LogStart
<1>2. LogType /\ HubInv /\ [LogNext]_<<hubVars, logVars>> => LogType' /\ HubInv'
  BY LogTypeStep, HubStep
<1>3. HubInv => HubSound
  BY FollowsNoGap DEF HubInv, HubSound, NoGap
<1> QED
  BY <1>1, <1>2, <1>3, PTL DEF LogSpec

-----------------------------------------------------------------------------
(* The order of records *)

\* r may come before q: the same writer goes on, and the result is the last.
Precedes(r, q) == /\ r[1] = q[1] => r[2] < q[2]
                  /\ r[1] = "task" => q[1] = "status"

Sorted(seq)  == \A i, j \in 1..Len(seq) : i < j => Precedes(seq[i], seq[j])
Before(a, b) == \A r \in ToSet(a), q \in ToSet(b) : Precedes(r, q)

\* The table, the batch and the channel follow each other.
Chain(a, b, c) == /\ Sorted(a) /\ Sorted(b) /\ Sorted(c)
                  /\ Before(a, b) /\ Before(a, c) /\ Before(b, c)

(* The elements of sequences that are put together or taken apart.         *)
LEMMA ToSetEmpty == ToSet(<<>>) = {} /\ Sorted(<<>>)
BY DEF ToSet, Sorted

(* The elements of a longer sequence.                                      *)
LEMMA ToSetAppend ==
    ASSUME NEW S, NEW a \in Seq(S), NEW r \in S
    PROVE  ToSet(Append(a, r)) = ToSet(a) \cup {r}
<1>0. \A s \in Seq(S) : DOMAIN s = 1..Len(s) /\ Len(s) \in Nat
  OBVIOUS
<1>1. /\ Append(a, r) \in Seq(S) /\ Len(Append(a, r)) = Len(a) + 1
      /\ \A i \in 1..Len(a) : Append(a, r)[i] = a[i]
      /\ Append(a, r)[Len(a) + 1] = r
  BY AppendProperties
<1>2. DOMAIN Append(a, r) = 1..(Len(a) + 1) /\ DOMAIN a = 1..Len(a) /\ Len(a) \in Nat
  BY <1>0, <1>1
<1> QED
  BY <1>1, <1>2 DEF ToSet

(* The elements of two sequences.                                          *)
LEMMA ToSetConcat ==
    ASSUME NEW S, NEW a \in Seq(S), NEW b \in Seq(S)
    PROVE  ToSet(a \o b) = ToSet(a) \cup ToSet(b)
<1>0. \A s \in Seq(S) : DOMAIN s = 1..Len(s) /\ Len(s) \in Nat
  OBVIOUS
<1>1. /\ a \o b \in Seq(S) /\ Len(a \o b) = Len(a) + Len(b)
      /\ \A i \in 1..(Len(a) + Len(b)) :
            (a \o b)[i] = IF i <= Len(a) THEN a[i] ELSE b[i - Len(a)]
  BY ConcatProperties
<1>2. /\ DOMAIN (a \o b) = 1..(Len(a) + Len(b)) /\ DOMAIN a = 1..Len(a) /\ DOMAIN b = 1..Len(b)
      /\ Len(a) \in Nat /\ Len(b) \in Nat
  BY <1>0, <1>1
<1>3. ToSet(a \o b) \subseteq ToSet(a) \cup ToSet(b)
  <2>1. ASSUME NEW i \in 1..(Len(a) + Len(b))
        PROVE  (a \o b)[i] \in ToSet(a) \cup ToSet(b)
    <3>1. CASE i <= Len(a)
      BY <1>1, <1>2, <3>1 DEF ToSet
    <3>2. CASE ~(i <= Len(a))
      <4>1. i - Len(a) \in 1..Len(b)
        BY <1>2, <3>2
      <4> QED
        BY <1>1, <1>2, <3>2, <4>1 DEF ToSet
    <3> QED
      BY <3>1, <3>2
  <2> QED
    BY <1>2, <2>1 DEF ToSet
<1>4. ToSet(a) \subseteq ToSet(a \o b)
  <2>1. \A i \in 1..Len(a) : i \in 1..(Len(a) + Len(b)) /\ (a \o b)[i] = a[i]
    BY <1>1, <1>2
  <2> QED
    BY <1>2, <2>1 DEF ToSet
<1>5. ToSet(b) \subseteq ToSet(a \o b)
  <2>1. ASSUME NEW i \in 1..Len(b)
        PROVE  i + Len(a) \in 1..(Len(a) + Len(b)) /\ (a \o b)[i + Len(a)] = b[i]
    <3>1. i + Len(a) \in 1..(Len(a) + Len(b)) /\ ~(i + Len(a) <= Len(a)) /\ (i + Len(a)) - Len(a) = i
      BY <1>2
    <3> QED
      BY <1>1, <3>1
  <2> QED
    BY <1>2, <2>1 DEF ToSet
<1> QED
  BY <1>3, <1>4, <1>5

(* The first element and the others.                                       *)
LEMMA ToSetTail ==
    ASSUME NEW S, NEW a \in Seq(S), a # <<>>
    PROVE  ToSet(a) = {Head(a)} \cup ToSet(Tail(a))
<1>0. \A s \in Seq(S) : DOMAIN s = 1..Len(s) /\ Len(s) \in Nat
  OBVIOUS
<1>1. /\ Tail(a) \in Seq(S) /\ Len(Tail(a)) = Len(a) - 1 /\ Head(a) = a[1]
      /\ \A i \in 1..Len(Tail(a)) : Tail(a)[i] = a[i + 1]
  BY HeadTailProperties
<1>2. /\ DOMAIN Tail(a) = 1..(Len(a) - 1) /\ DOMAIN a = 1..Len(a) /\ Len(a) \in Nat \ {0}
  BY <1>0, <1>1, EmptySeq
<1>3. \A i \in 1..Len(a) : i = 1 \/ (i - 1 \in 1..(Len(a) - 1) /\ Tail(a)[i - 1] = a[i])
  BY <1>1, <1>2
<1>4. \A i \in 1..(Len(a) - 1) : i + 1 \in 1..Len(a) /\ Tail(a)[i] = a[i + 1]
  BY <1>1, <1>2
<1>5. 1 \in 1..Len(a)
  BY <1>2
<1>6. ToSet(a) \subseteq {Head(a)} \cup ToSet(Tail(a))
  <2>1. ASSUME NEW i \in 1..Len(a)
        PROVE  a[i] \in {Head(a)} \cup ToSet(Tail(a))
    <3>1. CASE i = 1
      BY <1>1, <3>1
    <3>2. CASE i # 1
      <4>1. i - 1 \in DOMAIN Tail(a) /\ a[i] = Tail(a)[i - 1]
        BY <1>2, <1>3, <3>2
      <4> QED
        BY <4>1 DEF ToSet
    <3> QED
      BY <3>1, <3>2
  <2> QED
    BY <1>2, <2>1 DEF ToSet
<1>7. Head(a) \in ToSet(a)
  BY <1>1, <1>2, <1>5 DEF ToSet
<1>8. ToSet(Tail(a)) \subseteq ToSet(a)
  BY <1>2, <1>4 DEF ToSet
<1> QED
  BY <1>6, <1>7, <1>8

(* Sorted sequences: a record is added at the end ...                      *)
LEMMA SortedAppend ==
    ASSUME NEW S, NEW a \in Seq(S), NEW r \in S, Sorted(a),
           \A q \in ToSet(a) : Precedes(q, r)
    PROVE  Sorted(Append(a, r))
<1>0. \A s \in Seq(S) : DOMAIN s = 1..Len(s) /\ Len(s) \in Nat
  OBVIOUS
<1>1. /\ Len(Append(a, r)) = Len(a) + 1 /\ Len(a) \in Nat
      /\ \A i \in 1..Len(a) : Append(a, r)[i] = a[i]
      /\ Append(a, r)[Len(a) + 1] = r
  BY AppendProperties
<1>2. \A i \in 1..Len(a) : Precedes(a[i], r)
  BY <1>0 DEF ToSet
<1>3. ASSUME NEW i \in 1..(Len(a) + 1), NEW j \in 1..(Len(a) + 1), i < j
      PROVE  Precedes(Append(a, r)[i], Append(a, r)[j])
  <2>1. i \in 1..Len(a)
    BY <1>1, <1>3
  <2>2. CASE j \in 1..Len(a)
    BY <1>1, <1>3, <2>1, <2>2 DEF Sorted
  <2>3. CASE j = Len(a) + 1
    BY <1>1, <1>2, <2>1, <2>3
  <2> QED
    BY <1>1, <2>2, <2>3
<1> QED
  BY <1>1, <1>3 DEF Sorted

(* ... two are joined ...                                                  *)
LEMMA SortedConcat ==
    ASSUME NEW S, NEW a \in Seq(S), NEW b \in Seq(S), Sorted(a), Sorted(b), Before(a, b)
    PROVE  Sorted(a \o b)
<1>0. \A s \in Seq(S) : DOMAIN s = 1..Len(s) /\ Len(s) \in Nat
  OBVIOUS
<1>1. /\ Len(a \o b) = Len(a) + Len(b) /\ Len(a) \in Nat /\ Len(b) \in Nat
      /\ \A i \in 1..(Len(a) + Len(b)) :
            (a \o b)[i] = IF i <= Len(a) THEN a[i] ELSE b[i - Len(a)]
  BY ConcatProperties
<1>2. \A i \in 1..Len(a), j \in 1..Len(b) : Precedes(a[i], b[j])
  BY <1>0 DEF Before, ToSet
<1>3. ASSUME NEW i \in 1..(Len(a) + Len(b)), NEW j \in 1..(Len(a) + Len(b)), i < j
      PROVE  Precedes((a \o b)[i], (a \o b)[j])
  <2>1. CASE j <= Len(a)
    <3>1. i \in 1..Len(a) /\ j \in 1..Len(a) /\ i <= Len(a)
      BY <1>1, <1>3, <2>1
    <3> QED
      BY <1>1, <1>3, <2>1, <3>1 DEF Sorted
  <2>2. CASE i <= Len(a) /\ ~(j <= Len(a))
    <3>1. i \in 1..Len(a) /\ j - Len(a) \in 1..Len(b)
      BY <1>1, <1>3, <2>2
    <3>2. (a \o b)[i] = a[i] /\ (a \o b)[j] = b[j - Len(a)]
      BY <1>1, <2>2
    <3> QED
      BY <1>2, <3>1, <3>2
  <2>3. CASE ~(i <= Len(a)) /\ ~(j <= Len(a))
    <3>1. i - Len(a) \in 1..Len(b) /\ j - Len(a) \in 1..Len(b) /\ i - Len(a) < j - Len(a)
      BY <1>1, <1>3, <2>3
    <3>2. (a \o b)[i] = b[i - Len(a)] /\ (a \o b)[j] = b[j - Len(a)]
      BY <1>1, <2>3
    <3> QED
      BY <3>1, <3>2 DEF Sorted
  <2>4. j <= Len(a) => i <= Len(a)
    BY <1>1, <1>3
  <2> QED
    BY <2>1, <2>2, <2>3, <2>4
<1> QED
  BY <1>1, <1>3 DEF Sorted

(* ... and the first record is taken.                                      *)
LEMMA SortedTail ==
    ASSUME NEW S, NEW a \in Seq(S), Sorted(a), a # <<>>
    PROVE  Sorted(Tail(a)) /\ \A q \in ToSet(Tail(a)) : Precedes(Head(a), q)
<1>0. \A s \in Seq(S) : DOMAIN s = 1..Len(s) /\ Len(s) \in Nat
  OBVIOUS
<1>1. /\ Tail(a) \in Seq(S) /\ Len(Tail(a)) = Len(a) - 1 /\ Head(a) = a[1]
      /\ \A i \in 1..Len(Tail(a)) : Tail(a)[i] = a[i + 1]
  BY HeadTailProperties
<1>2. DOMAIN Tail(a) = 1..(Len(a) - 1) /\ Len(a) \in Nat \ {0}
  BY <1>0, <1>1, EmptySeq
<1>3. \A i \in 1..(Len(a) - 1) : i + 1 \in 1..Len(a) /\ 1 < i + 1 /\ Tail(a)[i] = a[i + 1] /\ 1 \in 1..Len(a)
  BY <1>1, <1>2
<1>4. \A i, j \in 1..(Len(a) - 1) : i < j => Precedes(Tail(a)[i], Tail(a)[j])
  <2>1. \A i, j \in 1..(Len(a) - 1) : i < j => i + 1 < j + 1
    BY <1>2
  <2> QED
    BY <1>3, <2>1 DEF Sorted
<1>5. \A i \in 1..(Len(a) - 1) : Precedes(a[1], Tail(a)[i])
  BY <1>3 DEF Sorted
<1>6. Sorted(Tail(a))
  BY <1>1, <1>4 DEF Sorted
<1> QED
  BY <1>1, <1>2, <1>5, <1>6 DEF ToSet

-----------------------------------------------------------------------------
(* The calls of Log *)

\* The calls that a writer has begun: one per line taken, one for the error
\* of a scanner, one for the notice and one for the result.
Issued(w) ==
    IF w \in Streams THEN taken[w]
    ELSE IF w = "task" THEN IF caller \in {"result", "done"} THEN 1 ELSE 0
    ELSE IF w = "notice" THEN IF cut = "noted" /\ caller \in {"notice", "result", "done"} THEN 1 ELSE 0
    ELSE IF \E s \in Streams : w = ScannerOf[s] /\ scanner[s] = "error" THEN 1 ELSE 0

\* The calls that have put their record into the channel, or told the user.
Put(w)     == IF call[w].n = 0 THEN Issued(w) ELSE Issued(w) - 1
Told(u, w) == IF u \in call[w].users THEN Issued(w) - 1 ELSE Issued(w)

\* A call under way is the last one of its writer.
CallsInv ==
    \A w \in Writers : /\ call[w].n \in {0, Issued(w)}
                       /\ call[w].users # {} => call[w].n # 0

\* Lines go from the scanner to the consumer; once both pipes are done they
\* stay so, and only the task writes, its notice first.
PipesInv ==
    /\ \A s \in Streams :
          /\ taken[s] <= lines[s] /\ lines[s] <= read[s]
          /\ scanner[s] # "scan" => lines[s] = read[s]
          /\ caller \in {"notice", "result", "done"} => PipeDone(s)
    /\ caller \in {"result", "done"} => Idle("notice")
    /\ caller = "notice" => cut = "noted"
    /\ NothingLeft

Records == ToSet(rows) \cup ToSet(logs) \cup ToSet(logger)

\* What is stored or on its way: the records of finished calls, in order.
StoreInv ==
    /\ Chain(rows, logs, logger)
    /\ \A r \in Records : 1 <= r[2] /\ r[2] <= Put(r[1])
    /\ \A w \in Writers : \A n \in 1..Put(w) : <<w, n>> \in Records \cup dropped

\* What each user was sent, in order.
SentInv ==
    \A u \in TaskUsers :
        /\ Sorted(history[u])
        /\ \A r \in ToSet(history[u]) :
              /\ r[1] = "status" => r[2] <= messages
              /\ r[1] \in Writers => 1 <= r[2] /\ r[2] <= Told(u, r[1])
        /\ \A w \in Writers : \A n \in 1..Told(u, w) : <<w, n>> \in ToSet(history[u])

LogInv == CallsInv /\ PipesInv /\ StoreInv /\ SentInv

(* The records are those of writers, with a number.                        *)
LEMMA RecordFacts ==
    ASSUME LogType
    PROVE  /\ \A r \in Records : r \in Record /\ r[1] \in Writers /\ r[2] \in Nat /\ r = <<r[1], r[2]>>
           /\ \A w \in Writers : /\ Issued(w) \in Nat /\ call[w].n \in Nat /\ Put(w) \in Int
                                 /\ call[w].users \subseteq TaskUsers
                                 /\ Idle(w) <=> call[w].n = 0 /\ call[w].users = {}
<1>1. Records \subseteq Record
  BY ElementOfSeq DEF LogType, Records, ToSet
<1>2. \A r \in Record : r[1] \in Writers /\ r[2] \in Nat /\ r = <<r[1], r[2]>>
  BY DEF Record
<1>3. ASSUME NEW w \in Writers
      PROVE  /\ Issued(w) \in Nat /\ call[w].n \in Nat /\ Put(w) \in Int
             /\ call[w].users \subseteq TaskUsers
             /\ Idle(w) <=> call[w].n = 0 /\ call[w].users = {}
  <2>1. Issued(w) \in Nat
    BY DEF Issued, LogType
  <2>2. call[w] \in [users : SUBSET TaskUsers, n : Nat]
    BY DEF LogType
  <2>3. Put(w) \in Int
    BY <2>1 DEF Put
  <2> QED
    BY <2>1, <2>2, <2>3 DEF Idle, NotLogging
<1> QED
  BY <1>1, <1>2, <1>3

(* Nothing is stored or sent, and no call gets that far.                   *)
LEMMA StoreKept ==
    ASSUME LogType, StoreInv, UNCHANGED stores, \A w \in Writers : Put(w)' = Put(w)
    PROVE  StoreInv'
<1>1. UNCHANGED <<rows, logs, logger, dropped>>
  BY DEF stores
<1>2. Records' = Records
  BY <1>1 DEF Records
<1>3. Chain(rows, logs, logger)'
  BY <1>1 DEF StoreInv
<1>4. \A r \in Records : r[1] \in Writers
  BY RecordFacts
<1> QED
  BY <1>1, <1>2, <1>3, <1>4 DEF StoreInv

(* The same for what users are sent.                                       *)
LEMMA SentKept ==
    ASSUME SentInv, UNCHANGED <<history, messages>>,
           \A u \in TaskUsers, w \in Writers : Told(u, w)' = Told(u, w)
    PROVE  SentInv'
<1>1. ASSUME NEW u \in TaskUsers
      PROVE  /\ Sorted(history[u])'
             /\ \A r \in ToSet(history[u])' :
                   /\ r[1] = "status" => r[2] <= messages'
                   /\ r[1] \in Writers => 1 <= r[2] /\ r[2] <= Told(u, r[1])'
             /\ \A w \in Writers : \A n \in 1..Told(u, w)' : <<w, n>> \in ToSet(history[u])'
  <2>1. Sorted(history[u])' /\ ToSet(history[u])' = ToSet(history[u])
    BY DEF SentInv
  <2> QED
    BY <2>1 DEF SentInv
<1> QED
  BY <1>1 DEF SentInv

(* A writer begins a call of Log.                                          *)
LEMMA BeginsCall ==
    ASSUME LogType, CallsInv, StoreInv, SentInv, NEW w \in Writers, Idle(w),
           Issued(w)' = Issued(w) + 1, StartLog(w, Issued(w) + 1),
           \A v \in Writers : v # w => Issued(v)' = Issued(v),
           UNCHANGED <<stores, history, messages>>
    PROVE  CallsInv' /\ StoreInv' /\ SentInv'
<1>1. call \in [Writers -> [users : SUBSET TaskUsers, n : Nat]] /\ Issued(w) \in Nat
      /\ call[w].n = 0 /\ call[w].users = {}
  BY RecordFacts DEF LogType
<1>2. /\ call'[w] = [users |-> TaskUsers, n |-> Issued(w) + 1]
      /\ \A v \in Writers : v # w => call'[v] = call[v]
  BY <1>1 DEF StartLog
<1>3. call'[w].n = Issued(w) + 1 /\ call'[w].users = TaskUsers
  BY <1>2
<1>4. CallsInv'
  BY <1>1, <1>2, <1>3 DEF CallsInv
<1>5. ASSUME NEW v \in Writers
      PROVE  Put(v)' = Put(v) /\ \A u \in TaskUsers : Told(u, v)' = Told(u, v)
  <2>1. CASE v = w
    BY <1>1, <1>3, <2>1 DEF Put, Told
  <2>2. CASE v # w
    BY <1>2, <2>2 DEF Put, Told
  <2> QED
    BY <2>1, <2>2
<1> QED
  BY <1>4, <1>5, StoreKept, SentKept

(* After the result is logged nobody else is logging.                      *)
LEMMA OthersIdle ==
    ASSUME LogType, PipesInv, NEW w \in Writers, Issued("task") # 0, w # "task"
    PROVE  call[w].n = 0
<1>1. caller \in {"result", "done"}
  BY DEF Issued, Streams
<1>2. \A s \in Streams : Idle(s) /\ Idle(ScannerOf[s])
  BY <1>1 DEF PipesInv, PipeDone
<1>3. Idle("notice")
  BY <1>1 DEF PipesInv
<1>4. w = "notice" \/ \E s \in Streams : w = s \/ w = ScannerOf[s]
  BY DEF Writers
<1> QED
  BY <1>2, <1>3, <1>4, RecordFacts

(* SendToLogger puts the record of the call behind all others.             *)
LEMMA PutStep ==
    ASSUME LogType, CallsInv, PipesInv, StoreInv, SentInv, NEW w \in Writers, SendToLogger(w)
    PROVE  CallsInv' /\ StoreInv' /\ (UNCHANGED <<history, messages>> => SentInv')
<1> DEFINE r == <<w, call[w].n>>
<1>1. /\ UNCHANGED <<cut, caller, scanner, taken, logs, rows, dropped>>
      /\ logger' = Append(logger, r)
      /\ call' = [call EXCEPT ![w] = NotLogging] /\ ~Idle(w) /\ call[w].users = {}
  BY DEF SendToLogger, counts, command
<1>2. call[w].n = Issued(w) /\ Issued(w) \in Nat \ {0}
  BY <1>1, RecordFacts DEF CallsInv
<1>3. /\ call'[w].n = 0 /\ call'[w].users = {}
      /\ \A v \in Writers : v # w => call'[v] = call[v]
  <2>1. call'[w] = NotLogging /\ \A v \in Writers : v # w => call'[v] = call[v]
    BY <1>1 DEF LogType
  <2> QED
    BY <2>1 DEF NotLogging
<1>4. \A v : Issued(v)' = Issued(v)
  BY <1>1 DEF Issued
<1>5. CallsInv'
  BY <1>3, <1>4 DEF CallsInv
<1>6. Put(w) = Issued(w) - 1 /\ Put(w)' = Issued(w) /\ \A v \in Writers : v # w => Put(v)' = Put(v)
  BY <1>2, <1>3, <1>4 DEF Put
<1>7. \A q \in Records : Precedes(q, r)
  <2>1. ASSUME NEW q \in Records
        PROVE  Precedes(q, r)
    <3>1. q[1] \in Writers /\ q[2] \in Nat /\ 1 <= q[2] /\ q[2] <= Put(q[1])
      BY RecordFacts DEF StoreInv
    <3>2. q[1] = w => q[2] < Issued(w)
      BY <1>2, <1>6, <3>1
    <3>3. q[1] # "task"
      <4>1. ASSUME q[1] = "task"
            PROVE  FALSE
        <5>1. Put("task") >= 1 /\ "task" \in Writers
          BY <3>1, <4>1, WriterFacts, RecordFacts
        <5>2. Issued("task") \in Nat
          BY WriterFacts, RecordFacts
        <5>3. Issued("task") # 0 /\ Issued("task") \in {0, 1}
          BY <5>1, <5>2 DEF Put, Issued, Streams
        <5>4. call["task"].n = 0
          BY <5>1, <5>2, <5>3 DEF Put
        <5>5. w # "task"
          BY <1>2, <5>4
        <5> QED
          BY <1>2, <5>3, <5>5, OthersIdle
      <4> QED
        BY <4>1
    <3> QED
      BY <1>2, <3>2, <3>3 DEF Precedes
  <2> QED
    BY <2>1
<1>8. /\ rows \in Seq(Record) /\ logs \in Seq(Record) /\ logger \in Seq(Record) /\ r \in Record
  BY CallFacts DEF LogType
<1> HIDE DEF r
<1>9. ToSet(logger') = ToSet(logger) \cup {r}
  <2>1. logger' = Append(logger, r)
    BY <1>1
  <2> QED
    BY <1>8, <2>1, ToSetAppend
<1>10. Chain(rows, logs, logger')
  <2>1. Chain(rows, logs, logger)
    BY DEF StoreInv
  <2>2. Sorted(logger')
    BY <1>1, <1>7, <1>8, <2>1, SortedAppend DEF Chain, Records
  <2>3. Before(rows, logger') /\ Before(logs, logger')
    BY <1>7, <1>9, <2>1 DEF Chain, Before, Records
  <2> QED
    BY <2>1, <2>2, <2>3 DEF Chain
<1>11. Records' = Records \cup {r}
  BY <1>1, <1>9 DEF Records
<1>12. ASSUME NEW q \in Records'
       PROVE  1 <= q[2] /\ q[2] <= Put(q[1])'
  <2>1. CASE q = r
    BY <1>2, <1>6, <2>1 DEF r
  <2>2. CASE q \in Records
    <3>1. q[1] \in Writers /\ q[2] \in Nat /\ 1 <= q[2] /\ q[2] <= Put(q[1])
      BY <2>2, RecordFacts DEF StoreInv
    <3> QED
      BY <1>2, <1>6, <3>1
  <2> QED
    BY <1>11, <1>12, <2>1, <2>2
<1>13. ASSUME NEW v \in Writers, NEW n \in 1..Put(v)'
       PROVE  <<v, n>> \in Records' \cup dropped'
  <2>1. CASE n \in 1..Put(v)
    BY <1>1, <1>11, <2>1 DEF StoreInv
  <2>2. CASE n \notin 1..Put(v)
    <3>1. v = w /\ n = Issued(w)
      BY <1>2, <1>6, <1>13, <2>2
    <3> QED
      BY <1>2, <1>11, <3>1 DEF r
  <2> QED
    BY <2>1, <2>2
<1>14. \A u \in TaskUsers, v \in Writers : Told(u, v)' = Told(u, v)
  BY <1>1, <1>3, <1>4 DEF Told
<1>15. StoreInv'
  <2>1. Chain(rows, logs, logger)'
    BY <1>1, <1>10
  <2> QED
    BY <1>12, <1>13, <2>1 DEF StoreInv
<1> QED
  BY <1>5, <1>14, <1>15, SentKept

\* A step sends m to user u, and to nobody else, behind all that u was sent.
Sends(u, m) ==
    /\ history' = [history EXCEPT ![u] = Append(@, m)]
    /\ messages' \in Nat /\ messages <= messages'
    /\ \A q \in ToSet(history[u]) : Precedes(q, m)
    /\ m[1] = "status" => m[2] <= messages'
    /\ m[1] \in Writers => 1 <= m[2] /\ m[2] <= Told(u, m[1])'
    /\ \A w \in Writers : /\ Told(u, w) \in Int /\ Told(u, w)' \in Int
                          /\ Told(u, w) <= Told(u, w)'
                          /\ \A n \in 1..Told(u, w)' : n \in 1..Told(u, w) \/ m = <<w, n>>
    /\ \A v \in TaskUsers, w \in Writers : v # u => Told(v, w)' = Told(v, w)

(* A message at the end of what a user was sent.                           *)
LEMMA SentAppend ==
    ASSUME HubType, SentInv, NEW u \in TaskUsers, NEW m \in Message, Sends(u, m)
    PROVE  SentInv'
<1> USE DEF Sends
<1>1. u \in HubUsers /\ TaskUsers \subseteq HubUsers
  BY LogAssumption
<1>2. /\ history'[u] = Append(history[u], m) /\ history[u] \in Seq(Message)
      /\ \A v \in TaskUsers : v # u => history'[v] = history[v]
  BY <1>1 DEF HubType
<1>3. ToSet(history'[u]) = ToSet(history[u]) \cup {m} /\ Sorted(history'[u])
  BY <1>2, ToSetAppend, SortedAppend DEF SentInv
<1>4. \A v \in TaskUsers : \A q \in ToSet(history[v]) : q[2] \in Nat
  <2>1. \A v \in TaskUsers : ToSet(history[v]) \subseteq Message
    BY <1>1, ElementOfSeq DEF HubType, ToSet
  <2> QED
    BY <2>1 DEF Message
<1>5. ASSUME NEW q \in ToSet(history'[u])
      PROVE  /\ q[1] = "status" => q[2] <= messages'
             /\ q[1] \in Writers => 1 <= q[2] /\ q[2] <= Told(u, q[1])'
  <2>1. CASE q = m
    BY <2>1
  <2>2. CASE q \in ToSet(history[u])
    <3>1. q[2] \in Nat /\ messages \in Nat
      BY <1>4, <2>2 DEF HubType
    <3>2. /\ q[1] = "status" => q[2] <= messages
          /\ q[1] \in Writers => 1 <= q[2] /\ q[2] <= Told(u, q[1])
      BY <2>2 DEF SentInv
    <3> QED
      BY <3>1, <3>2
  <2> QED
    BY <1>3, <1>5, <2>1, <2>2
<1>6. \A w \in Writers : \A n \in 1..Told(u, w)' : <<w, n>> \in ToSet(history'[u])
  BY <1>3 DEF SentInv
<1>7. ASSUME NEW v \in TaskUsers, v # u
      PROVE  /\ Sorted(history'[v])
             /\ \A q \in ToSet(history'[v]) :
                   /\ q[1] = "status" => q[2] <= messages'
                   /\ q[1] \in Writers => 1 <= q[2] /\ q[2] <= Told(v, q[1])'
             /\ \A w \in Writers : \A n \in 1..Told(v, w)' : <<w, n>> \in ToSet(history'[v])
  <2>1. history'[v] = history[v]
    BY <1>2, <1>7
  <2>2. \A q \in ToSet(history[v]) : q[1] = "status" => q[2] <= messages'
    BY <1>4 DEF SentInv, HubType
  <2>3. \A q \in ToSet(history[v]) : q[1] \in Writers => 1 <= q[2] /\ q[2] <= Told(v, q[1])'
    BY <1>7 DEF SentInv
  <2>4. \A w \in Writers : \A n \in 1..Told(v, w)' : <<w, n>> \in ToSet(history[v])
    BY <1>7 DEF SentInv
  <2> QED
    BY <2>1, <2>2, <2>3, <2>4 DEF SentInv
<1> QED
  BY <1>3, <1>5, <1>6, <1>7 DEF SentInv

(* sendToWs sends the record of the call behind all others.                *)
LEMMA TellStep ==
    ASSUME LogType, HubType, CallsInv, PipesInv, StoreInv, SentInv,
           NEW w \in Writers, NEW u \in TaskUsers, SendToWs(w, u)
    PROVE  CallsInv' /\ StoreInv' /\ SentInv'
<1> DEFINE r == <<w, call[w].n>>
<1>1. /\ UNCHANGED <<cut, caller, scanner, taken, stores, messages>> /\ u \in call[w].users
      /\ history' = [history EXCEPT ![u] = Append(@, r)]
      /\ call' = [call EXCEPT ![w].users = @ \ {u}]
  BY DEF SendToWs, Broadcast, counts, command
<1>2. call[w].n = Issued(w) /\ Issued(w) \in Nat \ {0}
  BY <1>1, RecordFacts DEF CallsInv
<1>3. /\ call'[w].n = call[w].n /\ call'[w].users = call[w].users \ {u}
      /\ \A v \in Writers : v # w => call'[v] = call[v]
  BY <1>1 DEF LogType
<1>4. \A v : Issued(v)' = Issued(v)
  BY <1>1 DEF Issued
<1>5. CallsInv'
  BY <1>2, <1>3, <1>4 DEF CallsInv
<1>6. \A v \in Writers : Put(v)' = Put(v)
  BY <1>3, <1>4 DEF Put
<1>7. StoreInv'
  BY <1>1, <1>6, StoreKept
<1>8. /\ Told(u, w) = Issued(w) - 1 /\ Told(u, w)' = Issued(w)
      /\ \A v \in Writers : v # w => Told(u, v)' = Told(u, v)
      /\ \A x \in TaskUsers, v \in Writers : x # u => Told(x, v)' = Told(x, v)
  BY <1>1, <1>3, <1>4 DEF Told
<1>9. \A v \in Writers : Told(u, v) \in Int
  BY RecordFacts DEF Told
<1>10. \A q \in ToSet(history[u]) : Precedes(q, r)
  <2>0. history[u] \in Seq(Message)
    BY LogAssumption DEF HubType
  <2>1. ASSUME NEW q \in ToSet(history[u])
        PROVE  Precedes(q, r)
    <3>1. q \in Message
      BY <2>0, ElementOfSeq DEF ToSet
    <3>2. q[1] \in Writers \cup {"status"} /\ q[2] \in Nat
      BY <3>1 DEF Message
    <3>3. q[1] = w => q[2] < Issued(w)
      BY <1>2, <1>8, <3>2 DEF SentInv
    <3>4. q[1] # "task"
      <4>1. ASSUME q[1] = "task"
            PROVE  FALSE
        <5>1. 1 <= q[2] /\ q[2] <= Told(u, "task") /\ "task" \in Writers
          BY <4>1, WriterFacts DEF SentInv
        <5>2. Issued("task") \in Nat /\ Told(u, "task") \in Int
          BY <1>9, WriterFacts, RecordFacts
        <5>3. Told(u, "task") >= 1
          BY <3>2, <5>1, <5>2
        <5>4. Issued("task") # 0 /\ Issued("task") \in {0, 1}
          BY <5>2, <5>3 DEF Told, Issued, Streams
        <5>5. w # "task"
          BY <1>8, <5>3, <5>4
        <5> QED
          BY <1>2, <5>4, <5>5, OthersIdle
      <4> QED
        BY <4>1
    <3> QED
      BY <1>2, <3>3, <3>4 DEF Precedes
  <2> QED
    BY <2>1
<1>11. r \in Message /\ r[1] = w /\ r[2] = Issued(w) /\ w # "status"
  BY <1>2, CallFacts, WriterFacts
<1>12. messages \in Nat
  BY DEF HubType
<1>13. \A v \in Writers : /\ Told(u, v)' \in Int /\ Told(u, v) <= Told(u, v)'
                          /\ \A n \in 1..Told(u, v)' : n \in 1..Told(u, v) \/ r = <<v, n>>
  <2>1. ASSUME NEW v \in Writers, v # w
        PROVE  /\ Told(u, v)' \in Int /\ Told(u, v) <= Told(u, v)'
               /\ \A n \in 1..Told(u, v)' : n \in 1..Told(u, v) \/ r = <<v, n>>
    BY <1>8, <1>9, <2>1
  <2>2. /\ Told(u, w)' \in Int /\ Told(u, w) <= Told(u, w)'
        /\ \A n \in 1..Told(u, w)' : n \in 1..Told(u, w) \/ r = <<w, n>>
    BY <1>2, <1>8
  <2> QED
    BY <2>1, <2>2
<1>14. r[1] \in Writers => 1 <= r[2] /\ r[2] <= Told(u, r[1])'
  BY <1>2, <1>8, <1>11
<1> HIDE DEF r
<1>15. Sends(u, r)
  <2>1. history' = [history EXCEPT ![u] = Append(@, r)] /\ messages' \in Nat /\ messages <= messages'
    BY <1>1, <1>12
  <2>2. r[1] = "status" => r[2] <= messages'
    BY <1>11
  <2>3. \A v \in Writers : Told(u, v) \in Int /\ Told(u, v)' \in Int
    BY <1>9, <1>13
  <2> QED
    BY <1>8, <1>10, <1>13, <1>14, <2>1, <2>2, <2>3 DEF Sends
<1>16. SentInv'
  BY <1>11, <1>15, SentAppend
<1> QED
  BY <1>5, <1>7, <1>16

(* saveStatus numbers its messages.                                        *)
LEMMA StatusStep ==
    ASSUME LogType, HubType, SentInv, NEW u \in HubUsers, StatusMessage(u),
           UNCHANGED <<cut, caller, scanner, taken, call>>
    PROVE  SentInv'
<1> DEFINE m == <<"status", messages + 1>>
<1>1. /\ messages' = messages + 1 /\ messages \in Nat
      /\ history' = [history EXCEPT ![u] = Append(@, m)]
  BY DEF StatusMessage, Broadcast, HubType
<1>2. \A v, w : Told(v, w)' = Told(v, w)
  BY DEF Told, Issued
<1>3. \A v, w : w \in Writers => Told(v, w) \in Int
  BY RecordFacts DEF Told
<1>4. m \in Message /\ m[1] = "status" /\ m[2] = messages + 1
  BY <1>1 DEF Message
<1>5. \A v \in TaskUsers : \A q \in ToSet(history[v]) : q[2] \in Nat
  <2>1. \A v \in TaskUsers : ToSet(history[v]) \subseteq Message
    BY LogAssumption, ElementOfSeq DEF HubType, ToSet
  <2> QED
    BY <2>1 DEF Message
<1> HIDE DEF m
<1>6. CASE u \in TaskUsers
  <2>1. \A q \in ToSet(history[u]) : Precedes(q, m)
    BY <1>1, <1>4, <1>5, <1>6 DEF SentInv, Precedes
  <2>2. m[1] \in Writers => 1 <= m[2] /\ m[2] <= Told(u, m[1])'
    BY <1>4, WriterFacts
  <2>3. messages' \in Nat /\ messages <= messages' /\ (m[1] = "status" => m[2] <= messages')
    BY <1>1, <1>4
  <2>4. \A w \in Writers : /\ Told(u, w) \in Int /\ Told(u, w)' \in Int /\ Told(u, w) <= Told(u, w)'
                            /\ \A n \in 1..Told(u, w)' : n \in 1..Told(u, w) \/ m = <<w, n>>
    BY <1>2, <1>3
  <2>5. Sends(u, m)
    BY <1>1, <1>2, <2>1, <2>2, <2>3, <2>4 DEF Sends
  <2> QED
    BY <1>4, <1>6, <2>5, SentAppend
<1>7. CASE u \notin TaskUsers
  <2>1. ASSUME NEW v \in TaskUsers
        PROVE  history'[v] = history[v]
    BY <1>1, <1>7, <2>1, LogAssumption DEF HubType
  <2>2. ASSUME NEW v \in TaskUsers
        PROVE  \A q \in ToSet(history[v]) : q[1] = "status" => q[2] <= messages'
    BY <1>1, <1>5 DEF SentInv
  <2>3. ASSUME NEW v \in TaskUsers
        PROVE  /\ Sorted(history[v])
               /\ \A q \in ToSet(history[v]) : q[1] \in Writers => 1 <= q[2] /\ q[2] <= Told(v, q[1])'
               /\ \A w \in Writers : \A n \in 1..Told(v, w)' : <<w, n>> \in ToSet(history[v])
    BY <1>2 DEF SentInv
  <2> QED
    BY <2>1, <2>2, <2>3 DEF SentInv
<1> QED
  BY <1>6, <1>7

(* What handleLogs does to the order: the batch takes the first record of  *)
(* the channel, and is stored behind the table or lost.                    *)
LEMMA ChainReceive ==
    ASSUME NEW S, NEW a \in Seq(S), NEW b \in Seq(S), NEW c \in Seq(S), c # <<>>, Chain(a, b, c)
    PROVE  /\ Chain(a, Append(b, Head(c)), Tail(c))
           /\ ToSet(Append(b, Head(c))) \cup ToSet(Tail(c)) = ToSet(b) \cup ToSet(c)
<1>1. Head(c) \in S /\ Tail(c) \in Seq(S)
  OBVIOUS
<1>2. ToSet(c) = {Head(c)} \cup ToSet(Tail(c))
  BY ToSetTail
<1>3. ToSet(Append(b, Head(c))) = ToSet(b) \cup {Head(c)}
  BY <1>1, ToSetAppend
<1>4. Sorted(Tail(c)) /\ \A q \in ToSet(Tail(c)) : Precedes(Head(c), q)
  BY SortedTail DEF Chain
<1>5. \A q \in ToSet(b) : Precedes(q, Head(c))
  BY <1>2 DEF Chain, Before
<1>6. Sorted(Append(b, Head(c)))
  BY <1>1, <1>5, SortedAppend DEF Chain
<1>7. /\ Before(a, Append(b, Head(c))) /\ Before(a, Tail(c))
      /\ Before(Append(b, Head(c)), Tail(c))
  BY <1>2, <1>3, <1>4 DEF Chain, Before
<1> QED
  BY <1>2, <1>3, <1>4, <1>6, <1>7 DEF Chain

(* The batch is stored, or lost.                                           *)
LEMMA ChainFlush ==
    ASSUME NEW S, NEW a \in Seq(S), NEW b \in Seq(S), NEW c \in Seq(S), Chain(a, b, c)
    PROVE  /\ Chain(a \o b, <<>>, c) /\ Chain(a, <<>>, c)
           /\ ToSet(a \o b) = ToSet(a) \cup ToSet(b)
<1>1. ToSet(a \o b) = ToSet(a) \cup ToSet(b)
  BY ToSetConcat
<1>2. Sorted(a \o b)
  BY SortedConcat DEF Chain
<1> QED
  BY <1>1, <1>2, ToSetEmpty DEF Chain, Before

(* The stores when the calls are left alone: records move on or are lost.  *)
LEMMA StoreMoves ==
    ASSUME StoreInv, Chain(rows, logs, logger)',
           Records' \subseteq Records, Records \subseteq Records' \cup dropped', dropped \subseteq dropped',
           \A w : Put(w)' = Put(w)
    PROVE  StoreInv'
BY DEF StoreInv

(* handleLogs receives a record or flushes the batch.                      *)
LEMMA HandleStep ==
    ASSUME LogType, StoreInv, ReceiveLog \/ LogTick
    PROVE  StoreInv'
<1>1. rows \in Seq(Record) /\ logs \in Seq(Record) /\ logger \in Seq(Record) /\ Chain(rows, logs, logger)
  BY DEF LogType, StoreInv
<1>2. \A w : Put(w)' = Put(w)
  BY DEF ReceiveLog, LogTick, Put, Issued, counts, command
<1>3. ASSUME NEW b \in Seq(Record), Chain(rows, b, logger'), logger' \in Seq(Record), FlushLogs(b),
             ToSet(b) \cup ToSet(logger') = ToSet(logs) \cup ToSet(logger)
      PROVE  StoreInv'
  <2>1. Chain(rows \o b, <<>>, logger') /\ Chain(rows, <<>>, logger') /\ ToSet(rows \o b) = ToSet(rows) \cup ToSet(b)
    BY <1>1, <1>3, ChainFlush
  <2>2. logs' = <<>> /\ ToSet(logs') = {}
    BY <1>3, ToSetEmpty DEF FlushLogs
  <2>3. CASE rows' = rows \o b /\ UNCHANGED dropped
    <3>1. Records' = Records
      BY <1>3, <2>1, <2>2, <2>3 DEF Records
    <3>2. Chain(rows, logs, logger)'
      BY <2>1, <2>2, <2>3
    <3> QED
      BY <1>2, <2>3, <3>1, <3>2, StoreMoves
  <2>4. CASE dropped' = dropped \cup ToSet(b) /\ UNCHANGED rows
    <3>1. Records' \subseteq Records /\ Records \subseteq Records' \cup ToSet(b)
      BY <1>3, <2>2, <2>4 DEF Records
    <3>2. Chain(rows, logs, logger)'
      BY <2>1, <2>2, <2>4
    <3> QED
      BY <1>2, <2>4, <3>1, <3>2, StoreMoves
  <2> QED
    BY <1>3, <2>3, <2>4 DEF FlushLogs
<1>4. CASE ReceiveLog
  <2> DEFINE b == Append(logs, Head(logger))
  <2>1. logger # <<>> /\ logger' = Tail(logger) /\ Tail(logger) \in Seq(Record) /\ b \in Seq(Record)
    BY <1>1, <1>4 DEF ReceiveLog
  <2>2. Chain(rows, b, logger') /\ ToSet(b) \cup ToSet(logger') = ToSet(logs) \cup ToSet(logger)
    BY <1>1, <2>1, ChainReceive
  <2>3. FlushLogs(b) \/ (logs' = b /\ UNCHANGED <<rows, dropped>>)
    BY <1>4 DEF ReceiveLog
  <2> HIDE DEF b
  <2>4. CASE FlushLogs(b)
    BY <1>3, <2>1, <2>2, <2>4
  <2>5. CASE logs' = b /\ UNCHANGED <<rows, dropped>>
    <3>1. Records' = Records
      BY <2>2, <2>5 DEF Records
    <3>2. Chain(rows, logs, logger)'
      BY <2>2, <2>5
    <3> QED
      BY <1>2, <2>5, <3>1, <3>2, StoreMoves
  <2> QED
    BY <2>3, <2>4, <2>5
<1>5. CASE LogTick
  <2>1. logger' = logger /\ FlushLogs(logs)
    BY <1>5 DEF LogTick
  <2> QED
    BY <1>1, <1>3, <2>1
<1> QED
  BY <1>4, <1>5

(* The process, the scanners, the consumers and the goroutine of the task. *)
LEMMA PipesStep ==
    ASSUME LogType, CallsInv, PipesInv, [LogNext]_<<hubVars, logVars>>
    PROVE  PipesInv'
<1> DEFINE Pipe(s) == /\ taken[s] <= lines[s] /\ lines[s] <= read[s]
                      /\ scanner[s] # "scan" => lines[s] = read[s]
<1>0. \A s \in Streams : Pipe(s)
  BY DEF PipesInv
<1> USE DEF PipeDone, Idle
<1>1. CASE UNCHANGED logVars
  BY <1>1 DEF logVars, PipesInv, NothingLeft
<1>2. CASE Exit \/ Finish
  BY <1>2 DEF Exit, Finish, counts, command, PipesInv, NothingLeft
<1>3. CASE WaitReturns
  <2>1. /\ UNCHANGED <<scanner, counts, call, wrote>> /\ caller' = "drain"
        /\ (\A s \in Streams : Copied(s)) \/ cut' \in {"noted", "silent"}
    BY <1>3 DEF WaitReturns
  <2>2. NothingLeft'
    BY <2>1 DEF NothingLeft, Copied, counts
  <2> QED
    BY <1>0, <2>1, <2>2 DEF PipesInv, counts
<1>4. CASE FinishLog \/ LogResult
  <2>1. /\ UNCHANGED <<command, scanner, counts>> /\ \A s \in Streams : PipeDone(s)
        /\ caller \in {"drain", "notice"}
    BY <1>4 DEF FinishLog, LogResult, PipesInv
  <2>2. \/ caller' = "notice" /\ cut = "noted" /\ StartLog("notice", 1)
        \/ caller' = "result" /\ StartLog("task", 1)
    BY <1>4 DEF FinishLog, LogResult
  <2>3. \A s \in Streams : call'[s] = call[s] /\ call'[ScannerOf[s]] = call[ScannerOf[s]]
    BY <2>2, WriterFacts DEF StartLog, LogType
  <2>4. caller' = "result" => Idle("notice")'
    <3>1. ASSUME caller' = "result"
          PROVE  Idle("notice") /\ call'["notice"] = call["notice"]
      <4>1. StartLog("task", 1) /\ "notice" # "task"
        BY <2>2, <3>1
      <4>2. call'["notice"] = call["notice"]
        BY <4>1, WriterFacts DEF StartLog, LogType
      <4>3. CASE FinishLog
        <5>1. Issued("notice") = 0
          BY <4>3, WriterFacts DEF FinishLog, Issued
        <5> QED
          BY <4>2, <5>1, WriterFacts, RecordFacts DEF CallsInv
      <4> QED
        BY <1>4, <4>2, <4>3 DEF LogResult
    <3> QED
      BY <3>1
  <2>5. NothingLeft'
    BY <2>1 DEF NothingLeft, counts, command, PipesInv
  <2>6. \A s \in Streams : PipeDone(s)'
    BY <2>1, <2>3 DEF counts
  <2>7. \A s \in Streams : Pipe(s)'
    BY <1>0, <2>1 DEF counts
  <2> QED
    BY <2>1, <2>2, <2>4, <2>5, <2>6, <2>7 DEF PipesInv, command
<1>5. ASSUME NEW s \in Streams,
             WriteLine(s) \/ CopyLine(s) \/ ScanFails(s) \/ ScanLine(s) \/ TakeLine(s) \/ ScanEOF(s)
      PROVE  PipesInv'
  <2>1. caller' = caller /\ cut' = cut /\ caller \notin {"notice", "result", "done"}
    <3>1. CASE WriteLine(s) \/ CopyLine(s) \/ ScanFails(s) \/ ScanEOF(s)
      BY <3>1 DEF WriteLine, CopyLine, ScanFails, ScanEOF, command
    <3>2. CASE ScanLine(s)
      BY <3>2 DEF ScanLine, PipesInv, command
    <3>3. CASE TakeLine(s)
      <4>1. taken[s] \in Nat /\ lines[s] \in Nat /\ taken[s] < lines[s]
        BY <3>3 DEF TakeLine, LogType
      <4> QED
        BY <3>3, <4>1, RecordFacts DEF TakeLine, PipesInv, LogType, command
    <3> QED
      BY <1>5, <3>1, <3>2, <3>3
  <2>2. \A t \in Streams : Pipe(t)'
    <3>1. CASE WriteLine(s)
      BY <1>0, <3>1 DEF WriteLine, counts
    <3>2. CASE ScanFails(s) \/ ScanEOF(s)
      <4>1. UNCHANGED <<read, lines, taken>> /\ lines[s] = read[s] /\ \A t \in Streams : t # s => scanner'[t] = scanner[t]
        BY <3>2 DEF ScanFails, ScanEOF, LogType, counts
      <4> QED
        BY <1>0, <4>1
    <3>3. CASE ScanLine(s)
      BY <1>0, <3>3 DEF ScanLine, LogType
    <3>4. CASE TakeLine(s)
      BY <1>0, <3>4 DEF TakeLine, LogType
    <3>5. CASE CopyLine(s)
      BY <1>0, <3>5 DEF CopyLine, LogType
    <3> QED
      BY <1>5, <3>1, <3>2, <3>3, <3>4, <3>5
  <2>3. NothingLeft'
    <3>1. CASE WriteLine(s) \/ CopyLine(s)
      BY <3>1 DEF WriteLine, CopyLine, NothingLeft
    <3>2. CASE ScanFails(s) \/ ScanLine(s) \/ TakeLine(s) \/ ScanEOF(s)
      <4>1. UNCHANGED <<read, wrote, cut, caller>> /\ \A t \in Streams : scanner[t] = "error" => scanner'[t] = "error"
        BY <3>2 DEF ScanFails, ScanLine, TakeLine, ScanEOF, LogType, counts, command
      <4> QED
        BY <4>1 DEF PipesInv, NothingLeft
    <3> QED
      BY <1>5, <3>1, <3>2
  <2> QED
    BY <2>1, <2>2, <2>3 DEF PipesInv
<1>6. ASSUME NEW w \in Writers, SendToLogger(w) \/ \E u \in TaskUsers : SendToWs(w, u)
      PROVE  PipesInv'
  <2>1. UNCHANGED <<command, caller, scanner, counts>>
    BY <1>6 DEF SendToLogger, SendToWs
  <2>2. ~Idle(w) /\ \A v \in Writers : v # w => call'[v] = call[v]
    BY <1>6 DEF SendToLogger, SendToWs, LogType, NotLogging
  <2>3. \A v \in Writers : Idle(v) => Idle(v)'
    BY <2>2
  <2> QED
    BY <2>1, <2>3, WriterFacts DEF counts, command, PipesInv, NothingLeft
<1>7. CASE ReceiveLog \/ LogTick
  BY <1>7 DEF ReceiveLog, LogTick, counts, command, PipesInv, NothingLeft
<1> QED
  BY <1>1, <1>2, <1>3, <1>4, <1>5, <1>6, <1>7 DEF LogNext, ProcessStep, LogStep, Tell

(* The steps of the hub and of the command, seen from the calls of Log.    *)
LEMMA RecordStep ==
    ASSUME LogType, HubInv, LogInv, [LogNext]_<<hubVars, logVars>>
    PROVE  CallsInv' /\ StoreInv' /\ SentInv'
<1> USE DEF LogInv
<1>1. ASSUME UNCHANGED <<history, messages, call, stores>>, \A w \in Writers : Issued(w)' = Issued(w)
      PROVE  CallsInv' /\ StoreInv' /\ SentInv'
  <2>1. \A w \in Writers : Put(w)' = Put(w) /\ \A u \in TaskUsers : Told(u, w)' = Told(u, w)
    BY <1>1 DEF Put, Told
  <2>2. CallsInv'
    BY <1>1 DEF CallsInv
  <2> QED
    BY <1>1, <2>1, <2>2, StoreKept, SentKept
<1>2. CASE UNCHANGED <<hubVars, logVars>>
  BY <1>1, <1>2 DEF hubVars, logVars, stores, Issued
<1>3. ASSUME NEW c \in Conns, Upgrade(c) \/ PeerLeaves(c) \/ ConnStep(c), UNCHANGED logVars
      PROVE  CallsInv' /\ StoreInv' /\ SentInv'
  <2>1. UNCHANGED <<history, messages>>
    BY <1>3 DEF Upgrade, PeerLeaves, ConnStep, RegisterConn, StartPumps, Unregister, ReadFails,
       ReadPumpCloses, WriteMessage, WritePumpEnds, WritePumpCloses, told
  <2> QED
    BY <1>1, <1>3, <2>1 DEF logVars, stores, Issued
<1>4. ASSUME NEW u \in HubUsers, StatusMessage(u), UNCHANGED logVars
      PROVE  CallsInv' /\ StoreInv' /\ SentInv'
  <2>1. UNCHANGED <<cut, caller, scanner, taken, call, stores>>
    BY <1>4 DEF logVars, stores
  <2>2. \A w : Put(w)' = Put(w) /\ Issued(w)' = Issued(w)
    BY <2>1 DEF Put, Issued
  <2>3. CallsInv' /\ StoreInv'
    BY <2>1, <2>2, StoreKept DEF CallsInv
  <2> QED
    BY <1>4, <2>1, <2>3, StatusStep DEF HubInv
<1>5. ASSUME NEW w \in Writers, NEW u \in TaskUsers, SendToWs(w, u)
      PROVE  CallsInv' /\ StoreInv' /\ SentInv'
  BY <1>5, TellStep DEF HubInv
<1>6. ASSUME NEW w \in Writers, SendToLogger(w), UNCHANGED hubVars
      PROVE  CallsInv' /\ StoreInv' /\ SentInv'
  BY <1>6, PutStep DEF hubVars
<1>7. ASSUME ReceiveLog \/ LogTick, UNCHANGED hubVars
      PROVE  CallsInv' /\ StoreInv' /\ SentInv'
  <2>1. UNCHANGED <<cut, caller, scanner, taken, call, history, messages>>
    BY <1>7 DEF ReceiveLog, LogTick, counts, hubVars, command
  <2>2. CallsInv' /\ \A u, w : Told(u, w)' = Told(u, w)
    BY <2>1 DEF CallsInv, Told, Issued
  <2> QED
    BY <1>7, <2>1, <2>2, HandleStep, SentKept
<1>8. ASSUME Exit \/ WaitReturns \/ Finish
               \/ \E s \in Streams : WriteLine(s) \/ CopyLine(s) \/ ScanLine(s) \/ ScanEOF(s),
             UNCHANGED hubVars
      PROVE  CallsInv' /\ StoreInv' /\ SentInv'
  <2>1. UNCHANGED <<taken, call, stores, history, messages>>
    BY <1>8 DEF Exit, WaitReturns, Finish, WriteLine, CopyLine, ScanLine, ScanEOF, counts, hubVars
  <2>2. /\ caller' \in {"result", "done"} <=> caller \in {"result", "done"}
        /\ (cut = "noted" /\ caller \in {"notice", "result", "done"})'
             <=> cut = "noted" /\ caller \in {"notice", "result", "done"}
    BY <1>8 DEF Exit, WaitReturns, Finish, WriteLine, CopyLine, ScanLine, ScanEOF, command
  <2>3. \A s \in Streams : scanner'[s] = "error" <=> scanner[s] = "error"
    BY <1>8 DEF Exit, WaitReturns, Finish, WriteLine, CopyLine, ScanLine, ScanEOF, LogType
  <2> QED
    BY <1>1, <2>1, <2>2, <2>3 DEF Issued
<1>9. ASSUME NEW s \in Streams, TakeLine(s), UNCHANGED hubVars
      PROVE  CallsInv' /\ StoreInv' /\ SentInv'
  <2>1. /\ Idle(s) /\ UNCHANGED <<cut, caller, scanner, stores, history, messages>>
        /\ taken' = [taken EXCEPT ![s] = @ + 1] /\ StartLog(s, taken[s] + 1)
    BY <1>9 DEF TakeLine, hubVars, command
  <2>2. Issued(s) = taken[s] /\ Issued(s)' = Issued(s) + 1
    BY <2>1 DEF Issued, LogType
  <2>3. \A v \in Writers : v # s => Issued(v)' = Issued(v)
    BY <2>1 DEF Issued, LogType
  <2>4. StartLog(s, Issued(s) + 1)
    BY <2>1, <2>2
  <2> QED
    BY <2>1, <2>2, <2>3, <2>4, WriterFacts, BeginsCall
<1>10. ASSUME NEW s \in Streams, ScanFails(s), UNCHANGED hubVars
       PROVE  CallsInv' /\ StoreInv' /\ SentInv'
  <2> DEFINE w == ScannerOf[s]
  <2>1. /\ UNCHANGED <<cut, caller, taken, stores, history, messages>> /\ scanner[s] = "scan"
        /\ scanner' = [scanner EXCEPT ![s] = "error"] /\ StartLog(w, 1)
    BY <1>10 DEF ScanFails, counts, hubVars, command
  <2>2. w \in Writers /\ w \notin Streams /\ w # "task" /\ w # "notice" /\ \A t \in Streams : t # s => ScannerOf[t] # w
    BY WriterFacts
  <2>3. /\ \A t \in Streams : t # s => scanner'[t] = scanner[t]
        /\ scanner'[s] = "error"
    BY <2>1 DEF LogType
  <2>4. Issued(w) = 0 /\ Issued(w)' = Issued(w) + 1
    BY <2>1, <2>2, <2>3 DEF Issued
  <2>5. ASSUME NEW v \in Writers, v # w
        PROVE  Issued(v)' = Issued(v)
    <3>1. (\E t \in Streams : v = ScannerOf[t] /\ scanner'[t] = "error")
            <=> (\E t \in Streams : v = ScannerOf[t] /\ scanner[t] = "error")
      BY <2>3, <2>5
    <3> QED
      BY <2>1, <3>1 DEF Issued
  <2>6. StartLog(w, Issued(w) + 1)
    BY <2>1, <2>4
  <2>7. Idle(w)
    BY <2>2, <2>4, RecordFacts DEF CallsInv
  <2> HIDE DEF w
  <2> QED
    BY <2>1, <2>2, <2>4, <2>5, <2>6, <2>7, BeginsCall
<1>11. ASSUME NEW w \in {"task", "notice"}, FinishLog \/ LogResult, StartLog(w, 1),
              caller' = IF w = "task" THEN "result" ELSE "notice", w = "notice" => cut = "noted",
              UNCHANGED hubVars
       PROVE  CallsInv' /\ StoreInv' /\ SentInv'
  <2>1. /\ UNCHANGED <<cut, scanner, taken, stores, history, messages>>
        /\ caller \in {"drain", "notice"} /\ (caller = "notice" => w = "task" /\ cut = "noted")
        /\ (caller = "drain" /\ w = "task" => cut # "noted")
    BY <1>11 DEF FinishLog, LogResult, counts, hubVars, command, PipesInv
  <2>2. w \in Writers /\ w \notin Streams /\ \A s \in Streams : ScannerOf[s] # w
    BY WriterFacts
  <2>3. Issued(w) = 0 /\ Issued(w)' = Issued(w) + 1
    BY <1>11, <2>1, <2>2 DEF Issued
  <2>4. \A v \in Writers : v # w => Issued(v)' = Issued(v)
    BY <1>11, <2>1 DEF Issued
  <2>5. StartLog(w, Issued(w) + 1)
    BY <1>11, <2>3
  <2>6. Idle(w)
    BY <2>2, <2>3, RecordFacts DEF CallsInv
  <2> QED
    BY <2>1, <2>2, <2>3, <2>4, <2>5, <2>6, BeginsCall
<1>12. ASSUME FinishLog \/ LogResult, UNCHANGED hubVars
       PROVE  CallsInv' /\ StoreInv' /\ SentInv'
  <2>1. \/ StartLog("notice", 1) /\ caller' = "notice" /\ cut = "noted"
        \/ StartLog("task", 1) /\ caller' = "result"
    BY <1>12 DEF FinishLog, LogResult
  <2> QED
    BY <1>11, <1>12, <2>1
<1> QED
  BY <1>2, <1>3, <1>4, <1>5, <1>6, <1>7, <1>8, <1>9, <1>10, <1>12
     DEF LogNext, ProcessStep, LogStep, Tell, HubNext

(* Before the first line.                                                  *)
LEMMA LogInvStart ==
    ASSUME HubInit, LogInit, quota \in [Streams -> Nat]
    PROVE  LogInv
<1>1. \A w \in Writers : Issued(w) = 0 /\ call[w].n = 0 /\ call[w].users = {}
  BY DEF LogInit, Issued, NotLogging
<1>2. CallsInv
  BY <1>1 DEF CallsInv
<1>3. PipesInv
  BY DEF LogInit, PipesInv, NothingLeft
<1>4. StoreInv
  <2>1. Chain(<<>>, <<>>, <<>>)
    BY ToSetEmpty DEF Chain, Before
  <2>2. \A w \in Writers : Put(w) = 0
    BY <1>1 DEF Put
  <2>3. Records = {}
    BY ToSetEmpty DEF Records, LogInit
  <2> QED
    BY <2>1, <2>2, <2>3 DEF StoreInv, LogInit
<1>5. SentInv
  <2>1. \A u \in TaskUsers : history[u] = <<>>
    BY LogAssumption DEF HubInit
  <2>2. \A u \in TaskUsers, w \in Writers : Told(u, w) = 0
    BY <1>1 DEF Told
  <2> QED
    BY <2>1, <2>2, ToSetEmpty DEF SentInv
<1> QED
  BY <1>2, <1>3, <1>4, <1>5 DEF LogInv

(* Sequences that are sorted are in order, with the result at their end.   *)
LEMMA SortedOrdered ==
    ASSUME NEW seq, Sorted(seq)
    PROVE  Ordered(seq) /\ NothingAfterResult(seq)
BY DEF Sorted, Ordered, NothingAfterResult, Precedes

(* The inductive invariant says what is recorded.                          *)
LEMMA LogInvOrder ==
    ASSUME LogType, LogInv
    PROVE  OutputInOrder
<1>1. rows \in Seq(Record) /\ logs \in Seq(Record) /\ logger \in Seq(Record) /\ Chain(rows, logs, logger)
  BY DEF LogType, LogInv, StoreInv
<1>2. /\ rows \o logs \in Seq(Record) /\ Sorted(rows \o logs)
      /\ ToSet(rows \o logs) = ToSet(rows) \cup ToSet(logs)
  BY <1>1, SortedConcat, ToSetConcat DEF Chain
<1>3. Before(rows \o logs, logger)
  BY <1>1, <1>2 DEF Chain, Before
<1>4. Sorted(Kept) /\ ToSet(Kept) = Records
  <2>1. Sorted(logger)
    BY <1>1 DEF Chain
  <2>2. Sorted((rows \o logs) \o logger)
    BY <1>1, <1>2, <1>3, <2>1, SortedConcat
  <2>3. ASSUME NEW k \in Seq(Record)
        PROVE  ToSet(k \o logger) = ToSet(k) \cup ToSet(logger)
    BY <1>1, ToSetConcat
  <2>4. ToSet((rows \o logs) \o logger) = ToSet(rows \o logs) \cup ToSet(logger)
    BY <1>2, <2>3
  <2> QED
    BY <1>2, <2>2, <2>4 DEF Kept, Records
<1>5. ASSUME NEW s \in Streams, NEW n \in 1..taken[s], call[s].n # n
      PROVE  <<s, n>> \in ToSet(Kept) \cup dropped /\ \A u \in TaskUsers : <<s, n>> \in ToSet(history[u])
  <2>1. s \in Writers /\ Issued(s) = taken[s] /\ taken[s] \in Nat
    BY WriterFacts DEF Issued, LogType
  <2>2. call[s].n \in {0, Issued(s)} /\ (call[s].users # {} => call[s].n # 0)
    BY <2>1 DEF LogInv, CallsInv
  <2>3. n \in 1..Put(s) /\ \A u \in TaskUsers : n \in 1..Told(u, s)
    <3>1. CASE call[s].n = 0
      BY <2>1, <2>2, <3>1 DEF Put, Told
    <3>2. CASE call[s].n = taken[s]
      BY <1>5, <2>1, <3>2 DEF Put, Told
    <3> QED
      BY <2>1, <2>2, <3>1, <3>2
  <2>4. <<s, n>> \in Records \cup dropped
    BY <2>1, <2>3 DEF LogInv, StoreInv
  <2>5. \A u \in TaskUsers : <<s, n>> \in ToSet(history[u])
    BY <2>1, <2>3 DEF LogInv, SentInv
  <2> QED
    BY <1>4, <2>4, <2>5
<1>6. \A u \in TaskUsers : Ordered(history[u]) /\ NothingAfterResult(history[u])
  BY SortedOrdered DEF LogInv, SentInv
<1>7. Ordered(Kept) /\ NothingAfterResult(Kept)
  BY <1>4, SortedOrdered
<1>8. NothingLeft /\ (caller \in {"result", "done"} => \A s \in Streams : taken[s] = read[s] /\ Idle(s))
  BY DEF LogInv, PipesInv, PipeDone, LogType
<1>9. StoredInOrder
  BY <1>5, <1>7 DEF StoredInOrder
<1>10. SentInOrder
  BY <1>5, <1>6 DEF SentInOrder
<1>11. ResultLast
  BY <1>6, <1>7, <1>8 DEF ResultLast
<1> QED
  BY <1>8, <1>9, <1>10, <1>11 DEF OutputInOrder

(* Whatever a command writes to its two streams, whichever of its lines    *)
(* are too long and whichever batches are lost: the lines that are copied  *)
(* are stored, and sent to each user, in order and once, nothing of the    *)
(* command comes after its result, and no line is left in the pipe unless  *)
(* cmd.Wait gave up or a line was too long (logPipe, LogWithTime,          *)
(* finishLog, handleLogs, os/exec).                                        *)
THEOREM OutputInOrderHolds == LogSpec => []OutputInOrder
<1>1. HubInit /\ LogInit /\ quota \in [Streams -> Nat] => LogType /\ HubInv /\ LogInv
  BY LogStart, LogInvStart
<1>2. LogType /\ HubInv /\ LogInv /\ [LogNext]_<<hubVars, logVars>> => LogType' /\ HubInv' /\ LogInv'
  <2>1. LogType /\ LogInv /\ [LogNext]_<<hubVars, logVars>> => PipesInv'
    BY PipesStep DEF LogInv
  <2>2. LogType /\ HubInv /\ LogInv /\ [LogNext]_<<hubVars, logVars>> => CallsInv' /\ StoreInv' /\ SentInv'
    BY RecordStep
  <2> QED
    BY <2>1, <2>2, LogTypeStep, HubStep DEF LogInv
<1>3. LogType /\ LogInv => OutputInOrder
  BY LogInvOrder
<1> QED
  BY <1>1, <1>2, <1>3, PTL DEF LogSpec
=============================================================================
