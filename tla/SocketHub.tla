------------------------------ MODULE SocketHub ------------------------------
(***************************************************************************)
(* The websocket hub: api/sockets/pool.go and handler.go.                  *)
(*                                                                         *)
(* The hub's goroutine owns the set of connections and is the only one to  *)
(* close a connection's send channel.  Each connection has two more, the   *)
(* read pump, which notices that the socket is dead and unregisters, and   *)
(* the write pump, which drains the channel.  A step is one rendezvous     *)
(* with the hub or one operation on a socket.                              *)
(***************************************************************************)
EXTENDS Naturals, Sequences, SequencesExt, FiniteSets

CONSTANTS
    Conns,          \* the connections that may be made
    UserOf,         \* [Conns -> users]
    SendSize,       \* connectionChannelSize
    MaxMessages     \* bound on the status messages of tasks

ASSUME HubAssumption == SendSize \in Nat \ {0} /\ MaxMessages \in Nat

HubUsers == {UserOf[c] : c \in Conns}

VARIABLES
    connections,    \* hub.connections
    send,           \* [Conns -> Seq(messages)] the buffered channel
    closed,         \* connections whose channel is closed
    ws,             \* [Conns -> "none", "open", "closed"] the server's end of the socket
    peer,           \* [Conns -> "there", "silent", "gone"] the client
    readPump,       \* [Conns -> control point of Handler and then readPump]
    writePump,      \* [Conns -> "none", "run", "closing", "done"]
    written,        \* [Conns -> Seq(messages)] what was written to the socket
    history,        \* [HubUsers -> Seq(messages)] what was broadcast to the user
    joined,         \* [Conns -> length of the history when the connection was registered]
    messages        \* number of status messages so far

hubVars == <<connections, send, closed, ws, peer, readPump, writePump, written, history, joined, messages>>
pumps   == <<readPump, writePump>>
told    == <<written, history, joined, messages>>

HubInit ==
    /\ connections = {} /\ closed = {}
    /\ send = [c \in Conns |-> <<>>]
    /\ ws = [c \in Conns |-> "none"] /\ peer = [c \in Conns |-> "there"]
    /\ readPump = [c \in Conns |-> "none"] /\ writePump = [c \in Conns |-> "none"]
    /\ written = [c \in Conns |-> <<>>]
    /\ history = [u \in HubUsers |-> <<>>]
    /\ joined = [c \in Conns |-> 0]
    /\ messages = 0

-----------------------------------------------------------------------------
(* Handler: the request is upgraded to a websocket ...                     *)
Upgrade(c) ==
    /\ readPump[c] = "none"
    /\ ws' = [ws EXCEPT ![c] = "open"]
    /\ readPump' = [readPump EXCEPT ![c] = "joining"]
    /\ UNCHANGED <<connections, send, closed, peer, writePump, told>>

(* ... and the connection handed to the hub.                               *)
RegisterConn(c) ==
    /\ readPump[c] = "joining"
    /\ connections' = connections \cup {c}
    /\ readPump' = [readPump EXCEPT ![c] = "joined"]
    /\ joined' = [joined EXCEPT ![c] = Len(history[UserOf[c]])]
    /\ UNCHANGED <<send, closed, ws, peer, writePump, written, history, messages>>

StartPumps(c) ==
    /\ readPump[c] = "joined"
    /\ readPump' = [readPump EXCEPT ![c] = "reading"]
    /\ writePump' = [writePump EXCEPT ![c] = "run"]
    /\ UNCHANGED <<connections, send, closed, ws, peer, told>>

-----------------------------------------------------------------------------
(* hub.run: a message for one user goes into the channel of each of the     *)
(* user's connections that has room; the others are dropped.  The sends do *)
(* not block and concern one connection each, so that they are one step.   *)

Addressed(u) == {c \in connections : UserOf[c] = u}

\* Mutant: a full connection is closed and stays among the connections.
DropFullKept(full) ==
    /\ closed' = closed \cup full
    /\ ws' = [c \in Conns |-> IF c \in full THEN "closed" ELSE ws[c]]
    /\ UNCHANGED connections

DropFull(full) ==
    /\ closed' = closed \cup full
    /\ connections' = connections \ full
    /\ ws' = [c \in Conns |-> IF c \in full THEN "closed" ELSE ws[c]]

Broadcast(u, m) ==
    LET full == {c \in Addressed(u) : Len(send[c]) >= SendSize}
    IN  /\ send' = [c \in Conns |-> IF c \in Addressed(u) \ full THEN Append(send[c], m) ELSE send[c]]
        /\ DropFull(full)
        /\ history' = [history EXCEPT ![u] = Append(@, m)]
        /\ UNCHANGED <<peer, pumps, written, joined>>

(* saveStatus of a task tells each of its users.                           *)
StatusMessage(u) ==
    /\ messages < MaxMessages
    /\ messages' = messages + 1
    /\ Broadcast(u, <<"status", messages'>>)

(* hub.run receives from unregister what a read pump sends at its end.     *)
Unregister(c) ==
    /\ readPump[c] = "leaving"
    /\ IF c \in connections
         THEN connections' = connections \ {c} /\ closed' = closed \cup {c}
         ELSE UNCHANGED <<connections, closed>>
    /\ readPump' = [readPump EXCEPT ![c] = "closing"]
    /\ UNCHANGED <<send, ws, peer, writePump, told>>

-----------------------------------------------------------------------------
(* The socket of c fails: it was closed on this side, the peer is gone, or  *)
(* the peer has not answered until the deadline.                           *)
Fails(c) == ws[c] = "closed" \/ peer[c] # "there"

(* readPump: ReadMessage returns an error.  What it reads is not used.      *)
ReadFails(c) ==
    /\ readPump[c] = "reading" /\ Fails(c)
    /\ readPump' = [readPump EXCEPT ![c] = "leaving"]
    /\ UNCHANGED <<connections, send, closed, ws, peer, writePump, told>>

ReadPumpCloses(c) ==
    /\ readPump[c] = "closing"
    /\ readPump' = [readPump EXCEPT ![c] = "done"]
    /\ ws' = [ws EXCEPT ![c] = "closed"]
    /\ UNCHANGED <<connections, send, closed, peer, writePump, told>>

(* writePump: a message from the channel is written; the pump ends if that *)
(* fails (a message to a silent peer may still be taken by the network).   *)
WriteMessage(c) ==
    /\ writePump[c] = "run" /\ send[c] # <<>>
    /\ send' = [send EXCEPT ![c] = Tail(@)]
    /\ \/ /\ ws[c] = "open" /\ peer[c] # "gone"
          /\ written' = [written EXCEPT ![c] = Append(@, Head(send[c]))]
          /\ UNCHANGED writePump
       \/ /\ Fails(c)
          /\ writePump' = [writePump EXCEPT ![c] = "closing"]
          /\ UNCHANGED written
    /\ UNCHANGED <<connections, closed, ws, peer, readPump, history, joined, messages>>

(* The channel is closed and empty (the close message is written), or a    *)
(* ping fails.                                                             *)
WritePumpEnds(c) ==
    /\ writePump[c] = "run"
    /\ (c \in closed /\ send[c] = <<>>) \/ Fails(c)
    /\ writePump' = [writePump EXCEPT ![c] = "closing"]
    /\ UNCHANGED <<connections, send, closed, ws, peer, readPump, told>>

WritePumpCloses(c) ==
    /\ writePump[c] = "closing"
    /\ writePump' = [writePump EXCEPT ![c] = "done"]
    /\ ws' = [ws EXCEPT ![c] = "closed"]
    /\ UNCHANGED <<connections, send, closed, peer, readPump, told>>

(* The client closes the socket or stops answering.                        *)
PeerLeaves(c) ==
    /\ readPump[c] # "none" /\ peer[c] = "there"
    /\ \E p \in {"silent", "gone"} : peer' = [peer EXCEPT ![c] = p]
    /\ UNCHANGED <<connections, send, closed, ws, pumps, told>>

ConnStep(c) ==
    \/ RegisterConn(c) \/ StartPumps(c) \/ Unregister(c)
    \/ ReadFails(c) \/ ReadPumpCloses(c)
    \/ WriteMessage(c) \/ WritePumpEnds(c) \/ WritePumpCloses(c)

HubNext ==
    \/ \E c \in Conns : Upgrade(c) \/ PeerLeaves(c) \/ ConnStep(c)
    \/ \E u \in HubUsers : StatusMessage(u)

(* The goroutines run, and a read or a write ends by its deadline.         *)
HubFairness == WF_hubVars(\E c \in Conns : ConnStep(c))

-----------------------------------------------------------------------------
(* The hub neither sends to a closed channel nor closes one twice, which   *)
(* would end the server, although a connection it dropped as full still    *)
(* unregisters later: the connections it keeps have open channels.         *)
ChannelsSound == connections \cap closed = {}

(* What was broadcast to the user of c since c was registered.             *)
Since(c) == SubSeq(history[UserOf[c]], joined[c] + 1, Len(history[UserOf[c]]))

(* A client sees what its user was sent, in order and without a gap, up to *)
(* the end of its connection; nothing is missing while it is connected.    *)
NoGap ==
    \A c \in Conns :
        /\ IsPrefix(written[c], Since(c))
        /\ c \in connections /\ writePump[c] \in {"none", "run"} =>
              written[c] \o send[c] = Since(c)

(* The hub survives what clients do, and they miss nothing while connected. *)
HubSound == ChannelsSound /\ NoGap

(* A connection whose client is gone or was dropped ends on every side.    *)
Released(c) ==
    /\ c \notin connections /\ c \in closed
    /\ readPump[c] = "done" /\ writePump[c] = "done" /\ ws[c] = "closed"

ConnsReleased ==
    \A c \in Conns : (readPump[c] # "none" /\ Fails(c)) ~> Released(c)
=============================================================================
