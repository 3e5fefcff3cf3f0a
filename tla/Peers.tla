------------------------------- MODULE Peers -------------------------------
(* Connections of the P2P server: pkg/network/tcp_peer.go (handshake, send    *)
(* queue, the three goroutines of a peer, Disconnect) with the goroutine      *)
(* Server.run of pkg/network/server.go (register, unregister, broadcast) and  *)
(* Shutdown.  register and unregister are channels without a buffer.          *)
(*                                                                            *)
(* All connections lead to one node, which this node may dial while being     *)
(* dialled by it.  What the node sends is any sequence of the messages that   *)
(* are handled differently; it may stop reading and may hang up.  As any      *)
(* message may come, one is chosen when it is handled and not when it is read *)
(* into the channel incoming.                                                 *)
EXTENDS Integers, FiniteSets

CONSTANTS
    Conn,          \* connections
    Message,       \* what the remote node may send: "version", "self" and "foreign", versions with
                   \* our own nonce or of another network, "verack", and messages that are
                   \* handled without and with an error, "good" and "bad"
    QueueSize,     \* hpRequestQueueSize
    MaxPeers,
    MaxBroadcasts, \* bound: broadcasts of getaddr by run
    Nil

VARIABLES
    conn,          \* TCPPeer: fields of a connection and places of its goroutines
    peers,         \* s.peers
    connected,     \* whether discovery has the node's address in connectedAddrs
    run,           \* goroutine Server.run, its place and locals
    main           \* Shutdown: "run", "stop", "closed"

vars == <<conn, peers, connected, run, main>>

Flag == {"versionSent", "versionReceived", "verAckSent", "verAckReceived"}

Reason == {"none", "errIdenticalID", "errAlreadyConnected", "other"}

TypeOK ==
    /\ conn \in [Conn -> [handShake : SUBSET Flag, version : {Nil, "version", "self", "foreign"},
                          reader : {"off", "register", "version", "read", "end"},
                          handler : {"off", "recv", "check", "scan", "end"},
                          writer : {"off", "select", "write", "end"},
                          hpSendQ : 0 .. QueueSize,
                          done : {"no", "sending", "sent"}, reason : Reason, kick : BOOLEAN]]
    /\ peers \subseteq Conn /\ connected \in BOOLEAN
    /\ run \in [pc : {"top", "send", "select", "insert", "end"}, p : Conn \cup {Nil},
                todo : SUBSET Conn, busy : SUBSET Conn, blocking : BOOLEAN,
                n : 0 .. Cardinality(Conn), sent : 0 .. Cardinality(Conn), dead : 0 .. Cardinality(Conn),
                casts : 0 .. MaxBroadcasts]
    /\ main \in {"run", "stop", "closed"}

NewTCPPeer == [handShake |-> {}, version |-> Nil, reader |-> "off",
               handler |-> "off", writer |-> "off", hpSendQ |-> 0,
               done |-> "no", reason |-> "none", kick |-> FALSE]

\* Server.run before its first select.
Idle == [pc |-> "top", p |-> Nil, todo |-> {}, busy |-> {}, blocking |-> FALSE,
         n |-> 0, sent |-> 0, dead |-> 0, casts |-> 0]

Init ==
    /\ conn = [c \in Conn |-> NewTCPPeer]
    /\ peers = {} /\ connected = FALSE
    /\ run = Idle
    /\ main = "run"

Handshaked(c) == conn[c].handShake = Flag

----------------------------------------------------------------------------
(* Disconnect: sync.Once lets the first caller close done and the connection  *)
(* and hand the peer to run; later callers change nothing.                    *)

Disconnect(r, reason) ==
    IF r.done = "no" THEN [r EXCEPT !.done = "sending", !.reason = reason] ELSE r

\* A connection is made by discovery or accepted from the listener.
Connect(c) ==
    /\ conn[c].reader = "off" /\ main = "run"
    /\ conn' = [conn EXCEPT ![c].reader = "register"]
    /\ UNCHANGED <<peers, connected, run, main>>

----------------------------------------------------------------------------
(* handleConn: the reading goroutine *)

\* SendVersion; the write fails or succeeds.
SendVersion(c) ==
    /\ conn[c].reader = "version"
    /\ \/ conn' = [conn EXCEPT ![c] = [@ EXCEPT !.handShake = @ \cup {"versionSent"}, !.reader = "read"]]
       \/ conn' = [conn EXCEPT ![c] = [Disconnect(@, "other") EXCEPT !.reader = "end"]]
    /\ UNCHANGED <<peers, connected, run, main>>

\* Reading ends: the remote side hangs up or sends what cannot be decoded, or
\* the connection is closed.
ReadFails(c) ==
    /\ conn[c].reader = "read"
    /\ conn' = [conn EXCEPT ![c] = [Disconnect(@, "other") EXCEPT !.reader = "end"]]
    /\ UNCHANGED <<peers, connected, run, main>>

----------------------------------------------------------------------------
(* handleIncoming: the goroutine that handles messages *)

\* The peer is dropped with this error and the goroutine ends.
failed(r, reason) == [Disconnect(r, reason) EXCEPT !.handler = "end"]

\* HandleVersion, the first step of handleVersionCmd.
HandleVersion(r, m) ==
    IF "versionReceived" \in r.handShake THEN failed(r, "other")
    ELSE [r EXCEPT !.version = m, !.handShake = @ \cup {"versionReceived"}, !.handler = "check"]

HandleVersionAck_bug(r) == [r EXCEPT !.handShake = @ \cup {"verAckSent", "verAckReceived"}]

HandleVersionAck(r) ==
    IF "versionSent" \notin r.handShake \/ "versionReceived" \notin r.handShake
         \/ "verAckReceived" \in r.handShake
    THEN failed(r, "other")
    ELSE [r EXCEPT !.handShake = @ \cup {"verAckReceived"}]

\* handleMessage for all but the rest of handleVersionCmd.
handleMessage(r, m) ==
    IF r.handShake = Flag
    THEN IF m = "good" THEN r ELSE failed(r, "other")
    ELSE IF m \in {"version", "self", "foreign"} THEN HandleVersion(r, m)
    ELSE IF m = "verack" THEN HandleVersionAck(r)
    ELSE failed(r, "other")

\* A message that was read before the connection was closed may be handled
\* after that.
Handle(c) ==
    /\ conn[c].handler = "recv" /\ "versionSent" \in conn[c].handShake
    /\ \E m \in Message : conn' = [conn EXCEPT ![c] = handleMessage(@, m)]
    /\ UNCHANGED <<peers, connected, run, main>>

\* incoming is closed by the reader, and empty.
HandlerEnds(c) ==
    /\ conn[c].handler = "recv" /\ conn[c].reader = "end" /\ conn[c].done = "sent"
    /\ conn' = [conn EXCEPT ![c].handler = "end"]
    /\ UNCHANGED <<peers, connected, run, main>>

CheckVersion_bug(c) ==
    /\ conn[c].handler = "check"
    /\ conn' = [conn EXCEPT ![c].handler = "scan"]
    /\ connected' = TRUE
    /\ UNCHANGED <<peers, run, main>>

\* handleVersionCmd: nonce and network, then RegisterConnectedAddr.
CheckVersion(c) ==
    /\ conn[c].handler = "check"
    /\ conn' = [conn EXCEPT ![c] = CASE @.version = "self"    -> failed(@, "errIdenticalID")
                                     [] @.version = "foreign" -> failed(@, "other")
                                     [] OTHER                 -> [@ EXCEPT !.handler = "scan"]]
    /\ connected' = (connected \/ conn[c].version = "version")
    /\ UNCHANGED <<peers, run, main>>

\* handleVersionCmd: another connection to the same node, or verack is sent.
ScanPeers(c) ==
    /\ conn[c].handler = "scan"
    /\ LET twice == \E d \in peers \ {c} : conn[d].version = conn[c].version
       IN  IF twice
           THEN conn' = [conn EXCEPT ![c] = failed(@, "errAlreadyConnected")]
           ELSE \/ conn' = [conn EXCEPT ![c] = [@ EXCEPT !.handShake = @ \cup {"verAckSent"}, !.handler = "recv"]]
                \/ conn' = [conn EXCEPT ![c] = failed(@, "other")]
    /\ UNCHANGED <<peers, connected, run, main>>

----------------------------------------------------------------------------
(* handleQueues: the writing goroutine *)

Take(c) ==
    /\ conn[c].writer = "select"
    /\ \/ /\ conn[c].done # "no"
          /\ conn' = [conn EXCEPT ![c].writer = "end"]
       \/ /\ conn[c].hpSendQ > 0
          /\ conn' = [conn EXCEPT ![c].hpSendQ = @ - 1, ![c].writer = "write"]
    /\ UNCHANGED <<peers, connected, run, main>>

\* conn.Write ends when the remote side reads, or with an error at the deadline
\* or when the connection is closed.
Write(c) ==
    /\ conn[c].writer = "write"
    /\ \/ conn' = [conn EXCEPT ![c].writer = "select"]
       \/ conn' = [conn EXCEPT ![c] = [Disconnect(@, "other") EXCEPT !.writer = "end"]]
    /\ UNCHANGED <<peers, connected, run, main>>

----------------------------------------------------------------------------
(* Server.run *)

\* broadcastHPMessage(getaddr), when discovery has few addresses.
Broadcast ==
    /\ run.casts < MaxBroadcasts /\ peers # {}
    /\ run' = [run EXCEPT !.pc = "send", !.todo = peers, !.busy = {}, !.blocking = FALSE,
                          !.n = Cardinality(peers), !.sent = 0, !.dead = 0, !.casts = @ + 1]

\* The loop starts over.
Top ==
    /\ run.pc = "top"
    /\ run' = [run EXCEPT !.pc = "select"] \/ Broadcast
    /\ UNCHANGED <<conn, peers, connected, main>>

\* A connection that is not one of Conn comes or goes and makes run start over.
OtherPeer ==
    /\ run.pc = "select" /\ Broadcast
    /\ UNCHANGED <<conn, peers, connected, main>>

enough == 3 * run.sent >= 2 * (run.n - run.dead)

\* The peer p is done with, one way or the other.
tried(p, sent, dead) ==
    [run EXCEPT !.todo = @ \ {p}, !.sent = @ + sent, !.dead = @ + dead]

Send_bug(p) ==
    /\ run.pc = "send" /\ ~enough /\ p \in run.todo
    /\ \/ /\ Handshaked(p) /\ conn[p].hpSendQ < QueueSize
          /\ run' = tried(p, 1, 0)
          /\ conn' = [conn EXCEPT ![p].hpSendQ = @ + 1]
       \/ /\ Handshaked(p) /\ conn[p].hpSendQ = QueueSize /\ ~run.blocking
          /\ run' = [run EXCEPT !.todo = @ \ {p}, !.busy = @ \cup {p}]
          /\ UNCHANGED conn
       \/ /\ ~Handshaked(p)
          /\ run' = tried(p, 0, 1)
          /\ UNCHANGED conn
    /\ UNCHANGED <<peers, connected, main>>

\* iteratePeersWithSendMsg for the next peer, with EnqueueHPPacket.
Send(p) ==
    /\ run.pc = "send" /\ ~enough /\ p \in run.todo
    /\ \/ /\ ~Handshaked(p)
          /\ run' = tried(p, 0, 1)
          /\ UNCHANGED conn
       \/ /\ Handshaked(p) /\ conn[p].done # "no"
          /\ run' = tried(p, 0, 1)
          /\ UNCHANGED conn
       \/ /\ Handshaked(p) /\ conn[p].hpSendQ < QueueSize
          /\ run' = tried(p, 1, 0)
          /\ conn' = [conn EXCEPT ![p].hpSendQ = @ + 1]
       \/ /\ Handshaked(p) /\ conn[p].done = "no" /\ conn[p].hpSendQ = QueueSize /\ ~run.blocking
          /\ run' = [run EXCEPT !.todo = @ \ {p}, !.busy = @ \cup {p}]
          /\ UNCHANGED conn
    /\ UNCHANGED <<peers, connected, main>>

\* The second pass, in which run waits for peers that were busy.
SecondPass ==
    /\ run.pc = "send" /\ ~enough /\ run.todo = {} /\ ~run.blocking
    /\ run' = [run EXCEPT !.todo = run.busy, !.busy = {}, !.blocking = TRUE]
    /\ UNCHANGED <<conn, peers, connected, main>>

Sent ==
    /\ run.pc = "send" /\ (enough \/ (run.todo = {} /\ run.blocking))
    /\ run' = [Idle EXCEPT !.pc = "select", !.casts = run.casts]
    /\ UNCHANGED <<conn, peers, connected, main>>

\* A new peer hands itself over and starts its goroutines ...
Register(c) ==
    /\ run.pc = "select" /\ conn[c].reader = "register"
    /\ run' = [run EXCEPT !.pc = "insert", !.p = c]
    /\ conn' = [conn EXCEPT ![c].reader = "version", ![c].handler = "recv", ![c].writer = "select"]
    /\ UNCHANGED <<peers, connected, main>>

\* ... and run, with the lock, makes it a peer; with too many peers some peer is
\* disconnected by another goroutine.
Insert ==
    LET now == peers \cup {run.p}
    IN  /\ run.pc = "insert"
        /\ peers' = now
        /\ \/ /\ Cardinality(now) <= MaxPeers
              /\ UNCHANGED conn
           \/ /\ Cardinality(now) > MaxPeers
              /\ \E c \in now : conn' = [conn EXCEPT ![c].kick = TRUE]
        /\ run' = [run EXCEPT !.pc = "top", !.p = Nil]
        /\ UNCHANGED <<connected, main>>

Kick(c) ==
    /\ conn[c].kick
    /\ conn' = [conn EXCEPT ![c] = [Disconnect(@, "other") EXCEPT !.kick = FALSE]]
    /\ UNCHANGED <<peers, connected, run, main>>

\* unregister: the address goes back to discovery unless another connection to
\* the node is left when this one was dropped as the second one.
Unregister(c) ==
    LET others  == peers \ {c}
        still   == \E d \in others : conn[d].version # Nil /\ conn[d].version = conn[c].version
        release == \/ conn[c].reason = "errAlreadyConnected" /\ ~still
                   \/ conn[c].reason \notin {"errIdenticalID", "errAlreadyConnected"}
    IN  /\ run.pc = "select" /\ conn[c].done = "sending"
        /\ conn' = [conn EXCEPT ![c].done = "sent", ![c].reason = "none"]
        /\ peers' = others
        /\ connected' = (connected /\ ~(c \in peers /\ release))
        /\ run' = [run EXCEPT !.pc = "top"]
        /\ UNCHANGED main

RunEnds ==
    /\ run.pc = "select" /\ main = "closed"
    /\ run' = [run EXCEPT !.pc = "end"]
    /\ UNCHANGED <<conn, peers, connected, main>>

----------------------------------------------------------------------------
(* Shutdown disconnects one peer after the other and waits for each. *)

Shutdown ==
    /\ main = "run"
    /\ main' = "stop"
    /\ UNCHANGED <<conn, peers, connected, run>>

Drop(c) ==
    /\ main = "stop" /\ c \in peers /\ conn[c].done = "no"
    /\ conn' = [conn EXCEPT ![c] = Disconnect(@, "other")]
    /\ UNCHANGED <<peers, connected, run, main>>

Quit ==
    /\ main = "stop" /\ \A c \in peers : conn[c].done = "sent"
    /\ main' = "closed"
    /\ UNCHANGED <<conn, peers, connected, run>>

----------------------------------------------------------------------------
Reader(c) == SendVersion(c) \/ ReadFails(c)
MessageHandler(c) == Handle(c) \/ HandlerEnds(c) \/ CheckVersion(c) \/ ScanPeers(c)
Writer(c) == Take(c) \/ Write(c)

Run ==
    \/ Top \/ SecondPass \/ Sent \/ Insert \/ RunEnds
    \/ \E c \in Conn : Send(c) \/ Register(c) \/ Unregister(c)

Next ==
    \/ \E c \in Conn : Connect(c) \/ Reader(c) \/ MessageHandler(c) \/ Writer(c) \/ Kick(c) \/ Drop(c)
    \/ Run \/ OtherPeer \/ Shutdown \/ Quit

\* Every goroutine runs when it can.  Reading ends only when the connection is
\* closed, and messages need not come.
ReadingEnds(c) == SendVersion(c) \/ (conn[c].done # "no" /\ ReadFails(c))
HandlingEnds(c) == HandlerEnds(c) \/ CheckVersion(c) \/ ScanPeers(c)

Fairness ==
    /\ \A c \in Conn : /\ WF_vars(ReadingEnds(c)) /\ WF_vars(HandlingEnds(c)) /\ WF_vars(Writer(c))
                       /\ WF_vars(Kick(c)) /\ WF_vars(Drop(c))
    /\ WF_vars(Run) /\ WF_vars(Quit)

Spec == Init /\ [][Next]_vars /\ Fairness

\* A handshake is complete only with a version that was checked: verack from the
\* other side never replaces the check of nonce and network by handleVersionCmd.
HandshakeIsChecked == \A c \in Conn : Handshaked(c) => conn[c].version = "version"

\* A broadcast of Server.run ends though it waits for peers with a full queue,
\* which may stop reading or go away: run also serves every other peer.
RunReturns == run.pc = "send" ~> run.pc # "send"

\* A peer that was disconnected, by whichever goroutine, leaves the list of the
\* server, unless the server is gone first.
GoneIsForgotten == \A c \in Conn : conn[c].done # "no" ~> (c \notin peers \/ main = "closed")

\* Shutdown, which waits for run to take every peer off the list, ends.
ShutdownEnds == main = "stop" ~> main = "closed"
=============================================================================
