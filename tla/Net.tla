-------------------------------- MODULE Net --------------------------------
(* Three parts of pkg/network that have to make progress, for one run of the  *)
(* model checker: connections, pings and the relay of transactions.  They do  *)
(* not share state that matters to their properties, so a behaviour is a      *)
(* behaviour of one of them: part names it, the state of the others stays.    *)
EXTENDS Integers, Sequences, FiniteSets

CONSTANTS
    Conn, Message, QueueSize, MaxPeers, MaxBroadcasts, Nil,
    SendQ, MaxGetAddr,
    Tx, Handler, Rpc, ChanSize, batchSize

VARIABLES
    part,
    conn, peers, connected, serverRun, main,
    ping, getAddrSent, proto, castRun, out, in, silence, done,
    txInMap, pool, packed, call, transactions, loop, announced, quit

Server == INSTANCE Peers WITH run <- serverRun
Keep   == INSTANCE Keepalive WITH QueueSize <- SendQ, run <- castRun, peer <- silence
Relay  == INSTANCE TxRelay

serverVars == <<conn, peers, connected, serverRun, main>>
keepVars   == <<ping, getAddrSent, proto, castRun, out, in, silence, done>>
relayVars  == <<txInMap, pool, packed, call, transactions, loop, announced, quit>>
vars == <<part, serverVars, keepVars, relayVars>>

Init ==
    /\ part \in {"server", "keepalive", "relay"}
    /\ Server!Init /\ Keep!Init /\ Relay!Init

Next ==
    /\ UNCHANGED part
    /\ \/ part = "server" /\ Server!Next /\ UNCHANGED <<keepVars, relayVars>>
       \/ part = "keepalive" /\ Keep!Next /\ UNCHANGED <<serverVars, relayVars>>
       \/ part = "relay" /\ Relay!Next /\ UNCHANGED <<serverVars, keepVars>>

----------------------------------------------------------------------------
(* The fairness of each part, for the behaviours that are its own *)

ServerFairness ==
    /\ \A c \in Conn : /\ WF_serverVars(part = "server" /\ Server!ReadingEnds(c))
                       /\ WF_serverVars(part = "server" /\ Server!HandlingEnds(c))
                       /\ WF_serverVars(part = "server" /\ Server!Writer(c))
                       /\ WF_serverVars(part = "server" /\ Server!Kick(c))
                       /\ WF_serverVars(part = "server" /\ Server!Drop(c))
    /\ WF_serverVars(part = "server" /\ Server!Run) /\ WF_serverVars(part = "server" /\ Server!Quit)

KeepaliveFairness ==
    /\ WF_keepVars(part = "keepalive" /\ Keep!SendPing) /\ WF_keepVars(part = "keepalive" /\ Keep!EnqueueMessage)
    /\ WF_keepVars(part = "keepalive" /\ Keep!TimerFires) /\ WF_keepVars(part = "keepalive" /\ Keep!AddGetAddrSent)
    /\ WF_keepVars(part = "keepalive" /\ Keep!HandleMessage) /\ WF_keepVars(part = "keepalive" /\ Keep!WriteToSilent)

RelayFairness ==
    /\ \A c \in Handler \cup Rpc : /\ WF_relayVars(part = "relay" /\ Relay!VerifyAndPool(c))
                                   /\ SF_relayVars(part = "relay" /\ Relay!BroadcastTX(c))
                                   /\ WF_relayVars(part = "relay" /\ Relay!Return(c))
    /\ SF_relayVars(part = "relay" /\ Relay!Collect) /\ WF_relayVars(part = "relay" /\ Relay!TimerFires)
    /\ SF_relayVars(part = "relay" /\ Relay!BatchTime) /\ WF_relayVars(part = "relay" /\ Relay!LoopEnds)

Spec == Init /\ [][Next]_vars /\ ServerFairness /\ KeepaliveFairness /\ RelayFairness

----------------------------------------------------------------------------
\* Server.run, tryStartHandshake, Disconnect and Shutdown: a handshake is
\* complete only with a version that was checked; a broadcast ends though peers
\* have full queues or go away, a peer that was disconnected leaves the list of
\* the server, and Shutdown returns.
SessionsEnd ==
    /\ [](Server!TypeOK /\ Server!HandshakeIsChecked)
    /\ Server!RunReturns /\ Server!GoneIsForgotten /\ Server!ShutdownEnds

\* SendPing, its timer and HandlePong: a peer that answers is not dropped for a
\* pong, and one that has fallen silent is dropped.
OnlySilentAreDropped == [](Keep!TypeOK /\ Keep!NoUnexpectedPong) /\ Keep!SilentIsDropped

\* handleTxCmd, broadcastTX and broadcastTxLoop: a transaction is in the hands
\* of one handler at a time, whatever the pool took is announced, and a caller
\* is never left waiting on the channel.
TxsAreRelayed ==
    /\ [](Relay!TypeOK /\ Relay!OneHandler)
    /\ Relay!PooledIsAnnounced /\ Relay!CallReturns
============================================================================
