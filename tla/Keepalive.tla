----------------------------- MODULE Keepalive -----------------------------
(* What the server counts about one peer whose handshake is done: outstanding *)
(* pings with their timer and outstanding getaddr requests (SendPing,         *)
(* HandlePong, AddGetAddrSent and CanProcessAddr of pkg/network/tcp_peer.go,  *)
(* with runProto, the broadcast of getaddr and the handlers of                *)
(* pkg/network/server.go).                                                    *)
(*                                                                            *)
(* The peer answers every request in order until it falls silent for good.    *)
EXTENDS Integers, Sequences

CONSTANTS
    QueueSize,     \* bound: messages in a queue, and answers on the way
    MaxGetAddr     \* bound: broadcasts of getaddr

VARIABLES
    ping,          \* pingSent and pingTimer: "nil", "armed", "fired"
    getAddrSent,
    proto,         \* runProto: "wait", or "enqueue" after SendPing has counted
    run,           \* Server.run: "loop", or "count" after getaddr was enqueued
    out, in,       \* messages to the peer and from it
    peer,          \* "answers", "silent"
    done           \* "no", or the reason of Disconnect

vars == <<ping, getAddrSent, proto, run, out, in, peer, done>>

Reason == {"errPingPong", "errUnexpectedPong", "unexpected addr", "remote"}

TypeOK ==
    /\ ping \in [sent : -1 .. 2 * QueueSize + 1, timer : {"nil", "armed", "fired"}]
    /\ getAddrSent \in -MaxGetAddr .. MaxGetAddr
    /\ proto \in {"wait", "enqueue"} /\ run \in {"loop", "count"}
    /\ out \in Seq({"ping", "getaddr"}) /\ Len(out) <= QueueSize
    /\ in \in Seq({"pong", "addr"}) /\ Len(in) <= QueueSize
    /\ peer \in {"answers", "silent"}
    /\ done \in {"no"} \cup Reason

Init ==
    /\ ping = [sent |-> 0, timer |-> "nil"] /\ getAddrSent = 0
    /\ proto = "wait" /\ run = "loop"
    /\ out = <<>> /\ in = <<>>
    /\ peer = "answers" /\ done = "no"

Disconnect(reason) == done' = IF done = "no" THEN reason ELSE done

----------------------------------------------------------------------------
(* SendPing, called when the height has not changed for PingInterval *)

SendPing_bug ==
    /\ proto = "wait" /\ done = "no" /\ ping.sent < 2 * QueueSize + 1
    /\ ping' = [ping EXCEPT !.timer = IF @ = "nil" THEN "armed" ELSE @]
    /\ proto' = "enqueue"
    /\ UNCHANGED <<getAddrSent, run, out, in, peer, done>>

SendPing ==
    /\ proto = "wait" /\ done = "no" /\ ping.sent < 2 * QueueSize + 1
    /\ ping' = [sent |-> ping.sent + 1, timer |-> IF ping.timer = "nil" THEN "armed" ELSE ping.timer]
    /\ proto' = "enqueue"
    /\ UNCHANGED <<getAddrSent, run, out, in, peer, done>>

\* A full queue makes runProto wait; a peer that is gone does not.
EnqueueMessage ==
    /\ proto = "enqueue" /\ (Len(out) < QueueSize \/ done # "no")
    /\ proto' = "wait"
    /\ out' = IF Len(out) < QueueSize THEN Append(out, "ping") ELSE out
    /\ UNCHANGED <<ping, getAddrSent, run, in, peer, done>>

\* PingTimeout after the timer was set.
TimerFires ==
    /\ ping.timer = "armed"
    /\ ping' = [ping EXCEPT !.timer = "fired"]
    /\ Disconnect("errPingPong")
    /\ UNCHANGED <<getAddrSent, proto, run, out, in, peer>>

\* A pong stops the timer even when it answers an older ping than the last one.
HandlePong ==
    /\ IF ping.timer = "fired" THEN UNCHANGED ping /\ Disconnect("errPingPong")
       ELSE /\ ping' = [sent |-> ping.sent - 1, timer |-> "nil"]
            /\ IF ping.sent - 1 < 0 THEN Disconnect("errUnexpectedPong") ELSE UNCHANGED done

----------------------------------------------------------------------------
(* getaddr: iteratePeersWithSendMsg counts a request once it is enqueued *)

BroadcastGetAddr ==
    /\ run = "loop" /\ done = "no" /\ Len(out) < QueueSize /\ getAddrSent < MaxGetAddr
    /\ out' = Append(out, "getaddr")
    /\ run' = "count"
    /\ UNCHANGED <<ping, getAddrSent, proto, in, peer, done>>

AddGetAddrSent ==
    /\ run = "count"
    /\ getAddrSent' = getAddrSent + 1
    /\ run' = "loop"
    /\ UNCHANGED <<ping, proto, out, in, peer, done>>

\* handleAddrCmd: CanProcessAddr counts down whatever it answers.
HandleAddr ==
    /\ getAddrSent' = getAddrSent - 1
    /\ IF getAddrSent - 1 < 0 THEN Disconnect("unexpected addr") ELSE UNCHANGED done

----------------------------------------------------------------------------
(* handleIncoming, and the remote node *)

HandleMessage ==
    /\ in # <<>> /\ done = "no"
    /\ in' = Tail(in)
    /\ \/ Head(in) = "pong" /\ HandlePong /\ UNCHANGED getAddrSent
       \/ Head(in) = "addr" /\ HandleAddr /\ UNCHANGED ping
    /\ UNCHANGED <<proto, run, out, peer>>

\* handlePing and handleGetAddrCmd at the other side.
Answer ==
    /\ peer = "answers" /\ out # <<>> /\ Len(in) < QueueSize /\ done = "no"
    /\ out' = Tail(out)
    /\ in' = Append(in, IF Head(out) = "ping" THEN "pong" ELSE "addr")
    /\ UNCHANGED <<ping, getAddrSent, proto, run, peer, done>>

FallSilent ==
    /\ peer = "answers"
    /\ peer' = "silent"
    /\ UNCHANGED <<ping, getAddrSent, proto, run, out, in, done>>

\* conn.Write: the kernel takes messages a silent peer does not read, for a while.
WriteToSilent ==
    /\ peer = "silent" /\ out # <<>> /\ done = "no"
    /\ \/ out' = Tail(out) /\ UNCHANGED done
       \/ UNCHANGED out /\ Disconnect("remote")
    /\ UNCHANGED <<ping, getAddrSent, proto, run, in, peer>>

----------------------------------------------------------------------------
Next ==
    \/ SendPing \/ EnqueueMessage \/ TimerFires \/ BroadcastGetAddr \/ AddGetAddrSent
    \/ HandleMessage \/ Answer \/ FallSilent \/ WriteToSilent

\* Timers go off and goroutines run.
Fairness ==
    /\ WF_vars(SendPing) /\ WF_vars(EnqueueMessage) /\ WF_vars(TimerFires)
    /\ WF_vars(AddGetAddrSent) /\ WF_vars(HandleMessage) /\ WF_vars(WriteToSilent)

Spec == Init /\ [][Next]_vars /\ Fairness

\* A peer that answers pings is never dropped for a pong that nobody waited for,
\* however pings, pongs and a timer that is being stopped interleave.
NoUnexpectedPong == done # "errUnexpectedPong"

\* A peer that has fallen silent is dropped in the end: a pong that stops the
\* timer of a younger ping only delays that to the next ping.
SilentIsDropped == peer = "silent" ~> done # "no"

============================================================================
