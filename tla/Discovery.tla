----------------------------- MODULE Discovery -----------------------------
(* The pool of addresses, pkg/network/discovery.go: the goroutine run, the    *)
(* tryAddress goroutines it starts, the callers of RequestRemote, BackFill    *)
(* and the Register functions, and Close.  requestCh has no buffer; who sends *)
(* to it holds closeMtx for reading.  Dialling succeeds or fails as it likes. *)
EXTENDS Integers, Sequences, FiniteSets

CONSTANTS
    Addr, Seeds,     \* addresses; the configured ones
    Try,             \* goroutines of tryAddress that may exist together
    maxPoolSize, connRetries,
    AttemptConnPeers \* what Server.run asks for

VARIABLES
    addrs,           \* the maps of DefaultDiscovery
    pool,            \* the channel pool
    run,             \* goroutine run: its place and its locals
    try,             \* goroutines of tryAddress: their place and address
    server,          \* Server.run: "loop" at its head, "send" in RequestRemote, "idle"
    remote,          \* what became of a dialled address
    close            \* Close: "no", "lock", "dead", "closed"

vars == <<addrs, pool, run, try, server, remote, close>>

TypeOK ==
    /\ addrs \in [bad : SUBSET Addr, connected : SUBSET Addr, good : SUBSET Addr,
                  attempted : SUBSET Addr, unconnected : [Addr -> 0 .. connRetries]]
    /\ pool \in Seq(Addr) /\ Len(pool) <= maxPoolSize
    /\ run \in [pc : {"loop", "end"}, requested : 0 .. AttemptConnPeers, old : 0 .. AttemptConnPeers]
    /\ try \in [Try -> {[pc |-> "off"]} \cup [pc : {"dial", "bad", "ask", "send"}, addr : Addr]]
    /\ server \in {"loop", "idle", "send"}
    /\ remote \in [Addr -> {"none", "dialled", "registered", "peer"}]
    /\ close \in {"no", "lock", "dead", "closed"}

Off == [pc |-> "off"]

Init ==
    /\ addrs = [bad |-> {}, connected |-> {}, good |-> {}, attempted |-> {},
                unconnected |-> [a \in Addr |-> 0]]
    /\ pool = <<>>
    /\ run = [pc |-> "loop", requested |-> 0, old |-> 0]
    /\ try = [t \in Try |-> Off]
    /\ server = "loop"
    /\ remote = [a \in Addr |-> "none"]
    /\ close = "no"

\* A full pool drops the address.
pushToPoolOrDrop(q, a) == IF Len(q) < maxPoolSize THEN Append(q, a) ELSE q

----------------------------------------------------------------------------
(* Addresses; each function runs under the lock *)

\* BackFill of one address, as the maps and the pool it leaves.
backFill(m, q, a) ==
    IF a \in m.bad \/ a \in m.connected \/ m.unconnected[a] > 0
    THEN [m |-> m, q |-> q]
    ELSE [m |-> [m EXCEPT !.unconnected[a] = connRetries], q |-> pushToPoolOrDrop(q, a)]

\* Addresses come from peers.
BackFill(a) ==
    LET r == backFill(addrs, pool, a)
    IN  /\ r.m # addrs
        /\ addrs' = r.m /\ pool' = r.q
        /\ UNCHANGED <<run, try, server, remote, close>>

\* Server.run takes the connection in, and then looks whether it has enough.
Register(a) ==
    /\ server = "idle" /\ remote[a] = "dialled"
    /\ remote' = [remote EXCEPT ![a] = "registered"]
    /\ server' = "loop"
    /\ UNCHANGED <<addrs, pool, run, try, close>>

\* The version of a dialled address is accepted: RegisterConnectedAddr.
Handshake(a) ==
    /\ remote[a] = "registered"
    /\ remote' = [remote EXCEPT ![a] = "peer"]
    /\ addrs' = [addrs EXCEPT !.unconnected[a] = 0, !.connected = @ \cup {a}]
    /\ UNCHANGED <<pool, run, try, server, close>>

\* The protocol starts: RegisterGoodAddr.
StartProtocol(a) ==
    /\ remote[a] = "peer" /\ (a \notin addrs.good \/ a \in addrs.bad)
    /\ addrs' = [addrs EXCEPT !.good = @ \cup {a}, !.bad = @ \ {a}]
    /\ UNCHANGED <<pool, run, try, server, remote, close>>

\* Server.run hears that the peer is gone, before or after the handshake:
\* UnregisterConnectedAddr and BackFill.
Lose(a) ==
    /\ server = "idle" /\ remote[a] \in {"registered", "peer"}
    /\ remote' = [remote EXCEPT ![a] = "none"]
    /\ LET r == backFill([addrs EXCEPT !.connected = @ \ {a}], pool, a)
       IN  addrs' = r.m /\ pool' = r.q
    /\ server' = "loop"
    /\ UNCHANGED <<run, try, close>>

----------------------------------------------------------------------------
(* RequestRemote; a pending Close keeps new readers of closeMtx out *)

mayEnter == close = "no"

\* With enough peers, or after Close, Server.run does not ask.
Request ==
    /\ server = "loop"
    /\ \/ mayEnter /\ server' = "send"
       \/ (close \in {"dead", "closed"} \/ \E a \in Addr : remote[a] # "none") /\ server' = "idle"
    /\ UNCHANGED <<addrs, pool, run, try, remote, close>>

TryRequests(t) ==
    /\ try[t].pc = "ask"
    /\ \/ mayEnter /\ try' = [try EXCEPT ![t].pc = "send"]
       \/ close \in {"dead", "closed"} /\ try' = [try EXCEPT ![t] = Off]
    /\ UNCHANGED <<addrs, pool, run, server, remote, close>>

Sending == {t \in Try : try[t].pc = "send"}

Held == server = "send" \/ Sending # {}

\* run receives n from the server or 1 from a goroutine; while it is working a
\* larger request replaces the number of connections still to be made.
received(n) == IF run.requested <= n THEN n ELSE run.requested

receives(n) == [run EXCEPT !.requested = received(n), !.old = IF run.requested = 0 THEN n ELSE @]

ReceiveServer ==
    /\ run.pc = "loop" /\ server = "send"
    /\ server' = "idle"
    /\ run' = receives(AttemptConnPeers)
    /\ UNCHANGED <<addrs, pool, try, remote, close>>

ReceiveTry(t) ==
    /\ run.pc = "loop" /\ try[t].pc = "send"
    /\ try' = [try EXCEPT ![t] = Off]
    /\ run' = receives(1)
    /\ UNCHANGED <<addrs, pool, server, remote, close>>

----------------------------------------------------------------------------
(* run *)

\* The loop that makes connections is left: with no peer at all the request is
\* taken up again after a pause.
left(n, m) == IF n > 0 THEN [run EXCEPT !.requested = n]
              ELSE IF m.connected = {} THEN [run EXCEPT !.requested = run.old]
              ELSE [run EXCEPT !.requested = 0, !.old = 0]

\* An address of the pool is not dialled twice.
fresh(a) == a \notin addrs.connected /\ a \notin addrs.attempted

TakeAddr ==
    /\ run.pc = "loop" /\ run.requested > 0 /\ pool # <<>>
    /\ pool' = Tail(pool)
    /\ IF fresh(Head(pool))
       THEN \E t \in Try : /\ try[t] = Off
                           /\ try' = [try EXCEPT ![t] = [pc |-> "dial", addr |-> Head(pool)]]
                           /\ addrs' = [addrs EXCEPT !.attempted = @ \cup {Head(pool)}]
                           /\ run' = left(run.requested - 1, addrs)
       ELSE UNCHANGED <<try, addrs, run>>
    /\ UNCHANGED <<server, remote, close>>

again_bug == {a \in Seeds : a \notin addrs.connected /\ a \notin addrs.bad}

\* Seeds that are not connected get another chance, bad ones too.
again == {a \in Seeds : a \notin addrs.connected}

\* Nothing is ready in the select of run.
EmptyPool ==
    /\ run.pc = "loop" /\ run.requested > 0 /\ pool = <<>> /\ ~Held /\ close # "closed"
    /\ \E order \in [1 .. Cardinality(again) -> again] :
         /\ {order[i] : i \in DOMAIN order} = again
         /\ pool' = SubSeq(order, 1, IF Len(order) < maxPoolSize THEN Len(order) ELSE maxPoolSize)
    /\ addrs' = [addrs EXCEPT !.bad = @ \ again,
                              !.unconnected = [a \in Addr |-> IF a \in again THEN connRetries ELSE @[a]]]
    /\ run' = IF again = {} THEN left(0, addrs) ELSE run
    /\ UNCHANGED <<try, server, remote, close>>

RunEnds ==
    /\ run.pc = "loop" /\ close = "closed"
    /\ run' = [run EXCEPT !.pc = "end"]
    /\ UNCHANGED <<addrs, pool, try, server, remote, close>>

----------------------------------------------------------------------------
(* tryAddress *)

\* Dial ends and the address is no longer attempted.
Dialled(t) ==
    /\ try[t].pc = "dial"
    /\ addrs' = [addrs EXCEPT !.attempted = @ \ {try[t].addr}]
    /\ \/ /\ try' = [try EXCEPT ![t] = Off]
          /\ remote' = [remote EXCEPT ![try[t].addr] = IF @ = "none" THEN "dialled" ELSE @]
       \/ /\ try' = [try EXCEPT ![t].pc = "bad"]
          /\ UNCHANGED remote
    /\ UNCHANGED <<pool, run, server, close>>

RegisterBadAddr(t) ==
    LET a == try[t].addr
    IN  /\ try[t].pc = "bad"
        /\ try' = [try EXCEPT ![t].pc = "ask"]
        /\ IF addrs.unconnected[a] > 1
           THEN /\ addrs' = [addrs EXCEPT !.unconnected[a] = @ - 1]
                /\ pool' = pushToPoolOrDrop(pool, a)
           ELSE /\ addrs' = [addrs EXCEPT !.unconnected[a] = 0, !.bad = @ \cup {a}, !.good = @ \ {a}]
                /\ UNCHANGED pool
        /\ UNCHANGED <<run, server, remote, close>>

----------------------------------------------------------------------------
(* Close *)

Close ==
    /\ close = "no"
    /\ close' = "lock"
    /\ UNCHANGED <<addrs, pool, run, try, server, remote>>

CloseLocked ==
    /\ close = "lock" /\ ~Held
    /\ close' = "dead"
    /\ UNCHANGED <<addrs, pool, run, try, server, remote>>

\* What is still in requestCh is drained, and the channel closed.
CloseChannel ==
    /\ close = "dead"
    /\ close' = "closed"
    /\ UNCHANGED <<addrs, pool, run, try, server, remote>>

----------------------------------------------------------------------------
Dialler(t) == Dialled(t) \/ RegisterBadAddr(t) \/ TryRequests(t)

Run == ReceiveServer \/ (\E t \in Try : ReceiveTry(t)) \/ TakeAddr \/ EmptyPool \/ RunEnds

Next ==
    \/ \E a \in Addr : BackFill(a) \/ Register(a) \/ Handshake(a) \/ StartProtocol(a) \/ Lose(a)
    \/ \E t \in Try : Dialler(t)
    \/ Run \/ Request \/ Close \/ CloseLocked \/ CloseChannel

Fairness ==
    /\ WF_vars(Run) /\ SF_vars(TakeAddr) /\ SF_vars(RunEnds) /\ WF_vars(Request) /\ \A t \in Try : WF_vars(Dialler(t)) /\ SF_vars(ReceiveTry(t))
    /\ WF_vars(CloseLocked) /\ WF_vars(CloseChannel)
Spec == Init /\ [][Next]_vars /\ Fairness

\* Nobody waits to send on requestCh when Close closes it: the send of a late
\* RequestRemote(1) on a closed channel would stop the process.
NoSendOnClosed == close = "closed" => ~Held

\* An address that is in the pool twice (its retry, and the refill of an empty
\* pool) is not dialled by two goroutines at once.
OneDial ==
    \A t, u \in Try : try[t].pc = "dial" /\ try[u].pc = "dial" /\ try[t].addr = try[u].addr => t = u

\* Close returns and run ends, though goroutines and the server may be sending.
CloseReturns == close # "no" ~> close = "closed" /\ run.pc = "end"

\* A node that asked for peers and has none keeps dialling: failed attempts, a
\* full pool and lost peers never leave it idle without a peer.
KeepsTrying ==
    run.requested > 0 ~> (addrs.connected # {} \/ close # "no" \/ \E t \in Try : try[t].pc = "dial")
============================================================================
