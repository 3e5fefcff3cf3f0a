------------------------------- MODULE Events -------------------------------
(***************************************************************************)
(* The events of the chain and those who listen to them: AddBlock sends an *)
(* event for each stored block to the notification dispatcher, which hands *)
(* it to the channels of the subscribers.  Modelled are the dispatcher,    *)
(* the two goroutines that add blocks (the block queue and the consensus   *)
(* service), the four subscribers (state root service, consensus service,  *)
(* block relay, RPC server with its websocket clients), and the shutdown   *)
(* of the node.  Only block events are kept: those of transactions,        *)
(* executions and notifications take the same way.                         *)
(***************************************************************************)
EXTENDS Integers, FiniteSets, Sequences

CONSTANTS
    Services,      \* the subscribers this node runs, a subset of Service
    Clients,       \* websocket clients of the RPC server
    Adds,          \* whether the consensus service completes blocks itself
    Stops,         \* whether the node is shut down
    MaxBlocks,     \* bound: blocks that are added
    MaxRestarts,   \* bound: restarts of the RPC server by SIGHUP
    Nil

Service == {"stateroot", "consensus", "relay", "rpc"}

\* The goroutines that call AddBlock.
Adder == {"queue", "consensus"}

VARIABLES
    height,      \* bc.blockHeight
    add,         \* an AddBlock call: idle, waiting for addLock, sending its event
    next,        \* the block of the call
    addLock,     \* its holder
    disp,        \* the dispatcher: at its select, or handing out a block
    feed,        \* blockFeed
    chan,        \* the buffers of the channels of the subscribers
    svc,         \* where the goroutine of a subscriber is
    got,         \* the last block it has taken since it subscribed, or 0
    index,       \* dbft.BlockIndex
    from,        \* the height at which the consensus service was subscribed
    quit,        \* the subscribers that were told to stop
    subsLock,    \* the holder of the write lock of the RPC server
    blockSubs,   \* blockSubs of the RPC server
    client,      \* the clients: no subscription, in subscribe, subscribed, in unsubscribe
    main,        \* the goroutine that runs the node
    restarts

adding  == <<height, add, next, addLock>>
rpcvars == <<subsLock, blockSubs, client>>
vars    == <<adding, disp, feed, chan, svc, got, index, from, quit, rpcvars, main, restarts>>

Block == 1..MaxBlocks

\* The buffers of the channels.
Capacity == [s \in Service |->
    CASE s = "consensus" -> 1 [] s = "relay" -> 2 [] OTHER -> 0]

AtSelect == disp = [block |-> 0, todo |-> {}, to |-> Nil]

Init ==
    /\ height = 0
    /\ add = [c \in Adder |-> "idle"] /\ next = [c \in Adder |-> 0]
    /\ addLock = Nil
    /\ disp = [block |-> 0, todo |-> {}, to |-> Nil]
    /\ feed = {} /\ chan = [s \in Service |-> <<>>]
    /\ svc = [s \in Service |-> IF s = "rpc" THEN "select" ELSE "off"]
    /\ got = [s \in Service |-> 0]
    /\ index = 0 /\ from = 0
    /\ quit = {}
    /\ subsLock = Nil /\ blockSubs = 0 /\ client = [c \in Clients |-> "off"]
    /\ main = "run" /\ restarts = 0

-----------------------------------------------------------------------------
(* AddBlock *)

\* The block queue takes the block after the current one.
QueueAdd ==
    /\ add["queue"] = "idle" /\ main \in {"run", "restart"} /\ height < MaxBlocks
    /\ add' = [add EXCEPT !["queue"] = "lock"]
    /\ next' = [next EXCEPT !["queue"] = height + 1]
    /\ UNCHANGED <<height, addLock, disp, feed, chan, svc, got, index, from, quit, rpcvars,
                   main, restarts>>

\* A message, the timer or a transaction lets the consensus service complete
\* its block.
ConsensusAdd ==
    /\ Adds /\ svc["consensus"] = "select" /\ index <= MaxBlocks
    /\ svc' = [svc EXCEPT !["consensus"] = "add"]
    /\ add' = [add EXCEPT !["consensus"] = "lock"]
    /\ next' = [next EXCEPT !["consensus"] = index]
    /\ UNCHANGED <<height, addLock, disp, feed, chan, got, index, from, quit, rpcvars, main,
                   restarts>>

\* AddBlock returns; dBFT then initializes the next height.
Returned(c) ==
    /\ add' = [add EXCEPT ![c] = "idle"]
    /\ IF c = "consensus"
       THEN /\ svc' = [svc EXCEPT !["consensus"] = "drain"]
            /\ index' = height + 1
       ELSE UNCHANGED <<svc, index>>

\* The block is not the next one any more.
AddRefused(c) ==
    /\ add[c] = "lock" /\ addLock = Nil /\ next[c] # height + 1
    /\ Returned(c)
    /\ UNCHANGED <<height, next, addLock, disp, feed, chan, got, from, quit, rpcvars, main,
                   restarts>>

\* The block is stored.
StoreBlock(c) ==
    /\ add[c] = "lock" /\ addLock = Nil /\ next[c] = height + 1
    /\ addLock' = c
    /\ height' = next[c]
    /\ add' = [add EXCEPT ![c] = "send"]
    /\ UNCHANGED <<next, disp, feed, chan, svc, got, index, from, quit, rpcvars, main, restarts>>

\* The dispatcher takes the event; addLock is released only now.
SendEvent(c) ==
    /\ add[c] = "send" /\ AtSelect
    /\ disp' = IF feed = {} THEN disp ELSE [block |-> next[c], todo |-> feed, to |-> Nil]
    /\ addLock' = Nil
    /\ Returned(c)
    /\ UNCHANGED <<height, next, feed, chan, got, from, quit, rpcvars, main, restarts>>

-----------------------------------------------------------------------------
(* The dispatcher *)

\* The range over blockFeed goes on to the channel of s.
NextChannel(s) ==
    /\ disp.to = Nil /\ s \in disp.todo
    /\ disp' = [disp EXCEPT !.to = s, !.todo = @ \ {s}]
    /\ UNCHANGED <<adding, feed, chan, svc, got, index, from, quit, rpcvars, main, restarts>>

\* The buffer of a channel takes another block.
HasRoom(s) == Len(chan[s]) < Capacity[s]

\* Variant of Deliver: a full buffer loses the block.
Deliver_bug(s) ==
    /\ disp.to = s
    /\ \/ /\ Capacity[s] = 0 /\ svc[s] = "select"
          /\ svc' = [svc EXCEPT ![s] = "event"]
          /\ got' = [got EXCEPT ![s] = disp.block]
          /\ UNCHANGED chan
       \/ /\ Capacity[s] > 0
          /\ chan' = [chan EXCEPT ![s] = IF Len(@) < Capacity[s] THEN Append(@, disp.block) ELSE @]
          /\ UNCHANGED <<svc, got>>
    /\ disp' = [disp EXCEPT !.to = Nil, !.block = IF disp.todo = {} THEN 0 ELSE @]
    /\ UNCHANGED <<adding, feed, index, from, quit, rpcvars, main, restarts>>

\* Hands the block to the goroutine of s, which waits for it, or puts it into
\* the buffer of its channel.
Deliver(s) ==
    /\ disp.to = s
    /\ \/ /\ Capacity[s] = 0 /\ svc[s] = "select"
          /\ svc' = [svc EXCEPT ![s] = "event"]
          /\ got' = [got EXCEPT ![s] = disp.block]
          /\ UNCHANGED chan
       \/ /\ HasRoom(s)
          /\ chan' = [chan EXCEPT ![s] = Append(@, disp.block)]
          /\ UNCHANGED <<svc, got>>
    /\ disp' = [disp EXCEPT !.to = Nil, !.block = IF disp.todo = {} THEN 0 ELSE @]
    /\ UNCHANGED <<adding, feed, index, from, quit, rpcvars, main, restarts>>

-----------------------------------------------------------------------------
(* Consensus service *)

\* dBFT reads the height before the subscription is made.
StartConsensus ==
    /\ "consensus" \in Services /\ svc["consensus"] = "off"
    /\ "stateroot" \in Services => svc["stateroot"] # "off"
    /\ index' = height + 1
    /\ svc' = [svc EXCEPT !["consensus"] = "subscribe"]
    /\ UNCHANGED <<adding, disp, feed, chan, got, from, quit, rpcvars, main, restarts>>

SubscribeConsensus ==
    /\ svc["consensus"] = "subscribe" /\ AtSelect
    /\ feed' = feed \cup {"consensus"}
    /\ from' = height
    /\ svc' = [svc EXCEPT !["consensus"] = "select"]
    /\ UNCHANGED <<adding, disp, chan, got, index, quit, rpcvars, main, restarts>>

\* A message, the timer or a transaction that completes no block.
ConsensusMessage ==
    /\ svc["consensus"] = "select"
    /\ svc' = [svc EXCEPT !["consensus"] = "drain"]
    /\ UNCHANGED <<adding, disp, feed, chan, got, index, from, quit, rpcvars, main, restarts>>

\* Variant of ConsensusEvent: a block at the height of dBFT is taken for its own.
ConsensusEvent_bug ==
    /\ svc["consensus"] \in {"select", "drain"} /\ chan["consensus"] # <<>>
    /\ LET b == Head(chan["consensus"])
       IN /\ got' = [got EXCEPT !["consensus"] = b]
          /\ index' = IF b > index THEN height + 1 ELSE index
    /\ chan' = [chan EXCEPT !["consensus"] = Tail(@)]
    /\ svc' = [svc EXCEPT !["consensus"] = IF @ = "select" THEN "drain" ELSE "select"]
    /\ UNCHANGED <<adding, disp, feed, from, quit, rpcvars, main, restarts>>

\* handleChainBlock, from the first select or from the one after it.
ConsensusEvent ==
    /\ svc["consensus"] \in {"select", "drain"} /\ chan["consensus"] # <<>>
    /\ LET b == Head(chan["consensus"])
       IN /\ got' = [got EXCEPT !["consensus"] = b]
          /\ index' = IF b >= index THEN height + 1 ELSE index
    /\ chan' = [chan EXCEPT !["consensus"] = Tail(@)]
    /\ svc' = [svc EXCEPT !["consensus"] = IF @ = "select" THEN "drain" ELSE "select"]
    /\ UNCHANGED <<adding, disp, feed, from, quit, rpcvars, main, restarts>>

\* Variant of ConsensusIdle: the second select is left out.
ConsensusIdle_bug ==
    /\ svc["consensus"] = "drain"
    /\ svc' = [svc EXCEPT !["consensus"] = "select"]
    /\ UNCHANGED <<adding, disp, feed, chan, got, index, from, quit, rpcvars, main, restarts>>

\* The default of the second select.
ConsensusIdle ==
    /\ svc["consensus"] = "drain" /\ chan["consensus"] = <<>>
    /\ svc' = [svc EXCEPT !["consensus"] = "select"]
    /\ UNCHANGED <<adding, disp, feed, chan, got, index, from, quit, rpcvars, main, restarts>>

\* The loop ends; the channel stays subscribed.
ConsensusQuit ==
    /\ svc["consensus"] = "select" /\ "consensus" \in quit
    /\ svc' = [svc EXCEPT !["consensus"] = "gone"]
    /\ UNCHANGED <<adding, disp, feed, chan, got, index, from, quit, rpcvars, main, restarts>>

-----------------------------------------------------------------------------
(* State root service and block relay *)

Start(s) ==
    /\ s \in Services \cap {"stateroot", "relay"} /\ svc[s] = "off" /\ AtSelect
    /\ feed' = feed \cup {s}
    /\ svc' = [svc EXCEPT ![s] = "select"]
    /\ UNCHANGED <<adding, disp, chan, got, index, from, quit, rpcvars, main, restarts>>

\* The root of the block is signed and sent.
StateRootDone ==
    /\ svc["stateroot"] = "event"
    /\ svc' = [svc EXCEPT !["stateroot"] = "select"]
    /\ UNCHANGED <<adding, disp, feed, chan, got, index, from, quit, rpcvars, main, restarts>>

RelayEvent ==
    /\ svc["relay"] = "select" /\ chan["relay"] # <<>>
    /\ got' = [got EXCEPT !["relay"] = Head(chan["relay"])]
    /\ chan' = [chan EXCEPT !["relay"] = Tail(@)]
    /\ UNCHANGED <<adding, disp, feed, svc, index, from, quit, rpcvars, main, restarts>>

\* From here on the relay does not read its channel.
RelayQuit ==
    /\ svc["relay"] = "select" /\ "relay" \in quit
    /\ svc' = [svc EXCEPT !["relay"] = "unsubscribe"]
    /\ UNCHANGED <<adding, disp, feed, chan, got, index, from, quit, rpcvars, main, restarts>>

RelayUnsubscribe ==
    /\ svc["relay"] = "unsubscribe" /\ AtSelect
    /\ feed' = feed \ {"relay"}
    /\ svc' = [svc EXCEPT !["relay"] = "gone"]
    /\ UNCHANGED <<adding, disp, chan, got, index, from, quit, rpcvars, main, restarts>>

-----------------------------------------------------------------------------
(* RPC server *)

\* handleSubEvents passes an event on with the read lock held.
RpcBroadcast ==
    /\ svc["rpc"] = "event" /\ subsLock = Nil
    /\ svc' = [svc EXCEPT !["rpc"] = "select"]
    /\ UNCHANGED <<adding, disp, feed, chan, got, index, from, quit, rpcvars, main, restarts>>

RpcQuit ==
    /\ svc["rpc"] = "select" /\ "rpc" \in quit /\ subsLock = Nil
    /\ subsLock' = "rpc"
    /\ svc' = [svc EXCEPT !["rpc"] = "unsubscribe"]
    /\ UNCHANGED <<adding, disp, feed, chan, got, index, from, quit, blockSubs, client, main,
                   restarts>>

\* All channels are unsubscribed, drained and closed.
RpcUnsubscribe ==
    /\ svc["rpc"] = "unsubscribe" /\ AtSelect
    /\ feed' = feed \ {"rpc"}
    /\ got' = [got EXCEPT !["rpc"] = 0]
    /\ subsLock' = Nil
    /\ svc' = [svc EXCEPT !["rpc"] = "gone"]
    /\ UNCHANGED <<adding, disp, chan, index, from, quit, blockSubs, client, main, restarts>>

\* subscribe takes the lock; only the first subscription goes to the chain.
ClientSubscribe(c) ==
    /\ client[c] = "off" /\ subsLock = Nil /\ "rpc" \in Services \ quit
    /\ \/ /\ blockSubs = 0
          /\ subsLock' = c
          /\ client' = [client EXCEPT ![c] = "subscribe"]
          /\ UNCHANGED blockSubs
       \/ /\ blockSubs > 0
          /\ blockSubs' = blockSubs + 1
          /\ client' = [client EXCEPT ![c] = "on"]
          /\ UNCHANGED subsLock
    /\ UNCHANGED <<adding, disp, feed, chan, svc, got, index, from, quit, main, restarts>>

ClientSubscribed(c) ==
    /\ client[c] = "subscribe" /\ AtSelect
    /\ feed' = feed \cup {"rpc"}
    /\ subsLock' = Nil
    /\ blockSubs' = blockSubs + 1
    /\ client' = [client EXCEPT ![c] = "on"]
    /\ UNCHANGED <<adding, disp, chan, svc, got, index, from, quit, main, restarts>>

\* unsubscribe, or the end of the connection.
ClientUnsubscribe(c) ==
    /\ client[c] = "on" /\ subsLock = Nil
    /\ blockSubs' = blockSubs - 1
    /\ \/ /\ blockSubs' = 0
          /\ subsLock' = c
          /\ client' = [client EXCEPT ![c] = "unsubscribe"]
       \/ /\ blockSubs' > 0
          /\ client' = [client EXCEPT ![c] = "off"]
          /\ UNCHANGED subsLock
    /\ UNCHANGED <<adding, disp, feed, chan, svc, got, index, from, quit, main, restarts>>

ClientUnsubscribed(c) ==
    /\ client[c] = "unsubscribe" /\ AtSelect
    /\ feed' = feed \ {"rpc"}
    /\ got' = [got EXCEPT !["rpc"] = 0]
    /\ subsLock' = Nil
    /\ client' = [client EXCEPT ![c] = "off"]
    /\ UNCHANGED <<adding, disp, chan, svc, index, from, quit, blockSubs, main, restarts>>

-----------------------------------------------------------------------------
(* The node *)

\* SIGHUP: the RPC server is shut down ...
RestartRpc ==
    /\ main = "run" /\ "rpc" \in Services /\ restarts < MaxRestarts
    /\ main' = "restart"
    /\ restarts' = restarts + 1
    /\ quit' = quit \cup {"rpc"}
    /\ UNCHANGED <<adding, disp, feed, chan, svc, got, index, from, rpcvars>>

\* ... and a new one, with channels and a lock of its own, takes its place.
\* What clients of the old one still unsubscribe is in no feed.
StartRpc ==
    /\ main = "restart" /\ svc["rpc"] = "gone"
    /\ main' = "run"
    /\ quit' = quit \ {"rpc"}
    /\ svc' = [svc EXCEPT !["rpc"] = "select"]
    /\ subsLock' = Nil /\ blockSubs' = 0 /\ client' = [c \in Clients |-> "off"]
    /\ UNCHANGED <<adding, disp, feed, chan, got, index, from, restarts>>

\* Server.Shutdown: the block queue is discarded.
Shutdown ==
    /\ Stops /\ main = "run" /\ \A s \in Services : svc[s] # "off"
    /\ main' = "stop"
    /\ UNCHANGED <<adding, disp, feed, chan, svc, got, index, from, quit, rpcvars, restarts>>

\* Shutdown of the state root service: its loop reads until it is unsubscribed.
ShutdownStateRoot ==
    /\ main = "stop" /\ "stateroot" \in Services \ quit /\ AtSelect
    /\ feed' = feed \ {"stateroot"}
    /\ quit' = quit \cup {"stateroot"}
    /\ svc' = [svc EXCEPT !["stateroot"] = "gone"]
    /\ UNCHANGED <<adding, disp, chan, got, index, from, rpcvars, main, restarts>>

\* Shutdown of the other services in their order: the consensus service is
\* waited for, then the relay is told, then the RPC server.
ShutdownService(s) ==
    /\ main = "stop" /\ s \in Services \ quit
    /\ s # "stateroot" /\ "stateroot" \in Services => "stateroot" \in quit
    /\ s # "consensus" /\ "consensus" \in Services => svc["consensus"] = "gone"
    /\ s = "rpc" /\ "relay" \in Services => "relay" \in quit
    /\ quit' = quit \cup {s}
    /\ UNCHANGED <<adding, disp, feed, chan, svc, got, index, from, rpcvars, main, restarts>>

\* Close, when the services and the RPC server have stopped, waits for addLock.
Close ==
    /\ main = "stop" /\ Services \subseteq quit
    /\ \A s \in Services \ {"relay"} : svc[s] = "gone"
    /\ addLock = Nil
    /\ main' = "closed"
    /\ UNCHANGED <<adding, disp, feed, chan, svc, got, index, from, quit, rpcvars, restarts>>

AddBlock(c) == AddRefused(c) \/ StoreBlock(c) \/ SendEvent(c)

ConsensusLoop ==
    \/ SubscribeConsensus \/ ConsensusMessage \/ ConsensusEvent \/ ConsensusIdle
    \/ ConsensusQuit

ClientWaits(c) == ClientSubscribed(c) \/ ClientUnsubscribed(c)

MainWaits ==
    \/ StartRpc \/ ShutdownStateRoot \/ \E s \in Service : ShutdownService(s)
    \/ Close

Next ==
    /\ main # "closed"
    /\ \/ QueueAdd \/ ConsensusAdd
       \/ \E c \in Adder : AddBlock(c)
       \/ \E s \in Service : NextChannel(s) \/ Deliver(s)
       \/ StartConsensus \/ ConsensusLoop
       \/ \E s \in Service : Start(s)
       \/ StateRootDone \/ RelayEvent \/ RelayQuit \/ RelayUnsubscribe
       \/ RpcBroadcast \/ RpcQuit \/ RpcUnsubscribe
       \/ \E c \in Clients : ClientSubscribe(c) \/ ClientUnsubscribe(c) \/ ClientWaits(c)
       \/ RestartRpc \/ Shutdown \/ MainWaits

\* Every goroutine that can go on does so, the services start, and a select
\* whose quit channel is closed ends.  Nobody need add a block, come or go.
Fairness ==
    /\ \A c \in Adder : WF_vars(AddBlock(c))
    /\ WF_vars(\E s \in Service : NextChannel(s) \/ Deliver(s))
    /\ WF_vars(StartConsensus) /\ WF_vars(ConsensusLoop) /\ SF_vars(ConsensusQuit)
    /\ \A s \in Service : WF_vars(Start(s))
    /\ WF_vars(StateRootDone)
    /\ WF_vars(RelayEvent \/ RelayUnsubscribe) /\ SF_vars(RelayQuit)
    /\ WF_vars(RpcBroadcast \/ RpcUnsubscribe) /\ SF_vars(RpcQuit)
    /\ \A c \in Clients : WF_vars(ClientWaits(c))
    /\ WF_vars(MainWaits)

Spec == Init /\ [][Next]_vars

FairSpec == Spec /\ Fairness

-----------------------------------------------------------------------------
(* Properties *)

\* The values of the variables; the lock and the mutexes are where their
\* holders are, and the dispatcher is at its select or has a block in hand.
TypeOK ==
    /\ height \in 0..MaxBlocks
    /\ add \in [Adder -> {"idle", "lock", "send"}] /\ next \in [Adder -> 0..MaxBlocks]
    /\ addLock \in Adder \cup {Nil}
    /\ disp \in [block : 0..MaxBlocks, todo : SUBSET Services, to : Services \cup {Nil}]
    /\ disp.block = 0 <=> disp.todo = {} /\ disp.to = Nil
    /\ feed \subseteq Services
    /\ chan \in [Service -> Seq(Block)] /\ \A s \in Service : Len(chan[s]) <= Capacity[s]
    /\ svc \in [Service -> {"off", "subscribe", "select", "event", "drain", "add",
                            "unsubscribe", "gone"}]
    /\ got \in [Service -> 0..MaxBlocks]
    /\ index \in 0..(MaxBlocks + 1) /\ from \in 0..MaxBlocks
    /\ quit \subseteq Services
    /\ subsLock \in Clients \cup {"rpc", Nil}
    /\ blockSubs \in 0..Cardinality(Clients)
    /\ client \in [Clients -> {"off", "subscribe", "on", "unsubscribe"}]
    /\ main \in {"run", "restart", "stop", "closed"}
    /\ restarts \in 0..MaxRestarts

\* The block a subscriber takes follows the one it took before.
NextBlock == \A s \in Service : got'[s] \notin {got[s], 0} /\ got[s] # 0 => got'[s] = got[s] + 1

\* A subscriber takes the blocks in their order and misses none between its
\* subscription and its end (SubscribeForBlocks: "when there is a new block
\* added to the chain you'll receive it via this channel").
BlocksInOrder == [][NextBlock]_vars

\* Block h is on its way to the consensus service.
InFlight(h) ==
    \/ \E i \in DOMAIN chan["consensus"] : chan["consensus"][i] = h
    \/ disp.block = h /\ "consensus" \in disp.todo \cup {disp.to}
    \/ \E c \in Adder : add[c] = "send" /\ next[c] = h

\* dBFT never stays at a height the chain has passed: when a block that came
\* after the subscription is stored at its height or above, the event that
\* moves it on is on its way, although handleChainBlock takes the height from
\* the chain and ignores the events it has thereby overtaken.
ConsensusFollows ==
    svc["consensus"] \in {"select", "drain", "add"} /\ index <= height /\ height > from =>
        \E h \in index..height : InFlight(h)

\* The channels of the RPC server are closed only when the dispatcher will not
\* send on them (UnsubscribeFromBlocks: "you can close it afterwards").
NoSendOnClosed ==
    svc["rpc"] = "gone" => "rpc" \notin feed \cup disp.todo \cup {disp.to}

\* When nobody holds the lock of the RPC server, it is subscribed to the chain
\* exactly when clients are subscribed to it, and counts them.
SubscribedForClients ==
    subsLock = Nil /\ "rpc" \notin quit =>
        /\ blockSubs = Cardinality({c \in Clients : client[c] = "on"})
        /\ "rpc" \in feed <=> blockSubs > 0

\* While the node runs, AddBlock returns: its event finds a reader
\* (SubscribeForBlocks: "Make sure it's read from regularly as not reading these
\* events might affect other Blockchain functions").
AddBlockReturns == \A c \in Adder : add[c] # "idle" ~> add[c] = "idle" \/ main \in {"stop", "closed"}

\* What the dispatcher has for a service reaches it while the node runs, however
\* many messages keep its loop busy ("Always process block event if there is any").
EveryoneHears ==
    \A s \in Services, b \in Block :
        disp.block = b /\ s \in disp.todo \cup {disp.to} ~>
            got[s] >= b \/ main \in {"stop", "closed"}

=============================================================================
