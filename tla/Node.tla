------------------------------- MODULE Node --------------------------------
(* The parts of a running node that serve its peers and its users: the events *)
(* of the chain, the pool of extensible payloads, connections, the signing of *)
(* state roots and websocket clients; and the committee that it works with    *)
(* and listens to, the module this one extends.  They do not share state that *)
(* matters to their properties, so a behaviour is a behaviour of one of them: *)
(* part names it, the others stay.                                            *)
EXTENDS Validators, TLC

CONSTANTS
    StateValidators, Nil

VARIABLES
    part,
    chainHeight, add, toSend, addLock, disp, feed, chan, svc, got, index, from, quit,
    subsLock, blockSubs, client, main, restarts,
    verified, senders, chain, extCall, count,
    conn, peers, connected, run, serverMain,
    rootHeight, local, pending, keys, acc, incomplete, timers, witness,
    validatedHeight, seen, sent, rootRestarts,
    toServer, toClient, sClosed, cClosed, sReader, sWriter, subscribed, feeds,
    subChan, overflown, missing, events, shutdown, cReader, cWriter, done,
    closing, respChannels, call, lastId, subscriptions, lock, closer, notified,
    panicked

----------------------------------------------------------------------------
(* The instances *)

\* Consensus and RPC server, two clients, a restart of the server and a shutdown.
Subscribers == INSTANCE Events WITH Services <- {"consensus", "rpc"}, Clients <- {"c1", "c2"},
                   Adds <- TRUE, Stops <- TRUE, MaxBlocks <- 2, MaxRestarts <- 1,
                   height <- chainHeight, next <- toSend

\* The services that listen alone, long enough for their buffers to be full
\* between two blocks they take.
Listeners == INSTANCE Events WITH Services <- {"consensus", "relay"}, Clients <- {},
                 Adds <- TRUE, Stops <- TRUE, MaxBlocks <- 3, MaxRestarts <- 0,
                 height <- chainHeight, next <- toSend

\* One payload of a second sender; the first sender has one more than it may.
Payloads == INSTANCE ExtPool WITH Payload <- 1 .. 3, Sender <- {"s", "r"},
                from <- <<"s", "s", "r">>, validUntil <- <<1, 2, 2>>, singleCap <- 1,
                Caller <- {"p", "q"}, MaxHeight <- 2, MaxAdds <- 2, call <- extCall

\* More connections than peers.
Server == INSTANCE Peers WITH Conn <- {"c1", "c2"},
              Message <- {"version", "foreign", "verack", "good"},
              QueueSize <- 1, MaxPeers <- 1, MaxBroadcasts <- 0, main <- serverMain

\* Block 2 designates other validators than genesis; quorums of 2 and of 3.
RootValidators == 0 :> <<"a", "b">> @@ 2 :> <<"b", "e", "a", "c">>

Roots == INSTANCE StateRoot WITH Designated <- StateValidators, Me <- "a", MaxHeight <- 2,
             MaxRestarts <- 1, voteValidEndInc <- 1, height <- rootHeight,
             restarts <- rootRestarts

\* A client that reads a stream of events, and two goroutines that subscribe
\* and unsubscribe at a client.
Stream == INSTANCE WebSocket WITH Caller <- {"p"}, Kind <- {"b"}, maxFeeds <- 1,
              notificationBufSize <- 1, Wire <- 1, MaxCalls <- 1, MaxEvents <- 3, MayStop <- TRUE
Requests == INSTANCE WebSocket WITH Caller <- {"p", "q"}, Kind <- {"b"}, maxFeeds <- 2,
                notificationBufSize <- 1, Wire <- 1, MaxCalls <- 3, MaxEvents <- 0, MayStop <- FALSE

----------------------------------------------------------------------------
subscribersVars == <<chainHeight, add, toSend, addLock, disp, feed, chan, svc, got, index, from, quit,
                     subsLock, blockSubs, client, main, restarts>>
payloadsVars == <<verified, senders, chain, extCall, count>>
serverVars == <<conn, peers, connected, run, serverMain>>
rootsVars == <<rootHeight, local, pending, keys, acc, incomplete, timers, witness,
               validatedHeight, seen, sent, rootRestarts>>
socketVars == <<toServer, toClient, sClosed, cClosed, sReader, sWriter, subscribed, feeds,
                subChan, overflown, missing, events, shutdown, cReader, cWriter, done, closing,
                respChannels, call, lastId, subscriptions, lock, closer, notified, panicked>>
nodeVars == <<part, vars, subscribersVars, payloadsVars, serverVars, rootsVars, socketVars>>

\* The state of a part that does not run.
NoSubscribers ==
    /\ chainHeight = Nil /\ add = Nil /\ toSend = Nil /\ addLock = Nil /\ disp = Nil /\ feed = Nil
    /\ chan = Nil /\ svc = Nil /\ got = Nil /\ index = Nil /\ from = Nil /\ quit = Nil
    /\ subsLock = Nil /\ blockSubs = Nil /\ client = Nil /\ main = Nil /\ restarts = Nil
NoPayloads ==
    /\ verified = Nil /\ senders = Nil /\ chain = Nil /\ extCall = Nil /\ count = Nil
NoServer ==
    /\ conn = Nil /\ peers = Nil /\ connected = Nil /\ run = Nil /\ serverMain = Nil
NoRoots ==
    /\ rootHeight = Nil /\ local = Nil /\ pending = Nil /\ keys = Nil /\ acc = Nil
    /\ incomplete = Nil /\ timers = Nil /\ witness = Nil /\ validatedHeight = Nil /\ seen = Nil
    /\ sent = Nil /\ rootRestarts = Nil
NoSocket ==
    /\ toServer = Nil /\ toClient = Nil /\ sClosed = Nil /\ cClosed = Nil /\ sReader = Nil
    /\ sWriter = Nil /\ subscribed = Nil /\ feeds = Nil /\ subChan = Nil /\ overflown = Nil
    /\ missing = Nil /\ events = Nil /\ shutdown = Nil /\ cReader = Nil /\ cWriter = Nil
    /\ done = Nil /\ closing = Nil /\ respChannels = Nil /\ call = Nil /\ lastId = Nil
    /\ subscriptions = Nil /\ lock = Nil /\ closer = Nil /\ notified = Nil /\ panicked = Nil

NodeInit ==
    /\ part \in {"committee", "subscribers", "listeners", "payloads", "server", "roots", "stream", "requests"}
    /\ Init
    /\ CASE part = "subscribers" -> Subscribers!Init
         [] part = "listeners" -> Listeners!Init
         [] OTHER -> NoSubscribers
    /\ IF part = "payloads" THEN Payloads!Init ELSE NoPayloads
    /\ IF part = "server" THEN Server!Init ELSE NoServer
    /\ IF part = "roots" THEN Roots!Init ELSE NoRoots
    /\ CASE part = "stream" -> Stream!Init
         [] part = "requests" -> Requests!Init
         [] OTHER -> NoSocket

NodeNext ==
    /\ UNCHANGED part
    /\ \/ /\ part = "committee" /\ Next
          /\ UNCHANGED <<subscribersVars, payloadsVars, serverVars, rootsVars, socketVars>>
       \/ /\ part = "subscribers" /\ Subscribers!Next
          /\ UNCHANGED <<vars, payloadsVars, serverVars, rootsVars, socketVars>>
       \/ /\ part = "listeners" /\ Listeners!Next
          /\ UNCHANGED <<vars, payloadsVars, serverVars, rootsVars, socketVars>>
       \/ /\ part = "payloads" /\ Payloads!Next
          /\ UNCHANGED <<vars, subscribersVars, serverVars, rootsVars, socketVars>>
       \/ /\ part = "server" /\ Server!Next
          /\ UNCHANGED <<vars, subscribersVars, payloadsVars, rootsVars, socketVars>>
       \/ /\ part = "roots" /\ Roots!Next
          /\ UNCHANGED <<vars, subscribersVars, payloadsVars, serverVars, socketVars>>
       \/ /\ part = "stream" /\ Stream!Next
          /\ UNCHANGED <<vars, subscribersVars, payloadsVars, serverVars, rootsVars>>
       \/ /\ part = "requests" /\ Requests!Next
          /\ UNCHANGED <<vars, subscribersVars, payloadsVars, serverVars, rootsVars>>

NodeSpec == NodeInit /\ [][NodeNext]_nodeVars

----------------------------------------------------------------------------
\* handleChainBlock, subscribe and unsubscribe: consensus never stays at a height
\* the chain has passed, the RPC server is subscribed just as long as it has
\* clients, and no block is sent on a channel that was closed; locks have one
\* holder, and no channel outgrows its buffer.
SubscribersFollow ==
    /\ part = "subscribers" => /\ Subscribers!TypeOK /\ Subscribers!NoSendOnClosed
                              /\ Subscribers!ConsensusFollows
                              /\ Subscribers!SubscribedForClients
    /\ part = "listeners" => /\ Listeners!TypeOK /\ Listeners!NoSendOnClosed
                            /\ Listeners!ConsensusFollows

\* notificationDispatcher: a subscriber gets all blocks in their order.
BlocksInOrder == [][part = "listeners" => Listeners!NextBlock]_subscribersVars

\* handleExtensibleCmd and extpool.Pool: a payload is handled once for each time
\* it is pooled, and the map of hashes and the lists hold the same payloads.
HandledOnce ==
    part = "payloads" => Payloads!TypeOK /\ Payloads!IndexAgrees /\ Payloads!HandledOnce

\* HandleVersion and HandleVersionAck: a handshake is complete only with a
\* version that was checked, with two connections to one address at a time.
HandshakeIsChecked == part = "server" => Server!TypeOK /\ Server!HandshakeIsChecked

\* AddStateRoot and trySendRoot: a validated root is signed by the validators of
\* its height (of which there are two lists at most), a root that is sent has a
\* quorum of signatures, and a node sends the root of a height at most once.
RootsAreSigned ==
    part = "roots" => Roots!ValidatedIsSigned /\ Roots!SentHasQuorum /\ Roots!SentOnce

\* handleSubEvents, performSubscription, performUnsubscription and wsReader: a
\* client never takes a stream with a gap for a whole one, between calls it
\* agrees with the server on the subscriptions, and it knows every answer that
\* it receives.
ClientsAreTold ==
    /\ part = "stream" => Stream!GapsAreMarked
    /\ part = "requests" => Requests!SubscriptionsAgree /\ Requests!AnswersAreExpected
=============================================================================
