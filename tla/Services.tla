------------------------------ MODULE Services ------------------------------
(* Parts of the node that have to make progress, for one run of the model     *)
(* checker: the write cache and its persist, the subscribers of the chain's   *)
(* events and a websocket client with its server.  They do not share state    *)
(* that matters to their properties, so a behaviour is a behaviour of one of  *)
(* them: part names it, the state of the others stays.                        *)
EXTENDS CachedStore, Sequences

VARIABLES
    part,
    height, add, next, addLock, disp, feed, chan, svc, got, index, from, quit,
    subsLock, blockSubs, client, main, restarts,
    toServer, toClient, sClosed, cClosed, sReader, sWriter, subscribed, feeds,
    subChan, overflown, missing, events, shutdown, cReader, cWriter, done,
    closing, respChannels, call, lastId, subscriptions, lock, closer, notified,
    panicked

\* No RPC server, and only the block queue adds blocks.
Subscribers == INSTANCE Events WITH Services <- {"stateroot", "consensus", "relay"},
                   Clients <- {}, Adds <- FALSE, Stops <- TRUE, MaxBlocks <- 2, MaxRestarts <- 0

\* One goroutine that uses the client, for two calls or for one and an event;
\* the server may be shut down.  The bounds are in no action that is fair.
Socket == INSTANCE WebSocket WITH Caller <- {"p"}, Kind <- {"b"}, maxFeeds <- 1,
              notificationBufSize <- 1, Wire <- 1, MaxCalls <- 2, MaxEvents <- 0, MayStop <- TRUE
Stream == INSTANCE WebSocket WITH Caller <- {"p"}, Kind <- {"b"}, maxFeeds <- 1,
              notificationBufSize <- 1, Wire <- 1, MaxCalls <- 1, MaxEvents <- 1, MayStop <- TRUE

storeVars == <<mem, temp, persist, sync, disk, seek, crashes, tick>>
subscribersVars == <<height, add, next, addLock, disp, feed, chan, svc, got, index, from, quit,
                     subsLock, blockSubs, client, main, restarts>>
socketVars == <<toServer, toClient, sClosed, cClosed, sReader, sWriter, subscribed, feeds,
                subChan, overflown, missing, events, shutdown, cReader, cWriter, done, closing,
                respChannels, call, lastId, subscriptions, lock, closer, notified, panicked>>
allVars == <<part, storeVars, subscribersVars, socketVars>>

ServicesInit ==
    /\ part \in {"store", "subscribers", "calls", "stream"}
    /\ Init /\ Subscribers!Init /\ Socket!Init

ServicesNext ==
    /\ UNCHANGED part
    /\ \/ part = "store" /\ Next /\ UNCHANGED <<subscribersVars, socketVars>>
       \/ part = "subscribers" /\ Subscribers!Next /\ UNCHANGED <<storeVars, socketVars>>
       \/ part = "calls" /\ Socket!Next /\ UNCHANGED <<storeVars, subscribersVars>>
       \/ part = "stream" /\ Stream!Next /\ UNCHANGED <<storeVars, subscribersVars>>

-----------------------------------------------------------------------------
(* The fairness of each part, for the behaviours that are its own *)

StoreFairness ==
    /\ WF_storeVars(part = "store" /\ \E isSync \in BOOLEAN : PersistBegin(isSync))
    /\ WF_storeVars(part = "store" /\ (PersistWrite \/ PersistFail))
    /\ SF_storeVars(part = "store" /\ PersistWrite)
    /\ WF_storeVars(part = "store" /\ PersistEnd) /\ WF_storeVars(part = "store" /\ PersistUndo)

SubscribersFairness ==
    /\ WF_subscribersVars(part = "subscribers" /\ Subscribers!AddBlock("queue"))
    /\ WF_subscribersVars(part = "subscribers" /\ \E s \in Subscribers!Service :
                              Subscribers!NextChannel(s) \/ Subscribers!Deliver(s))
    /\ WF_subscribersVars(part = "subscribers" /\ Subscribers!StartConsensus)
    /\ WF_subscribersVars(part = "subscribers" /\ Subscribers!ConsensusLoop)
    /\ SF_subscribersVars(part = "subscribers" /\ Subscribers!ConsensusQuit)
    /\ \A s \in Subscribers!Service : WF_subscribersVars(part = "subscribers" /\ Subscribers!Start(s))
    /\ WF_subscribersVars(part = "subscribers" /\ Subscribers!StateRootDone)
    /\ WF_subscribersVars(part = "subscribers" /\ (Subscribers!RelayEvent \/ Subscribers!RelayUnsubscribe))
    /\ SF_subscribersVars(part = "subscribers" /\ Subscribers!RelayQuit)
    /\ WF_subscribersVars(part = "subscribers" /\ Subscribers!MainWaits)

Live == part \in {"calls", "stream"} /\ ~panicked

SocketFairness ==
    /\ WF_socketVars(Live /\ Socket!handleRequest)
    /\ WF_socketVars(Live /\ sReader.at # "answer" /\ sClosed /\ Socket!endReads)
    /\ WF_socketVars(Live /\ (Socket!takeAnswer \/ Socket!takeEvent \/ Socket!writeMessage))
    /\ WF_socketVars(Live /\ (sClosed \/ cClosed \/ shutdown) /\ Socket!endWrites)
    /\ WF_socketVars(Live /\ Socket!reader)
    /\ WF_socketVars(Live /\ (Socket!takeRequest \/ Socket!writeRequest))
    /\ WF_socketVars(Live /\ (closing \/ done \/ cClosed \/ sClosed) /\ Socket!endWriter)
    /\ WF_socketVars(Live /\ closer = "waits" /\ Socket!Close)
    /\ WF_socketVars(Live /\ Socket!caller("p"))

ServicesSpec ==
    /\ ServicesInit /\ [][ServicesNext]_allVars
    /\ StoreFairness /\ SubscribersFairness /\ SocketFairness

-----------------------------------------------------------------------------
\* eventLoop: a block reaches every subscriber however busy its loop is, and
\* AddBlock returns while the node runs.
EveryoneHears == Subscribers!EveryoneHears /\ Subscribers!AddBlockReturns

\* WSClient.makeWsRequest and Close: a call comes back whoever closes the
\* connection, and so does Close at whatever wsReader and wsWriter are.
CallsReturn == Socket!CallsReturn /\ Socket!CloseReturns
=============================================================================
