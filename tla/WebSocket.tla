----------------------------- MODULE WebSocket -----------------------------
(***************************************************************************)
(* One websocket connection: the RPC server's goroutines that serve it,    *)
(* and at the other end WSClient, whose calls share the connection with    *)
(* the notifications of their subscriptions.                               *)
(*                                                                         *)
(* Server: handleWsReads handles requests one by one and hands the answers *)
(* to handleWsWrites, which also sends what handleSubEvents has put into   *)
(* the subscriber's buffer.  Client: wsReader passes answers to the calls  *)
(* that wait for them and events to the user; wsWriter takes the requests  *)
(* of the calls.  The network keeps order and holds a few messages each    *)
(* way; writing to a full or closed connection fails, the former by its    *)
(* deadline.  An end's pongs come from its reader.  The user reads         *)
(* Notifications until it is closed, as its comment asks.                  *)
(***************************************************************************)
EXTENDS Integers, FiniteSets, Sequences, SequencesExt, FiniteSetsExt

CONSTANTS Caller,                \* goroutines that use the client
          Kind,                  \* event streams
          maxFeeds, notificationBufSize,
          Wire,                  \* messages the network holds each way
          MaxCalls, MaxEvents,   \* bounds
          MayStop                \* whether the server is shut down

VARIABLES
  toServer, toClient,            \* the network
  sClosed, cClosed,              \* ws.Close was called, by end
  \* server
  sReader, sWriter,
  subscribed,                    \* the subscriber is one of s.subscribers
  feeds, subChan,
  overflown, missing,            \* missing: the goroutine that sends overflowMsg
  events,                        \* events so far, numbered
  shutdown,
  \* client
  cReader, cWriter,
  done, closing,                 \* done and shutdown are closed
  respChannels,                  \* ids, or gone after wsReader's end
  call,                          \* what a caller is at
  lastId,
  subscriptions, lock,           \* lock: the holder of subscriptionsLock
  closer,                        \* the call of Close
  notified,                      \* what the user has read
  panicked

net    == <<toServer, toClient, sClosed, cClosed>>
server == <<sReader, sWriter, subscribed, feeds, subChan, overflown, missing, events, shutdown>>
client == <<cReader, cWriter, done, closing, respChannels, call, lastId, subscriptions, lock,
            closer, notified, panicked>>
vars   == <<net, server, client>>

Slot == 0 .. maxFeeds - 1
Nothing == "none"
gone == {-1}                     \* the nil map
Missed == [type |-> "missed"]

Init ==
  /\ toServer = <<>> /\ toClient = <<>> /\ sClosed = FALSE /\ cClosed = FALSE
  /\ sReader = [at |-> "read"] /\ sWriter = [at |-> "select"]
  /\ subscribed = TRUE /\ feeds = [i \in Slot |-> Nothing] /\ subChan = <<>>
  /\ overflown = FALSE /\ missing = "no" /\ events = 0 /\ shutdown = FALSE
  /\ cReader = [at |-> "read"] /\ cWriter = [at |-> "select"] /\ done = FALSE /\ closing = FALSE
  /\ respChannels = {} /\ call = [p \in Caller |-> [at |-> "idle"]] /\ lastId = 0
  /\ subscriptions = {} /\ lock = Nothing /\ closer = "no" /\ notified = <<>>
  /\ panicked = FALSE

----------------------------------------------------------------------------
\* handleSubEvents

Matches(kind) == \E i \in Slot : feeds[i] = kind

\* an event of the chain: to the buffer if the client wants it, once; a full
\* buffer starts the goroutine that reports the loss when there is room again
handleSubEvents(kind) ==
  /\ ~shutdown /\ events < MaxEvents
  /\ events' = events + 1
  /\ IF ~subscribed \/ overflown \/ ~Matches(kind) THEN UNCHANGED <<subChan, overflown, missing>>
     ELSE IF Len(subChan) < notificationBufSize
     THEN subChan' = Append(subChan, [type |-> "event", n |-> events']) /\ UNCHANGED <<overflown, missing>>
     ELSE overflown' = TRUE /\ missing' = "send" /\ UNCHANGED subChan
  /\ UNCHANGED <<net, sReader, sWriter, subscribed, feeds, shutdown, client>>

reportMissed_bug ==
  /\ \/ /\ missing = "send" /\ missing' = "clear" /\ overflown' = FALSE
        /\ UNCHANGED subChan
     \/ /\ missing = "clear" /\ Len(subChan) < notificationBufSize /\ missing' = "no"
        /\ subChan' = Append(subChan, Missed) /\ UNCHANGED overflown
  /\ UNCHANGED <<net, sReader, sWriter, subscribed, feeds, events, shutdown, client>>

reportMissed ==
  /\ \/ /\ missing = "send" /\ Len(subChan) < notificationBufSize
        /\ subChan' = Append(subChan, Missed) /\ missing' = "clear"
        /\ UNCHANGED overflown
     \/ /\ missing = "clear" /\ missing' = "no" /\ overflown' = FALSE
        /\ UNCHANGED subChan
  /\ UNCHANGED <<net, sReader, sWriter, subscribed, feeds, events, shutdown, client>>

----------------------------------------------------------------------------
\* handleWsReads

Free == {i \in Slot : feeds[i] = Nothing}

subscribe(kind) ==
  IF shutdown \/ Free = {} THEN [ok |-> FALSE, feeds |-> feeds]
  ELSE [ok |-> TRUE, slot |-> Min(Free), feeds |-> [feeds EXCEPT ![Min(Free)] = kind]]

unsubscribe(slot) ==
  IF feeds[slot] = Nothing THEN [ok |-> FALSE, feeds |-> feeds]
  ELSE [ok |-> TRUE, slot |-> slot, feeds |-> [feeds EXCEPT ![slot] = Nothing]]

\* the next request, with its answer to be handed over
handleRequest ==
  /\ sReader.at = "read" /\ ~sClosed /\ toServer # <<>>
  /\ LET req == Head(toServer)
         res == IF req.method = "subscribe" THEN subscribe(req.arg) ELSE unsubscribe(req.arg)
         ans == [type |-> "answer", id |-> req.id, ok |-> res.ok, slot |-> IF res.ok THEN res.slot ELSE -1]
     IN  /\ feeds' = res.feeds
         /\ sReader' = [at |-> "answer", answer |-> ans]
  /\ toServer' = Tail(toServer)
  /\ UNCHANGED <<toClient, sClosed, cClosed, sWriter, subscribed, subChan, overflown, missing, events,
                 shutdown, client>>

\* the read fails, or the server is shut down while an answer waits
endReads ==
  /\ \/ sReader.at = "read" /\ (sClosed \/ (cClosed /\ toServer = <<>>) \/ cReader.at # "read")
     \/ sReader.at = "answer" /\ shutdown
  /\ sReader' = [at |-> "end"] /\ subscribed' = FALSE
  /\ feeds' = [i \in Slot |-> Nothing]
  /\ sClosed' = TRUE
  /\ UNCHANGED <<toServer, toClient, cClosed, sWriter, subChan, overflown, missing, events, shutdown, client>>

----------------------------------------------------------------------------
\* handleWsWrites

takeAnswer ==
  /\ sWriter.at = "select" /\ sReader.at = "answer"
  /\ sWriter' = [at |-> "write", msg |-> sReader.answer] /\ sReader' = [at |-> "read"]
  /\ UNCHANGED <<net, subscribed, feeds, subChan, overflown, missing, events, shutdown, client>>

takeEvent ==
  /\ sWriter.at = "select" /\ subChan # <<>>
  /\ sWriter' = [at |-> "write", msg |-> Head(subChan)] /\ subChan' = Tail(subChan)
  /\ UNCHANGED <<net, sReader, subscribed, feeds, overflown, missing, events, shutdown, client>>

writeMessage ==
  /\ sWriter.at = "write" /\ ~sClosed /\ ~cClosed /\ Len(toClient) < Wire
  /\ toClient' = Append(toClient, sWriter.msg) /\ sWriter' = [at |-> "select"]
  /\ UNCHANGED <<toServer, sClosed, cClosed, sReader, subscribed, feeds, subChan, overflown, missing, events,
                 shutdown, client>>

\* shutdown, a closed resChan, a write or a ping that fails; then the drain
endWrites ==
  /\ \/ sWriter.at = "select" /\ (shutdown \/ sReader.at = "end")
     \/ sWriter.at \in {"select", "write"} /\ (sClosed \/ cClosed \/ Len(toClient) = Wire)
  /\ sWriter' = [at |-> "end"] /\ sClosed' = TRUE /\ subChan' = <<>>
  /\ UNCHANGED <<toServer, toClient, cClosed, sReader, subscribed, feeds, overflown, missing, events, shutdown,
                 client>>

Shutdown ==
  /\ MayStop /\ ~shutdown
  /\ shutdown' = TRUE
  /\ UNCHANGED <<net, sReader, sWriter, subscribed, feeds, subChan, overflown, missing, events, client>>

----------------------------------------------------------------------------
\* calls of the client

\* performSubscription, or performUnsubscription with the lock: makeWsRequest
\* registers the channel of its answer, in a map that may be gone
makeWsRequest(p, method, arg) ==
  /\ call[p].at = "idle" /\ lastId < MaxCalls
  /\ method = "unsubscribe" => lock = Nothing /\ arg \in subscriptions
  /\ lock' = IF method = "unsubscribe" THEN p ELSE lock
  /\ lastId' = lastId + 1
  /\ IF respChannels = gone THEN panicked' = TRUE /\ UNCHANGED <<respChannels, call>>
     ELSE /\ respChannels' = respChannels \union {lastId'}
          /\ call' = [call EXCEPT ![p] = [at |-> "send", id |-> lastId', method |-> method, arg |-> arg]]
          /\ UNCHANGED panicked
  /\ UNCHANGED <<net, server, cReader, cWriter, done, closing, subscriptions, closer, notified>>

\* SubscribeForNewBlocks and the like, and Unsubscribe
Subscribe(p, kind)   == makeWsRequest(p, "subscribe", kind)
Unsubscribe(p, slot) == makeWsRequest(p, "unsubscribe", slot)

Unlocked(p) == IF lock = p THEN Nothing ELSE lock

connectionLost_bug(p) ==
  /\ call[p].at = "send" /\ done
  /\ call' = [call EXCEPT ![p] = [at |-> "idle"]] /\ lock' = Unlocked(p)
  /\ UNCHANGED <<net, server, cReader, cWriter, done, closing, respChannels, lastId, subscriptions, closer,
                 notified, panicked>>

\* the connection is lost before the request is taken or while it waits
connectionLost(p) ==
  /\ call[p].at \in {"send", "wait"} /\ done
  /\ call' = [call EXCEPT ![p] = [at |-> "idle"]] /\ lock' = Unlocked(p)
  /\ UNCHANGED <<net, server, cReader, cWriter, done, closing, respChannels, lastId, subscriptions, closer,
                 notified, panicked>>

unregisterRespChannel(id) == IF respChannels = gone THEN gone ELSE respChannels \ {id}

\* with the answer: the subscription is recorded or deleted, under the lock,
\* which an unsubscription has held since it looked the subscription up
answered(p) ==
  /\ call[p].at = "answered"
  /\ call[p].method = "subscribe" /\ call[p].answer.ok => lock = Nothing
  /\ respChannels' = unregisterRespChannel(call[p].id)
  /\ subscriptions' = IF ~call[p].answer.ok THEN subscriptions
                      ELSE IF call[p].method = "subscribe" THEN subscriptions \union {call[p].answer.slot}
                      ELSE subscriptions \ {call[p].arg}
  /\ call' = [call EXCEPT ![p] = [at |-> "idle"]] /\ lock' = Unlocked(p)
  /\ UNCHANGED <<net, server, cReader, cWriter, done, closing, lastId, closer, notified, panicked>>

Close ==
  \/ /\ closer = "no" /\ closer' = "waits" /\ closing' = TRUE
     /\ UNCHANGED <<net, server, cReader, cWriter, done, respChannels, call, lastId, subscriptions, lock,
                    notified, panicked>>
  \/ /\ closer = "waits" /\ done /\ closer' = "returned"
     /\ UNCHANGED <<net, server, cReader, cWriter, done, closing, respChannels, call, lastId, subscriptions,
                    lock, notified, panicked>>

----------------------------------------------------------------------------
\* wsReader

ReadFails ==
  \/ cClosed
  \/ sClosed /\ toClient = <<>>
  \/ toClient = <<>> /\ sReader.at # "read"

wsRead ==
  /\ cReader.at = "read" /\ ~cClosed /\ toClient # <<>>
  /\ LET msg == Head(toClient) IN
     IF msg.type # "answer" THEN cReader' = [at |-> "notify", msg |-> msg] /\ UNCHANGED done
     ELSE IF msg.id \in respChannels THEN cReader' = [at |-> "respond", msg |-> msg] /\ UNCHANGED done
     ELSE cReader' = [at |-> "cleanup"] /\ done' = TRUE
  /\ toClient' = Tail(toClient)
  /\ UNCHANGED <<toServer, sClosed, cClosed, server, cWriter, closing, respChannels, call, lastId,
                 subscriptions, lock, closer, notified, panicked>>

notify ==
  /\ cReader.at = "notify"
  /\ notified' = Append(notified, cReader.msg) /\ cReader' = [at |-> "read"]
  /\ UNCHANGED <<net, server, cWriter, done, closing, respChannels, call, lastId, subscriptions, lock, closer,
                 panicked>>

respond ==
  /\ cReader.at = "respond"
  /\ \E p \in Caller :
       /\ call[p].at = "wait" /\ call[p].id = cReader.msg.id
       /\ call' = [call EXCEPT ![p] = [at |-> "answered", id |-> @.id, method |-> @.method, arg |-> @.arg,
                                       answer |-> cReader.msg]]
  /\ cReader' = [at |-> "read"]
  /\ UNCHANGED <<net, server, cWriter, done, closing, respChannels, lastId, subscriptions, lock, closer,
                 notified, panicked>>

\* the loop is left, then the channels are closed
endReader ==
  /\ \/ cReader.at = "read" /\ ReadFails /\ cReader' = [at |-> "cleanup"] /\ done' = TRUE
        /\ UNCHANGED respChannels
     \/ cReader.at = "cleanup" /\ cReader' = [at |-> "end"] /\ respChannels' = gone
        /\ UNCHANGED done
  /\ UNCHANGED <<net, server, cWriter, closing, call, lastId, subscriptions, lock, closer, notified, panicked>>

----------------------------------------------------------------------------
\* wsWriter

takeRequest ==
  /\ cWriter.at = "select"
  /\ \E p \in Caller :
       /\ call[p].at = "send"
       /\ call' = [call EXCEPT ![p].at = "wait"]
       /\ cWriter' = [at |-> "write", req |-> [id |-> call[p].id, method |-> call[p].method, arg |-> call[p].arg]]
  /\ UNCHANGED <<net, server, cReader, done, closing, respChannels, lastId, subscriptions, lock, closer,
                 notified, panicked>>

writeRequest ==
  /\ cWriter.at = "write" /\ ~cClosed /\ ~sClosed /\ Len(toServer) < Wire
  /\ toServer' = Append(toServer, cWriter.req) /\ cWriter' = [at |-> "select"]
  /\ UNCHANGED <<toClient, sClosed, cClosed, server, cReader, done, closing, respChannels, call, lastId,
                 subscriptions, lock, closer, notified, panicked>>

endWriter ==
  /\ \/ cWriter.at = "select" /\ (closing \/ done)
     \/ cWriter.at \in {"select", "write"} /\ (cClosed \/ sClosed \/ Len(toServer) = Wire)
  /\ cWriter' = [at |-> "end"] /\ cClosed' = TRUE
  /\ UNCHANGED <<toServer, toClient, sClosed, server, cReader, done, closing, respChannels, call, lastId,
                 subscriptions, lock, closer, notified, panicked>>

----------------------------------------------------------------------------
serverReads  == handleRequest \/ endReads
serverWrites == takeAnswer \/ takeEvent \/ writeMessage \/ endWrites
reader == wsRead \/ notify \/ respond \/ endReader
writer == takeRequest \/ writeRequest \/ endWriter
caller(p) == connectionLost(p) \/ answered(p)

Next ==
  /\ ~panicked
  /\ \/ \E kind \in Kind : handleSubEvents(kind)
     \/ reportMissed \/ serverReads \/ serverWrites \/ Shutdown
     \/ \E p \in Caller, kind \in Kind : Subscribe(p, kind)
     \/ \E p \in Caller, slot \in Slot : Unsubscribe(p, slot)
     \/ \E p \in Caller : caller(p)
     \/ Close \/ reader \/ writer

\* goroutines that can go on do; the deadlines of writes need not pass
Fairness ==
  /\ WF_vars(~panicked /\ handleRequest) /\ WF_vars(~panicked /\ sReader.at # "answer" /\ sClosed /\ endReads)
  /\ WF_vars(~panicked /\ (takeAnswer \/ takeEvent \/ writeMessage))
  /\ WF_vars(~panicked /\ (sClosed \/ cClosed \/ shutdown) /\ endWrites)
  /\ WF_vars(~panicked /\ reader)
  /\ WF_vars(~panicked /\ (takeRequest \/ writeRequest))
  /\ WF_vars(~panicked /\ (closing \/ done \/ cClosed \/ sClosed) /\ endWriter)
  /\ WF_vars(~panicked /\ closer = "waits" /\ Close)
  /\ \A p \in Caller : WF_vars(~panicked /\ caller(p))

Spec == Init /\ [][Next]_vars
FairSpec == Spec /\ Fairness

----------------------------------------------------------------------------
\* The user never takes a broken stream of events for a whole one: between two
\* events that were not adjacent for this subscription there is a missed_event,
\* although it is sent by a goroutine of its own while events keep coming.
\* (The subscription is the only one and not changed in between.)
GapsAreMarked ==
  \A i \in 1 .. Len(notified) - 1 :
    notified[i].type = "event" /\ notified[i + 1].type = "event" /\ lastId = 1
      => notified[i + 1].n = notified[i].n + 1

\* Between calls the client and the server agree on which subscriptions there
\* are, although slots are reused while the answers to the calls that freed and
\* took them are still under way to different goroutines.
SubscriptionsAgree ==
  ~done /\ sReader.at # "end" /\ (\A p \in Caller : call[p].at = "idle")
    => subscriptions = {i \in Slot : feeds[i] # Nothing}

\* A server that works is never taken for a broken one: wsReader knows every
\* answer that it receives until its end.
AnswersAreExpected ==
  \A i \in DOMAIN toClient :
    toClient[i].type = "answer" /\ ~done => toClient[i].id \in respChannels

\* A call comes back, with an answer or an error, whoever closes the connection
\* at whatever point, as long as the user reads the notifications.
CallsReturn == \A p \in Caller : call[p].at # "idle" ~> call[p].at = "idle" \/ panicked

\* Close comes back, also when wsReader is handing over an answer or an event.
CloseReturns == closer = "waits" ~> closer = "returned" \/ panicked
=============================================================================
