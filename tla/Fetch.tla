------------------------------- MODULE Fetch -------------------------------
(* Two parts of pkg/network that fetch what the node lacks, for one run of    *)
(* the model checker: blocks and peers.  A behaviour is a behaviour of one of *)
(* them: part names it, the state of the other stays.                         *)
EXTENDS BlockSync

CONSTANTS
    Addr, Seeds, Try, maxPoolSize, connRetries, AttemptConnPeers

VARIABLES
    part,
    addrs, pool, run, try, server, remote, close

Discover == INSTANCE Discovery

syncVars     == <<height, queue, lastQ, checkBlocks, runner, lastRequestedBlock, inbox, handler, asking, faults>>
discoverVars == <<addrs, pool, run, try, server, remote, close>>
fetchVars == <<part, syncVars, discoverVars>>

FetchInit == part \in {"sync", "discovery"} /\ Init /\ Discover!Init

FetchNext ==
    /\ UNCHANGED part
    /\ \/ part = "sync" /\ Next /\ UNCHANGED discoverVars
       \/ part = "discovery" /\ Discover!Next /\ UNCHANGED syncVars

----------------------------------------------------------------------------
(* The fairness of each part, for the behaviours that are its own *)

SyncFairness ==
    /\ WF_syncVars(part = "sync" /\ RunEnds) /\ WF_syncVars(part = "sync" /\ RunWakes)
    /\ WF_syncVars(part = "sync" /\ RunLooks) /\ WF_syncVars(part = "sync" /\ RunAdds)
    /\ \A p \in Peer : /\ WF_syncVars(part = "sync" /\ ReceiveBlock(p))
                       /\ WF_syncVars(part = "sync" /\ PutBlock(p))
                       /\ WF_syncVars(part = "sync" /\ Signal(p))
                       /\ WF_syncVars(part = "sync" /\ Tick(p))
                       /\ \A i \in Random : SF_syncVars(part = "sync" /\ RequestBlocks(p, i, FALSE))

DiscoveryFairness ==
    /\ WF_discoverVars(part = "discovery" /\ Discover!Run)
    /\ SF_discoverVars(part = "discovery" /\ Discover!TakeAddr)
    /\ SF_discoverVars(part = "discovery" /\ Discover!RunEnds)
    /\ WF_discoverVars(part = "discovery" /\ Discover!Request)
    /\ \A t \in Try : /\ WF_discoverVars(part = "discovery" /\ Discover!Dialler(t))
                      /\ SF_discoverVars(part = "discovery" /\ Discover!ReceiveTry(t))
    /\ WF_discoverVars(part = "discovery" /\ Discover!CloseLocked)
    /\ WF_discoverVars(part = "discovery" /\ Discover!CloseChannel)

FetchSpec == FetchInit /\ [][FetchNext]_fetchVars /\ SyncFairness /\ DiscoveryFairness

----------------------------------------------------------------------------
\* requestBlocks and bq.run: the node catches up with its peers.
Synced == part = "sync" => CatchesUp

\* tryAddress, run, RequestRemote and Close of discovery.go: an address is not
\* dialled by two goroutines at once, a node without a peer keeps dialling until
\* Close, which returns, and nobody sends on the closed channel.
DiscoveryRuns ==
    /\ [](Discover!TypeOK /\ Discover!OneDial /\ Discover!NoSendOnClosed)
    /\ Discover!KeepsTrying /\ Discover!CloseReturns
============================================================================
