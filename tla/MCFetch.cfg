SPECIFICATION FetchSpec
 
PROPERTIES  DiscoveryRuns
CONSTANTS
 Peer = {p1}
 PeerHeight = 5
 blockCacheSize = 4
 MaxHashesCount = 2
 Fault = {"lost", "own"}
 MaxFaults = 1
 Stops = TRUE
 MaxInFlight = 2
 Addr = {a}
 Seeds = {a}
 Try = {t1, t2}
 maxPoolSize = 2
 connRetries = 2
 AttemptConnPeers = 2
CHECK_DEADLOCK FALSE
