SPECIFICATION Spec
PROPERTIES SessionsEnd  
CONSTANTS
 Conn = {c1}
 Message = {"version", "self", "foreign", "verack", "good", "bad"}
 QueueSize = 1
 MaxPeers = 1
 MaxBroadcasts = 3
 Nil = Nil
 SendQ = 2
 MaxGetAddr = 2
 Tx = {tx1, tx2}
 Handler = {h1, h2}
 Rpc = {r1}
 ChanSize = 1
 batchSize = 2
CHECK_DEADLOCK FALSE
