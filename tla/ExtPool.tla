------------------------------ MODULE ExtPool ------------------------------
(* The pool of extensible payloads, pkg/network/extpool/pool.go, used by the  *)
(* goroutines of the peers (handleExtensibleCmd), by the node's own services  *)
(* (BroadcastExtensible) and by relayBlocksLoop, pkg/network/server.go.  Add  *)
(* verifies a payload without the lock and inserts it later.                  *)
EXTENDS Integers, Sequences, FiniteSets, SequencesExt

CONSTANTS
    Payload,
    Sender,
    from,          \* sender of a payload
    validUntil,    \* ValidBlockEnd of a payload; ValidBlockStart is 0
    singleCap,
    Caller,        \* goroutines that call Add
    MaxHeight,     \* bound
    MaxAdds        \* bound: times a payload is received

VARIABLES
    verified,      \* p.verified: hashes of the payloads
    senders,       \* p.senders: payloads of each sender, oldest first
    chain,         \* block height, height of the last RemoveStale, allowed senders
    call,          \* Add: its place and its payload
    count          \* per payload: times received, handed to its handler, gone

vars == <<verified, senders, chain, call, count>>

Idle == [pc |-> "idle"]

TypeOK ==
    /\ verified \subseteq Payload
    /\ senders \in [Sender -> Seq(Payload)]
    /\ chain \in [height : 0 .. MaxHeight, cleaned : 0 .. MaxHeight, allowed : SUBSET Sender]
    /\ call \in [Caller -> {Idle} \cup [pc : {"insert"}, e : Payload]]
    /\ count \in [Payload -> [received : 0 .. MaxAdds, handled : 0 .. MaxAdds, gone : 0 .. MaxAdds]]

Init ==
    /\ verified = {} /\ senders = [s \in Sender |-> <<>>]
    /\ chain = [height |-> 0, cleaned |-> 0, allowed |-> Sender]
    /\ call = [c \in Caller |-> Idle]
    /\ count = [e \in Payload |-> [received |-> 0, handled |-> 0, gone |-> 0]]

----------------------------------------------------------------------------
(* Add *)

\* p.verify: the height and the sender; witnesses of the model are good as long
\* as the sender is allowed.
verify(e) == chain.height < validUntil[e] /\ from[e] \in chain.allowed

Verify(c, e) ==
    /\ call[c] = Idle /\ count[e].received < MaxAdds
    /\ count' = [count EXCEPT ![e].received = @ + 1]
    /\ call' = [call EXCEPT ![c] = IF verify(e) THEN [pc |-> "insert", e |-> e] ELSE Idle]
    /\ UNCHANGED <<verified, senders, chain>>

InsertUnchecked(c) ==
    LET e    == call[c].e
        full == Len(senders[from[e]]) >= singleCap
    IN  /\ call[c].pc = "insert"
        /\ call' = [call EXCEPT ![c] = Idle]
        /\ verified' = verified \cup {e}
        /\ senders' = [senders EXCEPT ![from[e]] = Append(IF full THEN Tail(@) ELSE @, e)]
        /\ count' = [count EXCEPT ![e].handled = @ + 1]
        /\ UNCHANGED chain

\* Under the lock: the oldest payload of a sender with too many makes room; a
\* payload that is new goes on to the handler of its category.
Insert(c) ==
    LET e    == call[c].e
        lst  == senders[from[e]]
        full == Len(lst) >= singleCap
    IN  /\ call[c].pc = "insert"
        /\ call' = [call EXCEPT ![c] = Idle]
        /\ IF e \in verified THEN UNCHANGED <<verified, senders, count>>
           ELSE /\ verified' = (IF full THEN verified \ {Head(lst)} ELSE verified) \cup {e}
                /\ senders' = [senders EXCEPT ![from[e]] = Append(IF full THEN Tail(@) ELSE @, e)]
                /\ count' = [x \in Payload |->
                               [count[x] EXCEPT !.handled = IF x = e THEN @ + 1 ELSE @,
                                                !.gone = IF full /\ x = Head(lst) THEN @ + 1 ELSE @]]
        /\ UNCHANGED chain

----------------------------------------------------------------------------
(* The chain, and relayBlocksLoop after a block *)

\* A block; it may change who is allowed to send.
AddBlock ==
    /\ chain.height < MaxHeight
    /\ \E a \in SUBSET Sender : chain' = [chain EXCEPT !.height = @ + 1, !.allowed = a]
    /\ UNCHANGED <<verified, senders, call, count>>

stays(e, index) == validUntil[e] > index /\ from[e] \in chain.allowed

\* RemoveStale(index) for the next block of the channel, which may lag behind.
RemoveStale ==
    LET index == chain.cleaned + 1
        Stays(e) == stays(e, index)
        kept  == {e \in verified : stays(e, index)}
    IN  /\ chain.cleaned < chain.height
        /\ chain' = [chain EXCEPT !.cleaned = index]
        /\ senders' = [s \in Sender |-> SelectSeq(senders[s], Stays)]
        /\ verified' = kept
        /\ count' = [e \in Payload |-> [count[e] EXCEPT !.gone = IF e \in verified \ kept THEN @ + 1 ELSE @]]
        /\ UNCHANGED call

----------------------------------------------------------------------------
Next ==
    \/ \E c \in Caller, e \in Payload : Verify(c, e)
    \/ \E c \in Caller : Insert(c)
    \/ AddBlock \/ RemoveStale

Spec == Init /\ [][Next]_vars

\* The map of hashes and the lists of the senders hold the same payloads, each
\* once and at most singleCap of a sender: a leftover in the map would make Add
\* take a payload that is gone for a known one.
IndexAgrees ==
    /\ verified = UNION {ToSet(senders[s]) : s \in Sender}
    /\ \A s \in Sender : /\ IsInjective(senders[s]) /\ Len(senders[s]) <= singleCap
                         /\ \A e \in ToSet(senders[s]) : from[e] = s

\* A payload is handed to its handler once for every time it enters the pool,
\* though two peers may send it together.
HandledOnce ==
    \A e \in Payload : count[e].handled = count[e].gone + IF e \in verified THEN 1 ELSE 0
============================================================================
