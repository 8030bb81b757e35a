------------------------------- MODULE AcceptLoop -------------------------------
(***************************************************************************)
(* How a device listens for initial connections: ConnectionManager::       *)
(* StartAcceptingConnections, StopAcceptingConnections, Disconnect and     *)
(* SeekInitialConnection, and the parts of InitialConnection.cpp that open *)
(* and close a listener.  A listener accepts one peer and posts a callback *)
(* that seeks again on the same port.                                      *)
(*                                                                         *)
(* SeekInitialConnection is called by threads of the pool and of the user: *)
(* it checks the generation under the mutex, seeks without it and checks   *)
(* again.  Seek and Disconnect only post a coroutine on the connection's   *)
(* own strand.  The handshake itself is InitialConnection.tla.             *)
(*                                                                         *)
(* Bounds: MaxCommands calls of Start, Stop and Disconnect, MaxSeeks       *)
(* listeners, MaxPeers peers that connect, MaxFailures listeners that fail.*)
(***************************************************************************)
EXTENDS Integers, FiniteSets, Sequences, SequencesExt

CONSTANTS MaxCommands, MaxSeeks, MaxPeers, MaxFailures

VARIABLES
    accepting,      \* m_acceptingConnections
    generation,     \* m_acceptGeneration
    out,            \* m_initialConnectionOut: the generation that created it, 0 if null
    inbound,        \* m_initialConnectionsIn, by number
    listeners,      \* every InitialConnection made to seek
    calls,          \* threads inside SeekInitialConnection, and callbacks posted to be
    dropping,       \* what a Disconnect has yet to disconnect, and whether it then seeks
    commands, peers, failures,
    failed          \* ghost: generations one of whose listeners failed

acceptVars == <<accepting, generation, out, inbound, listeners, calls, dropping, commands, peers, failures, failed>>

-------------------------------------------------------------------------------

Numbers == DOMAIN listeners
NoDrop == [on |-> FALSE, who |-> {}, restart |-> FALSE, generation |-> 0]

(* What is assumed of the constants. *)
AcceptBounds == MaxCommands \in Nat

AcceptTypeOK ==
    /\ accepting \in BOOLEAN /\ generation \in 0 .. MaxCommands /\ out \in 0 .. MaxCommands
    /\ inbound \subseteq Numbers
    /\ \A n \in Numbers :
          /\ listeners[n].state \in {"DISCONNECTED", "CONNECTING", "CONNECTED"}
          /\ listeners[n].acceptor \in {"closed", "open", "arrived"}
          /\ listeners[n].queue \in Seq({"seek", "disconnect"})
    /\ \A k \in calls : k.at \in {"enter", "seek", "check"} /\ k.number \in Numbers \cup {0}
    /\ dropping.who \subseteq Numbers

AcceptInit ==
    /\ accepting = FALSE /\ generation = 0 /\ out = 0
    /\ inbound = {} /\ listeners = <<>> /\ calls = {} /\ dropping = NoDrop
    /\ commands = 0 /\ peers = 0 /\ failures = 0 /\ failed = {}

-------------------------------------------------------------------------------

(* InitialConnection::Disconnect posts CoDisconnect; nobody is there to hear it once the *)
(* connection is destroyed.                                                              *)
Posted(ls, who, what) ==
    [n \in DOMAIN ls |-> IF n \in who THEN [ls[n] EXCEPT !.queue = Append(@, what)] ELSE ls[n]]

Entering(g) == [at |-> "enter", generation |-> g, number |-> 0]

StartAcceptingConnections ==
    /\ accepting' = TRUE
    /\ generation' = generation + 1
    /\ out' = generation + 1
    /\ calls' = calls \cup {Entering(generation + 1)}
    /\ UNCHANGED <<inbound, listeners, dropping>>

StopAcceptingConnections ==
    /\ accepting' = FALSE
    /\ generation' = generation + 1
    /\ out' = 0
    /\ listeners' = Posted(listeners, inbound, "disconnect")
    /\ inbound' = {}
    /\ UNCHANGED <<calls, dropping>>

(* Variant: what was under way before is not told from what starts now. *)
DisconnectOfSameGeneration ==
    /\ ~dropping.on
    /\ out' = out
    /\ dropping' = [on |-> TRUE, who |-> inbound, restart |-> accepting, generation |-> generation]
    /\ UNCHANGED <<accepting, generation, inbound, listeners, calls>>

(* ConnectionManager::Disconnect, the part under the mutex. *)
Disconnect ==
    /\ ~dropping.on
    /\ generation' = generation + 1
    /\ out' = IF out # 0 /\ accepting THEN generation + 1 ELSE out
    /\ dropping' = [on |-> TRUE, who |-> inbound, restart |-> accepting, generation |-> generation + 1]
    /\ UNCHANGED <<accepting, inbound, listeners, calls>>

Command ==
    /\ commands < MaxCommands /\ commands' = commands + 1
    /\ StartAcceptingConnections \/ StopAcceptingConnections \/ Disconnect
    /\ UNCHANGED <<peers, failures, failed>>

(* ... and the part after it. *)
FinishDisconnect ==
    /\ dropping.on
    /\ listeners' = Posted(listeners, dropping.who, "disconnect")
    /\ calls' = IF dropping.restart THEN calls \cup {Entering(dropping.generation)} ELSE calls
    /\ dropping' = NoDrop
    /\ UNCHANGED <<accepting, generation, out, inbound, commands, peers, failures, failed>>

-------------------------------------------------------------------------------
(* SeekInitialConnection, between one lock and the next. *)

Stale(k) == ~accepting \/ k.generation # generation

Registers(k) ==
    /\ k \in calls /\ k.at = "enter"
    /\ IF Stale(k)
       THEN calls' = calls \ {k} /\ UNCHANGED <<listeners, inbound>>
       ELSE LET n == Len(listeners) + 1 IN
            /\ n <= MaxSeeks
            /\ listeners' = Append(listeners, [state |-> "DISCONNECTED", acceptor |-> "closed",
                                               queue |-> <<>>, generation |-> k.generation])
            /\ inbound' = inbound \cup {n}
            /\ calls' = (calls \ {k}) \cup {[k EXCEPT !.at = "seek", !.number = n]}
    /\ UNCHANGED <<accepting, generation, out, dropping, commands, peers, failures, failed>>

Seeks(k) ==
    /\ k \in calls /\ k.at = "seek"
    /\ listeners' = Posted(listeners, {k.number}, "seek")
    /\ calls' = (calls \ {k}) \cup {[k EXCEPT !.at = "check"]}
    /\ UNCHANGED <<accepting, generation, out, inbound, dropping, commands, peers, failures, failed>>

(* Variant: what was true before the seek is taken to be true after it. *)
ChecksOnce(k) ==
    /\ k \in calls /\ k.at = "check"
    /\ calls' = calls \ {k}
    /\ UNCHANGED <<accepting, generation, out, inbound, listeners, dropping, commands, peers, failures, failed>>

ChecksAgain(k) ==
    /\ k \in calls /\ k.at = "check"
    /\ calls' = calls \ {k}
    /\ listeners' = IF Stale(k) THEN Posted(listeners, {k.number}, "disconnect") ELSE listeners
    /\ UNCHANGED <<accepting, generation, out, inbound, dropping, commands, peers, failures, failed>>

-------------------------------------------------------------------------------
(* The strand of connection n. *)

Takes(n, what) == listeners[n].queue # <<>> /\ Head(listeners[n].queue) = what
Becomes(n, state, acceptor, queue) ==
    listeners' = [listeners EXCEPT ![n] = [@ EXCEPT !.state = state, !.acceptor = acceptor, !.queue = queue]]

(* A listener that fails disconnects itself, and nobody seeks in its place. *)
Fails(n, queue) ==
    /\ failures < MaxFailures /\ failures' = failures + 1
    /\ failed' = failed \cup {listeners[n].generation}
    /\ Becomes(n, "CONNECTING", "closed", Append(queue, "disconnect"))

CoSeek(n) ==
    /\ Takes(n, "seek")
    /\ \/ /\ Becomes(n, "CONNECTING", "open", Tail(listeners[n].queue))
          /\ UNCHANGED <<failures, failed>>
       \/ Fails(n, Tail(listeners[n].queue))
    /\ UNCHANGED <<accepting, generation, out, inbound, calls, dropping, commands, peers>>

PeerArrives(n) ==
    /\ listeners[n].acceptor = "open"
    /\ peers < MaxPeers /\ peers' = peers + 1
    /\ listeners' = [listeners EXCEPT ![n].acceptor = "arrived"]
    /\ UNCHANGED <<accepting, generation, out, inbound, calls, dropping, commands, failures, failed>>

(* async_accept completes: the listener closes, the callback is posted, and the handshake *)
(* begins; or the accept fails.                                                           *)
Accepts(n) ==
    /\ listeners[n].acceptor = "arrived"
    /\ \/ /\ Becomes(n, "CONNECTED", "closed", listeners[n].queue)
          /\ calls' = calls \cup {Entering(listeners[n].generation)}
          /\ UNCHANGED <<failures, failed>>
       \/ Fails(n, listeners[n].queue) /\ UNCHANGED calls
    /\ UNCHANGED <<accepting, generation, out, inbound, dropping, commands, peers>>

(* Variant: nothing stops a connection that is not accepted yet. *)
CoDisconnectOfConnected(n) ==
    /\ Takes(n, "disconnect")
    /\ IF listeners[n].state # "CONNECTED"
       THEN Becomes(n, listeners[n].state, listeners[n].acceptor, Tail(listeners[n].queue))
       ELSE Becomes(n, "DISCONNECTED", "closed", Tail(listeners[n].queue))
    /\ UNCHANGED <<accepting, generation, out, inbound, calls, dropping, commands, peers, failures, failed>>

(* An early return on a connection that is DISCONNECTED, as one is before its CoSeek; the  *)
(* accept that completed meanwhile finds its acceptor closed, throws and gives up.  With   *)
(* its coroutines ended nothing owns the connection any more.                              *)
CoDisconnect(n) ==
    /\ Takes(n, "disconnect")
    /\ IF listeners[n].state = "DISCONNECTED"
       THEN Becomes(n, "DISCONNECTED", listeners[n].acceptor, Tail(listeners[n].queue))
       ELSE Becomes(n, "DISCONNECTED", "closed", Tail(listeners[n].queue))
    /\ inbound' = IF listeners[n].state = "DISCONNECTED" THEN inbound ELSE inbound \ {n}
    /\ UNCHANGED <<accepting, generation, out, calls, dropping, commands, peers, failures, failed>>

(* The handshake of a connection ends; its weak pointer expires. *)
HandshakeEnds(n) ==
    /\ listeners[n].state = "CONNECTED"
    /\ Becomes(n, "DISCONNECTED", "closed", listeners[n].queue)
    /\ inbound' = inbound \ {n}
    /\ UNCHANGED <<accepting, generation, out, calls, dropping, commands, peers, failures, failed>>

-------------------------------------------------------------------------------

Strand(n) == CoSeek(n) \/ Accepts(n) \/ CoDisconnect(n)
Thread(k) == Registers(k) \/ Seeks(k) \/ ChecksAgain(k)

AcceptNext ==
    \/ Command \/ FinishDisconnect
    \/ \E k \in calls : Thread(k)
    \/ \E n \in Numbers : Strand(n) \/ PeerArrives(n) \/ HandshakeEnds(n)

AcceptSpec == AcceptInit /\ [][AcceptNext]_acceptVars

-------------------------------------------------------------------------------

Listening(n) == listeners[n].acceptor \in {"open", "arrived"}

Settled ==
    /\ calls = {} /\ ~dropping.on
    /\ \A n \in Numbers : listeners[n].queue = <<>> /\ listeners[n].acceptor # "arrived"

(* A device that accepts has one listener of the current generation, however Start, Stop, *)
(* Disconnect, accepted peers and the callbacks they post interleaved, unless one failed. *)
ListensWhileAccepting ==
    Settled /\ accepting /\ generation \notin failed =>
        Cardinality({n \in Numbers : Listening(n) /\ listeners[n].generation = generation}) = 1

(* A device that was stopped hears nobody, and has no handshake under way. *)
SilentWhenStopped ==
    Settled /\ ~accepting =>
        out = 0 /\ \A n \in Numbers : ~Listening(n) /\ listeners[n].state # "CONNECTED"

================================================================================
