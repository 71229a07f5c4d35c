---------------------------- MODULE Connections -----------------------------
(***************************************************************************)
(* The connections a server keeps, by id, so as to notify its clients and  *)
(* to end them when it stops (src/src/tcp/TcpServer.ts and its subclass    *)
(* src/src/ws/WebSocketServer.ts).                                         *)
(*                                                                         *)
(* A TcpConnection makes itself a random id.  A WebSocketConnection has    *)
(* the id its client sends in the protocol header: the same each time that *)
(* client connects, and the empty string if it sends none.  The server     *)
(* learns late, or never, that a connection is gone: its client may be     *)
(* back before the socket emits `close`.                                   *)
(***************************************************************************)
EXTENDS Integers

CONSTANTS
    Ids,          \* ids of connections
    MaxConns      \* bound on the connections made

ASSUME ConnectionsAssumption ==
    /\ Ids # {}
    /\ MaxConns \in Nat

Conns == 1..MaxConns
Absent == 0

VARIABLES
    transport,    \* which server it is, "tcp" or "ws": set for good
    socket,       \* the state of each connection's socket
    id,           \* the id of each connection
    connections,  \* this.connections: the connection of each id, or Absent
    server        \* is the server listening?

vars == <<transport, socket, id, connections, server>>

Init ==
    /\ transport \in {"tcp", "ws"}
    /\ socket = [c \in Conns |-> "none"]
    /\ id = [c \in Conns |-> CHOOSE i \in Ids : TRUE]
    /\ connections = [i \in Ids |-> Absent]
    /\ server = "off"

Made == {c \in Conns : socket[c] # "none"}

-----------------------------------------------------------------------------
(* start: a TcpServer that has a net.Server, even one that is closing, does *)
(* nothing; a WebSocketServer makes a new one.                              *)
Start ==
    /\ server = "off"
    /\ server' = "listening"
    /\ UNCHANGED <<socket, id, connections, transport>>

(* Mutant of FreshId: connections get an id that may have been used.        *)
FreshIdAny(i) == i \in Ids

(* The random ids of TcpConnections differ.                                 *)
FreshId(i) == transport = "tcp" => \A c \in Made : id[c] # i

(* The `connection` event: the new connection takes the entry of its id.    *)
Connect(c, i) ==
    /\ server = "listening"
    /\ c \notin Made
    /\ FreshId(i)
    /\ socket' = [socket EXCEPT ![c] = "open"]
    /\ id' = [id EXCEPT ![c] = i]
    /\ connections' = [connections EXCEPT ![i] = c]
    /\ UNCHANGED <<server, transport>>

(* A WebSocket connection whose token is not valid is closed at once, and   *)
(* not registered.                                                          *)
Refuse(c) ==
    /\ server = "listening" /\ transport = "ws"
    /\ c \notin Made
    /\ socket' = [socket EXCEPT ![c] = "refused"]
    /\ UNCHANGED <<id, connections, server, transport>>

(* The client starts to close its connection.                               *)
Closing(c) ==
    /\ socket[c] = "open"
    /\ socket' = [socket EXCEPT ![c] = "closing"]
    /\ UNCHANGED <<id, connections, server, transport>>

(* Mutant of Close: only the connection that is current is taken out when   *)
(* the other end has closed it in good order.                               *)
CloseKeeps(c) ==
    /\ socket[c] \in {"open", "closing"}
    /\ socket' = [socket EXCEPT ![c] = "closed"]
    /\ connections' = IF socket[c] = "closing"
                        THEN [connections EXCEPT ![id[c]] = Absent]
                        ELSE connections
    /\ UNCHANGED <<id, server, transport>>

(* The `close` event, onDisconnected: the entry of its id is deleted.       *)
Close(c) ==
    /\ socket[c] \in {"open", "closing"}
    /\ socket' = [socket EXCEPT ![c] = "closed"]
    /\ connections' = [connections EXCEPT ![id[c]] = Absent]
    /\ UNCHANGED <<id, server, transport>>

-----------------------------------------------------------------------------
(* Mutant of Ended: only connections still in the table are ended, after    *)
(* the table was cleared.                                                   *)
EndedNone == {}

(* The connections that `stop` ends: a TcpServer those in its table; the    *)
(* `close` of a WebSocket server terminates every client it has.            *)
Ended ==
    {c \in Made : /\ socket[c] = "open"
                  /\ transport = "ws" \/ connections[id[c]] = c}

(* Mutant of Stop: a WebSocketServer, too, is closed when it is empty.      *)
StopWaits ==
    /\ server # "off"
    /\ socket' = [c \in Conns |-> IF c \in Ended THEN "closing" ELSE socket[c]]
    /\ connections' = [i \in Ids |-> Absent]
    /\ server' = "closing"
    /\ UNCHANGED <<id, transport>>

(* stop: end the connections, forget them and close the server.  A          *)
(* WebSocketServer is off at once, a TcpServer when no connection is left.  *)
Stop ==
    /\ server # "off"
    /\ socket' = [c \in Conns |-> IF c \in Ended THEN "closing" ELSE socket[c]]
    /\ connections' = [i \in Ids |-> Absent]
    /\ server' = IF transport = "tcp" THEN "closing" ELSE "off"
    /\ UNCHANGED <<id, transport>>

(* The net.Server has closed.                                               *)
Stopped ==
    /\ server = "closing"
    /\ \A c \in Made : socket[c] = "closed"
    /\ server' = "off"
    /\ UNCHANGED <<socket, id, connections, transport>>

Next ==
    \/ Start \/ Stop \/ Stopped
    \/ \E c \in Conns, i \in Ids : Connect(c, i)
    \/ \E c \in Conns : Closing(c) \/ Close(c) \/ Refuse(c)

Spec == Init /\ [][Next]_vars

-----------------------------------------------------------------------------
TypeOK ==
    /\ transport \in {"tcp", "ws"}
    /\ socket \in [Conns -> {"none", "refused", "open", "closing",
                           "closed"}]
    /\ id \in [Conns -> Ids]
    /\ connections \in [Ids -> Conns \cup {Absent}]
    /\ server \in {"off", "listening", "closing"}
    /\ server = "closing" => transport = "tcp"

(* No entry outlives its connection, or is of a connection with another id: *)
(* the connections that `notify` and `stop` look up can be used.            *)
EntriesAreLive ==
    \A i \in Ids : connections[i] # Absent =>
       /\ id[connections[i]] = i
       /\ socket[connections[i]] \in {"open", "closing"}

(* `notify` without the ids of clients "notifies all clients"               *)
(* (TcpServer.ts:163): an open connection is in the table.                  *)
OpenIsKnown == \A c \in Conns : socket[c] = "open" => connections[id[c]] = c

(* So it is for the clients of a TcpServer, however late it learns that     *)
(* others are gone.                                                         *)
TcpOpenIsKnown == transport = "tcp" => OpenIsKnown

(* A server that was stopped has no open connection.                        *)
StopEndsAll ==
    server # "listening" => \A c \in Conns : socket[c] # "open"
=============================================================================
