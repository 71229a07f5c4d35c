----------------------------- MODULE Addresses ------------------------------
(***************************************************************************)
(* Addresses: how they are read from and written to URLs                   *)
(* (src/src/base/Transports.ts), where a server listens for its own        *)
(* (TcpServer.ts), at which others it says it can be reached (tcp/util.ts), *)
(* and which clients come of them (Client.ts, StdioClient.ts).             *)
(***************************************************************************)
EXTENDS Integers, Optional

CONSTANTS
    Ips,         \* hosts that are numeric, other than the two below
    Local,       \* that of this machine in its network ...
    Global,      \* ... and in the internet, or "0.0.0.0" if it was not found
    Domains,     \* hosts that are not numeric, other than "localhost"
    Resolved,    \* the numeric host that each of them stands for
    PathTexts,   \* paths, without the slashes that they begin with
    NoText       \* the empty one

Numeric == Ips \cup {Local, Global, "127.0.0.1", "0.0.0.0"}
Hosts == Numeric \cup Domains \cup {"localhost"}
Secure == {"https", "wss"}
Schemes == Secure \cup {"http", "ws", "tcp"}
Ports == Nat

(* A path begins with a number of slashes.                                  *)
Path(slashes, text) == [slashes |-> slashes, text |-> text]
PathSet == {Path(n, t) : n \in Nat, t \in PathTexts \cup {NoText}} \cup {Undefined}

Address(scheme, host, port, path) ==
    [scheme |-> scheme, host |-> host, port |-> port, path |-> path]
AddressSet == {Address(s, h, n, p) : s \in Schemes, h \in Hosts, n \in Ports, p \in PathSet}

-----------------------------------------------------------------------------
(* parseTcpAddress: a string is read (a number of 2 to 5 digits as a port), *)
(* a number is the port, and what is missing comes from the defaults.  The  *)
(* path is what follows a first slash, at least one character; of a URL     *)
(* that ends in that slash nothing is made (undefined): it throws.          *)
Readable(url) == url.path = Undefined \/ url.path.slashes > 1 \/ url.path.text # NoText

Parse(url) ==
    IF ~ Readable(url) THEN Undefined
    ELSE IF url.path = Undefined THEN url
    ELSE [url EXCEPT !.path = Path(url.path.slashes - 1, url.path.text)]

InferPort(scheme, default) ==
    IF scheme \in {"http", "ws"} THEN 80
    ELSE IF scheme \in Secure THEN 443
    ELSE default

Merge(parts, defaults) ==
    LET scheme == Or(parts.scheme, defaults.scheme)
    IN  Address(scheme, Or(parts.host, defaults.host),
                Or(parts.port, InferPort(scheme, defaults.port)),
                Or(parts.path, defaults.path))

(* TcpAddress, HttpAddress and WebSocketAddress with their defaults; the    *)
(* first has no path.                                                       *)
TcpDefaults == Address("tcp", "127.0.0.1", 7000, Undefined)
HttpDefaults == Address("http", "127.0.0.1", 80, Undefined)
WebSocketDefaults == Address("ws", "127.0.0.1", 80, Undefined)

TcpAddress(parts) == [Merge(parts, TcpDefaults) EXCEPT !.path = Undefined]
HttpAddress(parts) == Merge(parts, HttpDefaults)
WebSocketAddress(parts) == Merge(parts, WebSocketDefaults)

(* deparseTcpAddress                                                        *)
NeedsPort(scheme, port) == scheme = "tcp" \/ port # InferPort(scheme, port)

Deparse(address) ==
    LET path == address.path
    IN  Address(address.scheme, address.host,
            IF NeedsPort(address.scheme, address.port) THEN address.port ELSE Undefined,
            IF address.scheme = "tcp" \/ path = Undefined THEN Undefined
            ELSE IF path.slashes = 0 THEN Path(1, path.text) ELSE path)

-----------------------------------------------------------------------------
(* A server's address is made by TcpAddress, also of one with a path.       *)
ServerAddresses == {a \in AddressSet : a.path = Undefined}
ServerTypes == {"tcp", "http", "ws"}

(* TcpServer.listeningAddress: not on a privileged port, and on any host    *)
(* rather than on one with a name.                                          *)
ListeningAddress(address) ==
    [host |-> IF address.host \in Numeric \cup {"localhost"} THEN address.host
              ELSE "0.0.0.0",
     port |-> IF address.port >= 1024 \/ address.scheme = "tcp" THEN address.port
              ELSE IF address.scheme \in {"http", "https"} THEN 8000 ELSE 9000]

(* start: the HTTP and the WebSocket server listen there, the TCP server on *)
(* its address as it is.                                                    *)
Listening(type, address) ==
    IF type = "tcp" THEN [host |-> address.host, port |-> address.port]
    ELSE ListeningAddress(address)

(* expandAddress: the addresses of a server for its peers near and far.     *)
Insecure(address) ==
    IF address.scheme = "https" THEN Address("http", address.host, 8000, address.path)
    ELSE IF address.scheme = "wss" THEN Address("ws", address.host, 9000, address.path)
    ELSE address

At(address, host) == [address EXCEPT !.host = host]

Near(address) ==
    {At(Insecure(address), host) : host \in {Local, "127.0.0.1"} \ {address.host}}

Expand(address) ==
    IF address.host \in {"127.0.0.1", "localhost"} THEN {address}
    ELSE IF address.host \in Numeric \ {"0.0.0.0"} THEN Near(address) \cup {address}
    ELSE Near(address)
         \cup {At(address, host) :
                   host \in ({address.host} \ {"0.0.0.0"}) \cup ({Global} \ {address.host})}

ExpandDefaults == Address("ws", "0.0.0.0", 80, Undefined)

(* addresses of TcpServer, HttpServer and WebSocketServer                   *)
Advertised(address) ==
    {Deparse(a) : a \in Expand(Merge(Parse(Deparse(address)), ExpandDefaults))}

(* Does a client of this machine, at that address, find the server?         *)
Bound(host) ==
    IF host = "localhost" THEN "127.0.0.1"
    ELSE IF host \in Domains THEN Resolved[host] ELSE host

Finds(address, listening) ==
    /\ address.port = listening.port
    /\ Bound(listening.host) \in {"0.0.0.0", address.host}

-----------------------------------------------------------------------------
(* Client.ts: from address strings to clients.  parseAddress knows a few    *)
(* schemes, each the address of a transport.                                *)
TransportOf ==
    [docker |-> "stdio", stdio |-> "stdio", http |-> "http", https |-> "http", pipe |-> "pipe"]

ClientTypes == {"DirectClient", "StdioClient", "PipeClient", "VsockClient", "TcpClient",
                "HttpClient", "WebSocketClient"}

TransportToClientType ==
    [direct |-> "DirectClient", stdio |-> "StdioClient", pipe |-> "PipeClient",
     vsock |-> "VsockClient", tcp |-> "TcpClient", http |-> "HttpClient",
     ws |-> "WebSocketClient"]

(* StdioClient.discover: of the manifests in a directory.                   *)
Discover(manifests) == {m \in manifests : m.readable /\ m.json /\ m.stdio}

(* addressToClients: the clients of an address, or what a type discovers    *)
(* for an address such as `stdio://*`.                                      *)
AddressToClients(scheme, discovery, types, discovered) ==
    LET transport == IF discovery THEN scheme
                     ELSE IF scheme \in DOMAIN TransportOf THEN TransportOf[scheme]
                     ELSE Undefined
    IN  IF transport \notin DOMAIN TransportToClientType THEN {}
        ELSE IF TransportToClientType[transport] \notin types THEN {}
        ELSE IF discovery THEN discovered[TransportToClientType[transport]]
        ELSE {TransportToClientType[transport]}
=============================================================================
