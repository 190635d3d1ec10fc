------------------------------- MODULE Agent --------------------------------
(***************************************************************************)
(* The control endpoint that the Minecraft mod talks to:                   *)
(* crates/cli/src/agent.rs.  Each control connection has a task of its own *)
(* (serve_conn) that answers one request after the other; the tasks share  *)
(* the map of tunnels.  A task gives way to the others wherever the code   *)
(* awaits: between the lookup in the map and the insertion lie a resolution*)
(* of up to 45 seconds and a bind.                                         *)
(*                                                                         *)
(* Every tunnel has a listener on a port of its own, served by run_connect *)
(* (module Proxy).  The system hands out any port that is not in use.      *)
(***************************************************************************)
EXTENDS Names, FiniteSets

CONSTANTS
    Conn,        \* control connections
    Typed,       \* what a request may give as the name
    Peer,        \* peer ids
    PeerOf,      \* [keyids -> Peer]: whom a keyid commits to
    Port,        \* ephemeral ports of the loopback interface
    MaxRequests, \* lines that fit into MAX_CONN_BYTES
    MaxExits     \* bound: listeners that end with an error of accept()

ASSUME AgentAssumption ==
    /\ Typed \subseteq Text /\ \A text \in Typed : text.labels # <<>>
    /\ PeerOf \in [{n.keyid : n \in Name} -> Peer]
    /\ MaxRequests \in Nat /\ MaxExits \in Nat

VARIABLES
    running,  \* the agent process
    pc,       \* [Conn -> where its task is]
    name,     \* [Conn -> the name its resolve request is about: {} or {n}]
    bound,    \* [Conn -> the port it has bound for it: {} or {p}]
    left,     \* [Conn -> requests it may still send]
    gone,     \* connections whose client has hung up
    reply,    \* [Conn -> the last answer: {} or {r}]
    tunnels,  \* [MapKey -> {} or {[port, peer]}]: TunnelMap
    listener, \* [Port -> {} or {[name, peer, by]}]: who is listening
    measured, \* peers in the RttMap
    exits     \* listeners that have ended (bounded by MaxExits)

connVars == <<pc, name, bound, left, gone, reply>>
tunnelVars == <<tunnels, listener, exits>>
vars == <<running, pc, name, bound, left, gone, reply,
          tunnels, listener, measured, exits>>

\* The map is keyed by what names print as.
MapKey == {to_string(n) : n \in Name}

Busy == {"lookup", "establish", "bind", "insert"}

Init ==
    /\ running = TRUE
    /\ pc = [c \in Conn |-> "new"]
    /\ name = [c \in Conn |-> {}]
    /\ bound = [c \in Conn |-> {}]
    /\ left = [c \in Conn |-> MaxRequests]
    /\ gone = {}
    /\ reply = [c \in Conn |-> {}]
    /\ tunnels = [k \in MapKey |-> {}]
    /\ listener = [p \in Port |-> {}]
    /\ measured = {}
    /\ exits = 0

-----------------------------------------------------------------------------
(* Connections *)

\* The accept loop spawns serve_conn.
Connect(c) ==
    /\ running
    /\ pc[c] = "new"
    /\ pc' = [pc EXCEPT ![c] = "reading"]
    /\ UNCHANGED <<running, name, bound, left, gone, reply, tunnelVars, measured>>

\* The client closes its end - the mod does after its read timeout.  A task
\* that is waiting for a line ends; one that is at work does not notice.
HangUp(c) ==
    /\ pc[c] \notin {"new", "closed"}
    /\ c \notin gone
    /\ gone' = gone \cup {c}
    /\ pc' = IF pc[c] = "reading" THEN [pc EXCEPT ![c] = "closed"] ELSE pc
    /\ UNCHANGED <<running, name, bound, left, reply, tunnelVars, measured>>

\* The byte limit of the connection is used up: next_line() sees the end.
Exhausted(c) ==
    /\ pc[c] = "reading"
    /\ left[c] = 0
    /\ pc' = [pc EXCEPT ![c] = "closed"]
    /\ UNCHANGED <<running, name, bound, left, gone, reply, tunnelVars, measured>>

\* The answer is written and the next line read; with the client gone the
\* write fails, or the read does.
Reply(c, r) ==
    /\ reply' = [reply EXCEPT ![c] = {r}]
    /\ pc' = [pc EXCEPT ![c] = IF c \in gone THEN "closed" ELSE "reading"]
    /\ name' = [name EXCEPT ![c] = {}]
    /\ bound' = [bound EXCEPT ![c] = {}]

\* A slip: the input of a connection is not limited.
ReceiveUnlimited(c) ==
    /\ pc[c] = "reading"
    /\ left' = [left EXCEPT ![c] = @ - 1]
    /\ UNCHANGED <<running, gone, tunnelVars, measured>>

\* A line is read, within the byte limit of the connection.
Receive(c) ==
    /\ pc[c] = "reading"
    /\ left[c] > 0
    /\ left' = [left EXCEPT ![c] = @ - 1]
    /\ UNCHANGED <<running, gone, tunnelVars, measured>>

-----------------------------------------------------------------------------
(* Requests: handle_request *)

\* "ping" needs no token.
Ping(c) ==
    /\ Receive(c)
    /\ Reply(c, [ok |-> TRUE])

\* A line that is not a request, an operation that does not exist, a request
\* without the token.
Refuse(c) ==
    /\ Receive(c)
    /\ Reply(c, [ok |-> FALSE])

\* "rtt": what was last measured to the peer behind the name.
Rtt(c, text) ==
    LET peers == UNION {{e.peer : e \in tunnels[to_string(n)]} : n \in parse(text)}
    IN  /\ Receive(c)
        /\ Reply(c, [ok |-> TRUE, rtt |-> peers \cap measured])

\* "resolve" with the token: the name is parsed and the map consulted.
Resolve(c, text) ==
    /\ Receive(c)
    /\ \/ /\ parse(text) = {}
          /\ Reply(c, [ok |-> FALSE])
       \/ \E n \in parse(text) :
            /\ pc' = [pc EXCEPT ![c] = "lookup"]
            /\ name' = [name EXCEPT ![c] = {n}]
            /\ reply' = [reply EXCEPT ![c] = {}]
            /\ UNCHANGED bound

-----------------------------------------------------------------------------
(* resolve_and_tunnel *)

PortReply(n, p) == [ok |-> TRUE, name |-> n, port |-> p]

\* The fast path, under the lock.
Lookup(c) ==
    /\ pc[c] = "lookup"
    /\ \E n \in name[c] :
         \/ \E e \in tunnels[to_string(n)] : Reply(c, PortReply(n, e.port))
         \/ /\ tunnels[to_string(n)] = {}
            /\ pc' = [pc EXCEPT ![c] = "establish"]
            /\ UNCHANGED <<name, bound, reply>>
    /\ UNCHANGED <<running, left, gone, tunnelVars, measured>>

\* establish() returns the peer of the name (module Dht, ResolvedGenuine).
Establish(c) ==
    /\ pc[c] = "establish"
    /\ pc' = [pc EXCEPT ![c] = "bind"]
    /\ UNCHANGED <<running, name, bound, left, gone, reply, tunnelVars, measured>>

\* establish() or the bind fails: the error is the answer.
ResolveFails(c) ==
    /\ pc[c] \in {"establish", "bind"}
    /\ Reply(c, [ok |-> FALSE])
    /\ UNCHANGED <<running, left, gone, tunnelVars, measured>>

\* The listener is bound and run_connect spawned on it.
Bind(c, p) ==
    /\ pc[c] = "bind"
    /\ listener[p] = {}
    /\ \E n \in name[c] :
         listener' = [listener EXCEPT ![p] =
                        {[name |-> n, peer |-> PeerOf[n.keyid], by |-> c]}]
    /\ bound' = [bound EXCEPT ![c] = {p}]
    /\ pc' = [pc EXCEPT ![c] = "insert"]
    /\ UNCHANGED <<running, name, left, gone, reply, tunnels, measured, exits>>

\* A slip: the port is answered but not remembered.
InsertForgets(c) ==
    /\ pc[c] = "insert"
    /\ \E n \in name[c], p \in bound[c] : Reply(c, PortReply(n, p))
    /\ UNCHANGED <<running, left, gone, tunnelVars, measured>>

\* A slip: to undo a race the listener is closed that the map now points to.
InsertClosesNew(c) ==
    /\ pc[c] = "insert"
    /\ \E n \in name[c], p \in bound[c] :
         /\ tunnels' = [tunnels EXCEPT ![to_string(n)] = {[port |-> p, peer |-> PeerOf[n.keyid]]}]
         /\ listener' = IF tunnels[to_string(n)] # {}
                        THEN [listener EXCEPT ![p] = {}] ELSE listener
         /\ Reply(c, PortReply(n, p))
    /\ UNCHANGED <<running, left, gone, measured, exits>>

\* A slip: the loser of a race closes its listener but answers its port.
InsertKeepsOld(c) ==
    /\ pc[c] = "insert"
    /\ \E n \in name[c], p \in bound[c] :
         /\ IF tunnels[to_string(n)] # {}
            THEN /\ listener' = [listener EXCEPT ![p] = {}]
                 /\ UNCHANGED tunnels
            ELSE /\ tunnels' = [tunnels EXCEPT ![to_string(n)] =
                                  {[port |-> p, peer |-> PeerOf[n.keyid]]}]
                 /\ UNCHANGED listener
         /\ Reply(c, PortReply(n, p))
    /\ UNCHANGED <<running, left, gone, measured, exits>>

\* The map is updated, under the lock again, and the port answered.  Another
\* request may have put a tunnel there in the meantime: the last one stays.
Insert(c) ==
    /\ pc[c] = "insert"
    /\ \E n \in name[c], p \in bound[c] :
         /\ tunnels' = [tunnels EXCEPT ![to_string(n)] = {[port |-> p, peer |-> PeerOf[n.keyid]]}]
         /\ Reply(c, PortReply(n, p))
    /\ UNCHANGED <<running, left, gone, listener, measured, exits>>

-----------------------------------------------------------------------------
(* The rest of the process *)

\* run_connect returns with an error of accept(): the port is free again, the
\* map stays as it is.
ListenerExits(p) ==
    /\ listener[p] # {}
    /\ exits < MaxExits
    /\ exits' = exits + 1
    /\ listener' = [listener EXCEPT ![p] = {}]
    /\ UNCHANGED <<running, connVars, tunnels, measured>>

\* A ping of a peer is answered.
Measured(peer) ==
    /\ running
    /\ peer \notin measured
    /\ measured' = measured \cup {peer}
    /\ UNCHANGED <<running, connVars, tunnelVars>>

\* The last connection to a peer closes.
Disconnected(peer) ==
    /\ peer \in measured
    /\ measured' = measured \ {peer}
    /\ UNCHANGED <<running, connVars, tunnelVars>>

\* Ctrl-C, or accept() fails on the control port: the process ends and every
\* task with it.
Stop ==
    /\ running
    /\ running' = FALSE
    /\ pc' = [c \in Conn |-> "closed"]
    /\ tunnels' = [k \in MapKey |-> {}]
    /\ listener' = [p \in Port |-> {}]
    /\ measured' = {}
    /\ UNCHANGED <<name, bound, left, gone, reply, exits>>

Next ==
    \/ \E c \in Conn :
        \/ Connect(c) \/ HangUp(c) \/ Exhausted(c)
        \/ Ping(c) \/ Refuse(c)
        \/ \E text \in Typed : Rtt(c, text) \/ Resolve(c, text)
        \/ Lookup(c) \/ Establish(c) \/ ResolveFails(c) \/ Insert(c)
        \/ \E p \in Port : Bind(c, p)
    \/ \E p \in Port : ListenerExits(p)
    \/ \E peer \in Peer : Measured(peer) \/ Disconnected(peer)
    \/ Stop

Spec == Init /\ [][Next]_vars

-----------------------------------------------------------------------------
(* Properties *)

Tunnel == [port : Port, peer : Peer]
Answer == [ok : BOOLEAN] \cup [ok : {TRUE}, rtt : SUBSET Peer]
          \cup [ok : {TRUE}, name : Name, port : Port]

\* Type invariant.  Beyond the shapes: a connection never gets past its limit
\* of input (MAX_CONN_BYTES in serve_conn).
TypeOK ==
    /\ running \in BOOLEAN
    /\ pc \in [Conn -> {"new", "reading", "closed"} \cup Busy]
    /\ name \in [Conn -> SUBSET Name]
    /\ bound \in [Conn -> SUBSET Port]
    /\ left \in [Conn -> Nat]
    /\ gone \subseteq Conn
    /\ reply \in [Conn -> SUBSET Answer]
    /\ tunnels \in [MapKey -> SUBSET Tunnel]
    /\ listener \in [Port -> SUBSET [name : Name, peer : Peer, by : Conn]]
    /\ measured \subseteq Peer
    /\ exits \in Nat

\* The map is right as long as no listener has ended: the port it has under a
\* text is being listened on and leads to the peer that the text commits to
\* when it is parsed, in spite of requests that race from the lookup to the
\* insertion.
MapSound ==
    exits = 0 => \A k \in MapKey : \A e \in tunnels[k] :
        \E l \in listener[e.port], n \in parse(k) :
            l.peer = PeerOf[n.keyid] /\ e.peer = PeerOf[n.keyid]

\* Tunnels are reused: a client that resolves a name again on its connection,
\* however it spells it, does not get a second tunnel for it.
OneTunnelPerCaller ==
    \A p, q \in Port : \A l \in listener[p], m \in listener[q] :
        l.by = m.by /\ l.name = m.name => p = q

Serves(p, n) == \E l \in listener[p] : l.peer = PeerOf[n.keyid]

\* Whenever a resolve request is answered with a port, a listener that leads to
\* the peer of that name is on it - as long as no listener has ended, and
\* whichever of several racing requests is answered (resolve_and_tunnel).
PortServes ==
    [][exits' = 0 => \A c \in Conn : \A r \in reply'[c] \ reply[c] :
          "port" \in DOMAIN r => Serves(r.port, r.name)']_vars

\* The comments on resolve_and_tunnel: it returns "the local port serving" the
\* name, and the fast path is "an existing tunnel for this name".  Read as: a
\* port that is answered from the map leads to the peer of the name, listeners
\* that have ended or not.
FastPathServes ==
    [][\A c \in Conn : \A r \in reply'[c] \ reply[c] :
          pc[c] = "lookup" => Serves(r.port, r.name)']_vars

-----------------------------------------------------------------------------
(* The inductive invariant behind the properties *)

\* A task deals with one name and one port at a time.
TaskInv ==
    \A c \in Conn :
        /\ \A m, n \in name[c] : m = n
        /\ \A p, q \in bound[c] : p = q

\* A task has a port bound for its name that it has not yet put into the map.
Inserting(c, n) == pc[c] = "insert" /\ n \in name[c]

\* A task gets as far as binding a port only for a name that it has no listener
\* for; until the insertion it has one, and from then on the map has an entry.
ReuseInv ==
    /\ \A c \in Conn, p \in Port : \A l \in listener[p] : l.by = c /\ l.name \in name[c] =>
          /\ pc[c] \notin {"establish", "bind"}
          /\ pc[c] = "insert" => p \in bound[c]
    /\ \A p \in Port : \A l \in listener[p] :
          tunnels[to_string(l.name)] # {} \/ Inserting(l.by, l.name)

\* As long as no listener has ended: what the map has for a name, and what a task
\* is about to put there, leads to the peer of the name.
ServeInv ==
    exits = 0 =>
        /\ \A n \in Name : \A e \in tunnels[to_string(n)] :
              e.peer = PeerOf[n.keyid] /\ Serves(e.port, n)
        /\ \A c \in Conn, n \in Name : Inserting(c, n) => \A p \in bound[c] : Serves(p, n)

IInv == TypeOK /\ TaskInv /\ ReuseInv /\ ServeInv /\ OneTunnelPerCaller
=============================================================================
