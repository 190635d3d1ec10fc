---------------------------- MODULE AgentProofs -----------------------------
(***************************************************************************)
(* Proofs about Agent: the map of tunnels is right, a port that is answered*)
(* serves the name, and tunnels are reused, for any number of control      *)
(* connections, names, spellings and ports.                                *)
(***************************************************************************)
EXTENDS Agent, NamesProofs, TLAPS

Places == {"new", "reading", "closed"} \cup Busy

-----------------------------------------------------------------------------
(* Names, keys of the map and peers *)

LEMMA NameFacts ==
    ASSUME NEW n \in Name
    PROVE  to_string(n) \in MapKey /\ PeerOf[n.keyid] \in Peer
<1>1. to_string(n) \in MapKey
    BY DEF MapKey
<1>2. n.keyid \in {m.keyid : m \in Name}
    OBVIOUS
<1> QED
    BY <1>1, <1>2, AgentAssumption

LEMMA TypedNames ==
    ASSUME NEW text \in Typed
    PROVE  parse(text) \subseteq Name /\ \A m, n \in parse(text) : m = n
<1>1. text \in Text
    BY AgentAssumption
<1>2. \A m, n \in parse(text) : m = n
    BY DEF parse
<1> QED
    BY <1>1, <1>2, ParseSound

-----------------------------------------------------------------------------
(* Steps *)

LEMMA InitInv == Init => IInv
<1> SUFFICES ASSUME Init PROVE IInv
    OBVIOUS
<1>1. TypeOK
    BY AgentAssumption DEF Init, TypeOK
<1>2. TaskInv /\ OneTunnelPerCaller
    BY DEF Init, TaskInv, OneTunnelPerCaller
<1>3. ReuseInv
    BY DEF Init, ReuseInv
<1>4. ServeInv
    BY NameFacts DEF Init, ServeInv, Inserting
<1> QED
    BY <1>1, <1>2, <1>3, <1>4 DEF IInv

\* What the invariant says of listeners and the map is about the tasks only by way
\* of where they are and of what they have in hand.
LEMMA SameTasks ==
    ASSUME IInv, TypeOK', UNCHANGED <<pc, name, bound, tunnels, listener, exits>>
    PROVE  IInv'
<1>1. TaskInv' /\ OneTunnelPerCaller'
    BY DEF IInv, TaskInv, OneTunnelPerCaller
<1>2. ReuseInv'
    BY DEF IInv, ReuseInv, Inserting
<1>3. ServeInv'
    BY DEF IInv, ServeInv, Inserting, Serves
<1> QED
    BY <1>1, <1>2, <1>3 DEF IInv

\* A task that has no port in hand goes on.  It gets to bind only with a name that
\* the map had nothing for.
LEMMA TaskStep ==
    ASSUME IInv, NEW c \in Conn,
           pc' \in [Conn -> Places], name' \in [Conn -> SUBSET Name], bound' \in [Conn -> SUBSET Port],
           \A d \in Conn : d # c => pc'[d] = pc[d] /\ name'[d] = name[d] /\ bound'[d] = bound[d],
           pc[c] # "insert", pc'[c] # "insert",
           \A m, n \in name'[c] : m = n, \A p, q \in bound'[c] : p = q,
           pc'[c] \in {"establish", "bind"} =>
              /\ name'[c] = name[c]
              /\ \A n \in name[c] : pc[c] \in {"establish", "bind"} \/ tunnels[to_string(n)] = {},
           left' \in [Conn -> Nat], gone' \subseteq Conn, reply' \in [Conn -> SUBSET Answer],
           UNCHANGED <<running, tunnels, listener, measured, exits>>
    PROVE  IInv'
<1>1. TypeOK'
    BY DEF IInv, TypeOK, Places
<1>2. TaskInv'
    BY DEF IInv, TypeOK, TaskInv
<1>3. \A d \in Conn : d # c => pc'[d] = pc[d] /\ name'[d] = name[d] /\ bound'[d] = bound[d]
    OBVIOUS
<1>5. \A d \in Conn, n \in Name : Inserting(d, n)' <=> Inserting(d, n)
    BY <1>3 DEF Inserting
<1>6. ReuseInv'
    <2>1. ASSUME NEW p \in Port, NEW l \in listener[p]
          PROVE  l.name \in Name /\ l.by \in Conn
        BY <2>1 DEF IInv, TypeOK
    <2>2. ASSUME NEW p \in Port, NEW l \in listener[p]
          PROVE  tunnels[to_string(l.name)] # {} \/ Inserting(l.by, l.name)
        BY <2>2 DEF IInv, ReuseInv
    <2>3. ASSUME NEW d \in Conn, NEW p \in Port, NEW l \in listener[p],
                 l.by = d, l.name \in name'[d]
          PROVE  /\ pc'[d] \notin {"establish", "bind"}
                 /\ pc'[d] = "insert" => p \in bound'[d]
        <3>1. CASE d # c
            BY <1>3, <2>3, <3>1 DEF IInv, ReuseInv
        <3>2. CASE d = c
            <4>1. pc'[c] \notin {"establish", "bind"}
                BY <2>2, <2>3, <3>2 DEF IInv, ReuseInv, Inserting
            <4> QED
                BY <3>2, <4>1
        <3> QED
            BY <3>1, <3>2
    <2> QED
        BY <1>5, <2>1, <2>2, <2>3 DEF ReuseInv
<1>7. ServeInv'
    <2> SUFFICES ASSUME exits = 0 PROVE ServeInv'
        BY DEF ServeInv
    <2>1. \A n \in Name : \A e \in tunnels[to_string(n)] : e.peer = PeerOf[n.keyid] /\ Serves(e.port, n)
        BY DEF IInv, ServeInv
    <2>2. ASSUME NEW d \in Conn, NEW n \in Name, Inserting(d, n)'
          PROVE  d # c /\ Inserting(d, n)
        BY <1>5, <2>2 DEF Inserting
    <2>3. \A p, n : Serves(p, n)' <=> Serves(p, n)
        BY DEF Serves
    <2>4. \A d \in Conn, n \in Name : Inserting(d, n) => \A p \in bound[d] : Serves(p, n)
        BY DEF IInv, ServeInv
    <2>5. ASSUME NEW d \in Conn, NEW n \in Name, Inserting(d, n)', NEW p \in bound'[d]
          PROVE  Serves(p, n)'
        BY <1>3, <2>2, <2>3, <2>4, <2>5
    <2> QED
        BY <2>1, <2>3, <2>5 DEF ServeInv
<1>8. OneTunnelPerCaller'
    BY DEF IInv, OneTunnelPerCaller
<1> QED
    BY <1>1, <1>2, <1>6, <1>7, <1>8 DEF IInv

\* An answer is given by a task that has no port in hand.
LEMMA ReplyInv ==
    ASSUME IInv, NEW c \in Conn, pc[c] # "insert", NEW r \in Answer, Reply(c, r),
           left' \in [Conn -> Nat], UNCHANGED <<running, gone, tunnels, listener, measured, exits>>
    PROVE  IInv'
<1>1. /\ pc' \in [Conn -> Places] /\ name' \in [Conn -> SUBSET Name] /\ bound' \in [Conn -> SUBSET Port]
      /\ \A d \in Conn : d # c => pc'[d] = pc[d] /\ name'[d] = name[d] /\ bound'[d] = bound[d]
      /\ pc'[c] \in {"closed", "reading"} /\ name'[c] = {} /\ bound'[c] = {}
    BY DEF Reply, IInv, TypeOK, Places
<1>2. gone' \subseteq Conn /\ reply' \in [Conn -> SUBSET Answer]
    BY DEF Reply, IInv, TypeOK
<1> QED
    BY <1>1, <1>2, TaskStep

\* A task moves on with what it has in hand.
LEMMA MoveInv ==
    ASSUME IInv, NEW c \in Conn, NEW x \in Places \ {"insert"},
           pc' = [pc EXCEPT ![c] = x], pc[c] # "insert",
           x \in {"establish", "bind"} =>
              \A n \in name[c] : pc[c] \in {"establish", "bind"} \/ tunnels[to_string(n)] = {},
           gone' \subseteq Conn,
           UNCHANGED <<name, bound, left, reply, running, tunnels, listener, measured, exits>>
    PROVE  IInv'
<1>1. /\ pc' \in [Conn -> Places] /\ name' \in [Conn -> SUBSET Name] /\ bound' \in [Conn -> SUBSET Port]
      /\ \A d \in Conn : d # c => pc'[d] = pc[d] /\ name'[d] = name[d] /\ bound'[d] = bound[d]
      /\ pc'[c] = x /\ left' \in [Conn -> Nat] /\ reply' \in [Conn -> SUBSET Answer]
    BY DEF IInv, TypeOK, Places
<1>2. (\A m, n \in name[c] : m = n) /\ (\A p, q \in bound[c] : p = q)
    BY DEF IInv, TaskInv
<1> QED
    BY <1>1, <1>2, TaskStep

LEMMA ReceiveFacts ==
    ASSUME IInv, NEW c \in Conn, Receive(c)
    PROVE  /\ pc[c] = "reading" /\ left' \in [Conn -> Nat]
           /\ UNCHANGED <<running, gone, tunnels, listener, measured, exits>>
<1>1. left[c] \in Nat /\ left[c] > 0
    BY DEF IInv, TypeOK, Receive
<1> QED
    BY <1>1 DEF IInv, TypeOK, Receive, tunnelVars

LEMMA ResolveInv ==
    ASSUME IInv, NEW c \in Conn, NEW text \in Typed, Resolve(c, text)
    PROVE  IInv'
<1>1. /\ pc[c] = "reading" /\ left' \in [Conn -> Nat]
      /\ UNCHANGED <<running, gone, tunnels, listener, measured, exits>>
    BY ReceiveFacts DEF Resolve
<1>2. CASE Reply(c, [ok |-> FALSE])
    BY <1>1, <1>2, ReplyInv DEF Answer
<1>3. ASSUME NEW n \in parse(text), pc' = [pc EXCEPT ![c] = "lookup"],
             name' = [name EXCEPT ![c] = {n}], bound' = bound,
             reply' = [reply EXCEPT ![c] = {}]
      PROVE  IInv'
    <2>1. n \in Name
        BY TypedNames
    <2>2. /\ pc' \in [Conn -> Places] /\ name' \in [Conn -> SUBSET Name]
          /\ \A d \in Conn : d # c => pc'[d] = pc[d] /\ name'[d] = name[d] /\ bound'[d] = bound[d]
          /\ pc'[c] = "lookup" /\ name'[c] = {n}
        BY <1>3, <2>1 DEF IInv, TypeOK, Places, Busy
    <2>3. /\ bound' \in [Conn -> SUBSET Port] /\ (\A p, q \in bound'[c] : p = q) /\ gone' \subseteq Conn
          /\ reply' \in [Conn -> SUBSET Answer]
        BY <1>1, <1>3 DEF IInv, TypeOK, TaskInv
    <2> QED
        BY <1>1, <2>2, <2>3, TaskStep
<1> QED
    BY <1>2, <1>3 DEF Resolve

LEMMA LookupInv ==
    ASSUME IInv, NEW c \in Conn, Lookup(c)
    PROVE  IInv'
<1>1. /\ pc[c] = "lookup" /\ left' \in [Conn -> Nat] /\ gone' \subseteq Conn
      /\ UNCHANGED <<running, left, gone, tunnels, listener, measured, exits>>
    BY DEF Lookup, tunnelVars, IInv, TypeOK
<1>2. ASSUME NEW n \in name[c], NEW e \in tunnels[to_string(n)], Reply(c, PortReply(n, e.port))
      PROVE  IInv'
    <2>1. n \in Name /\ e.port \in Port
        BY NameFacts DEF IInv, TypeOK, Tunnel
    <2>2. PortReply(n, e.port) \in Answer
        BY <2>1 DEF PortReply, Answer
    <2> QED
        BY <1>1, <1>2, <2>2, ReplyInv
<1>3. ASSUME NEW n \in name[c], tunnels[to_string(n)] = {},
             pc' = [pc EXCEPT ![c] = "establish"], UNCHANGED <<name, bound, reply>>
      PROVE  IInv'
    <2>1. \A m \in name[c] : m = n
        BY DEF IInv, TaskInv
    <2>2. "establish" \in Places \ {"insert"}
        BY DEF Places, Busy
    <2> QED
        BY <1>1, <1>3, <2>1, <2>2, MoveInv
<1> QED
    BY <1>2, <1>3 DEF Lookup

\* Steps of a task that leave the map and the listeners alone.
LEMMA ConnectionInv ==
    ASSUME IInv, NEW c \in Conn,
           \/ Connect(c) \/ HangUp(c) \/ Exhausted(c) \/ Ping(c) \/ Refuse(c)
           \/ Establish(c) \/ ResolveFails(c)
           \/ \E text \in Typed : Rtt(c, text)
    PROVE  IInv'
<1>0. {"reading", "closed", "bind"} \subseteq Places \ {"insert"}
    BY DEF Places, Busy
<1>1. CASE Connect(c)
    BY <1>0, <1>1, MoveInv DEF Connect, tunnelVars, IInv, TypeOK
<1>2. CASE HangUp(c)
    <2>1. /\ gone' \subseteq Conn
          /\ UNCHANGED <<running, name, bound, left, reply, tunnels, listener, measured, exits>>
        BY <1>2 DEF HangUp, tunnelVars, IInv, TypeOK
    <2>2. CASE pc[c] = "reading"
        BY <1>0, <1>2, <2>1, <2>2, MoveInv DEF HangUp
    <2>3. CASE pc[c] # "reading"
        <3>1. pc' = pc
            BY <1>2, <2>3 DEF HangUp
        <3>2. TypeOK'
            BY <2>1, <3>1 DEF IInv, TypeOK
        <3> QED
            BY <2>1, <3>1, <3>2, SameTasks
    <2> QED
        BY <2>2, <2>3
<1>3. CASE Exhausted(c)
    BY <1>0, <1>3, MoveInv DEF Exhausted, tunnelVars, IInv, TypeOK
<1>4. CASE Establish(c)
    BY <1>0, <1>4, MoveInv DEF Establish, tunnelVars, IInv, TypeOK
<1>5. CASE ResolveFails(c)
    <2>1. /\ pc[c] # "insert" /\ Reply(c, [ok |-> FALSE]) /\ left' \in [Conn -> Nat]
          /\ UNCHANGED <<running, gone, tunnels, listener, measured, exits>>
        BY <1>5 DEF ResolveFails, tunnelVars, IInv, TypeOK
    <2> QED
        BY <2>1, ReplyInv DEF Answer
<1>6. ASSUME Receive(c), NEW r \in Answer, Reply(c, r) PROVE IInv'
    <2>1. /\ pc[c] # "insert" /\ left' \in [Conn -> Nat]
          /\ UNCHANGED <<running, gone, tunnels, listener, measured, exits>>
        BY <1>6, ReceiveFacts
    <2> QED
        BY <1>6, <2>1, ReplyInv
<1>7. CASE Ping(c) \/ Refuse(c)
    BY <1>6, <1>7 DEF Ping, Refuse, Answer
<1>8. ASSUME NEW text \in Typed, Rtt(c, text) PROVE IInv'
    <2>1. PICK ps : Receive(c) /\ Reply(c, [ok |-> TRUE, rtt |-> ps \cap measured])
        BY <1>8 DEF Rtt
    <2>2. [ok |-> TRUE, rtt |-> ps \cap measured] \in Answer
        BY DEF Answer, IInv, TypeOK
    <2> QED
        BY <1>6, <2>1, <2>2
<1> QED
    BY <1>1, <1>2, <1>3, <1>4, <1>5, <1>7, <1>8

\* A listener is new on a port that was free: those that the map has are others.
LEMMA BindInv ==
    ASSUME IInv, NEW c \in Conn, NEW p \in Port, Bind(c, p)
    PROVE  IInv'
<1>1. PICK n \in name[c] :
        listener' = [listener EXCEPT ![p] = {[name |-> n, peer |-> PeerOf[n.keyid], by |-> c]}]
    BY DEF Bind
<1> DEFINE l0 == [name |-> n, peer |-> PeerOf[n.keyid], by |-> c]
<1>2. /\ pc[c] = "bind" /\ listener[p] = {}
      /\ bound' = [bound EXCEPT ![c] = {p}] /\ pc' = [pc EXCEPT ![c] = "insert"]
      /\ UNCHANGED <<running, name, left, gone, reply, tunnels, measured, exits>>
    BY DEF Bind
<1>3. n \in Name /\ name[c] = {n} /\ PeerOf[n.keyid] \in Peer
    BY NameFacts DEF IInv, TypeOK, TaskInv
<1>4. TypeOK'
    BY <1>1, <1>2, <1>3 DEF IInv, TypeOK, Busy
<1>5. TaskInv'
    BY <1>2 DEF IInv, TypeOK, TaskInv
<1>6. /\ \A q \in Port : q # p => listener'[q] = listener[q]
      /\ listener'[p] = {l0}
      /\ \A d \in Conn : d # c => pc'[d] = pc[d] /\ bound'[d] = bound[d]
      /\ pc'[c] = "insert" /\ bound'[c] = {p}
    BY <1>1, <1>2 DEF IInv, TypeOK
<1>7. \A q \in Port : \A l \in listener[q] : l.name \in Name /\ l.by \in Conn
    BY DEF IInv, TypeOK
\* c had no listener for n
<1>8. \A q \in Port : \A l \in listener[q] : ~(l.by = c /\ l.name = n)
    BY <1>2, <1>3 DEF IInv, ReuseInv
<1> HIDE DEF l0
<1>9. l0.by = c /\ l0.name = n /\ l0.peer = PeerOf[n.keyid]
    BY DEF l0
<1>10. ReuseInv'
    <2>1. ASSUME NEW d \in Conn, NEW q \in Port, NEW l \in listener'[q],
                 l.by = d, l.name \in name[d]
          PROVE  /\ pc'[d] \notin {"establish", "bind"}
                 /\ pc'[d] = "insert" => q \in bound'[d]
        <3>1. CASE d = c
            <4>1. l.name = n
                BY <1>3, <2>1, <3>1
            <4>2. q = p
                BY <1>6, <1>8, <2>1, <3>1, <4>1
            <4> QED
                BY <1>6, <3>1, <4>2
        <3>2. CASE d # c
            <4>1. q # p /\ l \in listener[q]
                BY <1>6, <1>9, <2>1, <3>2
            <4> QED
                BY <1>6, <2>1, <3>2, <4>1 DEF IInv, ReuseInv
        <3> QED
            BY <3>1, <3>2
    <2>2. ASSUME NEW q \in Port, NEW l \in listener'[q]
          PROVE  tunnels[to_string(l.name)] # {} \/ Inserting(l.by, l.name)'
        <3>1. CASE q = p
            BY <1>2, <1>3, <1>6, <1>9, <2>2, <3>1 DEF Inserting
        <3>2. CASE q # p
            <4>1. l \in listener[q] /\ l.by \in Conn
                BY <1>6, <1>7, <2>2, <3>2
            <4>2. tunnels[to_string(l.name)] # {} \/ Inserting(l.by, l.name)
                BY <4>1 DEF IInv, ReuseInv
            <4> QED
                BY <1>2, <1>6, <4>1, <4>2 DEF Inserting
        <3> QED
            BY <3>1, <3>2
    <2> QED
        BY <1>2, <2>1, <2>2 DEF ReuseInv
<1>11. ASSUME NEW q \in Port, NEW m \in Name, Serves(q, m) PROVE Serves(q, m)'
    BY <1>2, <1>6, <1>11 DEF Serves
<1>12. ServeInv'
    <2> SUFFICES ASSUME exits = 0 PROVE ServeInv'
        BY <1>2 DEF ServeInv
    <2>1. ASSUME NEW m \in Name, NEW e \in tunnels[to_string(m)]
          PROVE  e.peer = PeerOf[m.keyid] /\ Serves(e.port, m)'
        <3>1. e.port \in Port
            BY NameFacts, <2>1 DEF IInv, TypeOK, Tunnel
        <3> QED
            BY <1>11, <2>1, <3>1 DEF IInv, ServeInv
    <2>2. ASSUME NEW d \in Conn, NEW m \in Name, Inserting(d, m)', NEW q \in bound'[d]
          PROVE  Serves(q, m)'
        <3>1. CASE d = c
            <4>1. m = n /\ q = p
                BY <1>2, <1>3, <1>6, <2>2, <3>1 DEF Inserting
            <4> QED
                BY <1>6, <1>9, <4>1 DEF Serves
        <3>2. CASE d # c
            <4>1. Inserting(d, m) /\ q \in bound[d] /\ q \in Port
                BY <1>2, <1>6, <2>2, <3>2 DEF Inserting, IInv, TypeOK
            <4> QED
                BY <1>11, <4>1 DEF IInv, ServeInv
        <3> QED
            BY <3>1, <3>2
    <2> QED
        BY <1>2, <2>1, <2>2 DEF ServeInv
<1>13. OneTunnelPerCaller'
    <2> SUFFICES ASSUME NEW q \in Port, NEW r \in Port,
                        NEW l \in listener'[q], NEW m \in listener'[r],
                        l.by = m.by, l.name = m.name
                 PROVE  q = r
        BY DEF OneTunnelPerCaller
    <2>1. CASE q # p /\ r # p
        BY <1>6, <2>1 DEF IInv, OneTunnelPerCaller
    <2>2. CASE q = p /\ r # p
        BY <1>6, <1>8, <1>9, <2>2
    <2>3. CASE q # p /\ r = p
        BY <1>6, <1>8, <1>9, <2>3
    <2> QED
        BY <2>1, <2>2, <2>3
<1> QED
    BY <1>4, <1>5, <1>10, <1>12, <1>13 DEF IInv

\* Another request may have put a tunnel into the map: either way it leads to the
\* peer of the name.
LEMMA InsertInv ==
    ASSUME IInv, NEW c \in Conn, Insert(c)
    PROVE  IInv'
<1>1. PICK n \in name[c], p \in bound[c] :
        /\ tunnels' = [tunnels EXCEPT ![to_string(n)] = {[port |-> p, peer |-> PeerOf[n.keyid]]}]
        /\ Reply(c, PortReply(n, p))
    BY DEF Insert
<1> DEFINE e0 == [port |-> p, peer |-> PeerOf[n.keyid]]
<1>2. /\ pc[c] = "insert" /\ UNCHANGED <<running, left, gone, listener, measured, exits>>
      /\ pc'[c] \in {"closed", "reading"} /\ name'[c] = {} /\ bound'[c] = {}
      /\ \A d \in Conn : d # c => pc'[d] = pc[d] /\ name'[d] = name[d] /\ bound'[d] = bound[d]
    BY <1>1 DEF Insert, Reply, IInv, TypeOK
<1>3. /\ n \in Name /\ name[c] = {n} /\ PeerOf[n.keyid] \in Peer /\ to_string(n) \in MapKey
      /\ p \in Port
    BY NameFacts DEF IInv, TypeOK, TaskInv
<1>4. TypeOK'
    <2>1. tunnels' \in [MapKey -> SUBSET Tunnel]
        BY <1>1, <1>3 DEF IInv, TypeOK, Tunnel
    <2>2. /\ pc' \in [Conn -> {"new", "reading", "closed"} \cup Busy]
          /\ name' \in [Conn -> SUBSET Name] /\ bound' \in [Conn -> SUBSET Port]
        BY <1>1, <1>3 DEF Reply, IInv, TypeOK
    <2>3. PortReply(n, p) \in Answer
        BY <1>3 DEF PortReply, Answer
    <2>4. reply' \in [Conn -> SUBSET Answer]
        BY <1>1, <2>3 DEF Reply, IInv, TypeOK
    <2> QED
        BY <1>2, <2>1, <2>2, <2>4 DEF IInv, TypeOK
<1>5. TaskInv'
    BY <1>2 DEF IInv, TaskInv
<1>6. /\ tunnels'[to_string(n)] = {e0}
      /\ \A m \in Name : m # n => tunnels'[to_string(m)] = tunnels[to_string(m)]
    <2>1. tunnels'[to_string(n)] = {e0}
        BY <1>1, <1>3 DEF IInv, TypeOK
    <2>2. \A m \in Name : m # n => to_string(m) # to_string(n)
        BY <1>3, PrintedDiffer
    <2>3. \A m \in Name : to_string(m) \in MapKey
        BY NameFacts
    <2> QED
        BY <1>1, <2>1, <2>2, <2>3 DEF IInv, TypeOK
<1> HIDE DEF e0
<1>7. e0.port = p /\ e0.peer = PeerOf[n.keyid]
    BY DEF e0
<1>8. \A q \in Port : \A l \in listener[q] : l.name \in Name /\ l.by \in Conn
    BY DEF IInv, TypeOK
<1>9. \A q, m : Serves(q, m)' <=> Serves(q, m)
    BY <1>2 DEF Serves
<1>10. ReuseInv'
    <2>1. ASSUME NEW d \in Conn, NEW q \in Port, NEW l \in listener[q],
                 l.by = d, l.name \in name'[d]
          PROVE  /\ pc'[d] \notin {"establish", "bind"}
                 /\ pc'[d] = "insert" => q \in bound'[d]
        BY <1>2, <2>1 DEF IInv, ReuseInv
    <2>2. ASSUME NEW q \in Port, NEW l \in listener[q]
          PROVE  tunnels'[to_string(l.name)] # {} \/ Inserting(l.by, l.name)'
        <3>1. l.name \in Name /\ l.by \in Conn
            BY <1>8
        <3>2. tunnels[to_string(l.name)] # {} \/ Inserting(l.by, l.name)
            BY DEF IInv, ReuseInv
        <3>3. CASE l.name = n
            BY <1>6, <3>3
        <3>4. CASE l.name # n
            BY <1>2, <1>3, <1>6, <3>1, <3>2, <3>4 DEF Inserting
        <3> QED
            BY <3>3, <3>4
    <2> QED
        BY <1>2, <2>1, <2>2 DEF ReuseInv
<1>11. ServeInv'
    <2> SUFFICES ASSUME exits = 0 PROVE ServeInv'
        BY <1>2 DEF ServeInv
    <2>1. Serves(p, n)
        BY <1>2, <1>3 DEF IInv, ServeInv, Inserting
    <2>2. ASSUME NEW m \in Name, NEW e \in tunnels'[to_string(m)]
          PROVE  e.peer = PeerOf[m.keyid] /\ Serves(e.port, m)'
        <3>1. CASE m = n
            BY <1>6, <1>7, <1>9, <2>1, <2>2, <3>1
        <3>2. CASE m # n
            BY <1>6, <1>9, <2>2, <3>2 DEF IInv, ServeInv
        <3> QED
            BY <3>1, <3>2
    <2>3. ASSUME NEW d \in Conn, NEW m \in Name, Inserting(d, m)', NEW q \in bound'[d]
          PROVE  Serves(q, m)'
        <3>1. d # c /\ Inserting(d, m) /\ q \in bound[d]
            BY <1>2, <2>3 DEF Inserting
        <3> QED
            BY <1>9, <3>1 DEF IInv, ServeInv
    <2> QED
        BY <2>2, <2>3 DEF ServeInv
<1>12. OneTunnelPerCaller'
    BY <1>2 DEF IInv, OneTunnelPerCaller
<1> QED
    BY <1>4, <1>5, <1>10, <1>11, <1>12 DEF IInv

\* From here on the map is no longer right, but what is left is reused.
LEMMA ExitInv ==
    ASSUME IInv, NEW p \in Port, ListenerExits(p)
    PROVE  IInv'
<1>1. /\ exits' = exits + 1 /\ listener' = [listener EXCEPT ![p] = {}]
      /\ UNCHANGED <<running, pc, name, bound, left, gone, reply, tunnels, measured>>
    BY DEF ListenerExits, connVars
<1>2. TypeOK'
    BY <1>1 DEF IInv, TypeOK
<1>3. \A q \in Port : listener'[q] \subseteq listener[q]
    BY <1>1 DEF IInv, TypeOK
<1>4. TaskInv'
    BY <1>1 DEF IInv, TaskInv
<1>5. ReuseInv'
    BY <1>1, <1>3 DEF IInv, ReuseInv, Inserting
<1>6. ServeInv'
    BY <1>1 DEF ServeInv, IInv, TypeOK
<1>7. OneTunnelPerCaller'
    BY <1>3 DEF IInv, OneTunnelPerCaller
<1> QED
    BY <1>2, <1>4, <1>5, <1>6, <1>7 DEF IInv

LEMMA StopInv ==
    ASSUME IInv, Stop
    PROVE  IInv'
<1>1. /\ running' = FALSE /\ pc' = [c \in Conn |-> "closed"]
      /\ tunnels' = [k \in MapKey |-> {}] /\ listener' = [p \in Port |-> {}]
      /\ measured' = {} /\ UNCHANGED <<name, bound, left, gone, reply, exits>>
    BY DEF Stop
<1>2. TypeOK'
    BY <1>1 DEF IInv, TypeOK
<1>3. TaskInv'
    BY <1>1 DEF IInv, TaskInv
<1>4. ReuseInv' /\ OneTunnelPerCaller'
    BY <1>1 DEF ReuseInv, OneTunnelPerCaller
<1>5. ServeInv'
    BY <1>1, NameFacts DEF ServeInv, Inserting
<1> QED
    BY <1>2, <1>3, <1>4, <1>5 DEF IInv

LEMMA NextInv == IInv /\ [Next]_vars => IInv'
<1> SUFFICES ASSUME IInv, [Next]_vars PROVE IInv'
    OBVIOUS
<1>1. CASE UNCHANGED vars
    <2>1. TypeOK'
        BY <1>1 DEF vars, IInv, TypeOK
    <2> QED
        BY <1>1, <2>1, SameTasks DEF vars
<1>2. ASSUME NEW c \in Conn,
             \/ Connect(c) \/ HangUp(c) \/ Exhausted(c)
             \/ Ping(c) \/ Refuse(c)
             \/ \E text \in Typed : Rtt(c, text) \/ Resolve(c, text)
             \/ Lookup(c) \/ Establish(c) \/ ResolveFails(c) \/ Insert(c)
             \/ \E p \in Port : Bind(c, p)
      PROVE  IInv'
    BY <1>2, ConnectionInv, ResolveInv, LookupInv, InsertInv, BindInv
<1>3. ASSUME NEW p \in Port, ListenerExits(p) PROVE IInv'
    BY <1>3, ExitInv
<1>4. ASSUME NEW peer \in Peer, Measured(peer) \/ Disconnected(peer) PROVE IInv'
    <2>1. measured' \subseteq Peer
        BY <1>4 DEF Measured, Disconnected, IInv, TypeOK
    <2>2. UNCHANGED <<running, connVars, tunnelVars>>
        BY <1>4 DEF Measured, Disconnected
    <2>3. TypeOK'
        BY <2>1, <2>2 DEF connVars, tunnelVars, IInv, TypeOK
    <2> QED
        BY <2>2, <2>3, SameTasks DEF connVars, tunnelVars
<1>5. CASE Stop
    BY <1>5, StopInv
<1> QED
    BY <1>1, <1>2, <1>3, <1>4, <1>5 DEF Next

LEMMA InvHolds == Spec => []IInv
BY InitInv, NextInv, PTL DEF Spec

-----------------------------------------------------------------------------
(* Theorems *)

\* The state of the agent keeps its type, and no connection is served more requests
\* than its input limit allows.  (serve_conn)
THEOREM TypeCorrect == Spec => []TypeOK
<1>1. IInv => TypeOK
    BY DEF IInv
<1> QED
    BY <1>1, InvHolds, PTL

\* As long as no listener has ended, every port in the map is listened on and leads
\* to the peer that the text it is filed under commits to, however many requests
\* race between lookup and insertion.  (resolve_and_tunnel and its map)
THEOREM MapIsSound == Spec => []MapSound
<1>1. IInv => MapSound
    <2> SUFFICES ASSUME IInv, exits = 0, NEW k \in MapKey, NEW e \in tunnels[k]
                 PROVE  \E l \in listener[e.port], n \in parse(k) :
                            l.peer = PeerOf[n.keyid] /\ e.peer = PeerOf[n.keyid]
        BY DEF MapSound
    <2>1. PICK n \in Name : k = to_string(n)
        BY DEF MapKey
    <2>2. n \in parse(k)
        BY <2>1, RoundTrip
    <2>3. e.peer = PeerOf[n.keyid] /\ Serves(e.port, n)
        BY <2>1 DEF IInv, ServeInv
    <2> QED
        BY <2>2, <2>3 DEF Serves
<1> QED
    BY <1>1, InvHolds, PTL

\* A client that resolves a name again on its connection, however it spells it and
\* whatever the others do, gets the tunnel it has.  (the lookup in resolve_and_tunnel)
THEOREM TunnelsAreReused == Spec => []OneTunnelPerCaller
<1>1. IInv => OneTunnelPerCaller
    BY DEF IInv
<1> QED
    BY <1>1, InvHolds, PTL

\* A port that is answered, from the map or freshly bound, is one on which a listener
\* leads to the peer of the name, as long as no listener has ended.
\* (both returns of resolve_and_tunnel)
THEOREM AnsweredPortServes == Spec => PortServes
<1> DEFINE Step == exits' = 0 => \A c \in Conn : \A r \in reply'[c] \ reply[c] :
                        "port" \in DOMAIN r => Serves(r.port, r.name)'
<1>1. IInv /\ [Next]_vars => [Step]_vars
    <2> SUFFICES ASSUME IInv, Next, exits' = 0, NEW d \in Conn,
                        NEW r \in reply'[d] \ reply[d], "port" \in DOMAIN r
                 PROVE  Serves(r.port, r.name)'
        OBVIOUS
    <2>1. reply' # reply
        OBVIOUS
    <2>2. ASSUME NEW c \in Conn, NEW a, Reply(c, a) PROVE r = a /\ d = c
        BY <2>2 DEF Reply, IInv, TypeOK
    <2>3. ASSUME NEW c \in Conn, Lookup(c) PROVE Serves(r.port, r.name)'
        <3>1. PICK n \in name[c] : \E e \in tunnels[to_string(n)] : Reply(c, PortReply(n, e.port))
            BY <2>1, <2>3 DEF Lookup
        <3>2. PICK e \in tunnels[to_string(n)] : Reply(c, PortReply(n, e.port))
            BY <3>1
        <3>3. r.port = e.port /\ r.name = n
            BY <2>2, <3>2 DEF PortReply
        <3>4. exits = 0 /\ listener' = listener
            BY <2>3 DEF Lookup, tunnelVars
        <3>5. Serves(e.port, n)
            BY <3>2, <3>4 DEF IInv, TypeOK, ServeInv
        <3> QED
            BY <3>3, <3>4, <3>5 DEF Serves
    <2>4. ASSUME NEW c \in Conn, Insert(c) PROVE Serves(r.port, r.name)'
        <3>1. PICK n \in name[c], p \in bound[c] : Reply(c, PortReply(n, p))
            BY <2>4 DEF Insert
        <3>2. r.port = p /\ r.name = n
            BY <2>2, <3>1 DEF PortReply
        <3>3. exits = 0 /\ listener' = listener /\ Inserting(c, n) /\ n \in Name
            BY <2>4, <3>1 DEF Insert, Inserting, IInv, TypeOK
        <3>4. Serves(p, n)
            BY <3>3 DEF IInv, ServeInv
        <3> QED
            BY <3>2, <3>3, <3>4 DEF Serves
    <2>5. ASSUME NEW c \in Conn, Ping(c) \/ Refuse(c) \/ ResolveFails(c) \/ \E text \in Typed : Rtt(c, text) \/ Resolve(c, text)
          PROVE  FALSE
        <3>1. ASSUME NEW b \in BOOLEAN, Reply(c, [ok |-> b]) PROVE FALSE
            <4>1. r = [ok |-> b]
                BY <2>2, <3>1
            <4>2. DOMAIN r = {"ok"}
                BY <4>1
            <4> QED
                BY <4>2
        <3>2. ASSUME NEW ps, Reply(c, [ok |-> TRUE, rtt |-> ps]) PROVE FALSE
            <4>1. r = [ok |-> TRUE, rtt |-> ps]
                BY <2>2, <3>2
            <4>2. DOMAIN r = {"ok", "rtt"}
                BY <4>1
            <4> QED
                BY <4>2
        <3>3. reply' # [reply EXCEPT ![c] = {}]
            BY DEF IInv, TypeOK
        <3> QED
            BY <2>5, <3>1, <3>2, <3>3 DEF Ping, Refuse, ResolveFails, Rtt, Resolve
    <2>6. ASSUME NEW c \in Conn, Connect(c) \/ HangUp(c) \/ Exhausted(c) \/ Establish(c) \/ \E p \in Port : Bind(c, p)
          PROVE  FALSE
        BY <2>1, <2>6 DEF Connect, HangUp, Exhausted, Establish, Bind
    <2>7. ASSUME \/ \E p \in Port : ListenerExits(p)
                 \/ \E peer \in Peer : Measured(peer) \/ Disconnected(peer)
                 \/ Stop
          PROVE  FALSE
        BY <2>1, <2>7 DEF ListenerExits, Measured, Disconnected, Stop, connVars
    <2> QED
        BY <2>3, <2>4, <2>5, <2>6, <2>7 DEF Next
<1> QED
    BY <1>1, InvHolds, PTL DEF Spec, PortServes
=============================================================================
