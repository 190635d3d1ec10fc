------------------------------- MODULE Proxy --------------------------------
(***************************************************************************)
(* The accept loop of the tunnel proxy and the tasks it spawns:            *)
(* crates/proxy/src/lib.rs.  run_publish (inbound streams to the local     *)
(* server) and run_connect (local connections to an outbound stream) are   *)
(* the same loop; "opening" is TcpStream::connect in one and open_stream   *)
(* in the other, and the ends of a tunnel are "tcp" and "p2p" in both.     *)
(*                                                                         *)
(* The loop and the tasks run on a multi-threaded runtime, so a task may   *)
(* run between the loop's load of `live' and its fetch_add.                *)
(*                                                                         *)
(* Time advances in ticks, TicksPerSec to the second; tokens are counted   *)
(* in 1/TicksPerSec of a token, so that a refill of `capacity' tokens a    *)
(* second is `capacity' units a tick and all amounts are integers (the     *)
(* rounding of f64 is left out).                                           *)
(***************************************************************************)
EXTENDS Integers, Sequences, FiniteSets

CONSTANTS
    Conn,         \* the connections that may arrive
    MaxConns,     \* max_conns
    ConnRate,     \* new_conn_per_sec
    TicksPerSec,  \* resolution of time
    MaxTime       \* bound: ticks in a run

ASSUME ProxyAssumption ==
    /\ IsFiniteSet(Conn)
    /\ MaxConns \in Nat /\ ConnRate \in Nat /\ MaxTime \in Nat
    /\ TicksPerSec \in Nat \ {0}

VARIABLES
    now,     \* ticks
    tokens,  \* RateLimiter::tokens, in units
    last,    \* RateLimiter::last
    pc,      \* where the accept loop is
    cur,     \* the connection it is dealing with: {} or {c}
    live,    \* the shared counter of open tunnels
    conn,    \* [Conn -> state]
    eof,     \* [Conn -> subset of Ends]: ends that have closed their side
    admits   \* history: when the limiter said yes

limiter == <<tokens, last, admits>>
vars == <<now, tokens, last, pc, cur, live, conn, eof, admits>>

Ends == {"tcp", "p2p"}

\* States in which a connection has a task and a slot.
Running == {"opening", "up", "closing"}

capacity == IF ConnRate >= 1 THEN ConnRate ELSE 1

Full == capacity * TicksPerSec

Init ==
    /\ now = 0
    /\ tokens = Full
    /\ last = 0
    /\ pc = "accept"
    /\ cur = {}
    /\ live = 0
    /\ conn = [c \in Conn |-> "waiting"]
    /\ eof = [c \in Conn |-> {}]
    /\ admits = <<>>

Tick ==
    /\ now < MaxTime
    /\ now' = now + 1
    /\ UNCHANGED <<limiter, pc, cur, live, conn, eof>>

-----------------------------------------------------------------------------
(* The accept loop *)

\* A slip: a refill that is not capped.
RefilledUncapped == tokens + (now - last) * capacity

\* tokens after the refill that every call of allow() starts with.
Refilled ==
    LET filled == tokens + (now - last) * capacity
    IN  IF filled < Full THEN filled ELSE Full

\* A slip: part of a token is enough.
AllowFraction(yes) ==
    /\ yes = (Refilled > 0)
    /\ last' = now
    /\ tokens' = IF yes THEN Refilled - TicksPerSec ELSE Refilled
    /\ admits' = IF yes THEN Append(admits, now) ELSE admits

\* allow(): the refill is kept whether or not a token is spent.
Allow(yes) ==
    /\ yes = (Refilled >= TicksPerSec)
    /\ last' = now
    /\ tokens' = IF yes THEN Refilled - TicksPerSec ELSE Refilled
    /\ admits' = IF yes THEN Append(admits, now) ELSE admits

\* The next connection is taken and the limiter asked; over the rate it is
\* dropped.
Accept(c) ==
    /\ pc = "accept"
    /\ conn[c] = "waiting"
    /\ \/ /\ Allow(TRUE)
          /\ pc' = "load" /\ cur' = {c}
          /\ UNCHANGED conn
       \/ /\ Allow(FALSE)
          /\ conn' = [conn EXCEPT ![c] = "dropped"]
          /\ UNCHANGED <<pc, cur>>
    /\ UNCHANGED <<now, live, eof>>

\* A slip: one tunnel too many.
PastCap == live > MaxConns

AtCap == live >= MaxConns

\* live.load() and the comparison with the cap; the token stays spent.
CheckCap(c) ==
    /\ pc = "load" /\ c \in cur
    /\ \/ /\ AtCap
          /\ conn' = [conn EXCEPT ![c] = "dropped"]
          /\ pc' = "accept" /\ cur' = {}
       \/ /\ ~AtCap
          /\ pc' = "spawn"
          /\ UNCHANGED <<conn, cur>>
    /\ UNCHANGED <<now, limiter, live, eof>>

\* live.fetch_add(1) and tokio::spawn.
Spawn(c) ==
    /\ pc = "spawn" /\ c \in cur
    /\ live' = live + 1
    /\ conn' = [conn EXCEPT ![c] = "opening"]
    /\ pc' = "accept" /\ cur' = {}
    /\ UNCHANGED <<now, limiter, eof>>

\* The loop ends: run_publish when no more streams can come, run_connect on
\* an error of accept().  The tasks already spawned go on.
Stop ==
    /\ pc = "accept"
    /\ pc' = "stopped"
    /\ UNCHANGED <<now, limiter, cur, live, conn, eof>>

-----------------------------------------------------------------------------
(* A connection's task *)

Opened(c) ==
    /\ conn[c] = "opening"
    /\ conn' = [conn EXCEPT ![c] = "up"]
    /\ UNCHANGED <<now, limiter, pc, cur, live, eof>>

\* A slip: the early return forgets the slot.
OpenFailedLeaks(c) ==
    /\ conn[c] = "opening"
    /\ conn' = [conn EXCEPT ![c] = "done"]
    /\ UNCHANGED <<now, limiter, pc, cur, live, eof>>

OpenFailed(c) ==
    /\ conn[c] = "opening"
    /\ conn' = [conn EXCEPT ![c] = "closing"]
    /\ UNCHANGED <<now, limiter, pc, cur, live, eof>>

\* splice: copy_bidirectional returns once both directions have ended (each
\* end has closed its side and that has been passed on)...
SpliceEnds(c) ==
    /\ conn[c] = "up"
    /\ eof[c] = Ends
    /\ conn' = [conn EXCEPT ![c] = "closing"]
    /\ UNCHANGED <<now, limiter, pc, cur, live, eof>>

\* A slip: an error of splice leaves the task before its last line.
SpliceFailsLeaks(c) ==
    /\ conn[c] = "up"
    /\ conn' = [conn EXCEPT ![c] = "done"]
    /\ UNCHANGED <<now, limiter, pc, cur, live, eof>>

\* ... or as soon as a read or a write fails.
SpliceFails(c) ==
    /\ conn[c] = "up"
    /\ conn' = [conn EXCEPT ![c] = "closing"]
    /\ UNCHANGED <<now, limiter, pc, cur, live, eof>>

\* live.fetch_sub(1), the last thing every task does.
Finish(c) ==
    /\ conn[c] = "closing"
    /\ conn' = [conn EXCEPT ![c] = "done"]
    /\ live' = live - 1
    /\ UNCHANGED <<now, limiter, pc, cur, eof>>

\* The program at one end of the tunnel closes its side.
Close(c, end) ==
    /\ conn[c] \in {"opening", "up"}
    /\ end \notin eof[c]
    /\ eof' = [eof EXCEPT ![c] = @ \cup {end}]
    /\ UNCHANGED <<now, limiter, pc, cur, live, conn>>

-----------------------------------------------------------------------------

Next ==
    \/ Tick
    \/ Stop
    \/ \E c \in Conn :
        \/ Accept(c) \/ CheckCap(c) \/ Spawn(c)
        \/ Opened(c) \/ OpenFailed(c) \/ SpliceEnds(c) \/ SpliceFails(c)
        \/ Finish(c)
        \/ \E end \in Ends : Close(c, end)

Spec == Init /\ [][Next]_vars

\* The runtime runs every task and the loop; an attempt to open a stream or a
\* connection ends one way or the other.  Nothing is assumed of the programs
\* at the ends of a tunnel.
TaskFairness ==
    \A c \in Conn :
        /\ WF_vars(CheckCap(c)) /\ WF_vars(Spawn(c))
        /\ WF_vars(Opened(c) \/ OpenFailed(c))
        /\ WF_vars(SpliceEnds(c)) /\ WF_vars(Finish(c))

FairSpec == Spec /\ TaskFairness

\* Both programs eventually close their side of a tunnel.
PeersClose == \A c \in Conn, end \in Ends : WF_vars(Close(c, end))

ClosingSpec == FairSpec /\ PeersClose

-----------------------------------------------------------------------------
(* Properties *)

\* Type invariant.  Beyond the shapes: allow() never overdraws the bucket.
TypeOK ==
    /\ now \in Nat
    /\ tokens \in Nat
    /\ last \in Nat /\ last <= now
    /\ pc \in {"accept", "load", "spawn", "stopped"}
    /\ cur \in SUBSET Conn
    /\ live \in Int
    /\ conn \in [Conn -> {"waiting", "dropped", "done"} \cup Running]
    /\ eof \in [Conn -> SUBSET Ends]
    /\ admits \in Seq(Nat)

Active == {c \in Conn : conn[c] \in Running}

\* Slot accounting: the counter is the number of tasks that are running, on
\* every path a task can take - so no slot leaks and none is freed twice.
LiveCountsTasks == live = Cardinality(Active)

\* Never more than max_conns tunnels at once, although the counter may have
\* changed between the loop's load and its fetch_add.
CapHolds == Cardinality(Active) <= MaxConns

\* The limiter's promise over any stretch of time: from its i-th admission to
\* its j-th it lets through one burst plus what the rate allows in between.
RateHolds ==
    \A i, j \in 1 .. Len(admits) : i <= j =>
        (j - i + 1) * TicksPerSec <= Full + capacity * (admits[j] - admits[i])

\* When the programs at the ends close, every slot is given back for good
\* (the fetch_sub is reached on every path of the task).
SlotsReturn == <>[](live = 0)

-----------------------------------------------------------------------------
(* The inductive invariant behind CapHolds and RateHolds *)

\* A connection the loop holds has no task yet; past the check there is room.
LoopInv ==
    /\ \A c \in cur : conn[c] = "waiting"
    /\ \A c, d \in cur : c = d
    /\ pc \in {"load", "spawn"} => cur # {}
    /\ pc \in {"accept", "stopped"} => cur = {}
    /\ live <= MaxConns
    /\ pc = "spawn" => live < MaxConns

\* What any admission leaves of its allowance up to the last call is in the
\* bucket.
BucketInv ==
    /\ tokens <= Full
    /\ \A i \in 1 .. Len(admits) :
         /\ admits[i] <= last
         /\ (Len(admits) - i + 1) * TicksPerSec + tokens
              <= Full + capacity * (last - admits[i])

IInv == TypeOK /\ LiveCountsTasks /\ LoopInv /\ BucketInv /\ RateHolds
=============================================================================
