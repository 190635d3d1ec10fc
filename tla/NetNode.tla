------------------------------ MODULE NetNode -------------------------------
(***************************************************************************)
(* The network task of crates/net/src/node.rs and those who use it through *)
(* a NetHandle: resolvers (resolve and establish of crates/cli/src/        *)
(* tunnel.rs) and publishers (the loop of publish).  A request goes through*)
(* a bounded channel to the event loop; a put or a get starts a kad query, *)
(* whose events the loop matches with the caller that waits for them.      *)
(*                                                                         *)
(* kad is external: a query reports records it found, one event each, and  *)
(* then exactly one last event, at the latest when its timeout has passed. *)
(* A task has one request open at a time, so a query is known by the task  *)
(* it was started for.  Time stands still while there is work for the loop *)
(* or for a task.                                                          *)
(***************************************************************************)
EXTENDS Integers, Sequences, FiniteSets

CONSTANTS
    Resolver, Publisher,   \* the tasks that hold a handle
    Good,                  \* records that verify for the name in question
    Bad,                   \* other records of acceptable size
    Huge,                  \* records of more than MAX_RECORD_BYTES
    Capacity,              \* commands the channel holds (64)
    ResolveTimeout,        \* RESOLVE_TIMEOUT (45 s)
    Pause,                 \* between two attempts (2 s)
    QueryTimeout,          \* of kad (60 s)
    MaxFound,              \* bound: records a query finds
    MaxAddrs               \* bound: addresses a record carries

ASSUME NetNodeAssumption ==
    /\ Resolver \cap Publisher = {}
    /\ Capacity \in Nat \ {0}
    /\ {ResolveTimeout, Pause, QueryTimeout} \subseteq Nat \ {0}
    /\ {MaxFound, MaxAddrs} \subseteq Nat

Task == Resolver \cup Publisher
Small == Good \cup Bad
Kind == {"get", "put", "dial", "doctor"}
Other == {"ok", "err"}

VARIABLES
    at,      \* [Task -> where it is]
    op,      \* [Task -> kind of its last request]
    reply,   \* [Task -> what was sent to its oneshot channel]
    age,     \* [Task -> time since resolve was called]
    wake,    \* [Task -> time left of its pause]
    todo,    \* [Task -> addresses still to be dialled]
    queue,   \* the channel: commands [by, kind]
    pendingPut,   \* pending_put: the tasks with an entry
    pendingGet,   \* pending_get: [Task -> {} or {the records so far}]
    query,   \* kad: [Task -> "none", "get" or "put"]
    left,    \* kad: [Task -> time left of its query]
    events,  \* kad: events for the loop, [id, kind, value]
    found,   \* history: [Task -> acceptable records reported for its request]
    count    \* bound: [Task -> records its query has reported]

callers == <<at, op, reply, age, wake, todo>>
kad == <<query, left, found, count>>
pending == <<pendingPut, pendingGet>>
vars == <<at, op, reply, age, wake, todo, queue, pendingPut, pendingGet,
          query, left, events, found, count>>

Init ==
    /\ at = [t \in Task |-> "idle"]
    /\ op = [t \in Task |-> IF t \in Resolver THEN "get" ELSE "doctor"]
    /\ reply = [t \in Task |-> {}]
    /\ age = [t \in Task |-> 0]
    /\ wake = [t \in Task |-> 0]
    /\ todo = [t \in Task |-> 0]
    /\ queue = <<>>
    /\ pendingPut = {}
    /\ pendingGet = [t \in Task |-> {}]
    /\ query = [t \in Task |-> "none"]
    /\ left = [t \in Task |-> 0]
    /\ events = <<>>
    /\ found = [t \in Task |-> {}]
    /\ count = [t \in Task |-> 0]

-----------------------------------------------------------------------------
(* The handle *)

\* A request is made: its command goes to the channel when there is room.
Request(t, k) ==
    /\ at' = [at EXCEPT ![t] = "call"]
    /\ op' = [op EXCEPT ![t] = k]
    /\ reply' = [reply EXCEPT ![t] = {}]
    /\ found' = [found EXCEPT ![t] = {}]
    /\ UNCHANGED <<queue, pending, query, left, events, count>>

Enqueue(t) ==
    /\ at[t] = "call"
    /\ Len(queue) < Capacity
    /\ queue' = Append(queue, [by |-> t, kind |-> op[t]])
    /\ at' = [at EXCEPT ![t] = "wait"]
    /\ UNCHANGED <<op, reply, age, wake, todo, pending, kad, events>>

\* The oneshot channel: what is sent to a task that is gone is dropped.
Respond(t, r) ==
    IF at[t] = "wait"
    THEN /\ at' = [at EXCEPT ![t] = "answered"]
         /\ reply' = [reply EXCEPT ![t] = r]
    ELSE UNCHANGED <<at, reply>>

-----------------------------------------------------------------------------
(* The event loop: commands *)

StartQuery(t, k) ==
    /\ query' = [query EXCEPT ![t] = k]
    /\ left' = [left EXCEPT ![t] = QueryTimeout]
    /\ count' = [count EXCEPT ![t] = 0]
    /\ UNCHANGED <<at, reply, found>>

\* kad may refuse a put at once, its store being full.
PutRecord(t) ==
    /\ \/ StartQuery(t, "put") /\ pendingPut' = pendingPut \cup {t}
       \/ Respond(t, {"err"}) /\ UNCHANGED <<pendingPut, kad>>
    /\ UNCHANGED pendingGet

GetRecord(t) ==
    /\ StartQuery(t, "get")
    /\ pendingGet' = [pendingGet EXCEPT ![t] = {{}}]
    /\ UNCHANGED pendingPut

\* Answered on the spot: whether the dial could be started, and whether there
\* are addresses to advertise.
DialOrDoctor(t) ==
    /\ \E r \in Other : Respond(t, {r})
    /\ UNCHANGED <<pending, kad>>

handle_command ==
    /\ queue # <<>>
    /\ LET c == Head(queue)
       IN  \/ c.kind = "put" /\ PutRecord(c.by)
           \/ c.kind = "get" /\ GetRecord(c.by)
           \/ c.kind \in {"dial", "doctor"} /\ DialOrDoctor(c.by)
    /\ queue' = Tail(queue)
    /\ UNCHANGED <<op, age, wake, todo, events>>

-----------------------------------------------------------------------------
(* kad *)

Emit(t, k, v) == events' = Append(events, [id |-> t, kind |-> k, value |-> v])

\* A peer has answered with a record.
FindRecord(t, v) ==
    /\ query[t] = "get"
    /\ left[t] > 0 /\ count[t] < MaxFound
    /\ Emit(t, "found", v)
    /\ count' = [count EXCEPT ![t] = @ + 1]
    /\ found' = IF at[t] = "wait" /\ v \in Small
                THEN [found EXCEPT ![t] = @ \cup {v}] ELSE found
    /\ UNCHANGED <<callers, queue, pending, query, left>>

\* The last event of a query; a put may have failed, and a get that did (a
\* timeout, nothing found) ends like one that did not.
EndQuery(t, r) ==
    /\ query[t] # "none"
    /\ Emit(t, IF query[t] = "get" /\ r = "err" THEN "failed" ELSE query[t], r)
    /\ query' = [query EXCEPT ![t] = "none"]
    /\ left' = [left EXCEPT ![t] = 0]
    /\ count' = [count EXCEPT ![t] = 0]
    /\ UNCHANGED <<callers, queue, pending, found>>

-----------------------------------------------------------------------------
(* The event loop: results of queries *)

PutDone(e) ==
    /\ IF e.id \in pendingPut
       THEN Respond(e.id, {e.value})
       ELSE UNCHANGED <<at, reply>>
    /\ pendingPut' = pendingPut \ {e.id}
    /\ UNCHANGED pendingGet

\* A slip: records of any size are kept.
FoundAny(e) ==
    /\ pendingGet' = [pendingGet EXCEPT ![e.id] = {acc \cup {e.value} : acc \in @}]
    /\ UNCHANGED <<at, reply, pendingPut>>

\* A slip: the first record found is handed back.
FoundFirst(e) ==
    /\ \/ /\ pendingGet[e.id] # {} /\ e.value \in Small
          /\ Respond(e.id, {e.value})
          /\ pendingGet' = [pendingGet EXCEPT ![e.id] = {}]
       \/ /\ pendingGet[e.id] = {} \/ e.value \notin Small
          /\ UNCHANGED <<at, reply, pendingGet>>
    /\ UNCHANGED pendingPut

\* Every record of acceptable size is kept; the query goes on.
FoundRecord(e) ==
    /\ pendingGet' =
        IF e.value \in Small
        THEN [pendingGet EXCEPT ![e.id] = {acc \cup {e.value} : acc \in @}]
        ELSE pendingGet
    /\ UNCHANGED <<at, reply, pendingPut>>

\* A slip: the entry stays after the answer.
GetDoneKept(e) ==
    /\ \/ \E acc \in pendingGet[e.id] : Respond(e.id, acc)
       \/ pendingGet[e.id] = {} /\ UNCHANGED <<at, reply>>
    /\ UNCHANGED pending

\* Whatever has been collected is handed back, whichever event was the last.
GetDone(e) ==
    /\ \/ \E acc \in pendingGet[e.id] : Respond(e.id, acc)
       \/ pendingGet[e.id] = {} /\ UNCHANGED <<at, reply>>
    /\ pendingGet' = [pendingGet EXCEPT ![e.id] = {}]
    /\ UNCHANGED pendingPut

handle_kad_result ==
    /\ events # <<>>
    /\ LET e == Head(events)
       IN  \/ e.kind = "put" /\ PutDone(e)
           \/ e.kind = "found" /\ FoundRecord(e)
           \/ e.kind \in {"get", "failed"} /\ GetDone(e)
    /\ events' = Tail(events)
    /\ UNCHANGED <<op, age, wake, todo, queue, kad>>

-----------------------------------------------------------------------------
(* Resolvers *)

\* resolve is called: its deadline is fixed and the first get made.
Resolve(t) ==
    /\ t \in Resolver /\ at[t] = "idle"
    /\ Request(t, "get")
    /\ age' = [age EXCEPT ![t] = 0]
    /\ UNCHANGED <<wake, todo>>

Answered(t, k) == at[t] = "answered" /\ op[t] = k

\* A task stops waiting, to pause or because it is through.
Rest(t, where, pause) ==
    /\ at' = [at EXCEPT ![t] = where]
    /\ wake' = [wake EXCEPT ![t] = pause]
    /\ reply' = [reply EXCEPT ![t] = {}]
    /\ found' = [found EXCEPT ![t] = {}]
    /\ UNCHANGED <<op, todo, queue, pending, query, left, events, count>>

\* A record verifies: establish dials the addresses in it, one after the other.
Establish(t, n) ==
    /\ Answered(t, "get")
    /\ reply[t] \cap Good # {}
    /\ \/ n > 0 /\ Request(t, "dial") /\ todo' = [todo EXCEPT ![t] = n - 1] /\ UNCHANGED wake
       \/ n = 0 /\ Rest(t, "idle", 0)
    /\ age' = [age EXCEPT ![t] = 0]

\* Whether a dial could be started makes no difference.
Dialled(t) ==
    /\ Answered(t, "dial")
    /\ \/ todo[t] > 0 /\ Request(t, "dial") /\ todo' = [todo EXCEPT ![t] = @ - 1] /\ UNCHANGED wake
       \/ todo[t] = 0 /\ Rest(t, "idle", 0)
    /\ UNCHANGED age

\* None verifies and the deadline has passed.
ResolveFails(t) ==
    /\ Answered(t, "get")
    /\ reply[t] \cap Good = {} /\ age[t] >= ResolveTimeout
    /\ Rest(t, "idle", 0)
    /\ age' = [age EXCEPT ![t] = 0]

\* A slip: the deadline counts from the attempt.
RetryAnew(t) ==
    /\ Answered(t, "get")
    /\ reply[t] \cap Good = {} /\ age[t] < ResolveTimeout
    /\ Rest(t, "pause", Pause)
    /\ age' = [age EXCEPT ![t] = 0]

\* A slip: the deadline is not looked at.
RetryAlways(t) ==
    /\ Answered(t, "get")
    /\ reply[t] \cap Good = {}
    /\ Rest(t, "pause", Pause)
    /\ UNCHANGED age

\* None verifies and there is time: a pause, and the next attempt.
Retry(t) ==
    /\ Answered(t, "get")
    /\ reply[t] \cap Good = {} /\ age[t] < ResolveTimeout
    /\ Rest(t, "pause", Pause)
    /\ UNCHANGED age

-----------------------------------------------------------------------------
(* Publishers *)

\* A round of publish begins: advertised_addrs asks the node for addresses.
Round(t) ==
    /\ t \in Publisher /\ at[t] = "idle"
    /\ Request(t, "doctor")
    /\ UNCHANGED <<age, wake, todo>>

\* With addresses a record is put, without the round is over.
Gathered(t) ==
    /\ Answered(t, "doctor")
    /\ \/ reply[t] = {"ok"} /\ Request(t, "put") /\ UNCHANGED <<wake, todo>>
       \/ reply[t] # {"ok"} /\ Rest(t, "pause", Pause)
    /\ UNCHANGED age

Published(t) ==
    /\ Answered(t, "put")
    /\ Rest(t, "pause", Pause)
    /\ UNCHANGED age

-----------------------------------------------------------------------------

\* A pause is over.
Wake(t) ==
    /\ at[t] = "pause" /\ wake[t] = 0
    /\ Request(t, IF t \in Resolver THEN "get" ELSE "doctor")
    /\ UNCHANGED <<age, wake, todo>>

\* The task is aborted or done for good: its handle and its receiver are dropped.
Abort(t) ==
    /\ at[t] # "gone"
    /\ at' = [at EXCEPT ![t] = "gone"]
    /\ reply' = [reply EXCEPT ![t] = {}]
    /\ found' = [found EXCEPT ![t] = {}]
    /\ age' = [age EXCEPT ![t] = 0]
    /\ wake' = [wake EXCEPT ![t] = 0]
    /\ todo' = [todo EXCEPT ![t] = 0]
    /\ UNCHANGED <<op, queue, pending, query, left, events, count>>

Resolving(t) == t \in Resolver /\ op[t] = "get" /\ at[t] \notin {"idle", "gone"}

\* Nobody has anything to do at this moment.
Quiet ==
    /\ queue = <<>> /\ events = <<>>
    /\ \A t \in Task :
        /\ at[t] \notin {"call", "answered"}
        /\ query[t] # "none" => left[t] > 0
        /\ at[t] = "pause" => wake[t] > 0

Tick ==
    /\ Quiet
    /\ \E t \in Task : at[t] = "pause" \/ query[t] # "none"
    /\ age' = [t \in Task |-> IF Resolving(t) THEN age[t] + 1 ELSE age[t]]
    /\ wake' = [t \in Task |-> IF at[t] = "pause" THEN wake[t] - 1 ELSE wake[t]]
    /\ left' = [t \in Task |-> IF query[t] # "none" THEN left[t] - 1 ELSE left[t]]
    /\ UNCHANGED <<at, op, reply, todo, queue, pending, query, events, found, count>>

\* What a task does with an answer, or after a pause.
Proceed(t) ==
    \/ \E n \in 0..MaxAddrs : Establish(t, n)
    \/ Dialled(t) \/ ResolveFails(t) \/ Retry(t)
    \/ Gathered(t) \/ Published(t)
    \/ Wake(t)

\* All handles are dropped and the channel is empty: the loop ends.
Ended == queue = <<>> /\ \A t \in Task : at[t] = "gone"

Loop == ~Ended /\ (handle_command \/ handle_kad_result)

Next ==
    \/ Loop \/ Tick
    \/ \E t \in Task :
        \/ Resolve(t) \/ Round(t) \/ Enqueue(t) \/ Proceed(t) \/ Abort(t)
        \/ \E v \in Small \cup Huge : FindRecord(t, v)
        \/ \E r \in Other : EndQuery(t, r)

\* select! of the loop serves both of its sources; the permits of the channel are
\* given out in order; tasks run; a query ends by its timeout; time passes.
Fairness ==
    /\ WF_vars(~Ended /\ handle_command) /\ WF_vars(~Ended /\ handle_kad_result)
    /\ SF_vars(Tick)
    /\ \A t \in Task :
        /\ SF_vars(Enqueue(t))
        /\ WF_vars(Proceed(t))
        /\ WF_vars(left[t] = 0 /\ \E r \in Other : EndQuery(t, r))

Spec == Init /\ [][Next]_vars /\ Fairness

-----------------------------------------------------------------------------
(* Properties *)

\* Type invariant.
TypeOK ==
    /\ at \in [Task -> {"idle", "call", "wait", "answered", "pause", "gone"}]
    /\ op \in [Task -> Kind]
    /\ reply \in [Task -> SUBSET (Small \cup Other)]
    /\ age \in [Task -> Nat]
    /\ wake \in [Task -> 0..Pause]
    /\ todo \in [Task -> 0..MaxAddrs]
    /\ queue \in Seq([by : Task, kind : Kind]) /\ Len(queue) <= Capacity
    /\ pendingPut \subseteq Task
    /\ pendingGet \in [Task -> {{}} \cup {{acc} : acc \in SUBSET Small}]
    /\ query \in [Task -> {"none", "get", "put"}]
    /\ left \in [Task -> 0..QueryTimeout]
    /\ events \in Seq([id : Task, kind : {"found", "get", "failed", "put"},
                       value : Small \cup Huge \cup Other])
    /\ found \in [Task -> SUBSET Small]
    /\ count \in [Task -> 0..MaxFound]

\* No entry of pending_put or pending_get outlives its query: there is one exactly
\* as long as the query runs or its last event waits for the loop.
NoLeak ==
    \A t \in Task :
        LET due(k) == query[t] = k \/ \E i \in 1..Len(events) :
                        events[i].id = t /\ events[i].kind \in {k, IF k = "get" THEN "failed" ELSE k}
        IN  /\ t \in pendingPut <=> due("put")
            /\ pendingGet[t] # {} <=> due("get")

\* resolve looks at its deadline between attempts only; still it is over within
\* the deadline, a pause and one query.  (RESOLVE_TIMEOUT; a loop that fixed the
\* deadline anew, or waited for a query that has no end, would exceed it)
ResolveBounded ==
    \A t \in Resolver : age[t] < ResolveTimeout + Pause + QueryTimeout

\* A resolve that is not aborted comes to an end, with a peer or without.
ResolveEnds == \A t \in Resolver : Resolving(t) ~> at[t] \in {"idle", "gone"}

(* The inductive invariant behind NoLeak, ResolveBounded and Implements *)

\* Nothing in the network task belongs to t, except perhaps a command.
Clear(t) ==
    /\ query[t] = "none" /\ t \notin pendingPut /\ pendingGet[t] = {}
    /\ \A i \in 1..Len(events) : events[i].id # t

\* Acceptable records on their way to the loop.
Reported(t) == {v \in Small : \E i \in 1..Len(events) :
                    events[i].id = t /\ events[i].kind = "found" /\ events[i].value = v}

\* A query has one last event, and until the loop has seen it an entry is there.
QueryInv(t) ==
    /\ t \in pendingPut <=>
          query[t] = "put" \/ \E i \in 1..Len(events) : events[i].id = t /\ events[i].kind = "put"
    /\ pendingGet[t] # {} <=>
          query[t] = "get"
            \/ \E i \in 1..Len(events) : events[i].id = t /\ events[i].kind \in {"get", "failed"}
    /\ \A i \in 1..Len(events) : events[i].id = t =>
          \/ events[i].kind = "found" /\ pendingGet[t] # {}
          \/ /\ events[i].kind # "found" /\ events[i].value \in Other /\ query[t] = "none"
             /\ \A j \in 1..Len(events) : events[j].id = t => j <= i

\* Where the request of t is: it has at most one, in the channel or pending.
PlaceInv(t) ==
    /\ at[t] \notin {"wait", "gone"} => Clear(t) /\ \A i \in 1..Len(queue) : queue[i].by # t
    /\ at[t] = "wait" =>
          (\E i \in 1..Len(queue) : queue[i].by = t) \/ t \in pendingPut \/ pendingGet[t] # {}
    /\ \A i \in 1..Len(queue) : queue[i].by = t =>
          /\ Clear(t)
          /\ at[t] = "wait" => queue[i].kind = op[t]
          /\ \A j \in 1..Len(queue) : queue[j].by = t => i = j

\* What t is going to be answered.
AnswerInv(t) ==
    /\ at[t] = "wait" /\ t \in pendingPut => op[t] = "put"
    /\ at[t] = "wait" /\ pendingGet[t] # {} => op[t] = "get"
    /\ at[t] \in {"call", "wait"} => reply[t] = {}
    /\ at[t] = "call" \/ (at[t] = "wait" /\ pendingGet[t] = {}) => found[t] = {}
    /\ at[t] = "wait" => \A acc \in pendingGet[t] : found[t] = acc \cup Reported(t)

\* How long a resolve has been at it.
AgeInv(t) ==
    /\ t \in Resolver => op[t] \in {"get", "dial"}
    /\ t \in Publisher => op[t] \in {"doctor", "put"}
    /\ at[t] \in {"idle", "gone"} \/ t \notin Resolver \/ op[t] # "get" => age[t] = 0
    /\ t \in Resolver /\ at[t] = "pause" => op[t] = "get" /\ age[t] + wake[t] < ResolveTimeout + Pause
    /\ at[t] = "call" \/ (at[t] = "wait" /\ Clear(t)) => age[t] < ResolveTimeout + Pause
    /\ age[t] + left[t] < ResolveTimeout + Pause + QueryTimeout

IInv ==
    /\ TypeOK
    /\ \A t \in Task : QueryInv(t) /\ PlaceInv(t) /\ AnswerInv(t) /\ AgeInv(t)

CallOf(t) ==
    CASE at[t] \in {"idle", "pause"} -> "none"
      [] at[t] \in {"call", "wait"} -> "open"
      [] OTHER -> at[t]

R == INSTANCE Requests WITH
        Value <- Small,
        call <- [t \in Task |-> CallOf(t)],
        kind <- op,
        offered <- found,
        answer <- reply

\* The network task implements Requests: every request is answered, exactly once,
\* and a get with all that its query reported, whichever event ended it, whoever
\* else asked meanwhile and however full the channel was.
Implements == R!Spec

\* The part of it that says what may happen.
ImplementsSteps == R!Init /\ [][R!Next]_R!vars
=============================================================================
