------------------------------- MODULE Grind --------------------------------
(***************************************************************************)
(* The search for a key whose keyid starts with a wanted prefix:           *)
(* crates/cli/src/grind.rs.  Worker threads try batches of random keys and *)
(* poll a shared abort flag between batches; a reporter waits on a channel *)
(* with a timeout and polls the same flag when it runs out.  The flag is   *)
(* set by the Ctrl-C watcher of cmd_init and by the worker that succeeds.  *)
(***************************************************************************)
EXTENDS Naturals, Sequences, FiniteSets

CONSTANTS
    Worker,   \* threads of the search
    Key       \* the keys whose keyid starts with the prefix

VARIABLES
    worker,      \* [Worker -> where the thread is]
    hold,        \* [Worker -> the key it has found: {} or {key}]
    abort,       \* the shared flag
    channel,     \* keys sent and not yet received
    reporter,    \* where the reporter is
    result,      \* what it has received: {} or {key}
    interrupted  \* history: Ctrl-C was pressed during the search

search == <<worker, hold, abort, channel, reporter, result, interrupted>>

\* No search is on.
Rest ==
    /\ worker = [w \in Worker |-> "off"]
    /\ hold = [w \in Worker |-> {}]
    /\ abort = FALSE
    /\ channel = <<>>
    /\ reporter = "off"
    /\ result = {}
    /\ interrupted = FALSE

\* The caller has taken the result, or the process is gone.
Clear ==
    /\ worker' = [w \in Worker |-> "off"]
    /\ hold' = [w \in Worker |-> {}]
    /\ abort' = FALSE
    /\ channel' = <<>>
    /\ reporter' = "off"
    /\ result' = {}
    /\ interrupted' = FALSE

\* grind() is called: the threads are started.
Begin ==
    /\ reporter = "off"
    /\ worker' = [w \in Worker |-> "check"]
    /\ reporter' = "wait"
    /\ UNCHANGED <<hold, abort, channel, result, interrupted>>

-----------------------------------------------------------------------------
(* A worker *)

At(w, from, to) == worker[w] = from /\ worker' = [worker EXCEPT ![w] = to]

\* A slip: the flag is not looked at.
CheckNothing(w) ==
    /\ At(w, "check", "batch")
    /\ UNCHANGED <<hold, abort, channel, reporter, result, interrupted>>

\* The flag is polled before every batch.
Check(w) ==
    /\ At(w, "check", IF abort THEN "done" ELSE "batch")
    /\ UNCHANGED <<hold, abort, channel, reporter, result, interrupted>>

\* None of the 4096 keys of a batch fits.
Miss(w) ==
    /\ At(w, "batch", "check")
    /\ UNCHANGED <<hold, abort, channel, reporter, result, interrupted>>

\* A key fits, one that nobody else has; the flag is set first ...
Hit(w, k) ==
    /\ At(w, "batch", "send")
    /\ \A v \in Worker : k \notin hold[v]
    /\ hold' = [hold EXCEPT ![w] = {k}]
    /\ abort' = TRUE
    /\ UNCHANGED <<channel, reporter, result, interrupted>>

\* ... and then the key is sent.
Send(w) ==
    /\ At(w, "send", "done")
    /\ \E k \in hold[w] : channel' = Append(channel, k)
    /\ UNCHANGED <<hold, abort, reporter, result, interrupted>>

-----------------------------------------------------------------------------
(* The reporter *)

\* recv_timeout returns a key.
Receive ==
    /\ reporter = "wait" /\ channel # <<>>
    /\ result' = {Head(channel)}
    /\ channel' = Tail(channel)
    /\ reporter' = "joining"
    /\ UNCHANGED <<worker, hold, abort, interrupted>>

\* A second passes without a key.
TimeOut ==
    /\ reporter = "wait" /\ channel = <<>>
    /\ reporter' = "timeout"
    /\ UNCHANGED <<worker, hold, abort, channel, result, interrupted>>

\* With the flag set the reporter gives up, else it shows the rate and goes on.
CheckAbort ==
    /\ reporter = "timeout"
    /\ reporter' = IF abort THEN "joining" ELSE "wait"
    /\ UNCHANGED <<worker, hold, abort, channel, result, interrupted>>

AllDone == \A w \in Worker : worker[w] = "done"

\* Every sender is gone and nothing is left to receive.
Disconnected ==
    /\ reporter = "wait" /\ channel = <<>> /\ AllDone
    /\ reporter' = "joining"
    /\ UNCHANGED <<worker, hold, abort, channel, result, interrupted>>

\* The end of thread::scope joins the workers; then grind() returns.
Join ==
    /\ reporter = "joining" /\ AllDone
    /\ reporter' = "returned"
    /\ UNCHANGED <<worker, hold, abort, channel, result, interrupted>>

\* The watcher that cmd_init has spawned.
CtrlC ==
    /\ reporter \in {"wait", "timeout", "joining"}
    /\ abort' = TRUE
    /\ interrupted' = TRUE
    /\ UNCHANGED <<worker, hold, channel, reporter, result>>

Work(w) ==
    \/ Check(w) \/ Miss(w) \/ Send(w)
    \/ \E k \in Key : Hit(w, k)

Report == Receive \/ TimeOut \/ CheckAbort \/ Disconnected \/ Join

Init == Rest

Next == Begin \/ CtrlC \/ Report \/ \E w \in Worker : Work(w)

\* The threads run; so does the reporter.  Ctrl-C and success are left to chance.
Spec == Init /\ [][Next]_search /\ WF_search(Report) /\ \A w \in Worker : WF_search(Work(w))

-----------------------------------------------------------------------------
(* Properties *)

\* Type invariant.
TypeOK ==
    /\ worker \in [Worker -> {"off", "check", "batch", "send", "done"}]
    /\ hold \in [Worker -> {{}} \cup {{k} : k \in Key}]
    /\ abort \in BOOLEAN
    /\ channel \in Seq(Key) /\ Len(channel) <= Cardinality(Worker)
    /\ reporter \in {"off", "wait", "timeout", "joining", "returned"}
    /\ result \in {{}} \cup {{k} : k \in Key}
    /\ interrupted \in BOOLEAN

\* The comment on grind(): "Returns `Ok(None)` if aborted", where the reporter
\* reads the flag as "aborted by Ctrl-C".  A search that nobody interrupted
\* returns the key that a worker has found.
NoneMeansAborted == reporter = "returned" /\ result = {} => interrupted
=============================================================================
