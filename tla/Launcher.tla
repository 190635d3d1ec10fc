------------------------------ MODULE Launcher ------------------------------
(***************************************************************************)
(* How the Minecraft mod gets hold of an agent: ensureRunning in           *)
(* AgentLauncher.java with the `name' and `init' that it runs, the agent   *)
(* process as far as it concerns the control file (run in                  *)
(* crates/cli/src/agent.rs), and between them control.json and the profile *)
(* (the identity).  Every game (JVM) on the same configuration directory   *)
(* shares both, and one that is started later finds what the earlier ones  *)
(* have left there.                                                        *)
(*                                                                         *)
(* ensureRunning is synchronized, so a game is in one place of it at most. *)
(* An init that outlives its game is taken for one that ended before it.   *)
(* A port stands for the agent that has it: an agent that is gone does not *)
(* answer, and neither does what may have got its port since.              *)
(***************************************************************************)
EXTENDS Integers, FiniteSets

CONSTANTS
    Jvm,   \* games that run on the configuration directory
    Pid,   \* bound: agents that can be launched, numbered in that order
    Torn   \* content of control.json between its truncation and its writing

ASSUME LauncherAssumption == IsFiniteSet(Pid) /\ Pid \subseteq Nat /\ Torn \notin Pid

VARIABLES
    game,     \* [Jvm -> BOOLEAN]: the game runs
    at,       \* [Jvm -> where it is in ensureRunning]
    process,  \* [Jvm -> the agent it launched last: {} or {pid}]
    agent,    \* [Pid -> state of the process]
    by,       \* [Pid -> {} or {the game that launched it}]
    keyring,  \* the system has a keyring, so that the key is not in a file
    profile,  \* what there is of the identity, its key and its length:
              \* "none", "torn" (a file emptied and not written) or "whole"
    control   \* control.json: {} if absent, {Torn}, or {pid}: port and token

gameVars == <<game, at, process>>
vars == <<game, at, process, agent, by, keyring, profile, control>>

Alive == {"booting", "loaded", "writing", "up"}

\* The places of ensureRunning between the check for a child and the launch:
\* the binary, `name', and `init' with its files.
SettingUp == {"setup", "init", "key", "keyfile", "length", "lengthfile"}

Init ==
    /\ game = [j \in Jvm |-> TRUE]
    /\ at = [j \in Jvm |-> "out"]
    /\ process = [j \in Jvm |-> {}]
    /\ agent = [p \in Pid |-> "none"]
    /\ by = [p \in Pid |-> {}]
    /\ keyring \in BOOLEAN
    /\ profile = [key |-> "none", length |-> "none"]
    /\ control = {}

-----------------------------------------------------------------------------
(* The game: ensureRunning *)

Goto(j, step) == at' = [at EXCEPT ![j] = step]

\* AgentClient.ping: the agent that control.json names answers.
Reachable == \E p \in control : p # Torn /\ agent[p] = "up"

\* The mod starts, or a player joins a server.
Enter(j) ==
    /\ game[j] /\ at[j] = "out"
    /\ Goto(j, "ping")
    /\ UNCHANGED <<game, process, agent, by, keyring, profile, control>>

PingOk(j) ==
    /\ at[j] = "ping"
    /\ Reachable
    /\ Goto(j, "out")
    /\ UNCHANGED <<game, process, agent, by, keyring, profile, control>>

\* No file, no answer, or none within the timeouts.
PingFails(j) ==
    /\ at[j] = "ping"
    /\ Goto(j, "child")
    /\ UNCHANGED <<game, process, agent, by, keyring, profile, control>>

\* A slip: an agent that is still booting is not waited for.
IgnoreChild(j) ==
    /\ at[j] = "child"
    /\ Goto(j, "setup")
    /\ UNCHANGED <<game, process, agent, by, keyring, profile, control>>

\* A slip: that there was a launch is enough.
TrustChild(j) ==
    /\ at[j] = "child"
    /\ Goto(j, IF process[j] # {} THEN "out" ELSE "setup")
    /\ UNCHANGED <<game, process, agent, by, keyring, profile, control>>

\* An agent that this game launched is alive: it must be booting.
CheckChild(j) ==
    /\ at[j] = "child"
    /\ Goto(j, IF \E p \in process[j] : agent[p] \in Alive THEN "out" ELSE "setup")
    /\ UNCHANGED <<game, process, agent, by, keyring, profile, control>>

\* Unpacking the binary, a command, a write or the start of the agent fails: what
\* is done stays done.  (A `name' that fails although there is an identity ends
\* here too, with an `init' that refuses.)
SetupFails(j) ==
    /\ at[j] \in SettingUp \cup {"launch"}
    /\ Goto(j, "out")
    /\ UNCHANGED <<game, process, agent, by, keyring, profile, control>>

\* What `name' needs: the whole key and, if there is a length, all of it.
Loads == profile.key = "whole" /\ profile.length # "torn"

\* The binary is in place, by an atomic move, and `name' has found an identity.
NameOk(j) ==
    /\ at[j] = "setup"
    /\ Loads
    /\ Goto(j, "launch")
    /\ UNCHANGED <<game, process, agent, by, keyring, profile, control>>

\* `name' has found no identity, or none that it could read.
NameFails(j) ==
    /\ at[j] = "setup"
    /\ ~Loads
    /\ Goto(j, "init")
    /\ UNCHANGED <<game, process, agent, by, keyring, profile, control>>

\* `init' takes a key for an identity, and a key file, whatever is in it.
InitRefused(j) ==
    /\ at[j] = "init"
    /\ profile.key # "none"
    /\ Goto(j, "out")
    /\ UNCHANGED <<game, process, agent, by, keyring, profile, control>>

InitChecks(j) ==
    /\ at[j] = "init"
    /\ profile.key = "none"
    /\ Goto(j, "key")
    /\ UNCHANGED <<game, process, agent, by, keyring, profile, control>>

\* A step of save(): `part' becomes `content'.
Saves(j, from, to, part, content) ==
    /\ at[j] = from
    /\ Goto(j, to)
    /\ profile' = [profile EXCEPT ![part] = content]
    /\ UNCHANGED <<game, process, agent, by, keyring, control>>

\* The key goes to the keyring in one step; a key file is emptied first...
StoreKey(j) ==
    \/ keyring /\ Saves(j, "key", "length", "key", "whole")
    \/ ~keyring /\ Saves(j, "key", "keyfile", "key", "torn")

\* ... and then written.
FillKey(j) == Saves(j, "keyfile", "length", "key", "whole")

\* So is the file with the length, after which `init' has succeeded.
EmptyLength(j) == Saves(j, "length", "lengthfile", "length", "torn")

FillLength(j) == Saves(j, "lengthfile", "launch", "length", "whole")

IsNext(p) == agent[p] = "none" /\ \A q \in Pid : q < p => agent[q] # "none"

\* A slip: the new process is not kept.
LaunchUnkept(j, p) ==
    /\ at[j] = "launch"
    /\ IsNext(p)
    /\ agent' = [agent EXCEPT ![p] = "booting"]
    /\ by' = [by EXCEPT ![p] = {j}]
    /\ Goto(j, "wait")
    /\ UNCHANGED <<game, process, keyring, profile, control>>

\* The process is started and the shutdown hook registered.
Launch(j, p) ==
    /\ at[j] = "launch"
    /\ IsNext(p)
    /\ agent' = [agent EXCEPT ![p] = "booting"]
    /\ by' = [by EXCEPT ![p] = {j}]
    /\ process' = [process EXCEPT ![j] = {p}]
    /\ Goto(j, "wait")
    /\ UNCHANGED <<game, keyring, profile, control>>

\* waitReady: an agent answers, this one has died, or the polls are used up.
EndWait(j) ==
    /\ at[j] = "wait"
    /\ Goto(j, "out")
    /\ UNCHANGED <<game, process, agent, by, keyring, profile, control>>

\* The game ends and its shutdown hook destroys the agent, with a signal that
\* the agent does not handle: control.json stays.
Exit(j) ==
    /\ game[j]
    /\ game' = [game EXCEPT ![j] = FALSE]
    /\ Goto(j, "out")
    /\ agent' = [p \in Pid |-> IF p \in process[j] /\ agent[p] \in Alive
                               THEN "dead" ELSE agent[p]]
    /\ UNCHANGED <<process, by, keyring, profile, control>>

\* The game is killed: no hook runs and its agent lives on.
Crash(j) ==
    /\ game[j]
    /\ game' = [game EXCEPT ![j] = FALSE]
    /\ Goto(j, "out")
    /\ UNCHANGED <<process, agent, by, keyring, profile, control>>

-----------------------------------------------------------------------------
(* The agent: run *)

\* cmd_agent needs the key, which another init may be writing.
Load(p) ==
    /\ agent[p] = "booting"
    /\ agent' = [agent EXCEPT ![p] = IF profile.key = "whole" THEN "loaded" ELSE "dead"]
    /\ UNCHANGED <<gameVars, by, keyring, profile, control>>

\* The control port is bound and control.json opened with O_TRUNC...
TruncateControl(p) ==
    /\ agent[p] = "loaded"
    /\ agent' = [agent EXCEPT ![p] = "writing"]
    /\ control' = {Torn}
    /\ UNCHANGED <<gameVars, by, keyring, profile>>

\* ... and written.
WriteControl(p) ==
    /\ agent[p] = "writing"
    /\ agent' = [agent EXCEPT ![p] = "up"]
    /\ control' = {p}
    /\ UNCHANGED <<gameVars, by, keyring, profile>>

\* Ctrl-C, or accept() fails: the control file is removed, whoever wrote it.
ShutDown(p) ==
    /\ agent[p] = "up"
    /\ agent' = [agent EXCEPT ![p] = "dead"]
    /\ control' = {}
    /\ UNCHANGED <<gameVars, by, keyring, profile>>

\* The agent fails to start, crashes or is killed.
Die(p) ==
    /\ agent[p] \in Alive
    /\ agent' = [agent EXCEPT ![p] = "dead"]
    /\ UNCHANGED <<gameVars, by, keyring, profile, control>>

-----------------------------------------------------------------------------

\* What the thread in ensureRunning does.
Proceed(j) ==
    \/ Enter(j) \/ PingOk(j) \/ PingFails(j) \/ CheckChild(j)
    \/ SetupFails(j) \/ NameOk(j) \/ NameFails(j) \/ InitRefused(j)
    \/ InitChecks(j) \/ StoreKey(j) \/ FillKey(j) \/ EmptyLength(j) \/ FillLength(j)
    \/ EndWait(j)
    \/ \E p \in Pid : Launch(j, p)

\* What an agent does to come up.
Boot(p) == Load(p) \/ TruncateControl(p) \/ WriteControl(p)

Next ==
    \/ \E j \in Jvm : Proceed(j) \/ Exit(j) \/ Crash(j)
    \/ \E p \in Pid : Boot(p) \/ ShutDown(p) \/ Die(p)

Spec == Init /\ [][Next]_vars

\* Players keep joining, threads and processes run, and an agent that boots gets
\* there unless it dies.  Set-up may fail again and again, but none of these steps
\* fails every time that it could be done; that grants nothing to a step which
\* what is left on the disk rules out, and nothing to the writes of an init that
\* has begun.
FairSpec ==
    /\ Spec
    /\ \A j \in Jvm :
        /\ WF_vars(Proceed(j))
        /\ SF_vars(NameOk(j)) /\ SF_vars(NameFails(j))
        /\ SF_vars(InitChecks(j)) /\ SF_vars(StoreKey(j))
        /\ SF_vars(\E p \in Pid : Launch(j, p))
    /\ \A p \in Pid : WF_vars(Boot(p))

-----------------------------------------------------------------------------
(* Properties *)

Place == {"out", "ping", "child", "launch", "wait"} \cup SettingUp

\* Type invariant.  Beyond the shapes: an agent that was launched is the one
\* the game knows of (launchAgent), so that its shutdown hook stops it.
TypeOK ==
    /\ game \in [Jvm -> BOOLEAN]
    /\ at \in [Jvm -> Place]
    /\ process \in [Jvm -> SUBSET Pid]
    /\ agent \in [Pid -> {"none", "dead"} \cup Alive]
    /\ by \in [Pid -> SUBSET Jvm]
    /\ keyring \in BOOLEAN
    /\ profile \in [{"key", "length"} -> {"none", "torn", "whole"}]
    /\ control \in SUBSET (Pid \cup {Torn})
    /\ \A j \in Jvm : at[j] = "wait" => \E p \in process[j] : by[p] = {j}

\* A game never has two agents of its own running, however often it is called
\* while one is booting, slow to answer, or reachable only through a control
\* file that another agent has overwritten.  (ensureRunning)
OneChild ==
    \A p, q \in Pid :
        /\ agent[p] \in Alive /\ agent[q] \in Alive
        /\ by[p] = by[q]
        => p = q

\* What OneChild rests on: a live agent is the one that its game launched last, and
\* past the check (CheckChild) a game has no live agent, although the game lets
\* go of nothing in between.
ChildInv ==
    /\ \A p \in Pid : agent[p] = "none" <=> by[p] = {}
    /\ \A p \in Pid : by[p] # {} => \E j \in Jvm : by[p] = {j}
    /\ \A j \in Jvm, p \in Pid : agent[p] \in Alive /\ by[p] = {j} => process[j] = {p}
    /\ \A j \in Jvm : at[j] \in SettingUp \cup {"launch"} =>
            \A p \in Pid : by[p] = {j} => agent[p] \notin Alive

IInv == TypeOK /\ ChildInv

\* An init has ended between emptying a file and writing it.
HalfDone ==
    \/ profile.key = "torn" /\ \A j \in Jvm : at[j] # "keyfile"
    \/ profile.length = "torn" /\ \A j \in Jvm : at[j] # "lengthfile"

\* How far "a transient failure does not permanently disable later attempts"
\* holds: on a configuration directory of its own, a game whose agents do not die
\* all the time gets one that it can reach for good - after set-ups that failed
\* at any step, games that died during theirs, agents that died while booting or
\* later, and stale or removed control files - unless an identity is left half
\* done.  Then `name' fails and `init' refuses at every later call, of this game
\* and of any other: there the sentence is false.  (ensureRunning, ensureIdentity)
Recovers ==
    \A j \in Jvm :
        /\ [](\A p \in Pid : by[p] \subseteq {j})
        /\ <>[](game[j] /\ (\E p \in Pid : agent[p] = "none") /\ ~HalfDone)
        => <>[]Reachable
=============================================================================
