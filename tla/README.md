# A TLA+ model of dotminecraft (mc-tunnel)

mc-tunnel lets a Minecraft server be reached under a self-certifying name
(`[vanity.]<keyid>.minecraft`) without a domain, a port forward or a registry.
The publisher signs a *location record*, puts it into a Kademlia DHT under a key
derived from its public key, and forwards tunnel streams to the local server.
The player's side - a daemon ("agent") driven by a Fabric mod - looks the record
up, checks it, connects to the peer it names and offers it on a loopback port.

This directory models the parts of the program in which something can go wrong
that a test would hardly reach, checks them with TLC on small instances, and
proves the central results with TLAPS for every value of the constants.
`PROJECT.json` lists components, runs, mutants, the map from definitions to
source lines, the disagreements with the docs, the hazards and the theorems.

## 1. Inventory

| component | source | state | operations | module |
|---|---|---|---|---|
| records | `core/record.rs` | none | sign, encode, `verify`, `authorizes_storage_key`, `select_verified` | `Records` |
| names | `core/name.rs` | none | parse, validate, derive, display; keyid/key match | `Names`, `Records` (match) |
| DHT node | `net/node.rs` | record store, pending queries, RTT map | put, get, inbound filter, expiry, dial, address events | `Dht` (store, queries), `NetNode` (commands, pending queries), `Republish` (addresses), `Agent` (RTT) |
| publish loop | `cli/tunnel.rs` | wait, last result | gather addresses, put, sleep `ttl/2` or `RETRY` | `Dht` (what), `Republish` (when), `NetNode` (its calls) |
| resolver | `cli/tunnel.rs` | deadline | query, select, retry, check of the peer id, dials | `Dht` (what), `NetNode` (when) |
| proxy | `proxy/lib.rs` | token bucket, counter of live tunnels, tasks | accept, rate limit, cap, spawn, splice, give back | `Proxy` |
| agent | `cli/agent.rs` | map name -> (port, peer), listeners, `control.json` | ping, resolve, rtt, shutdown | `Agent`, `Launcher` |
| keystore | `cli/keystore.rs`, `cli/main.rs` | keyring entry, key file, length file | init, forget, load | `Keystore`, `InitCommand` |
| mod: launcher | `AgentLauncher.java` | the `Process` it launched | `ensureRunning`, stop | `Launcher` |
| mod: client | `AgentClient.java` | none | ping, resolve, rtt | `Launcher`, `Agent` |
| vanity grinder | `cli/grind.rs` | workers, abort flag, result channel | try, find, send, poll, report, interrupt | `Grind`, `InitCommand` |
| NAT, relays, mDNS, transport | `net/behaviour.rs` | libp2p's | - | not modelled |
| CLI, configuration, HUD | `cli/main.rs`, `config.rs`, `TunnelPing.java`, `PingHudMixin.java` | - | - | not modelled, except init, forget, name |

How they interact: the mod calls the agent over a loopback TCP connection that it
finds through `control.json`; the agent, the publisher and the resolver call the
node through a command channel; nodes exchange records through kad; the proxy
splices streams that the agent (`run_connect`) or the publisher (`run_publish`)
set up; all commands share the keystore of the profile.

What is hard, and what makes each part correct:

* **DHT and resolver.** Records get lost, delayed, duplicated and replayed;
  nodes expire entries, restart empty and run full; clocks disagree; other
  software answers with what it likes. Correct: what is resolved is genuine, and
  a resolver does not fall back to an older location; a record with a date in
  the future cannot do damage for long.
* **Network task.** Several tasks call it through a bounded channel, and a query
  ends in one of several ways, or after its caller has gone. Correct: every call is
  answered once, a get with all that was found; nothing stays behind; a resolve is
  over in bounded time although it looks at its deadline between attempts only.
* **Publish loop.** Puts are slow and fail; the copy in the DHT runs out; addresses
  are added and never removed. Correct: the name stays resolvable, and a new address
  ends up in the DHT.
* **Proxy.** The counter is loaded, compared and incremented in separate steps
  while tasks decrement it. Correct: cap and rate hold, no slot leaks.
* **Agent.** Up to 45 s lie between the lookup in the map and the insertion, and
  requests race. Correct: a port that is answered leads to the peer of the name.
* **Keystore and grinder.** Three stores, changed one after the other, may be left
  half changed, the keyring may be out of reach, other commands may run meanwhile -
  a search for a vanity key takes as long as it takes. Correct: what `init` reported
  is what is used from then on; `forget` leaves nothing behind; `init` does not
  overwrite what appeared during its search; a search that is told to stop ends.
* **Launcher.** Agents die, set-up fails half way, `control.json` goes stale, is torn, or
  belongs to somebody else. Correct: one agent per game, and a game gets back to one.

## 2. Modules

Values that are `Option` or `Result` in the code are sets of at most one element
in all modules. An operator introduced by "A slip:" in a comment is a wrong
version of the definition that follows it; the `mutants` of `PROJECT.json` put it
in that definition's place to show that a property notices. No specification uses
these operators.

**`Records`** - pure operators. A hash is an arbitrary sequence per key, so keyids
are prefixes and two keys may share one, as with truncated keyids in the code.
A signature binds the signing key to the whole body. Bytes are a size and what
they decode to.

**`Dht`** - `now` is real time; every process reads a wall clock with an error
within `PeerLo..PeerHi` (nodes and resolver) or `OwnerLo..OwnerHi` (publishers)
that may change with every reading, while expiry runs on monotonic time.
`wire` is the set of all values ever sent; any of them may arrive at any node
under any key at any time and any number of times, or never. `Publish` is a
round of the publish loop with kad's unfiltered local put; `Inbound` is the
handler of `InboundRequest::PutRecord` with all of its filters; `Expire` and
`Restart` are what MemoryStore forgets; `StartResolve`, `Answer`,
`AnswerForeign`, `FinishQuery`, `Select` and `Retry` are `resolve()` with its get
query, and `establish()`'s check of the peer id. `held` and `floor` are history
variables: what a node has taken in since it started, and what the nodes that
answered a query had taken in. The publisher's own node is the exception: kad's
local put replaces what is there without looking at it, so at that node `held`
starts again with every put. An own put with an older date (a clock that was set
back) or one that is too large to decode does displace a newer record there, and
`NoRollback` does not speak of what such a put displaced.

**`Proxy`** - the accept loop (`Accept`, `CheckCap`, `Spawn`) and its tasks. Tokens
are counted in fractions of a token so that all amounts are integers; the
rounding of `f64` is left out. `run_publish` and `run_connect` are the same loop.

**`Requests`** - what the network task promises to the holders of a handle: each has a
request open at times, which is answered exactly once and never stays open; a get
is answered with exactly the records that the network came up with.

**`NetNode`** - the event loop of `node.rs` with its channel (`queue`), `pending_put`,
`pending_get` and the events of kad, and those who call it: resolvers (`Resolve`,
`Establish`, `Dialled`, `Retry`, `ResolveFails`) and publishers (`Round`, `Gathered`,
`Published`), any of which may be aborted at any time. Time stands still while
anybody has something to do. The last definition, `Implements`, is `Requests` with
`call`, `kind`, `offered` and `answer` mapped to the state of the callers: the
requests of one task follow upon each other, so one query per task is enough.

**`Republish`** - the publish loop against the copy that a storing node keeps, in
relative time (waits count down, ages count up), so that behaviours are infinite
and liveness means something. Clocks are right here. `addr` is where the publisher
is, `external` what `external_addrs` has collected, which only grows; a record with
more than `MaxAddrs` addresses is too large to be stored, although the put of it
is acknowledged (`Deliver`).

**`Names`** - pure operators on labels. Of a label its length and whether it is base32
matter, and of what is typed also capitals and blanks, which `parse` does away with.

**`Agent`** - extends `Names`. One task per control connection, which gives way where
the code awaits; the map, the listeners and who they lead to; clients that hang up at
any time. The map is keyed by printed names, as in the code. `establish()` is a step
that yields the peer of the name: that is `ResolvedGenuine` of `Dht`.

**`Keystore`** - each change of one store is a step; a process may die before any of
them, and other commands run in between. The keyring comes into reach and goes out of
it, and in reach may still refuse a secret; with `MayFail`, all this also while it holds
the secret, including a deletion that fails. `linked` tells whose open key file is the one in
the directory: who fills a file that was unlinked meanwhile fills nothing. Unix only: the ACL step of the Windows
`write_owner_only` is left out.

**`Grind`** - the threads of a search (`Check`, `Miss`, `Hit`, `Send`), the reporter
(`Receive`, `TimeOut`, `CheckAbort`, `Disconnected`, `Join`) and Ctrl-C. A batch of
attempts is one step; setting the flag and sending the key are two, as in the code.

**`InitCommand`** - composes the two: extends `Keystore` and instantiates `Grind` for the
search that `cmd_init` runs between its check and `save`. A process with a prefix
begins a search where one without generates a key; everything else of `Keystore` goes on
meanwhile.

**`Launcher`** - several games on one configuration directory, the agents they launch,
`control.json`, which is truncated and written in two steps, and the `profile`: the key
and its length, which `name` reads and `init` writes, each file in two steps (a key in
the keyring in one). Any step of the set-up may fail, and a game may end during it: what
was done stays, and the next attempt finds it. Agents are numbered as they are launched.

`MCDht`, `MCProxy`, ... declare model values and define the constants that a
`.cfg` cannot express. `DhtProofs`, `ProxyProofs`, `NamesProofs`,
`NetNodeProofs`, `LauncherProofs`, `AgentProofs`, `RepublishProofs` and `InitProofs` hold
the proofs. The inductive invariants are at the end of the modules they are about, so that
TLC can check them too.

## 3. Runs

Deadlock is checked except in `Proxy`, `Agent`, `Launcher`, `NetNode` and `GrindLost`, where
the system may stop for good: all connections are done, the agent has been shut down,
the games have ended, all handles of the network task are dropped, the search has
returned.

| run | checks | bounds |
|---|---|---|
| `dht` | `TypeOK`, `ResolvedGenuine`, `LockoutBounded`, `NoRollback` | 2 nodes, 2 names, 2 puts, 4 instants, 4 foreign values; `MCBound` |
| `dht_future` | `FutureRecordNeverBlocks` is **violated** | 1 name, a publisher's clock that runs ahead |
| `proxy` | `TypeOK`, `LiveCountsTasks`, `CapHolds`, `RateHolds`, `SlotsReturn` | 3 connections, 2 slots, 2 per second, 4 ticks of 1/3 s |
| `republish` | `TypeOK`, `CopyKept`, `AgeBounded`, `LocationFollowed` | minutes for seconds: ttl 10, pause 5, put up to 1, one failed round in a row; 3 addresses, 2 to a record |
| `republish_fresh` | `KeptFresh` is **violated** | the same |
| `agent` | `TypeOK`, `MapSound`, `OneTunnelPerCaller`, `PortServes` | 2 connections of 2 requests, 2 names in several spellings, 3 ports, 1 listener that fails |
| `agent_stale` | `FastPathServes` is **violated** | the same |
| `init` | `CTypeOK`, `InitSticks`, `ForgetForgets`, `RacingInits`, `NeverClobbers`, `InterruptEnds` | 2 commands at a time, one of them with a prefix; 2 keys, one of which has the prefix; 2 lengths, one of which is too short for it; 2 threads |
| `grind_lost` | `NoneMeansAborted` is **violated** | 2 threads, 1 key |
| `keystore_locked` | `NeverAnotherIdentity` is **violated** | one command at a time, a keyring that comes and goes |
| `netnode` | `TypeOK`, `NoLeak`, `ResolveBounded`, `ResolveEnds`, `Implements` | 1 resolver, 1 publisher, room for 1 command; a good, a bad and an oversized record, 2 to a query; deadline 4, query 2, pause 1 |
| `launcher` | `TypeOK`, `OneChild`, `Recovers` | 2 games, 3 agents |

Why the bounds are enough:

* `Dht`: a rollback needs two records of one key, a node that has taken in the
  newer one, and time for the newer one to expire: 2 puts and ttl + window + 1
  instants. The windows keep the proportions of the code (ttl = 2 x window,
  future tolerance = ttl), and the peers' clocks are behind by the whole window,
  which is as far as `NoRollback` claims. The foreign values of run `dht` are one
  of each kind: bytes that do not decode, a body with the owner's key and
  somebody else's signature, a record dated far ahead, one that names another
  peer. A record of the owner's may be oversized, and the stores have room for
  one key so that they run full. `MCBound` follows the foreign and the oversized values up
  to the first put only, and the second put without them: the two questions need not
  be asked of the same behaviours. The theorems below lift the results to all
  constants.
* `Proxy`: with 3 connections on 2 slots the cap is reached and a slot is reused
  while the loop is between its load and its increment; 3 ticks to the second make
  the bucket hold parts of a token.
* `Republish`: the numbers are those of the code divided by 60, with `RETRY` and
  the query timeout rounded up to a minute - against the property, not for it.
* `Agent`: two requests that race, and one more each for what they left behind.
* `InitCommand`: an `init` that searches and one that does not (or a `forget`) overlap in
  every way, including two saves that interleave store by store. Keys are used up:
  with two there are two inits that get as far as a key, one of which may have died.
* `NetNode`: one command fills the channel, so that a caller has to wait for room while
  the loop answers the other one; the deadline leaves time for several attempts and is
  passed within a query. A resolver and a publisher send all kinds of commands.
* `Launcher`: an agent each, and one to be launched after a death. With two games there
  is one that finds what the other has left, half done or not.

What the passing runs show is in the `about` of each run. Some properties come with
a condition:

* `NoRollback` speaks of names whose publisher's clock is ahead by no more than the window
  and `ttl` minus the window (300 s each in the code), and at the publisher's own node of
  what it had since the last put;
* `OneTunnelPerCaller` is about one control connection. The mod opens a connection for
  each resolve (`AgentClient.java:99`), so a retry that races the first request does get
  a second tunnel; `MapSound` and `PortServes` say that both lead to the right peer;
* `Recovers` speaks of a game that is alone on its configuration directory - two games
  that share one can leave each other in the state that the comment in `ensureRunning`
  calls "still booting" for good - and of a profile that is not left half done (`HalfDone`;
  see below). Apart from that set-up may fail at any step, any number of times;
* `init` has a keyring that does not fail while it holds the secret (`~MayFail`).

The violated ones are disagreements between a doc and the code; each is quoted in
`findings`:

* `dht_future`: the storage side tolerates 600 s, resolvers 300 s: a record in
  between is stored, useless, and keeps the owner's good record out.
  `LockoutBounded` says for how long at most.
* `republish_fresh`: the pause of `ttl/2` equals the freshness window, so a record
  is stale for as long as a put takes. `AgeBounded` says how stale it can get.
* `agent_stale`: the map outlives the listener.
* `grind_lost`: a thread that has found a key raises the flag before it sends the key,
  and a reporter that wakes up in between takes the search for aborted.
* `keystore_locked`: an unreachable keyring passes for an empty one, so that `init` without
  `--force` puts another identity beside the one in the keyring.

Three more disagreements were met while modelling and have no run of their own:

* The comment at `AgentLauncher.java:21-23` says that "a transient failure does not
  permanently disable later attempts". An `init` that dies, or whose disk is full, between
  the truncation and the writing of `identity.key` or `keyid_len` does just that: `name`
  fails on the empty file (`keystore.rs:118`, `:159`), `init` refuses because any key
  counts (`keystore.rs:64`, `main.rs:148`), so `ensureIdentity`
  (`AgentLauncher.java:112-118`) fails at every later call, in this game and the next.
  `Launcher` models it: without `~HalfDone` in its hypothesis `Recovers` is violated, by a
  game that ends between the two steps of `keyid_len` and one that comes after it.
* "One source of truth" (`keystore.rs:85`): if the keyring refuses to replace a secret
  (`set_secret` fails, `get_secret` works), `init --force` writes and reports the key file,
  and `load` goes on returning the old key from the keyring (`keystore.rs:80-94`, `:103`).
  `Keystore` has this with `MayFail`; `InitSticks` is then false.
* `forget` ignores a deletion that fails (`keystore.rs:137`): the secret stays in the
  keyring. With `MayFail`, `ForgetForgets` is false.

Read in the sources only: `copy_bidirectional` waits for both sides of a tunnel
(`SlotsReturn` needs both to close), while `proxy/lib.rs:4`, `:51` and `SPEC.md:198` say
that either side's close ends it; `SECURITY.md:37-38` and the comment at
`node.rs:323` say that a record expires at `ts + ttl`, the code counts the ttl from
each receipt (`node.rs:326`, `:464`); the doc comment of `select_verified` speaks of
the first record that verifies, the code takes the newest; `SPEC.md:181` wants an
immediate put when the address changes and `SPEC.md:207` a new resolution at the next
connection after a tunnel broke, where the code waits for the next round and reuses
the tunnel of the map; the agent does not handle SIGTERM, so the launcher's
`destroy()` leaves the `control.json` that `agent.rs:99` wants removed. A resolve may
take up to 45 + 2 + 60 s (`ResolveBounded`), the mod waits for 30.

### Fairness

* `Proxy`: tasks and the loop are scheduled, opening a stream or connection ends one
  way or the other (tokio's runtime and the timeouts of TCP and libp2p).
  `SlotsReturn` also assumes that the programs at both ends close in the end, which
  the code does not bring about.
* `Republish`: time passes, the loop is scheduled, a put ends (kad's query timeout).
  That rounds keep succeeding is a hypothesis of `LocationFollowed`, not fairness.
* `NetNode`: the loop serves its commands and kad's events (`select!` polls its branches
  in random order), tasks go on when they are answered or their pause is over, a query
  ends when its timeout has passed. Strong fairness on `Enqueue`: tokio's channel gives
  its permits out in the order of the requests, so a caller is not passed over for
  ever. Strong fairness on `Tick`: time passes although other tasks keep starting
  requests, i.e. infinitely many requests do not fit into one instant.
* `InitCommand`: threads of a search are scheduled, the reporter's timeout ends, and
  `cmd_init` goes on with what the search returned. A search need not find anything:
  `InterruptEnds` starts when the flag is set.
* `Launcher`: threads and processes run, players keep joining (each join calls
  `ensureRunning`), and none of `name`, `init`'s check, its first write and the start of
  the agent fails every time that it could succeed (strong fairness of each: on a
  platform without a bundled binary no agent is to be expected). Nothing is assumed of
  the later writes of an `init`, nor of a step that the files on the disk rule out. That an
  agent stays alive in the end and that no identity is left half done are hypotheses of
  `Recovers`.

## 4. Proofs

`tlapm` checks `DhtProofs`, `ProxyProofs`, `NamesProofs`, `NetNodeProofs`,
`LauncherProofs`, `AgentProofs`, `RepublishProofs` and `InitProofs` to the last leaf.

**`DhtProofs`**: `TypeCorrect`, `ResolvedIsGenuine`, `ResolverNeverGoesBack`,
`LockoutIsBounded`, i.e. `Spec => []P` for the properties of the runs, with any
keys, hashes, nodes, names, windows, clock errors and foreign values. Assumed are
the types of the constants, that a publisher's name is among the names
(`OwnerAssumption`), and that signatures cannot be forged: what other software
sends is not validly signed with a publisher's key (`ForeignAssumption`).

`NoRollback` is far from inductive. That a resolver does not return anything older
than `t` once a node that answers it has taken in `t` rests on the following
invariants:

* `WireInv`: a record that a name governs is not dated further ahead than the
  clocks allow, and has the ttl of the code;
* `StoreInv`: a stored entry is a sent one, governed by the name it is filed under,
  and expires only when every resolver takes it for stale - this is where receipt
  + ttl, the window and the bound on the clocks meet;
* `HeldInv`: what a node has taken in it still has, or something newer, or it is
  stale by now. A replay does not displace it (`is_newer_than_stored`), expiry
  removes it only when it is stale;
* `QueryInv`: the same for a query and the nodes that have answered it.

`Select` then takes the newest candidate that verifies: either one at least as new
as `t` is among them, or `t` is stale and whatever verifies is newer.

**`ProxyProofs`**: `TypeCorrect`, `CounterIsExact`, `CapIsKept`, `RateIsKept` for any finite set of
connections and any cap, rate and resolution. `CapHolds` needs that the counter is
exact and that past the check there still is room (`LoopInv`: only the loop
increments). `RateHolds` needs an invariant on the bucket (`BucketInv`): for each
admission, the tokens spent since then plus the tokens left are covered by one
burst and the refill up to the last call.

**`NamesProofs`**: `RoundTrip` (parsing what is printed gives the same name back),
`PrintedDiffer` (so the agent's map, keyed by printed names, never confuses two),
`ParseSound` (whatever is typed, what `parse` accepts is a valid name) and
`PublishedNameParses` (what is printed for a key is accepted and carries the key's
keyid), for any words, lengths and limits. Assumed is that a keyid of length `len`
has that length and is base32 (`KeyidAssumption`), which is what base32 of a hash is.

**`NetNodeProofs`**: `TypeCorrect`, `NoEntryLeaks`, `ResolveIsBounded` and
`StepsImplement` - every step of `NetNode` is a step of `Requests` or leaves its state
alone - for any tasks, records, capacity and timeouts. Assumed are only the types of the
constants and that a task is a resolver or a publisher, not both. The four follow from
one inductive invariant, with these parts for each task:

* `QueryInv`: an entry of a pending map is there exactly while its query runs or its last
  event waits, and nothing of a query comes after its last event. This is `NoLeak`, with
  the order of events that it needs;
* `PlaceInv`: a task has at most one request, in the channel or pending, and none
  unless it waits for it or is gone. Without this an answer might meet a later request;
* `AnswerInv`: what was reported for a get is what its entry has collected together with
  what is still on its way to the loop. At the last event nothing is on its way, so that
  the answer is all of it: the step `Answer` of `Requests`;
* `AgeInv`: before a query starts a resolve has spent less than its timeout and a pause;
  from then on its age and the time left to the query do not add up to more.

**`LauncherProofs`**: `TypeCorrect` and `OneAgentPerGame`, for any number of games and
agents. `OneChild` needs `ChildInv`: an agent that is alive is the one its game holds, and
between the check and the launch, at whichever step of the set-up, the game has none - nothing
is launched in between, because `ensureRunning` is `synchronized`. The profile plays no part in it.

**`AgentProofs`**: `TypeCorrect`, `MapIsSound`, `TunnelsAreReused` and
`AnsweredPortServes` (an action property), for any connections, names, spellings, ports
and numbers of requests. Assumed is that what is typed is a text with labels and that a
keyid belongs to one peer. The invariant says of each task what it has in hand:

* `TaskInv`: at most one name and one port;
* `ReuseInv`: a task that is about to bind a port has no listener for its name yet. This
  needs the second half: a listener is in the map, or its own task is about to insert it -
  so a task that found nothing in the map cannot have one;
* `ServeInv`: what the map has for a name, and what a task is about to put there, leads to
  the peer of the name, until a listener ends.

The map is keyed by printed names, and the proofs of `MapSound` and of an insertion use
`PrintedDiffer` and `RoundTrip` of `NamesProofs`: an insertion for one name leaves the
others' entries alone, and a key parses to the name it was printed from.

**`RepublishProofs`**: `TypeCorrect`, `CopyIsKept` and `AgeIsBounded`, for any ttl, put
timeout, pause before a retry, number of failed rounds and addresses. Assumed is
`RoomAssumption`: a pause of ttl/2, two slow puts and the failed rounds take less than the
ttl together. With the numbers of the code (600 s, 60 s, 5 s) that is
300 + 120 + n * 65 < 600, true for two failed rounds in a row. `CopyKept` is proved by
counting down:

* `KeepInv`: the time to the end of the copy is more than `Due`, which is the rest of the
  current wait, a put, and a round for every failure that the network may still have; the
  age of the copy plus `Due` is within `Longest`. A failed round pays for itself out of
  `Due`;
* `FreshInv`: what has arrived in this round is as young as the round, which restores
  `KeepInv` when the round is over;
* `NewerInv`: the record of a round is strictly newer than the copy. Without it the storing
  node would refuse the new record as a replay and let the copy run out;
* `RoundInv`: one record to a round, not older than the put has been running.

**`InitProofs`**: `SearchIsGenerate` - `CSpec => Spec`, i.e. `InitCommand` implements
`Keystore` - and `TypeCorrect` without further conditions; `ReportedIsLoaded`,
`ForgottenIsGone`, `RacersAgree` and the action property `InitNeverClobbers` under
`~MayFail`: a keyring that holds the secret stays in reach and can replace and delete it. That is
also what run `init` assumes, and without it they are false (`keystore_locked` shows a
consequence). They hold for any
number of processes, secrets, lengths and threads; assumed are the types of the constants,
finitely many threads, and that an emptied file cannot be taken for a secret or a length.
The search part needs `SearchInv`, which counts the threads that have ended against the
keys in the channel. The rest follows from an invariant of `Keystore`:

* `AloneInv`: a command that nobody overlapped is the only one that changes the stores.
  `SaveInv` and `ForgetInv` follow such a command step by step: nobody else can undo what
  it has done so far;
* `ToldInv`: while a report stands nobody is changing the stores, because the next one to
  try either finds that the identity exists or is forced, which ends the claim;
* `RaceInv` is for those that do overlap: a secret in the keyring belongs to an init that
  has reported or is on its way to; if there is none, nobody is about to unlink the
  key file, who has it open has the one in the directory, an incomplete file is being filled by somebody, and a complete one
  has such an owner.

Model-checked only: the liveness properties (`SlotsReturn`, `LocationFollowed`,
`Recovers`, `InterruptEnds`, `ResolveEnds`, the fairness of `Implements`), which are out of
the prover's reach. All invariants and action properties of the passing runs are proved.

## 5. Not modelled

libp2p's NAT traversal, relays, mDNS, transport and routing (configuration only;
what they do is libp2p's); the bytes that pass through a tunnel; Windows ACLs;
argument parsing, printing, logging, configuration files (no state); the ping display,
i.e. a variable that a poller overwrites once a second, and its rendering. The commands
`connect`, `relay` and `doctor` are compositions of modelled parts (resolve, proxy, a
request) with printing around them. In `Launcher`, a launch that races the JVM's shutdown
(the hook can then not be registered) is left out, and a port that a dead agent had is
not given to another program.

## 6. Plan

Done: all modules of section 2 and the proofs of section 4. Next: what remains short of
liveness, i.e. the steps that the liveness properties rest on - that a helpful step
is the only one to leave a state and leads closer to the goal (`InterruptEnds` of a
search, `SlotsReturn` of a slot) - as action properties with proofs.

Order of work within a part: TLC on the invariant and its inductive strengthening
first, then the proof.
