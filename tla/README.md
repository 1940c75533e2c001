# A verification development of codo-golang-sdk

The SDK is a set of Go libraries for services of the CODO platform. This
directory models the parts of it whose correctness depends on order, failure or
agreement between two sides, checks the models with TLC on small instances, and
proves the central properties with TLAPS for all instances.

Paths below are relative to the repository's root. `PROJECT.json` lists every
run, the mutants that show that a property can fail, the source lines of every
definition, the hazards and the theorems.

## 1. The system

| part | state | operations | talks to |
|---|---|---|---|
| etcd registry (`adapter/kratos/discovery/etcd/registry.go`) | `ctxMap` (cancel functions), `lease`; per heartbeat goroutine `curLeaseID`, channel, retry count | `Register`, `Deregister`, `GetService`, `Watch`, the heartbeat | etcd (Grant, Put, KeepAlive, Delete, Get), the application's context |
| etcd watcher (`watcher.go`, `service.go`) | context, watch channel, `first` | `Next`, `Stop`, `reWatch` | etcd (Watch, RequestProgress, Get) |
| compare-and-set (`tools/cascmd`) | a map and a mutex; or a Redis client | `CAS` | Redis (WATCH, GET, SET, DEL), its connection pool |
| websocket transport (`adapter/kratos/transport/websocket`) | the listener; per connection: context, connection, two loops | `Start`, `Stop`, `handleConnections`, `readLoop`, `writeLoop`, close handler | the peer, the application's `IReplier` |
| kafka (`kafka/kafka.go`) | two goroutines and their context | `NewProducer`, cleanup; `NewConsumerGroup` | the environment, sarama, otelsarama |
| mysql, redis (`mysql/`, `redis/`) | none after construction | `NewMysql`, `NewRedis`, `NewRedisV8` | the environment, their libraries |
| standard logger (`logger/std.go`) | buffer pool, mutex, writer | `Log` | any goroutine |
| zap logger, helper, global logger (`logger/`) | the global logger | `Log`, `SetLogger` | zap |
| configuration loader (`config/config.go`) | the caller's struct, flag sets | `LoadConfig` and its four passes | files, environment, `flag`, `pflag` |
| request signing (`middleware/xsign.middleware.go`, `tools/xsgin`) | options only | `ClientHTTP`, `ServerHTTP` | the request on both sides, two clocks |
| error codes (`cerr`), HTTP codec (`transport/chttp`), gRPC codes (`transport/cgrpc`) | the two code maps | `RegisterCode`, `From`, `AsHTTPCode`; encoders and decoders | kratos |
| HTTP client (`client/xhttp`), k2 (`k2`), VictoriaMetrics (`client/xvm`) | a `http.Client` | `Do`, `GetConfig`, queries | the above |
| idip, xnet, consts, ktracing, dummy registry | none after construction | constructors, pure functions | libraries |

How they meet: the heartbeat of the registry writes keys that a watcher in
another process reads; a compare-and-set is a lock between processes; a request
signed by `ClientHTTP`, sent by `Do`, is checked by `ServerHTTP`, decoded and
answered by `chttp` with the codes of `cerr`, and taken apart by `FromError` or
`getConfig`; the kafka, mysql, redis and log settings are read from the same
environment variables by their packages and, through `env` tags, by `LoadConfig`.

What is hard, and where:

- **concurrency**: the heartbeat against `Deregister` and against its own
  earlier attempts; `Stop` against `Next`; read loop, write loop and close
  handler on one connection; two clients on one Redis key; pooled buffers and a
  caller's slice; error codes registered while requests are answered;
- **failure**: an RPC applied although its answer is lost, or applied after its
  caller gave up; a lost lease; a crash; a broken watch; a body cut on the way
  whose read error is ignored;
- **order**: deferred calls; a change between a watch and a read; the passes of
  the configuration loader, each stopping half way at an error;
- **time**: a three second attempt against its late answer, a one minute
  signature measured by two clocks, a value that expires in Redis;
- **limits**: a connection pool that waits for itself, bodies on both sides of
  4 MB and 16 MB and of unknown length, numbers of the environment wider than
  their field, a query's range shorter than its limit.

What makes each part correct is stated in section 3 with the run that checks it.

## 2. The modules

| module | models | proofs |
|---|---|---|
| `EtcdStore` | external: etcd's keys and leases | |
| `Presence` | abstract: what a registry promises | |
| `EtcdRegistry`, `MCEtcdRegistry` | `registry.go`: `Register`, `Deregister`, heartbeats; extends `EtcdStore`, implements `Presence` | `EtcdRegistry_proofs` |
| `EtcdWatcher`, `MCEtcdWatcher` | `watcher.go`, `service.go`, `GetService` | `EtcdWatcher_proofs` |
| `CasRegister` | abstract: an atomic compare-and-set register | |
| `MemoryCas`, `MCMemoryCas` | `memory.go`; implements `CasRegister` | `MemoryCas_proofs` |
| `RedisCas`, `MCRedisCas` | `cas_cmd.go`; implements `CasRegister` for clients whose keys are their own and do not expire | `RedisCas_proofs` |
| `WebSocket` | `server.go`, `websocket.go` | `WebSocket_proofs` |
| `ClientSettings` | the numbers kafka, mysql, redis and the logger take from the environment | `Settings_proofs` |
| `KafkaProducer`, `MCKafkaProducer` | `kafka.go`: both constructors, the producer's goroutines and cleanup; extends `ClientSettings` | `Settings_proofs` |
| `Logging`, `MCLogging` | `std.go`, `logger.go`, `helper.go`, `global.go` | `Logging_proofs` |
| `ConfigLoad`, `MCConfigLoad` | `config.go` | `Settings_proofs` |
| `ErrorCodes` | `cerr`: the code maps, `RegisterCode`, `From` | `HttpCall_proofs` |
| `MetricsQuery` | `client/xvm`: what a query asks for and what its answer decodes to | `HttpCall_proofs` |
| `HttpCall`, `MCHttpCall` | signing, `Do`, chttp, cgrpc, k2, xvm in one call; extends the two above | `HttpCall_proofs` |

How a module corresponds to the code:

**EtcdRegistry.** `registerWithKV` is called by `Register` (caller `API`) and by
every heartbeat; `Grant` and `Put` are its two RPCs, each of which may be lost,
lose only its answer, or be given up (`RpcAborted`). `ctxMap` maps an instance
to the heartbeat whose cancel function it holds. A heartbeat moves through
`start` (KeepAlive), `serving` (the select at 215-229), `retrying`/`trying` (the
loop at 173-209) and `first` (the wait for the first answer at 210). API calls
are serialized, because `ctxMap` and `lease` are unlocked; everything else
interleaves. An RPC whose caller gave up (an error, a timed out attempt, a
cancelled context, a crash) stays in the network: `latePuts` and `lateDels` are
what etcd may still apply, at any time or never. The values stored are left out
(`EtcdWatcher` has them), and so is `r.lease`: closing a `clientv3.Lease` only
stops keep-alive loops started through it, and the heartbeat starts none.
`OneRegistration` restricts callers to register a key only while it is
unregistered: without it the second `Register` of an instance overwrites the
cancel function of the first, and nothing below could be said. Two history
variables serve the properties: `gone`, the keys whose last API call was a
successful `Deregister`, and `overtaken`, the keys that a late write has changed
since a caller that was still waiting last put them.

etcd never uses a lease id twice. The model hands out the first id nothing
refers to any more (`FirstUnknown`): a step cannot tell it from a new one, and
there are finitely many.

**EtcdWatcher.** One goroutine calls `Next` in a loop. `SelectDone`,
`SelectReport` and `SelectBroken` are the outcomes of the select, `reWatch` and
`ReWatchAsked` the new watch and its RequestProgress; `GetSend`, `GetRead` and
`GetReturns` are the one read of the list. `snap` is what the server answered,
`items` what `Next` returned.

**MemoryCas, RedisCas.** One action per statement between which others can
run: lock, compare, store, unlock; WATCH, GET, SET, DEL, closing the
transaction. In `RedisCas` a command that fails may or may not have been
applied by the time CAS returns (an effect later still is excluded). `inUse`
counts the pool's connections, which is how calls wait for each other.

**WebSocket.** `hPc`, `rPc` and `wPc` are the handler, the read loop and the
write loop; `ctx` is the context they share; a write of either loop is a
beginning and an end, so that two can overlap. It ends when the peer reads
(`reads`), or when the connection is gone or was closed on our side: nobody sets a
deadline. `server` is the HTTP server, whose `Stop` closes its listener and leaves
the connections alone. After a panic of a loop the handler answers with an error
on the connection it no longer owns (`EncodeError`). Of a message only
what `unmarshalJSON` and Validate make of it is kept (`Judged`).

**ClientSettings, KafkaProducer.** A text of the environment is unset, blank, a
word or a number, padded and signed or not. `emptyOr`, `Atoi` and `uint32` are
the three steps of `defaultConfig`; `LoadEnvAccepts` and `LoadEnvReads` are
`setField` of `config.go` on the same variable. `NewProducer` and
`NewConsumerGroup` are possible when sarama accepts the settings. `st` is where
each message is between the application, the producer, the wrapper's channels
and our two goroutines; `cleanup` follows the function `NewProducer` returns. The
wrapper passes messages on one at a time ("offered") and sarama takes in no more
than its `Capacity` (`TakeIn`), so that outcomes nobody takes back up as far as
the application; `Close` has to get through to the goroutine that passes them on.

**Logging.** `global` is the logger that `SetLogger` chose. The stages of
`stdLogger.Log` follow its statements; its deferred calls run in reverse order:
unlock, reset, put. zap's logger shares the stages that put a line together and
then writes to two outputs without a lock of ours. A line is the sequence of
pieces written to the buffer. `array` is a slice with room to spare that callers
share: `CallStd` appends to it. `Exit` is `os.Exit` of Fatal, or of zap.

**ConfigLoad.** A value is the name of the source that wrote it. Each pass is
one action (the loader is sequential and nobody sees it half done but by its
result), with the leaves the source holds, and where it stops, chosen freely.
`PassesOf` is the sequence of `if`s in `LoadConfig`. A leaf is a scalar, a list or a pointer, perhaps behind a pointer to a struct,
perhaps with a flag tag: `shape` is the type of the struct. `parseEnv`'s
detached elements are what the code makes of nil pointers.

**HttpCall.** One action per stage of a call. A signature is the key, the
timestamp and the body if the side that computes it covers the body; `seen` is
what the next reader on the server finds. Clocks tick in half seconds, and a
timestamp loses the half. A handler may fail with any code, the success code
included (`cerr.New` takes any). The same handler may be called over gRPC (`RPC`,
`HandleRPC`, `FromStatus`), where a code travels as the number of a status, and a
call may be a query of `client/xvm` (`Query`, `Evaluate`, `Queried`). In
`ErrorCodes` the write of both maps is one interval (`RegisterCode` to
`CodeRegistered`); a read in it finds the old status, the new one or none, or
ends the process (`DataRace`).

### External code

Each of these is modelled by how the code uses it, and named `external` in
`PROJECT.json`: etcd (linearizable keys, leases that end some time after the
last keep-alive, watches that report every change or break for good), the
clientv3 keep-alive loop (it closes its channel when the lease is gone or an
answer is overdue), the Redis server and the pool of go-redis, gorilla (closing
twice is harmless; concurrent writes and a thousand failed reads panic) and the
errgroup (a panic becomes an error and cancels the context), sarama (every
message gets an outcome, handed over on unbuffered channels) and its wrapper
(which holds one outcome of each kind), zap (it ends the process after a line of
level fatal), VictoriaMetrics (it refuses a step of 0), `net/http` (a status
outside 100 to 999 is a panic, which closes the connection) and kratos.

## 3. The runs

Bounds are the constants of the `.cfg` files; every counter that could grow has
one (`Max...`), and the guards name it.

| run | asks | bounds, and why they are enough |
|---|---|---|
| `Registry` | can every live heartbeat be stopped, does a content one keep its key, what may come back after a confirmed deregistration, does a lost instance come back, do unwanted heartbeats end and leftovers go away, is `Presence` implemented? | one instance, two heartbeats, two retries and three lease ids: a heartbeat, its successor and what is left in the network of both; one failed API call or lost lease (`MaxFault`), one crash, cancelled Registry or closed client (`MaxStop`). Failures, time-outs and late writes of a heartbeat's attempts are not counted, so that retries do get used up |
| `WatcherNext` | does `Next` block on a stale list only after an error, does the application end up with the current list, does `Stop` unblock it and last? | two keys, three changes (before the watch, between watch and read, after), one broken watch, one failure |
| `MemoryCas` | is the map an atomic register, does every call return? | two goroutines, two keys, a value and the empty one |
| `RedisCas` | with a key of one's own, is CAS atomic; does every call return, also when deletions use up the pool? | two clients on a pool of two, two failing commands; the values of one client expire, those of the other do not |
| `WebSocket` | does the handler wind up, with no more than one late `Reply`, and does a close frame end it, even from a peer that has stopped reading? | three messages, a peer that may stop reading and start again; gorilla's limit of 1000 failed reads is 3 here, and the code never looks at the number |
| `KafkaProducer` | do the two readers of a variable agree, is every message taken in and settled, does cleanup return? | three messages and room in sarama for one: one sarama hands over, one the wrapper holds, one that waits; a `uint32` of 2^13 values and an `int` of 2^15, and numbers around zero and those limits, in every variable at once or in one |
| `Logging` | whole lines, one per call and saying what was passed; does Fatal end the process, and not before its line is out; does every call return? | two goroutines, three calls, a shared array of two: two calls meet in every stage, and the third reuses a buffer |
| `ConfigLoad` | does the source of highest priority win, and is the rest untouched, also in a second load after a failed one? | three leaves, two loads, and three shapes of the struct, which between them have every kind of leaf with and without a tag, and a tagged pointer that the flag walk does not support |
| `HttpCall` | is a request refused only for a cause, do handlers see whole bodies, is success or an error code never made up? | one call (calls share only the clock and the codes), bodies of 0, 1, 5 and 20 MB, clocks up to a second apart, every age on both sides of the tolerance, one code registered meanwhile with status 200 or 0, ranges on both sides of their limits |

Properties of the registry name what the code does not promise, instead of
leaving it out of the model:

- `ReturnsOnlyToExpire`: a key can be listed again after `Deregister` returned nil,
  by the Put of an attempt that was on its way (`registry.go:117,157`); but only on
  a lease that nobody keeps alive any more, or is about to.
- `ContentIsListed` and `Recovers` except a key that a late write has overtaken: the
  Put of a timed out attempt may move the key to a lease nobody renews
  (`registry.go:195`), and the Delete of a failed `Deregister` may remove it from
  under a later registration. The heartbeat never looks at the key again.
- `Recovers` also excepts a heartbeat that gave up (`GaveUp`): its retries were used
  up, at once if they fail without back-off, or the channel of its new lease was
  closed before the first answer (`registry.go:210-213`). It shows that nothing else
  ends a heartbeat whose instance is registered.

The tolerance of `HttpCall` is 4 ticks, two seconds, instead of a minute: only comparisons
with it matter. `RefusedForCause` says that a request younger than the tolerance
less one second is never refused as old; the second is lost to the timestamp's
resolution, and the instance reaches the refusal just above that limit.

Deadlock is checked only where the system never stops (the two CAS models
without a bound on calls); elsewhere the instance runs out of messages, calls or
changes, or the connection ends, and the `.cfg` says `CHECK_DEADLOCK FALSE`.

### Disagreements found

Each of these three runs checks one property, and TLC finds a counterexample; the
quoted lines are in `PROJECT.json`.

| run | what the counterexample shows |
|---|---|
| `LookupRegistered` | `GetService` does not find what `Register` stored: one writes the bare endpoint, the other reads JSON |
| `RedisSharedKey` | GET and SET are not in a transaction: two clients both succeed |
| `QueryLimit` | `client/xvm/client.go:109,150` call the limit the greatest number of values returned per series; a range query gets more. The step is cut to whole seconds (the default query gets 1801 values, not 1000), and both ends of the range count |

The assumptions and the exceptions of the other runs mark where the code promises
less than its comments suggest. These were met while modelling and have no run of
their own:

- A second `Register` of an instance overwrites the first cancel function, and
  that heartbeat cannot be stopped any more: with `OneRegistration = FALSE`
  `HeartbeatStoppable` fails.
- The exceptions of the registry's properties, above.
- A kafka cleanup hangs when messages have backed up as far as the wrapper
  (`Jammed`): it has cancelled the goroutines that take outcomes, so the goroutine
  that should hear `Close` (`kafka.go:221`) waits for sarama, and sarama for them.
- A websocket loop that ends without a close frame does not end the handler: the
  other waits for the application's reply (`websocket.go:211`), or for a peer that
  does not read (`websocket.go:256`; `Blocked`).
- `GetService` also lists services whose names continue the name.
- Deletions in Redis hold one connection and wait for another: concurrent ones
  may return FALSE on a matching key although no command failed (`PoolTimeout`).
- Kafka failures after cleanup began are discarded, not printed (`CloseTakes`).
- An environment value for a nil pointer to a scalar is dropped and success
  reported (`parseEnv`; `Priority` therefore speaks of leaves with storage).
- A signing middleware that is not enabled answers every request itself
  (`ServerHTTPDisabled`).
- A range query of fewer seconds than its limit has step 0, which the server
  refuses (`Step`).
- `Next` that failed to read the list has consumed the report that woke it up: the
  next `Next` blocks on the list before (`StaleOnlyAfterError` excepts it).
- The refusals of the signing middleware have no code, which `FromError` takes for
  success (`NoFalseSuccess` excepts them), and so is an error made with the success
  code.
- `metrics_result.go` has an accessor for scalars, but `data.result` of a scalar
  is a pair, not a list of series, and does not decode (`Decodes`).
- gRPC uses the numbers of codes itself: a cancelled call reads as
  `EUnknownCode` (`RPCFails`).
- `RegisterCode` takes any status: one outside 100 to 999 makes every answer with
  that code a panic (`Answer`).
- `Log` at level fatal ends the process with zap's logger and not with stdLogger;
  an odd number of values is padded by stdLogger and a panic with zap's
  (`IndexOutOfRange`); a logger made of `GetLogger` and then set calls itself
  (`CallSelf`); stdLogger's padding may overwrite the caller's slice (`CallStd`).
- Both redis constructors hand over the read timeout as the dial timeout
  (`RedisNumbers`): `DEFAULT_REDIS_DIAL_TIMEOUT` has no effect.
- A number of the environment that is none is taken as 0 without an error
  (`Atoi`), which sarama refuses and `database/sql` takes for no limit; a mechanism
  other than PLAIN is always refused by sarama (`Validates`).

## 4. Fairness

Safety properties use none. For liveness:

- `EtcdRegistry`: weak fairness of each heartbeat goroutine together with its RPC,
  of the API call under way, of the client library's noticing a closed channel,
  and of the end of each lease nobody renews. Nothing obliges the application to
  call, a late write to arrive, or a fault to happen. The heartbeat's selects have
  a case for each of these, and RPCs carry a context or a client timeout.
- `EtcdWatcher`: weak fairness of the watcher's goroutine and of an application
  that keeps calling `Next`; no fairness of changes, failures or `Stop`.
- `MemoryCas`, `Logging`: weak fairness of each goroutine, strong fairness of
  taking the mutex: Go's mutex is starvation free (it hands over to a waiter of
  one millisecond).
- `RedisCas`: the same, with strong fairness for a connection of the pool,
  which go-redis hands out in order of arrival, and a timeout for those who wait.
- `WebSocket`: weak fairness of handler, read loop and write loop as long as they
  are not waiting for the peer or for the application's `Reply`, which returns
  once its context is cancelled. Nothing obliges the peer to read: a write that
  waits for it is not enabled.
- `KafkaProducer`: weak fairness of the two goroutines, of sarama's taking in
  messages it has room for, of its outcomes, and of `Close` once the wrapper can
  hear it. The Go select is random: fairness is per goroutine, not per case.

## 5. What is proved

All proofs are for arbitrary constants that satisfy the named assumptions of
the modules; but for `OneRegistration`, which three theorems and
`HeartbeatsStoppable` state, nothing is assumed beyond those. Every invariant and
every action property the passing runs check is a theorem, and so are the three
refinements. `TypeCorrect` in each proof module is the type invariant, and the base
of the others.

**EtcdRegistry_proofs.** `TypeCorrect`, then with `OneRegistration`:
`HeartbeatsStoppable`, `ReturnedKeysExpire`, `RegistryRefinesPresence` and
`ContentHeartbeatsListed`. Late writes, crashes and closed clients are all in, in
any number. The inductive invariant `IInv` is the conjunction of the types,
`StopInv`, `GoneNotActive` and `LeaseInv`. `HeartbeatStoppable` alone is not
inductive: `Register` starts a heartbeat, and only `StopInv` knows that no live
heartbeat is left for the instance. `ReturnsOnlyToExpire` is not either: a late Put
lists a gone key under its lease. `LeaseInv` therefore says of every abandoned Put,
before it arrives, that its lease is held by nobody (`LatePutsUnheld`), of which
`GoneUnheld` is what remains after it; that an attempt's lease is its own
(`AttemptLeasesPrivate`) makes it so when the attempt is given up; and a lease is
only held anew when etcd grants it, while keys hang on leases that are alive
(`KeysOnLiveLeases`).

The refinement proof takes each action to a step of `Presence` or a stutter: a Put
is sent in the abstract when its lease is granted, and arrives when etcd applies
it, however late.

`ContentHeartbeatsListed` needs `ContentInv` besides: `ContentIsListed` speaks of
heartbeats that wait, but a lease comes from `registerWithKV`, which may return it
long before the heartbeat waits under it. So `LeasesAttached` says the same of a
caller that has just got its lease and of a heartbeat about to keep one alive,
unless the key was overtaken. A Put of another caller could take the key away;
`OneOwner` and `StopInv` leave no other caller for the key, and `RetryingClosed`
keeps the heartbeat itself from being content under an old lease while it puts a
new one.

**MemoryCas_proofs.** `MemoryRefinesRegister`: with the mutex held the map is
what the register holds, except between the comparison and the update, which
the mutex hides. The linearization point is the update or the mismatch.

**RedisCas_proofs.** `RedisRefinesRegister`, for any clients, keys and pool. Calls
from clients that share no key and whose values do not run out (`Careful`) are
compare-and-sets. The invariant is `StillMatches`: between the comparison
and the command that follows it such a client's value still is the one it
compared, because nobody else writes that key. What other clients do to the
server, or time, is a stutter; the pool plays no part. `TypeCorrect` states that
`inUse` never falls below none, for which the proof counts the pairs of a call and a
connection it holds at its statement (`Taken`).

**EtcdWatcher_proofs.** `NoMissedChange`: whenever `Next` blocks without having
failed, the list it returned last is current, or a report is on its way. The
invariant follows the number of changes the watch has handed over through the
stages of a read: what the reader reads is at least as new as the report that
woke it up. `StopIsFinal` is an action property over the fact that a read begun
with a cancelled context returns an error.

**WebSocket_proofs.** `LateReplies` and `ReturnsWoundUp`: the context is
cancelled before the replier is closed by the close handler, so the writer can
be past its check at most once; and the handler's deferred calls run only when
both loops have returned.

**Settings_proofs** is about the two readers of a service's settings, the
clients and the loader, and so extends `KafkaProducer` and `ConfigLoad`.
`TypeCorrect` has it that both goroutines of a producer run until cleanup.
`OneNumberPerVariable` holds for all widths: a text
that `setField` takes is a number without white space, and of an `int` both
readers cut the same number.

`HighestSourceWins` and `RestStays` are for any shape of the struct and any number
of loads. `Priority` speaks of loads that have ended; the invariant has it at
every point of a load (`HighestWins`), with what makes a pass preserve it: the
sources still to be read rank above all that gave a value (`InOrder`), and as long
as the environment is to be read, a leaf that YAML gave has storage (`Stored`).
Without `Stored` a leaf that YAML had a value for could still be absent, and get a
default with the new struct that `parseEnv` stores behind a nil pointer. `PassInv` says once what a pass may do to the leaves, and
each of the four passes is shown to do no more.

**Logging_proofs.** `LinesAreWhole`, `FatalEnds`. The invariant has four parts of
its own. A buffer is in the pool and empty, or one call's (`Apart`); the mutex is
held exactly by the call that writes (`Mutex`); an output is whole lines, but for
the one line the call inside the mutex has begun (`Outputs`, `Inside`), with one
newline per served call (`Counted`); and each call knows what it has in its
buffer, which stage its logger has, and where its last line is (`CallerInv`).
`LinesWhole` itself is not inductive: it does not say that the piece a call writes
next goes on with the line the output ends in. That a line says what its
caller passed holds while no padding wrote to a shared array (`Clean`).

**HttpCall_proofs.** `RefusalsHaveCauses`, `BodiesArriveWhole`, `SuccessIsTrue` and
`ErrorsKeepTheirCodes` follow from one invariant, a conjunction over the calls and
over the stages of a call: what a guarded request carries, and that it is only sent with the body it declares
(`Stamped`), that
nothing was handled or answered before its time (`Fresh`), that the middleware
lets through only the body that was signed (`LetThrough`) and refuses for a cause
(`RefusedFor`), who wrote an answer and what it says then (`Answered`,
`StatusRight`), and what a result says of the answer (`TrueSuccess`, `TrueError`). Calls
meet in the clocks and in the code maps: `CodesInv` is what holds of the maps while
a code is being registered, and since time only goes on, a refusal for age
stays justified. The proof has one lemma per stage. `NamesAssumption` keeps the
values that stand for codes apart from the words that stand for other
outcomes; in the program a code is a number.

`RangeQueriesBounded` is arithmetic: with a limit l, a step
s > 0 and a range of d ticks, d < 2l(s + 1), and the seconds between the two
timestamps are at most half a tick more than half of d, so that no more than 2ls
of them fit. The invariant says only that what a call asks for is a range. It
bounds how far the limit that `QueryLimit` shows to be exceeded can be.

Only model-checked: the nine liveness properties, which need fairness and
ENABLED (`EveryCallReturns` of three modules, `StopUnblocks`, `Converges`,
`OutcomesFlow`, `Recovers`, `GhostsDrain`, `Ends`), out of the prover's reach here; and the
three disagreements, each a counterexample.

## 6. What is not modelled, and why

- Of mysql and redis, the names, addresses and passwords, which are passed on.
- Of VictoriaMetrics results, the accessors after decoding: conversions of
  values the caller already has.
- The formatting of log lines; `SetLogger` during calls, which its comment
  excludes.
- Concurrent API calls of one Registry: a data race on `ctxMap`.
- Several instances of one Registry in TLC's run: the theorems are for any number
  of them, and they share only the context, the client and etcd.
- The streams of the etcd client after `Stop`; `protobuf` destinations and YAML
  nulls of the loader; partial writes of the logger's writer; a Redis command
  that takes effect after CAS returned; a second signature of a request whose
  body was read already (net/http consumes it).
- k2's gateway, tracing attributes, idip digests, network helpers, constants, the
  dummy registry: no state and no interaction. `ParseProxy`, metrics and traces of
  the HTTP client: nothing else depends on them.
- `FromError` on an answer of the signing middleware, which has no code, sees no
  error. `NoFalseSuccess` says so; callers have to look at the status too, as
  `getConfig` does.

## 7. Plan

Done, in this order, the most important behaviour first: the registry with its
heartbeats, discovery, compare-and-set, websocket and its server, kafka and the
settings, the loggers, configuration, the HTTP call with gRPC, queries and codes
registered while serving.

The registry and the watcher are not composed: a watcher never lists what
`Register` stored (`LookupRegistered`), so that a composed model would show
nothing else.

To come:

1. **Proofs**: of the abstract modules, what `Presence` and `CasRegister` promise
   in properties of their own, which the refinements then carry over; the steps
   towards the liveness properties that are safety (what each waits for exists).
2. **The concurrent API** of the registry: its races on `ctxMap`, and several
   instances under a cancelled Registry context.
