# a-simple-rpc: verification development

TLA+ models of this repository's RPC library, the TLC runs that check them on
small instances, and TLAPS proofs of what holds for every instance. Module
names follow the Go types; `PROJECT.json` maps every definition to its source
lines.

## 1. The system

| part | source | state | operations | hard because |
|---|---|---|---|---|
| client connection | `client/client.go`, `option.go`, `connection.go` | `pending` map, `seq`, `closing`, `shutdown`, one TCP connection, a Done channel per call | `Connect`, `Call`, `Go`, `send`, `input`, `heartbeat`, `Close` | one goroutine per call, one reader, one heartbeat and `Close` share the map; contexts end at any time |
| xclient | `client/xclient.go`, `mode.go` | cached clients by server, server list, selector, `isShutdown`, a singleflight group | `Call` (FailTry, FailOver, FailFast), `Go`, `Broadcast`, `selectClient`, `getCachedClient`, `generateClient`, `removeClient`, `watch`, `Close` | clients are shared between calls and generated concurrently, `Close` and `watch` race with calls, results of several goroutines are merged |
| selector | `client/selector.go` | a list of servers | `Select`, `UpdateServer`; every `SelectMode` gets the random selector | lists are replaced while calls select |
| discovery | `client/*discovery*.go` | service list, watcher channels | `GetService`, `WatchService`, `RemoveWatcher`, the consul watch loop | one goroutine per change and watcher, bounded channels, drops after a minute, a list read without its lock |
| server | `server/server.go` | listener, `actionConnMap`, `inShutdown`, `serviceMap` | `Serve`, `serveListener`, `serveConn`, `readRequest`, `processOneRequest`, `handleRequest`, `Close`, `Register` | one goroutine per connection and per request, panics and recovery, `Close` against `Accept` |
| service and pools | `server/service.go`, `server/pool.go` | methods, object pools by type | `call`, `Get`, `Put` | pooled objects change owner |
| HTTP gateway | `server/gateway.go`, `converter.go` | `gatewayHTTPServer` | `startGateway`, `handleGatewayRequest`, `HttpRequest2RpcxRequest` | a second way into one handler, with its own use of the pools |
| registry plugins | `server/plugin.go`, `server_plugin/consul.go`, registration in `server.go` | plugin list, `serviceMap`, consul's catalog | `Register`, `RegisterName`, `DoRegister`, `DoUnRegister`, `UnregisterAll` | partial failure of a list of plugins, lost answers, crashes |
| message | `protocol/message.go` | a frame | header accessors, `Clone`, `Encode`, `Decode` | bit fields, lengths, frames that are cut short |
| codec, log, share, error, gen | | | | pure helpers and external libraries |

Interaction: an `xClient` asks a discovery for servers, a selector for one of
them and the cache for its `Client`; the `Client` frames a request with
`protocol.Message` and writes it; the `Server` reads it, runs the service
method through `service.call` with pooled arguments and writes a response with
the same sequence number; `Client.input` matches it with `pending`. Registry
plugins publish the server in consul, where the consul discovery watches it.

What makes each part correct:

- client connection: no call is lost, mixed up or answered twice; a caller is
  woken when the connection is lost; the Done channel tells the application;
- xclient: one live client per server, all of them closed by `Close`; a nil
  error means that a server (Broadcast: every server) answered;
- selector: only servers of a list that discovery has reported are selected;
- discovery: the list the xclient uses converges to the newest one;
- server: every request is answered, from its own data and with the status that
  tells what happened; `Close` closes what is served; pooled objects have one
  owner;
- registry: `Register` tells the truth, what is registered stays listed, and what
  consul lists is in the end what is served;
- message: decoding an encoded message gives the message back.

## 2. What is modelled

### Client, CallPromise (`client/client.go`)

`Client.tla` is one connection after `Connect` has returned nil. `seq`,
`pending`, `closing`, `shutdown` are the fields of `Client`; `conn` is the TCP
connection as both sides of the file see it (open; broken by the peer, the
network or the idle deadline; closed by this side). Each call has a caller
(`Call` or the application of `Go`) and a sender (`send`), each with a program
counter and its local variables; `cell` is the `*uint64` that `Call` puts into
the context and `send` fills. `input`, `hand`, `msg` are the reader goroutine
and its locals. One action is one critical section of `Client.mutex` or the
code between two of them, so that e.g. taking an entry from `pending`
(`CallCancel`) and completing it (`CallCancelled`) are two steps. A Done channel
of `Call` (capacity 1) is the set `ready`; the channel the calls of `Go` share
is the sequence `doneChan` of capacity `DoneCap`, and `Complete` drops what does
not fit. The peer and the network (`Serve`, `ConnBreak`), contexts
(`ContextDone`) and the application (`Invoke`, `Receive`, `Close`) are the
environment: a request is served at most once and answered normally, with a
payload the codec refuses, with an error and its reason in the metadata, with an
error without metadata ("bare", for which `input` leaves `Call.Error` nil), or
never; a frame written to a broken connection may be lost silently; frames
buffered by the reader are still read after the loss. Data is abstracted: an answer is the call it
answers, an error is one of seven kinds. Sequence numbers do not wrap (2^64).
`option` is the `SerializeType` of the client's options.

`CallPromise.tla` is what a caller may rely on: a call begins and ends once, the
peer serves it at most once, `Call` returns nil only if the peer answered that
call by then, normally or with an error that came without metadata, and a
`ServiceError` only if it answered with an error that had some. `Client` implements it (`KeepsPromise`; mapping
`PhaseOf`, `AnswerOf`, `OutcomeOf`).

| run | question | bounds |
|---|---|---|
| `client_calls` | is a call lost, mixed up, completed too often, answered after it has returned; does the application hear of every completion if the channel has room for three per call; refinement of `CallPromise` | one cancellable `Call` and two `Go` calls, one not encodable, on a channel of capacity 6; `MaxSeq` 2, so two of the three get a number: enough for one to steal, overtake or outlive another |
| `client_heartbeat` | does a failed heartbeat close the client; does a call return when the connection is gone, when its context is done or when no codec can encode it | one call without a deadline, which only the end of the connection or an answer can wake, and one heartbeat, of a client with a codec for its own calls and of one without |
| `client_stolen` | a claim the code does not keep (section 4) | two calls |

Fairness (`FairSpec`): every goroutine that can run runs (the Go scheduler is
preemptive, `sync.Mutex` does not starve, a select with a ready case proceeds)
and a heartbeat's context has a deadline. Nothing is assumed of the
application, the peer or the network.
Deadlock is checked: `Close` is always possible. `CallEnds` takes the loss of the
connection as given; that it comes, when the server closes or the network fails,
is checked in `System`.

### XClient (`client/xclient.go`, `selector.go`)

`XClient.tla` is one `xClient` with a set of goroutines, each of which makes one
`Call` or `Go`. `servers` is the field and the selector's list; `cache` is
`cachedClient`; `flight` is the singleflight group (`lead` says for whose result
a goroutine waits, which `Forget` does not change); `connOf` and `connState` are
the connections ever made, reduced to what `xClient` asks of a `Client`: is it
usable, what a call on it returns, `Close`. The steps of a call follow the code:
`Begin` (first read of `isShutdown`), `Select`, `Check` (second read), `Lookup`
(first critical section of `getCachedClient`), `Join`, `Generate`, `Store`,
`Forget`, then `Got` (the head of the mode's loop), `Attempt` (`wrapCall`),
`Remove` and `CloseClient` (the two halves of `removeClient`). `Close` and
`Watch` run at any time, `Lose` is the end of a connection's `input`.

An outcome is nil, a `ServiceError`, the error of the context, or any other
(`uncoverError` tells no more apart). The fail mode is chosen at the start; the
retry loop counts `left = retries + 1` iterations. The bool `isShutdown` is
read without the mutex: the model takes each access as atomic. `Watch` replaces
the field and the selector's list together; only `Broadcast` reads the field.

| run | question | bounds |
|---|---|---|
| `xclient` | are waiters served, clients right, connections evicted and closed for a reason; does an answer end the retries, and is the result that of the last attempt | two goroutines, two servers, any lists, all modes, one retry, two connections (a third connect fails): enough for a shared client, a late `removeClient` against a replacement, and a flight that outlives `Forget` |
| `xclient_live` | does every call return, unless it waits for ever for an answer | two goroutines, one server that stays in the list, one retry, FailTry, FailOver and FailFast: enough for a goroutine to wait for the flight of another one whose own call is never answered |
| `xclient_nil` | a claim the code does not keep | one goroutine, FailTry |

Fairness: a goroutine that can run runs. This includes `Generate`, because
`Connect` dials with a timeout, and `Attempt` on a connection that is gone, because
`Client.Call` then returns (`CallEnds` of `Client`). It does not include an attempt
on an open connection: a server need not answer (`server_silent` shows one that
does not), and a call with a context without an end waits for ever. `CallReturns`
exempts a goroutine that stays in such an attempt, and nobody else. Nothing is
assumed of `Close`, `Watch` and `Lose`.

### Broadcast (`client/xclient.go`, `error/multi_error.go`)

`Broadcast.tla` is one broadcast: the client map it collects (a server whose
client cannot be had is left out), one goroutine per client with the steps of
the function literal (`CallEnds`, `Report` to the channel, `Handle` with
`removeClient` or `replyOnce`, `AppendError`), the loop with its timer, and
`Merge`, which is `ErrorOrNil`. How clients are cached is left to `XClient`.

| run | question | bounds |
|---|---|---|
| `broadcast` | what do the result and the reply say; does the broadcast return, do its goroutines end | three servers, any subset with a client: two may fail or be late after one has decided, and replies may be copied after the result |

Fairness: goroutines run and the timer ticks. A call need not end. A broadcast
that has returned does nothing more, so deadlock is not checked here.

### Server (`server/server.go`, `service.go`, `pool.go`, `gateway.go`, `converter.go`)

`Server.tla` has the goroutine of `serveListener` (`accepter`, `held`), one
`serveConn` per connection (`serving`), one `processOneRequest` or
`handleGatewayRequest` per request (`stage` and the locals `garg`, `argv`,
`replyv`, `res`), the map `actionConnMap`, the service map reduced to whether the
service is `registered`, and the objects of the pools (`pool`, `content`: whose
data is in each). One type is used for arguments and replies, so that they share
a pool; types without `Reset` are never pooled and need no model; an object that
is not in use and was lost by an error path stays out of the pool, as in the
code, where the garbage collector takes it. A method that panics may have written
its reply before (`MethodReturns`): `service.call` recovers, and the reply is
encoded as it is, if the codec takes it (`MayNotEncode`). `Accept` may fail although
the listener is open (`AcceptFails`), which ends `Serve` and leaves the listener
with nobody to accept.

A request carries one of ten contents: what matters is whether it finds its
method, has a codec, decodes, and what the method does. It comes on a connection
or by HTTP. In that case `Route` is the part of `handleGatewayRequest` up to the
lookup of the method, `Convert` takes an argument object (`garg`) and makes a
request of the body, the actions of `handleRequest` follow, and `PutGatewayArg`,
`ConvertReply` and `WriteBody` return the argument, decode the reply into a second
reply object and write it. Panics of the gateway are recovered by `net/http`.
`ran`, `data` and `response` are history. `handlerMsgNum` is left out: nothing
reads it. `inShutdown` is read in five places and written in none, hence the
definition `isShutdown == FALSE`. Requests the reader has buffered are read and
run after the connection is closed, as in the code. What cmux does between the
listener and `Accept` is taken as a listener.

| run | question | bounds |
|---|---|---|
| `server` | are served connections tracked, do objects have one owner, are responses one's own and true | two requests, by one connection or by HTTP, seven of the ten contents, oneway or not (a plain failure is in the other two runs, a missing method is answered as a missing service is, and a reply no codec takes is among what a panic leaves), three objects: two requests want up to six, so that they compete and wait |
| `server_silent` | a claim the code does not keep | one request |

Fairness: the goroutines of requests and of closed connections run and service
methods return. Nothing is assumed of the peers, of `Close` or of `Accept`.

### System (`Client` and `Server` on one connection)

`System.tla` joins the two over a TCP connection. Alone, `Client` has a peer that
answers as it likes (`Serve`), `Server` has peers that send what they like
(`PeerSend`). Here `Send` is `SendWrite` of the client and, if neither end has
closed, `PeerSend` of the server with the same call; `Answer` is `SendResponse` of
the server, whose status becomes the answer `input` reads, or nothing when the
connection is gone; `ServerGone`, `Break` and `PeerGone` are how the network tells
one end of the other. `ImplementsClient` checks that the composition implements
`Client`: the server answers a request at most once, and only as `Client` assumes
of its peer, so that all that is checked or proved of the client alone holds
here. That it implements `Server` follows from how it is composed, each step being
one of `Server` or none of its variables, and is a lemma only (`ServerSpec`).
`PartsAssumption` is what either part assumes of
its names. On top of that, `NilMeansDone` and
`CallReturns` speak of both ends.

| run | question | bounds |
|---|---|---|
| `system` | does nil mean that the method ran, does every call return, does the server let go of a client that is gone, do the parts fit | one cancellable call whose method succeeds, fails or panics, two objects; calls that share a connection or the pools are the matter of `client_calls` and `server`, which the refinement and the lemma carry over |

There are no heartbeats and no calls of `Go` (`CallsOnly`), and no gateway: they
would only add requests of kinds the parts have been checked with. Fairness (`SystemFairness`) is
that of the parts, and: the server accepts and reads, and the network in the end
tells each end that the other is gone (TCP does, by FIN, RST or keepalive). The
latter is what `CallReturns` needs: without it a lost connection looks like a
slow server. A request whose method fails is exempt: nobody answers it
(`server_silent`). So is a connection that `Accept` has not taken when it fails for
another reason than `Close` (`Stranded`): the listener stays open, the kernel has
accepted the connection, and nothing tells the client.

### Registry, Discovery, Directory

`Registry.tla` has server processes (`phase`, `trials`, `serviceMap`), each with
`ConsulPlugin`s for several agents, and what each agent lists (`catalog`). A call
of `Register` enters the service into `serviceMap` and then takes one step per
plugin (`RegisterAt`), which may fail before or after the agent has done it;
`RegisterReturns` collects the errors (`errs` keeps those of the last call for a
service). Calls for different services overlap, and a service may be registered
again. When `Serve` returns, `UnregisterAll` takes
one step per service and plugin; it deregisters `ServiceName`, which is the ID of
no service, and so removes nothing. A process may end at any point (`Crash`) and
start again; an agent removes what does not answer `/health` (`Reap`), also a
service registered before `Serve`. Consul, the network and the operating system
are the environment.

`Discovery.tla` has the three discoveries (`kind`) and the xClients that watch them:
`GetService` and `WatchService` are two steps of `NewXClient`, `Watch` is its
goroutine. `Handler` of the consul watch sets `pairs` (`SetPairs`) and starts a
goroutine for each watcher (`Notify`); each reads `pairs` without the lock
(`SenderReads`, or a torn value if `SetPairs` runs meanwhile) and sends it
(`SenderSends`) or gives up after a minute (`SenderDrops`). `trouble` records why a
watcher may have missed the newest list: properties speak of watchers without
any, so that they say exactly when the list can be trusted.

`Directory.tla` joins them: what the discovery lists is what one agent's catalog
has of one service. It assumes that watchers are finitely many, and that a torn
read can be told from a list.

| run | question | bounds |
|---|---|---|
| `directory` | does `Register` tell the truth, does a service stay listed, has a watcher the newest list, do watchers and consul converge to the servers that serve | one server, one service at one or two agents, one watcher on a channel of capacity 1 (10 in the code), so that it fills up. `MaxTrials` is 2: a server with one plugin restarts once or registers the service again once, one with two plugins does neither, which keeps retries of plugins and restarts apart. Services that overlap are left to the proofs, which bound nothing |

Fairness: agents remove what does not answer (`Reaping`), and the goroutines of
the discovery and of the watchers run (`Delivery`). A process that never ends
again may stop where it likes, so deadlock is not checked.

### Message (`protocol/message.go`)

`Message.tla` has one writer and one reader of a byte stream. A message is made new
or as a `Clone` of the last one read, its header fields are set in any order, any
number of times (a response may be asked to be a request: `SetMessageType` sets a bit
and never clears it, so it stays a response, and `HeaderAsAsked` says so), and
`Encode` of it is written; or, as another implementation of
the protocol might, a frame whose metadata end early. The reader takes one frame
after the other with `Decode`, whose recovered panics are modelled where a slice
would exceed the frame. Bytes 2 and 3 of the header are sets of bits; other bytes
are numbers below `Base`; a length takes `Width` of them (4 in the code), and the
arithmetic of `decodeMetadata` wraps at `Base ^ Width` as `uint32` does. Its loop is
a function of the number of iterations, as are the shifts of `PutUint32` and the sum
of `Uint32`: functions and not `RECURSIVE` operators, so that they can be proved about.
`FramesFit` says that every length fits in its cells. `Encode` does not check that
(`message.go:209` cuts the length to 32 bits), so it is not assumed of the model: it
is the condition of two theorems, and `MCMessage` has TLC confirm that its instance
meets it.

| run | question | bounds |
|---|---|---|
| `message` | does the header hold what was asked for, is what is written whole read as it was, with no byte left over | `Base` 6 and `Width` 2: lengths below 36, and contents that look like lengths when metadata are cut; `MaxFrames` 2: two messages, a message and the answer to it, or a frame cut short and one after it |

The run stops when the frames are used up: deadlock is not checked.

## 3. What is proved

`ClientProofs.tla` proves for any finite set of calls, any capacity and any
bound on `seq`, from `CallsAssumption` and `BoundsAssumption` only: `TypeOK`,
`NoLostCall`, `ClosedMeansDrained`, `OwnReply`, `CompletionBound`,
`AnswerIsFinal`, `NoLateReply`, and that `Client` implements `CallPromise`.

None of these is inductive. `IInv` adds what the mutex protects: an entry of
`pending` is stored under its call's number (`MapInv`); the numbers of calls on
the wire or in the map are distinct and below `seq` (`SeqInv`); a call is held by
at most one of the map, the input goroutine and a cancelled caller (`HandInv`,
`VictimInv`); an answered call is held by none and completed once
(`AnsweredInv`); flags agree with the map (`FlagInv`); and completions, the
sender that may still fail, a holder and the running input goroutine add up to
at most three (`CountInv`). There is one lemma per action, `NextInv` combines
them.

`NotifiedIfAmpleRoom` (a channel with room for three of each call tells of every
completion) needs `RoomInv` besides: of each call the channel holds at most as
many completions as the call has had. When `Complete` drops one, the channel is
full; counting its places call by call, and at most three for each
(`CountInv`), some call would have to be in it more often than that (`Enough`).

`ServerProofs.tla` proves for any sets of connections and requests and any set of
objects, from `ContentsAssumption` and `NamesAssumption`: `TypeOK`,
`ServedIsTracked`, `OneOwner`, `ResponseIsOwn` and `ResponseTellsTruth`, gateway,
panicking methods and oneway heartbeats included. `IInv` adds: objects in the pool are clean and those in use hold the
data of their request (`ContentInv`), the method has run exactly from a certain
stage on (`StageInv`), and the response about to be sent or converted is right
already (`ResInv`). `OneOwner` is inductive only with `ContentInv` and types; it is
stated per object (`Owner`), because a step takes one object of the pool, which is
nobody's (`PooledIsFree`), or puts back one of its own. Steps of connections and of
requests change disjoint variables, so each half has its own lemmas.

`SystemProofs.tla` proves, for any set of calls and from `PartsAssumption`, that the
composition implements `Client` and that `NilMeansDone` holds. It needs `LinkInv`:
the server works on a request only while the client's frame is unanswered, so it
answers at most once, a normal answer comes from a normal response, and this
server never answers an error without metadata. `LinkInv` is inductive with the
invariant of `ServerProofs`, which holds here because every step of the system is
one of `Server` or leaves its variables alone (`ServerSpec`). `NilMeansDone` is then no
new induction: nil comes from a normal answer (`OwnReply`, of the client), that
from a normal response (`LinkInv`), and that from a method that has run on its own
data without an error, or has panicked (`IInv` of the server).

`XClientProofs.tla` proves for any servers, goroutines, operations, lists, fail
modes, number of retries and connections: `TypeOK`, `NoStrandedWaiter`, `RightServer`,
`ClosedForReason`, `EvictedForReason` and `AnswerIsResult`. The waiters need
`FlightInv` (a flight names a goroutine that generates for that address), or else a
`Forget` of an older flight could strand them. `RightServer` needs `ConnInv` (what is
cached and what a goroutine holds leads to its address), also for a client that
another goroutine has generated. `ClientInv` says who has a client and who an
error; with it a client is removed only after it has failed. `CountInv` adds
iterations left and attempts made, `AnswerInv` says that a call still going on has
only had broken attempts, so that an answer is always the last one. That the
model takes an unused connection (`FreshIsUnused`) is a fact of its `CHOOSE`, by
well-foundedness.

`BroadcastProofs.tla` proves for any finite set of servers: `TypeOK`, `Expected` (the
count `lc` is what the channel holds and what is still to come), `ResultHasCause`,
`NilBringsReply`, and, which no run states, that no goroutine waits to report
(`ReportsNeverWait`): the channel always has room, also after `Broadcast` has
returned. `FailureInv` says that each report of a failure and each error in the
`MultiError` is that of a goroutine whose call has failed, `MergeInv` that the loop
ends only when all have reported success, one has failed or the time is up, and
`CopyInv` that a successful goroutine does not end before there is a reply. A nil result
over a failure is possible and stays so (section 4): `ResultHasCause` says when.

`DirectoryProofs.tla` proves for any sets of servers, services, agents and finitely
many watchers, from `RegistryAssumption` and `DirectoryAssumption`: `TypeOK`,
`RegisterTellsTruth`, `StaysListed` and `SettledIsNewest`. `CallInv` and `ListedInv`
make the second and third inductive: while a call of `Register` is under way its
service is in `serviceMap`, and each service there is listed by every agent except
where a plugin is still to be tried, has failed, or the agent has removed it; in
every phase, however calls overlap. `IDs` is why `UnregisterAll` disturbs neither:
what it removes is not the ID of any service.
`SettledIsNewest` rests on the lemmas of `DiscoveryProofs.tla`, one per action of
`Discovery`. `ArrivalInv` is the idea: as long as nothing has gone wrong for a
watcher and no `Notify` is under way, what it will have once all that is on the way to
it has arrived (`WillHave`: its only sender, the end of its channel, or its list)
is the newest list. `KindInv` and `KnownInv` say that nothing is on the way to a
watcher of a static discovery, or to one that consul's does not know yet. Steps of
the registry leave all of this alone; they only set `news`. That `Notify` finds a
number for a new sender is a pigeonhole argument (`NewNumber`).

`MessageProofs.tla` proves both invariants of the wire protocol. It proves that the
setters of the header, in any order and number, for any serialization type, sequence
number and earlier content, change their own field and no bit of another (the type
only from request to response): `HeaderAsAsked` for a message that is made new (`SettersDoNotInterfere`). An answer is a `Clone` of what was read, so for
answers the theorem is conditional: `HeadersFollow` says that `HeaderAsAsked` holds
of every behaviour in which `ReadAsWritten` holds.

`WhatIsWrittenIsRead` proves `ReadAsWritten` itself, from `MessageAssumption` and
`FramesFit`: for any base and width, any path, method, payloads and (finite)
metadata, the metadata in any order, however many frames are written, and after
any number of frames whose metadata end early. With it `HeadersAsAsked` has
`HeaderAsAsked` of answers to answers. The argument has three parts.

- Numbers. What `PutUint` puts in, `GetUint` gets out if it is below `Max32`
  (`PutGet`): nothing is left of the number after `Width` shifts (`ShiftedFits`).
- A frame. `Occurs` says where a sequence of cells stands in another one. What is
  concatenated occurs part by part (`OccursParts`), and a field is read as it was
  written wherever it occurs (`FieldIs`, `KeyOrValueIs`). `DecodeMetadataIs` goes on
  with the loop: after `i` iterations the first `i` pairs have been read, as many
  iterations as cells are enough, and below the limits no `uint32` wraps. The map
  they make is the one written since no key occurs twice (`KeysAre`, `MapOfIs`).
- The stream. `ReadAsWritten` is not inductive: it says nothing of frames still to
  be read. `StreamInv` says that the stream is made of frames, one for each message
  in `written` and in that order, and where each of them ends (`FramesAt`). A frame
  that is cut short has the right length all the same, which is why the reader
  finds the next one. `KeptInv` is needed as well: a decoded header must have the
  magic number, also that of a clone.

These are statements about recursive functions. The induction theorems of the library
take a predicate as a parameter and cannot be instantiated here; `Induction` has a
set of numbers in its place and follows from the well-foundedness of their order
(`WFMin`), and `Recursion`, on top of it, gives the functions that the
definitions choose.

Only model-checked is liveness, everywhere. It rests on fairness and `ENABLED`, which
the prover does not reason about. What has to hold for it in every state is proved
for most of it:

| liveness | the part that is proved |
|---|---|
| `CallEnds`, `HeartbeatDetects` (`Client`) | an unanswered call is held by someone who will answer it (`NoLostCall`), and what is left in `pending` when input has ended was completed (`ClosedMeansDrained`) |
| `CallReturns` (`XClient`) | there are never more than `Retries` + 1 attempts (`AnswerIsResult`), and no goroutine waits for a flight that nobody flies (`NoStrandedWaiter`) |
| `AllEnd` (`Broadcast`) | a goroutine that is to report finds a place in the channel (`ReportsNeverWait`), and the loop counts what is still to come (`Expected`) |
| `Converges` (`Directory`) | a settled watcher has the newest list, unless its senders overlapped, one gave up, or the change came before it watched (`SettledIsNewest`) |
| `CallReturns`, `ServerLetsGo` (`System`) | the client of the composition is a `Client` (`RefinesClient`), so `NoLostCall` and `ClosedMeansDrained` hold of it |

## 4. Where the code and its documentation disagree

With a run that shows it (see "findings" in `PROJECT.json`):

- `client_stolen`: a call cancelled before `send` has stored its number takes
  another call out of `pending` (`client.go:265`, comment at 254).
- `xclient_nil`: a FailTry or FailOver call returns nil although no server has
  answered it (`xclient.go:145`).
- `server_silent`: a request whose method returns an error is never answered
  (`server.go:458`, comment at 536).

Seen while modelling, part of the models where these reach, without a run:

- `client.go:148`: an answer with status Error and without metadata (of another
  implementation, or a frame whose `Decode` has panicked and been recovered) leaves
  `Call.Error` nil: `Call` returns nil. This server always sends metadata.
- `client.go:266`: a cancelled call may leave its own entry in `pending`.
- `client.go:207`, `45`: `done` may run more than once for a call; the extra completion
  can use the room another call needs.
- `xclient.go:291`-`305`: `getCachedClient` looks into the cache and joins the
  flight in two steps, so a second client may be generated for a server whose
  client has just been cached; the first one is then never closed.
- `xclient.go:375`: `Close` does not reach a client generated meanwhile, which
  is put into the cache and stays open.
- `xclient.go:169`: FailOver may select the server that has just failed
  (`mode.go:7` says another one).
- `xclient.go:219`: a goroutine of `Broadcast` reports a failure before it has
  added the error to the `MultiError`; `Broadcast` ends its loop on the report
  and may find no error to return: nil, although a server has failed (comment
  at 186).
- `xclient.go:199`, `227`: `Broadcast` leaves out servers it has no client for
  (comment at 186).
- `xclient.go:219`, `227`: success is reported before the reply is copied, so
  `Broadcast` may return nil, and its caller read the reply, before there is one.
- `server.go:270`: a connection accepted while `Close` runs enters the map
  afterwards and is served on; a `Close` before `serveListener` finds no
  listener; `inShutdown` is never set, so `ErrServerClosed` (comment at 31) is
  returned only for a cmux listener.
- `server.go:260`: `Serve` returns on any error of `Accept` and leaves the listener
  open: who connects then waits for nothing.
- `server.go:376`: a heartbeat is answered also if it is oneway ("If true, server
  won't send responses", `message.go:125`).
- `service.go:25`, `server.go:471`: a method that panics is answered with status
  Normal and with what it had written into its reply by then.
- `server.go:139`, `server_plugin/consul.go:77`: what an agent lists may be served by
  nobody: before `Serve`, after `Serve` has returned, and after a crash until
  consul's health checks fail. No property says otherwise; `Converges` says that it
  ends.
- `server.go:107`: a service is served although its registration failed, and may be
  listed by the agents of other plugins.
- `server_plugin/consul.go:99`: `UnRegister` uses a name where `Register` (77) has
  used an ID, so that `UnregisterAll` (`server.go:557`, "unregisters all
  services") removes nothing: consul does when health checks fail.
- `xclient.go:390`: "pairs 是服务最新的一组地址" (the newest addresses of the service):
  lists may arrive late, twice, torn or not at all (`consul_discovery.go:147`).
- `xclient.go:87`: a change between `GetService` and `WatchService` is lost.
- `consul_discovery.go:14`: `ErrServiceNotFound` is returned when consul fails, not
  when it knows no such service.
- `message.go:107`: `SetMessageType(Request)` does not make a response a request: the
  bit is ORed and never cleared, unlike those of the other setters ("sets message
  type", 105). No caller in the repository does it.
- `message.go:276`: a panic in `Decode` is recovered and reported as success;
  `message.go:60`: metadata that are cut within a length are not
  `ErrMetaKVMissing` but such a panic, or part of what follows them.
- `gateway.go:104`: a path of one segment has no element 2, and
  `gateway.go:160` calls a codec that may be nil: `net/http` recovers.
- `gateway.go:147`, `server.go:429`: objects taken from a pool are not put back on
  most error paths.
- `gateway.go:61`: a `Close` before the gateway has been made does not reach it.

## 5. Plan

Done: `Client`, `CallPromise`, `XClient`, `Broadcast`, `Server` with the gateway,
`Registry` and `Discovery` composed in `Directory`, `Message`, and `System`, which
composes `Client` and `Server`. Proved: every safety invariant, action property
and refinement that a run checks; liveness is model-checked.

Next:

1. `Message`: what a reader makes of a frame that no `Encode` has written, or of one
   too long for its length fields.
2. `Broadcast`: an abstract specification of what its caller may rely on, and the
   step-by-step refinement; the same for the connections of `XClient`, which stand
   for `Client`s.
3. Leads-to properties split into safety parts that can be proved: a request in
   `Server` only goes on to later stages, a retry of `XClient` never goes back.

## 6. Not modelled

- Two overlapping calls of `Register` for one and the same service.
- `RemoveWatcher` of the discoveries, `Plugins.Add` and `Remove` while a server
  runs, `PostConnAccept`, `PostConnClose` and `PreCall` plugins: no code calls them.
- `auth`, the limit of requests and `SetVersion`: `auth` always succeeds, nothing
  returns `ErrReqReachLimit`, nothing sets a version or a `MaxMessageLength`.
- A JSON body `null`, which makes the argument of the gateway nil.
- Heartbeats and the gateway in `System`; several xClients or broadcasts at once,
  which share nothing but their discovery.
- Logging, generated code, the JSON, protobuf, cmux, HTTP and consul libraries
  (taken from how the code uses them), `MultiError` formatting, tests and examples.
  The HTTP transport of `Connect` is a TODO in the code.
- Data races are reduced to one choice: an access to a shared word is atomic,
  also where the code takes no lock (`isShutdown` and `servers` of `xClient`,
  `ErrorOrNil`); only the slice `pairs` of the consul discovery may be read torn.
