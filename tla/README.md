# Specifications of opnet

TLA+ specifications of the opnet client library (`src/` of this repository): models of its
concurrent parts and of what its contracts, calls and results do, TLC configurations that
check them on small instances, and proofs that the TLA+ proof system checks for every
instance.

Files of the repository are named from its root (`src/src/...` is the library's own source,
`src/docs` and `src/test` its documents and tests); the lines every definition stands for
are in `PROJECT.json`, "map".

- [What the system is](#what-the-system-is)
- [Modules](#modules)
- [Runs](#runs)
- [Proofs](#proofs)
- [Where code and documents disagree](#where-code-and-documents-disagree)
- [What is not modelled](#what-is-not-modelled)
- [Plan](#plan)

## What the system is

opnet is a library, run by one JavaScript thread in an application. The application makes a
provider, asks contracts through it, and turns simulated calls into Bitcoin transactions.

| Component | State | Operations | What is hard | What makes it correct |
|---|---|---|---|---|
| Worker pool (`threading/SharedThreader.ts`, `WorkerCreator*.ts`, `SequentialWorker.ts`) | the workers, the stack of available ones, the queue, `pending` by id, the id counter, the promise of the pool's creation | `run`, `runWithTransfer`, `init`, the message handler, `terminate`, `drain` | workers answer in any order, threads die, creation fails, the pool is torn down and made again around a shared map and counter, closing overlaps with running | one task per worker; own result; a task is started once, and not after its caller was told it ended; no worker idles beside a queue; closing forgets nothing |
| JSON threader (`threading/JSONThreader.ts`, `worker-scripts/JSONWorker.ts`) | none but its pool | `parse`, `parseBuffer`, `stringify`, `fetch` | the timer of a request in another thread, which is set when a worker takes the request and cleared at the headers | as its pool; a request ends unless its body stalls, its worker dies, or no worker is left |
| WebSocket provider (`providers/WebsocketRpcProvider.ts`, `websocket/`) | connection state, the socket, pending requests with timers, subscriptions, ping timer, reconnection counter, schema cache | `connect`, `disconnect`, requests and batches, `subscribe*`, `unsubscribe`, `handleMessage`, `handleClose`, `reconnect`, `resubscribe`, `ping` | every await races with drops, timeouts, late answers and the user; callbacks of sockets given up | an answer settles the request it was given to; no request hangs; one connection; subscriptions that are fed |
| UTXO manager (`utxos/UTXOsManager.ts`) | per address: coins spent, coins pending and how deep their chain is, the last answer and when it was asked for | `getUTXOs`, `getUTXOsForAmount`, `getMultipleUTXOs`, `spentUTXO`, `clean` | cached answers, indexers that lag, purges, reports that overlap fetches | no coin spent twice; chain limit respected; the two views of what is pending agree |
| Call results (`contracts/CallResult.ts`, `TransactionHelpper.ts`) | the simulated call, gas estimates | `signTransaction`, `sendTransaction`, `sendPresignedTransaction`, `toOfflineBuffer` | coins asked for twice of a wallet that changes; broadcast, report and clean-up in sequence; retry with a larger amount | coins suffice; nothing is broadcast twice; what was broadcast is what is noted |
| Offline call results (`contracts/CallResultSerializer.ts`) | none | `serialize`, `deserialize`, `fromOfflineBuffer` | two lists of fields that must agree, state that is not written | what is restored signs the same transaction |
| Contract proxy (`contracts/Contract.ts`) | promises of the address and of gas parameters, sender, and height, details and access list of the next call | one method per ABI function, `set*`, `encodeCalldata`, `decodeEvents` | state read after an await, promises kept though rejected | a call sees what was set for it; contract and caller understand each other; gas is covered |
| Provider base (`providers/AbstractRpcProvider.ts`), HTTP provider (`JSONRpcProvider.ts`, `fetch/`) | challenge, gas, chain id caches | one method per RPC | cached values when a fetch fails, answers that are refusals, timers | freshness; refusals are thrown; parameters arrive; requests end |
| LRU and address caches (`cache/`) | a bounded map | `get`, `set` | eviction at the limit | most recent entries kept |
| ABIs (`abi/`) | none | tables that are spread into one another | names defined twice | a contract can be opened with each |
| Blocks, epochs, transactions, mempool data, utilities | none | decoding | - | - |

The parts meet as follows. `Contract` simulates a call through the provider and returns a
`CallResult`; `sendTransaction()` of that asks the provider's UTXO manager for coins,
broadcasts through the provider, and reports what it spent to the UTXO manager. The HTTP
provider parses large answers in the JSON threader, which runs them on the worker pool; the
WebSocket provider replaces HTTP by one socket and implements the same methods.

All of it is cooperative: code between two `await`s is atomic, and what can happen in between
is another call of the application, a timer, an answer, or a callback of a socket or worker.
An action of these models is therefore the code from one await (or callback entry) to the
next, the continuations that follow at once included where nothing can come between.
Continuations of settled promises run before any callback of a timer or socket; where that
matters (the WebSocket provider) the model says so with the guard `Quiet`.

"hazards" in `PROJECT.json` lists what can go wrong in this code and a test would hardly
reach, each at its line, with the properties that would catch it.

## Modules

| Module | What it is |
|---|---|
| `SharedThreader` | the worker pool |
| `SharedThreaderProofs` | theorems about the pool |
| `MCSharedThreader` | its instances |
| `RequestLedger` | abstract: what the WebSocket client promises whoever sends a request |
| `WebsocketRpcProvider` | the WebSocket client and its schema loader |
| `WebsocketRpcProviderProofs` | theorems about its request table, that it implements `RequestLedger`, and about its connection |
| `MCWebsocketRpcProvider` | its instances |
| `UTXOsManager` | the coin bookkeeping, sends that use it, and the node |
| `UTXOsManagerProofs` | theorems about one address's data and the calls that use it, why sends one after another do not conflict, and why no chain gets longer than it is noted to be |
| `MCUTXOsManager` | its instances |
| `RpcMethods` | tables: what each method of the provider asks, and what becomes of the answer |
| `RpcProvider` | the provider's caches, its requests, their workers and their timers, over each way to travel |
| `Abi` | ABIs, and the encoding and decoding of calldata, results and events |
| `ShippedAbis` | the twenty ABIs of the library, which `CalldataUnderstood`, `ResultsUnderstood` and `ContractOpens` go through |
| `CallResults` | what a result costs, how it is signed, and its offline form |
| `ContractCalls` | an application that uses a contract, over `RpcProvider`, `Abi` and `CallResults` |
| `ContractCallsProofs`, `AnswersProofs` | theorems about its calls and their estimates, and about the provider's answers |
| `LeftFolds` | what a fold from the left returns, for any operator that is folded |
| `AbiProofs`, `ResultsProofs` | that what is written of a value is read as that value; theorems about calldata, results and the coins acquired |
| `MCContractCalls` | its instances |

A definition whose comment begins with "Mutant" is a wrong variant of the definition after
it: no specification uses it. Replacing the one by the other must break the property named in
`PROJECT.json`, "mutants", which shows that the property depends on that piece of code.

### The worker pool

`SharedThreader` keeps the fields of `BaseThreader` under their names. Three things are made
explicit. The promise `this.initializing` is a number, `k` for the k-th call of `createWorker`s
(0 is `null`), so that calls of `run()` that await an older promise can be told from those that
await the present one. `workers` is a sequence of arrays, because `terminate()` replaces
`this.workers` while its own loop, and a second `terminate()`, go on with the array they began
with. `inbox` and `alive` are the workers' side: the messages whose answer may still arrive, and
whether the thread runs. A worker being terminated is no longer alive, and what it answers arrives as long as
its `terminate()` is awaited. `Stalling` are tasks that need never be answered.

| Action | Code |
|---|---|
| `Run`, `Enter` | `run()` and `runWithTransfer()` before and after `await this.init()`; `Run` starts the pool when there is none |
| `InitDone`, `InitFail` | the async part of `init()` with all its `createWorker` calls |
| `Reply` | the message handler: settle, free the worker, `processQueue()`, and the wrapped handlers of `drain()` |
| `Crash` | a thread dies without an answer |
| `Terminate`, `TerminateNext` | `terminate()` up to its first await, and from one awaited worker to the next |
| `Drain`, `DrainDone` | `drain()` up to its wait, and the `terminate()` it ends with |

`processQueue()` is one operator: it takes tasks from the queue's head and workers from the
stack's top while both last, and is called with the queue, stack, pending map and messages of
its caller. That `postMessage()` throws, after the task was filed and its worker popped, is left out.

### The WebSocket client

A `flow` is one `connect()` in progress, or one `reconnect()` with the `connect()` and
`resubscribe()` it awaits. Its `pc` is the await it stands at: the backoff ("sleeping"), the
schema, the socket's opening, the handshake, an answer of `resubscribe()`; or a continuation
that is due ("loaded", "failing", "connected", "nextSubscription"). Sockets are numbered as they
are opened, and each has a status and the subscriptions the server keeps for it; `socket` is the
one `this.socket` refers to, which need not be the only one alive. `req` is a history of every
request, with the socket it travelled on, the flow that awaits it, and the request whose answer
settled it; `pendingRequests` and `timers` are the code's map and its armed timers.

The request operators (`SendRequest`, `Settle`, `CleanupPendingRequests`, `Answered`) take and
return a table, so that a callback that settles one request and issues the next (a batch,
`resubscribe()`) is one action, as in the code. `HandleResponse` is `handleMessage()` with the
continuation of the request answered, by kind; an answer whose id is no longer filed is
`LateAnswer`. Pings are sent and time out, but no answer to one is delivered, and no answer is malformed. `HandleClose` may be that of any socket, the present one or not, since
`handleClose()` does not ask.

`HandleClose` of a READY client starts a `reconnect()` in an idle flow and waits for one when all are
busy. `MaxRequests` holds back the opening of a socket whose handshake would be one request too
many. Both only cut behaviours off; neither lets anything happen that the code does not do.

### The coins

`UTXOsManager` joins three parties. A *sender* is a `sendTransaction()`: it acquires coins
(`Start`, `FetchDone`, `Select`, possibly a second round for its CSV address), broadcasts
(`Broadcast`), and reports (`Sent`) or fails (`SendFails`, `FetchFails`), which cleans the data
of all addresses. A *reader* is a `getUTXOs()` or `getMultipleUTXOs()` of somebody else. The *node* has the
`chain`: which coins exist, in the mempool or confirmed, and what has spent them; `index` is the
chain as the indexer that answers `GET_UTXOS` last saw it.

`data` is `dataByAddress` under its three keys: the wallet's address, the CSV address, and the
CSV address with the threshold 1 that reading it uses. `getUTXOs()` holds on to an `AddressData`
across its await; when `clean()` has replaced the object meanwhile, `own` is what the call still
has of it. A purge of one address empties the object and does not replace it, so there is no
`own` then. Coins are worth one unit each.

### Contracts, calls and results

`ContractCalls` composes four modules: it extends `RpcProvider` (which extends the tables of
`RpcMethods`) and `CallResults` (which extends `Abi`), and adds the contract and its calls.

*Provider.* `req` has a slot for each call of a provider's method: those the application makes, the
lookup of the contract's address, and of each call of a contract its simulation (later its challenge and its
broadcast) and its gas parameters. `Asked` is the synchronous part of a method: it returns what is
cached or sends the request. A request goes from "asked" over "body" (the head of the HTTP answer is
there) to "settled"; `Arrives` reads the answer as the method does, `Fails` and `Expire` make it throw.
A request that is to be fetched by a worker is first "queued"; it gets its timer when a worker takes it
(`Dispatch`), which a pool whose workers could not be created ("poolless") never does. A worker that dies with a
request (`Lost`) is not replaced, and one whose body stalls is held by it. `Abandoned` says which requests nothing will
end. The pool is nobody's to close here; that is `SharedThreader`'s matter.

`RpcMethods!Method` gives for every method the JSON-RPC method, the parameters, and how it looks
at the answer; there are nine ways to do so, `Reading`, in which the methods really differ.
`getPublicKeyInfo()` is there twice: called with a public key it makes an address of it when anything was thrown.
Over a WebSocket `Fields` says which parameters get a field that means the same, and `WsReads` what the
translated answer looks like; the connection itself is `WebsocketRpcProvider`'s matter. The schema of the messages is
the node's; what is known of it is what the comments and the translation say. Of `PublicKeyInfoResponse`
they say nothing, so it is taken for a message with the names of its fields.

*Contract.* `settings` are `currentTxDetails`, `accessList`, `simulatedHeight` and `from`. `contract`
has the calls that await `contractAddress` in the order of their waiting, whether the address is known
(the promise `_rlAddress` with its outcome), and the promise `gasParameters`. A `call` is one
invocation of a method with the result it returns.

| Action | Code |
|---|---|
| `Open` | the constructor with `verifyAbi()` and `defineInternalFunctions()` |
| `Set` | `setTransactionDetails()`, `setAccessList()`, `setSimulatedHeight()`, `setSender()` |
| `Start` | a method up to `await this.contractAddress` |
| `AddressKnown` | from there to `await this.provider.call()` |
| `CallReturns` | from there to `await this.currentGasParameters()`, decoding included |
| `GasKnown` | from there to the result |
| `Send`, `Export` | `sendTransaction()` and `toOfflineBuffer()` up to their first await |
| `CoinsKnown`, `MoreCoinsKnown` | the two rounds of `acquire()`, up to the challenge |
| `ChallengeKnown` | `getChallenge()` has returned: what is signed, or written |
| `Sign` | `signInteraction()` returns or throws; the broadcast, or the retry |
| `BroadcastReturns` | the end of `sendPresignedTransaction()`, and the `catch` of `sendTransaction()` |
| `Ask` | a method of the provider the application calls itself |
| `Dispatch`, `Lost`, `Headers`, `Arrives`, `Fails`, `Expire` | what happens to a request |

*Data.* An ABI is a sequence of elements with their names, flags and types. A value is a
JavaScript kind with an identity; a buffer is the sequence of items written, each with its codec, so
that reading with another codec, in another order, or too much, is an error. With this, `Abi` has the
32 types, arrays, tuples and structs, in both directions. `CallResults` has the arithmetic of
`TransactionHelper` and `acquire()` in full, and the offline format as a list of parts with the fields of each.
Coins are records with a value, an address kind and a script.

The coins a `UTXOsManager` hands out are an input here: any wallet of the instance may answer, a different
one each time, as the other module allows. What a send does to the manager's data is that module's `Sent`.

## Runs

Each passing run finishes within five minutes with two workers. Deadlock is not checked: once the
bounded tasks, requests, coins or ticks are used up, nothing is left to do.

| Run | Instance | States | Shows |
|---|---|---|---|
| `pool_races` | 3 tasks, 2 closers, 2 workers, 2 creations; crashes, failed creations, closing at any moment | 471 000 | `TypeOK`, `OneTaskPerWorker`, `OwnResult`, `NoIdleWorkerWhileQueued`, `StartsOnce` under every interleaving; `NothingSwallowed`, `PoolBounded` until a `run()` races a close |
| `pool_live` | 3 tasks, one of which may stall, 1 closer, 2 workers, 2 creations; no crash, no failed creation | 39 000 | `EveryTaskSettles`, `CloseReturns`, but for what waits for the stalled task, and until a `run()` races a close |
| `pool_shutdown` | 2 tasks, 1 worker | violation | `terminate()` during creation leaves workers (`TerminateShutsDown`) |
| `ws_races` | 2 flows, 2 sockets, 3 requests, 1 pending, 1 attempt; all switches but `clearCache()` | 3.9 M | `TypeOK`, `UnsettledIsGuarded`, `PendingBounded`, `RightAnswer`, `ImplementsLedger` |
| `ws_calm` | 2 flows, 3 sockets, 4 requests, 2 subscription types, 1 attempt; drops and refusals, no timeouts | 620 000 | `OneConnection`, `ReadyServed`, `HonestSubscriptions` |
| `ws_live` | 2 flows, 2 sockets, 2 requests; timers fire, `clearCache()` at any moment | 35 000 | `RequestsSettle`, `ConnectReturns`, `ReconnectEnds` |
| `ws_stop` | 1 flow | violation | `disconnect()` does not stop a reconnection (`DisconnectStopsReconnect`) |
| `utxo_races` | 2 senders, 1 reader, 4 coins, one of them CSV, 2 ticks; purges, failures, chain limit 1 | 3.7 M | `TypeOK`, `CacheNotOlderThanStamp`, `DepthOfEachPending` |
| `utxo_sends` | 1 sender, 1 batch reader, 4 coins, 3 ticks, limit 3; purges, a lagging indexer | 3.6 M | `ConflictNeedsBoth`, `DepthKept` |
| `utxo_csv` | 1 sender, a CSV coin | violation | a CSV coin just spent is offered again (`NoDoubleSpend`) |
| `client` | 2 calls, 3 queries, 3 points in time, 2 workers; the uses of `MCContractCalls` | 222 000 | the fifteen properties of calls, below |
| `abi_shipped` | opening a contract with each shipped ABI | violation | three of them cannot be used (`ContractOpens`) |

`client` checks of the provider `CachedAnswersFresh`, `ErrorsSurface`, `QuestionsArrive`, `Settles`; of calls
`UndisturbedCall`, `UsedOnce`, `CalldataUnderstood`, `ResultsUnderstood`, `GasAge`, `EstimateCovers`, `CallsEnd`;
of results `FundsCover`, `BroadcastOnce`, `OfflineSignsSame`; and `TypeOK`.

### Why the bounds are enough

*Pool.* Two workers and three tasks give a queue beside busy workers; two creations give answers and
pending ids of an older pool beside a newer one; two closers give overlapping `terminate()`s and a
`drain()` that finds the map emptied. In `pool_live` one of three tasks may stall: the other worker has to do the
rest, and a `drain()` waits for it. What one task or worker more would add is covered by the
theorems, which hold for any number.

*WebSocket.* Three requests are what it takes for an id to be freed, used again and answered late (with ids that
repeat, `RightAnswer` fails in such a run). Two sockets give one given up beside its successor; two
flows give a `connect()` beside a `reconnect()` or beside one that was disconnected. One pending
request makes the limit bite on every second request. `ws_calm` allows four requests: two
handshakes, a subscription and its renewal.

*Coins.* Four coins: two to choose from and two to be made, so that a chain of two is reached, the limit
is passed (`Limit` is 1 in `utxo_races`) and a conflict with a chain is possible. Times matter only
through the cooldown and the purge: the clock has enough ticks for a cached answer, an expired one and a
purge after it.

*Calls.* An application's behaviour is a *use*, chosen at the start; the uses of `MCContractCalls` are small
instances of one question each, so that they can all be explored in one run:

- `QueryUses`: each method of the provider that asks the node, once, with each answer, over each way to travel
  (pools that could not be created included). Methods share no state but the caches. All parameters are given.
- `PoolUse`: three requests for two workers, which may stall, die, or be late, so that a request waits for a worker,
  or for none.
- `CacheUses`: three calls of a cached method over three points in time, `Fresh` = 1: a value asked for,
  served, out of date; a refresh that fails or is overtaken by an older request needs three.
- `AbiUses`: each function of every shipped ABI, with right arguments, one too few, and one of another
  kind; each event; and an ABI with every type, and one with arrays, tuples and structs. A call
  has one ABI, so one call at a time is enough.
- `SettingsUses`: two overlapping calls, two settings at any moment, the address looked up (as a "p2op" and
  as a public key, which needs no answer). Two are enough for one call to take what was set for another; any number is proved.
- `StuckUses`: two overlapping calls with the lookup, over workers, over a pool that could not be created, and in a
  service worker: with two workers, one request stuck leaves the other call to end, two leave none.
- `GasUses`: two calls and a query that share gas parameters over three points in time.
- `SendUses`: three kinds of function (constant, payable, neither) with little and much gas; three sets of
  options (defaults; extra inputs and outputs with P2WDA; given coins); two wallets that may change between
  the two rounds of `acquire()`, such that one round does, two do, or none; and a send over workers, whose
  challenge or broadcast may be abandoned.

`Scale` = 10 and prices 3 to 5 leave remainders in both divisions of `estimateGas()`; `GasIsCovered` has no bound.

### Conditions, and why they are there

Some properties hold only while something does not happen. The condition is then part of the run,
either as a switch or as a history variable, and never an assumption hidden in an action.

- `raced` (`SharedThreader`): a `run()` has been waiting for the pool while it was being closed. After
  that `terminate()` may clear a queue that `run()` has just joined, without rejecting it, and `init()`
  may bring up a pool beside another.
- `ws_calm` has no timeouts, failing sockets, `disconnect()`, `clearCache()` or refused handshakes, and a
  table with room. Each of these alone leaves a socket behind, or READY without a socket or schema.
  `connect()` is called by the user only when no subscriptions are left from an earlier connection
  (`UserConnects = "fresh"`): only `reconnect()` carries them over.
- `past.forgotten`, `past.outdated`, `past.overtaken` (`UTXOsManager`): an `AddressData` was emptied by a
  purge or clean-up; an answer that offers a coin already spent was taken in; an answer was taken in
  between a broadcast and its report. A conflict needs the first two (`ConflictNeedsBoth`); that the noted
  depth is too low needs the first or the third (`DepthKept`).

- `CachedAnswersFresh` and `GasAge` excuse old parameters when newer ones were asked for by then and failed
  or were late. That is what the code does: `gasParameters()` notes the time before it asks, and a
  contract keeps a promise of it for ten seconds more.
- `UndisturbedCall` is about a call made while none waits for the address, and no setting is made
  before it is answered (`alone`). Without this a call takes whatever is set when the address arrives, and the result names
  whoever is the sender when the answer arrives.
- `ErrorsSurface` names the methods that may find nothing, and `getPublicKeyInfo()` of a public key, which answers with
  that key whatever the node says. `QuestionsArrive` names the eight JSON-RPC methods that lose parameters over a
  WebSocket, or have one put into a field that means something else (`GET_CODE`), and `getLatestEpoch()`, which sends its parameter over no transport. All others are covered
  without exception.
- `Settles` and `CallsEnd` exclude what is `Abandoned`: a body that stalls in a worker or a service worker, where the
  timer has been cleared; a request whose worker died; one of a pool that could not be created; and one that is queued
  while every worker is held by such requests. A call is excused only if the very request it waits for is
  abandoned (`Stuck`). Over the WebSocket the timer is that of `sendRequest()`.
- `EveryTaskSettles` and `CloseReturns` say the same of the pool: the `Stalling` tasks themselves, and a `drain()` that waits for
  one, are excepted, and there must be fewer of them than workers.
- `StartsOnce` excepts the moment in which a `terminate()` awaits its workers: it has rejected the queue and not emptied it, so an
  answer that arrives starts tasks whose callers were told that they ended.
- `BroadcastOnce` rests on `PhraseApart`: `sendTransaction()` tries again when the text of an error has "Insufficient
  funds to pay the fees". The transaction library says so when it signs; a node that refused a broadcast in these words
  would have the transaction broadcast once more.
- `OfflineSignsSame` does not ask for the transaction a coin is from (`raw`), which is not written, nor that a
  restored result refuses a constant or a payable function.

### Fairness

`SharedThreader!FairSpec`: continuations of settled promises run, creating a worker ends (well or
badly), `worker.terminate()` settles, and a worker answers every task that is not `Stalling`. The last is an assumption
about the environment and not something the code sees to: parsing returns, but the timer of a worker's
fetch is cleared when the headers are in (`JSONWorker.ts:69`), so that a body that stalls is never answered. Such
tasks are `Stalling`. `WebsocketRpcProvider!FairSpec`: continuations run, armed timers fire, a
fetch of the schema ends. It is strong for timers and the schema, whose callbacks are held back while
continuations are due: the event loop serves a callback that is due, though its guard comes and goes.
Nothing is assumed of the user, the server or the network: no call, answer, opening or closing need ever
happen. That the schema's fetch ends is an assumption about the environment; the code gives it no
timeout.

`ContractCalls!Spec`: a call that can go on does (`[]<>~Resumes(c)`, which is weak fairness of its steps, since a
call takes finitely many; stated so, TLC need not evaluate `ENABLED` of steps that choose among
many results), a worker that is free takes up a request that is queued (weak fairness of `Dispatch`: `processQueue()` runs
whenever either appears), and some armed timer fires in the end if nothing else happens (weak fairness of `Expire`; there are
finitely many requests). The node need never answer, the application never call. Coins, signing and their
failures are steps of the call: that the UTXO manager and the transaction library return is assumed.

## Proofs

### The worker pool, proved

`SharedThreaderProofs` proves, for any sets of tasks and closers, any pool size and every setting of
the switches:

| Theorem | States |
|---|---|
| `TypeCorrect` | `Spec => []TypeOK` |
| `WorkersExclusive` | `Spec => []OneTaskPerWorker` |
| `ResultsOwn` | `Spec => []OwnResult` |
| `NoWorkerIdles` | `Spec => []NoIdleWorkerWhileQueued` |
| `NothingIsSwallowed` | `Spec => []NothingSwallowed` |
| `PoolIsBounded` | `Spec => []PoolBounded` |
| `TasksStartOnce` | `Spec => StartsOnce` |

*Assumptions*: those named in `SharedThreader`: `PoolSize` and `MaxInits` are positive naturals, the
switches are Booleans, and no task is one of the three strings that stand for an unsettled or
rejected outcome. TLC evaluates them in every run of the pool.

*Argument.* Neither property is inductive by itself. That a worker freed by its answer is not on the
stack already needs that it held exactly the message it answered, and that a worker whose creation
is not finished holds none and is not on the stack. That a result goes to its own caller needs that
an id in use (in the map, or in a message of a worker that belongs to a pool torn down long ago) is
below the counter, so that ids handed out are fresh, and that a message whose id is filed is filed
with its own task. `IInv` is the conjunction of these (`Exclusive`, `IdsBelow`, `FiledRight`,
`Unused` before a creation is done) with the types and `OwnResult`. `DispatchSafe` shows once that
`processQueue()` keeps it from any queue, stack, map and messages; the actions that end in
`processQueue()` cite it.

`DispatchComplete` is the other half of `processQueue()`: it leaves no pair of task and worker, and
every task of its queue is in the queue or filed afterwards. With it, three more invariants go
through. A creation in progress is awaited by the `run()` that started it (`Awaited`), so when
workers arrive somebody is about to look at the queue; this is why `NoIdleWorkerWhileQueued` holds
although `init()` calls no `processQueue()`. Until a `run()` races a close, nobody waits for the
pool while it is closed and a `terminate()` past its first await has left no promise open
(`Remembered`), so clearing the queue and the map at its end loses nothing; and a pool under
creation is the one `this.initializing` names and finds an empty array (`FilledOnce`).

`TasksStartOnce` needs that no task is twice in the queue or both there and filed (`Apart`), and that, outside of a
`terminate()` that awaits its workers, what is queued is unsettled (`Orderly`); a task joins the queue once, from the
`run()` that made it.

### The WebSocket client, proved

`WebsocketRpcProviderProofs` proves, for any number of flows, sockets, requests and subscription types,
any limits and every setting of the switches:

| Theorem | States |
|---|---|
| `TypeCorrect` | `Spec => []TypeOK` |
| `NoRequestHangs` | `Spec => []UnsettledIsGuarded` |
| `PendingIsBounded` | `Spec => []PendingBounded` |
| `AnswersOwn` | `Spec => []RightAnswer` |
| `ClientImplementsLedger` | `Spec => ImplementsLedger` |

*Assumptions*: those named in `WebsocketRpcProvider` (bounds are naturals, switches Booleans).

*Argument.* All that touches requests does so by four operators that take and return a table, so the
invariant `TableInv` is one of tables, and each operator is shown once to keep it.
`UnsettledIsGuarded` and `RightAnswer` are not inductive alone: an answer finds a request by its id,
so that it settles the right one needs that ids are never given twice and that a request is filed
under its own (`IdsOwn`), and that freeing an id or clearing a timer guards no other. Open requests
have different ids, all filed, so there are at most as many of them as entries, which is what the
ledger's limit asks for. The refinement follows each action through the sequence of tables it
passes: `View`, what a sender sees of a table, does what an action of the ledger does, or stays; an
action that settles one request and issues the next is one step of the ledger.

About its connection it proves, for the same numbers:

| Theorem | States |
|---|---|
| `OneConnectionAtATime` | `Spec => []OneConnection` |
| `ReadyIsServed` | `Spec => []ReadyServed` |
| `SubscriptionsAreHonest` | `Spec => []HonestSubscriptions`, if also `UserConnects = "fresh"` |

*Assumption*: `Calm`, which is what `ws_calm` sets: no socket fails to open and no timer runs out, no
handshake is refused, the table of requests has room, the user neither disconnects nor clears the
cache, nor calls `connect()` while a continuation of the client's own is due. None can be spared; what
happens without each is said under "Conditions". The network may still drop the connection, and the
server refuse or leave unanswered any other request, at any moment and as often as the bounds allow.

*Argument.* There is one connection because one flow at most is on its way to one, and `state` tells
where it stands (`Standing`): a `connect()` begins only from DISCONNECTED or RECONNECTING, in which
every socket is dead, and while a socket opens or its handshake is out the state says so
(`Sockets`). That a handshake's answer finds its own flow still waiting for it needs that whatever can
be answered is unsettled and is awaited by at most one flow, at the await of its kind, and that before
READY nothing can be answered but the handshake and calls left in batches (`Asking`). For subscriptions
`Fed` says that the handlers kept are fed once the flow that connected has gone on to `resubscribe()`, which
takes them all out and files each again when its answer is in, and that a `connect()` of the user's has none to
carry over.

### The coins, proved

`UTXOsManagerProofs` proves, for any number of coins, sends, reads and ticks:

| Theorem | States |
|---|---|
| `DepthsWithinLimit` | `Spec => []TypeOK`, noted depths up to the limit included |
| `PendingHaveDepth` | `Spec => []DepthOfEachPending` |
| `StampsAreEarly` | `Spec => []CacheNotOlderThanStamp`, if `ReadersBatch = FALSE` |
| `ConflictsNeedBoth` | `Spec => []ConflictNeedsBoth`, if sends come one at a time and there are no CSV coins (`Alone`) |
| `DepthsAreKept` | `Spec => []DepthKept`, for sends that overlap and with CSV coins too |

*Assumptions*: those named in `UTXOsManager`, and the conditions in the table. They are the limits
of the code: a batch read stamps its answer late, overlapping sends choose the same coins, and what
is spent of a CSV address is noted under another key (`utxo_csv`).

*Argument.* For one address: its data is typed, its pending coins are those with a depth, and its
stamp is not later than its answer (`Sound`); every operator on such data keeps this, and a call in
progress carries an answer and times that fit. For conflicts, `CInv` adds what relates the data to
the chain. A spent coin is noted as spent or held by a send that has been accepted and is yet to
report, unless something was forgotten; a coin offered from the cache is unspent or noted, unless an
answer was out of date. What a send selects avoids both, so a coin it can lose to an earlier send
needs both to have happened. What the node has is part of it (`ChainOK`): a coin not made yet is
unspent and not in the index, and the inputs of a transaction in the mempool are spent.

`DepthsAreKept` is about a chain and what is noted of it. The depth of a coin is a recursive function
of the chain. That the function exists, and how it relates to that of the chain one step later, is shown
without induction, by the least coin for which it would fail: a transaction is made of older coins only
(`Grows`). A step makes no coin deeper that was there (`DepthsShrink`): it adds a coin at the end, or confirms one. So
a depth that is high enough stays so (`Deep`), and what has to be shown is that it is when it is noted. A send
notes one more than the deepest of its inputs that are pending. This is enough because the inputs that are in the
mempool are pending, from the moment they are unspent until the send that spends them reports (`Deep`,
`Spending`). A coin stops being pending when it is reported spent, or when an answer has it
confirmed, or does not have it; an answer tells the truth about what is confirmed and spent, since the index lags but
never runs ahead (`Behind`). That an answer does not have a coin that was broadcast after the answer was made is
what `past.overtaken` notes, and that pending coins are dropped by a purge or clean-up `past.forgotten`.
`CallClear` and `Apart` say that calls that overlap do not undo each other's part.

### Calls, proved

`ContractCallsProofs`, `AnswersProofs` and `ResultsProofs` prove, for any number of calls and queries,
any set of uses (transports, ABIs, answers, gas, options, wallets), any prices and any scale:

| Theorem | States |
|---|---|
| `SendsOnce` | `Spec => []BroadcastOnce`, if also `PhraseApart` |
| `SettingsServeOnce` | `Spec => []UsedOnce` |
| `UndisturbedCallKept` | `Spec => []UndisturbedCall` |
| `GasIsCovered` | `Spec => []EstimateCovers` |
| `CachedAnswersAreFresh` | `Spec => []CachedAnswersFresh` |
| `GasIsOfAge` | `Spec => []GasAge` |
| `ErrorsDoSurface` | `Spec => []ErrorsSurface` |
| `QuestionsDoArrive` | `Spec => []QuestionsArrive` |
| `CallTypes` | `Spec => []TypeOK`: who waits for the address is in the queue, once |
| `ResultsAreUnderstood` | `Spec => []ResultsUnderstood` |
| `CalldataIsUnderstood` | `Spec => []CalldataUnderstood`, if also `NamesApart` |
| `FundsAreCovered` | `Spec => []FundsCover` |
| `OfflineSignaturesAgree` | `Spec => []OfflineSignsSame`, if also `NetworksNamed` |

*Assumptions*: those named in `RpcProvider` and `ContractCalls`: times are naturals, the slots are
those of the calls, gas is a natural, a price is one for each point in time, the scale and the lifetime of
the caches are positive; a use asks for methods the provider has, and its node gives the answers that are
modelled; its ABI is a sequence of elements of types the library knows (`AbiElement`), it calls functions of
that ABI, and sends with typed options, of typed wallets; a challenge has lists of proofs and of submissions, with
their fields. `NamesApart` is that no event has the name of a function that is called: `encodeCalldata()` takes the
first element of a name, whatever it is. `NetworksNamed` is that the library has a name for the network of every
provider: one of the application's own becomes regtest in an offline buffer, and its coins would be unlocked
differently. `PhraseApart` is that a node refuses no broadcast in the words the retry looks for. TLC evaluates all of them
in `client`, the last three for its uses too.

*Argument.* Every action has a lemma that says from which stage to which it takes its call and that
it leaves the others alone (`Goes`); `Shape`, that calls are records with their fields, makes that
possible. `SendsOnce` follows from the order of the stages: no path leads from a broadcast back to
where it can happen again, since the only retry starts from an error of those words, which then is a failed signature's
(`AfterBroadcast`).
`SettingsServeOnce` needs that what is set is always newer than whatever a call has taken; then
taking and clearing in one step is enough.

`UndisturbedCallKept` needs the queue: calls that wait for the address are in it (`InLine`), so one
that was made while it was empty is at its head until it goes on, and nobody before it can take the
settings or clear them (`FirstToGo`). This is where the order in which continuations run matters,
and the one reason why reading settings after the await is right for such calls.

`GasIsCovered` has two halves. Arithmetic: with q = gas * price div scale, the estimate is at least
q + 1 (`EstimateEnough`), be it by the 15% or by the 297 sat. And that a result never meets a price
nobody asked for: every answer, also one out of a cache or of the promise a contract keeps, is of a
time there was (`RpcTimed`).

`CachedAnswersAreFresh` has to tell two requests apart: the cache of gas parameters keeps the answer that
came *last*, and the time of the request that was *made* last (`GasCache`). They may be different ones, in
either order. When the time is recent and the answer old, the newest request is the excuse: it failed, or
is under way, or an older one arrived after it. `GasIsOfAge` adds what the contract's promise keeps (`Promises`):
its own 10 s begin when its request was made.

`ErrorsDoSurface` and `QuestionsDoArrive` go through the tables of `RpcMethods`, way by way of reading an
answer and method by method, for any set of uses (`Sound`). Nothing is said in them that the tables do not
say; what they add is every use and any number of requests. The proof would not go through as `WsReads` was
first written, a `CASE` two of whose arms applied to the same answer; which of them is taken is not
defined, though TLC takes the first. It is now nested by the order of the code.

`CalldataIsUnderstood` and `ResultsAreUnderstood` are about folds over types, values and items of any length.
What a fold returns for every sequence is a matter of induction, which the provers have no rule for. `LeftFolds`
does without one: what holds of 0, and of each number after one it holds of, holds up to n, as there is no least
number for which it fails (`Climb`). So the function that defines `FoldLeft()` exists (`IterThere`), and a fold
goes through the states that each step leads to (`FoldPasses`) or stays in a set that none leaves (`FoldStays`).
A module that folds has an instance of it for each operator. With that, `AbiProofs` shows of every
type that the items written of a value that suits it are read as that value, by a reader that is anywhere in a
buffer, and that the reader stands behind them (`Legible`); lists of such items follow. The invariant (`Faithful`) says
by stage what a call has in its hands: arguments that are right or cannot be encoded, items that were encoded of right
ones, values and events that were decoded of what the node may return. A node that returns nothing is caught
unless nothing was to be returned (`NothingRead`).

`FundsAreCovered` is that what is signed has passed the comparison of `acquire()` (`Funded`), made for the
options, the result and the addition it is signed with: neither of the two rounds, nor the retry, which drops its
coins, leads around it. The sums that are compared have to be numbers; that they are is shown by folds once more.

`OfflineSignaturesAgree` has three levels of folds: a record is its fields in a row, a part of the buffer is a number of
records, and the buffer its eleven parts. Each part is read as what is kept of it, wherever it stands (`PartRead`), so a
buffer is read as its data (`BufferRead`): what the layouts leave out is lost and the rest is as written. Then
what is restored agrees with the result in all that signing looks at (`Agrees`), and an argument about `SharedParams`
and `Unlocked` is left. The invariant (`AllCarry`) says by stage that the result can be written, that what was acquired
are coins, and that the buffer is that of both.

### Only model-checked

Liveness (`EveryTaskSettles`, `CloseReturns`, `Settles`, `CallsEnd` and the WebSocket ones), which
rests on fairness and `ENABLED`. Every invariant and every action property that a run checks is proved. No module
here has a `RECURSIVE` operator.

## Where code and documents disagree

With a run each ("findings" in `PROJECT.json`):

- `terminate()` while `init()` is under way returns with nothing shut down, and the workers come up after
  it (`pool_shutdown`; `docs/providers/threaded-http.md`: "Shut down all workers").
- `reconnect()` does not look at `userRequestedDisconnect` after its backoff, and connects again after
  `disconnect()` (`ws_stop`; the comment in `handleClose()`).
- What is spent of a CSV address is noted under the address, and read under the address with a
  threshold, so the coin is offered again from the cache (`utxo_csv`; `docs/getting-started/overview.md`:
  "Track UTXOs ... to avoid double-spending").
- The ABIs of the three stablecoins define `Minted`, and two of them `Burned`, which they also take over
  from `OP_20_ABI`; opening a contract with one throws "Duplicate event found in the ABI" (`abi_shipped`;
  `docs/abi-reference/stablecoin-abis.md` opens one with each, under names that are not exported either).

Met on the way, stated here and kept out of the runs by the conditions above:

- A `connect()` whose handshake is refused or times out ends in DISCONNECTED with its socket open;
  `ConnectionState.ts` says "Not connected to the server". A later `connect()` replaces the reference
  to it, and its `onclose` is then taken for that of the new one.
- `disconnect()` does not end a `connect()` in progress; two may overlap, and the handshake of one can make
  the client READY while `this.socket` is the other's, still connecting.
- A purge goes by the time of the last purge, not of what it forgets: spends and chain depths a moment old
  are lost, and the limit of 25 that `spentUTXO()` "enforces" is then counted from 1 again.
- A batch read stamps its answer with the time of arrival rather than of the request, and so keeps it
  longer than the cooldown.
- A failed creation of the pool stays in `this.initializing`: later calls of `run()` never settle.
- Details set for the next call go to an earlier one that still waits for the address, and a call that fails
  has used them up (`Contract.ts:914`; `docs/contracts/simulating-calls.md` speaks of the next call).
- Without a `feeRate`, `acquire()` writes 1.5 into the caller's parameters, so the default the documents name applies
  only to coins that are given (`docs/contracts/transaction-configuration.md`).
- `maximumAllowedSatToSpend` is a minimum: `computeRequiredAmount()` takes the larger of it and the need
  (`docs/api-reference/contract-api.md`).
- Over a WebSocket: `call()` loses height, details and access list; `getStorageAt()`, epochs,
  `submitEpoch()` (whose `checksumRoot` is looked for as `targetHash`) and reading coins with `olderThan` lose a parameter each.
  `getReorg()` sends the first block in the field of a limit, and loses the second. `getCode()` sends `onlyBytecode` in the field
  that the comment there calls `full` (`WebsocketRpcProvider.ts:457`), which asks for the opposite. `getTransaction()`,
  `getBlockWitness()` and `getReorg()` cannot read the message they are handed, and `getPendingTransaction()`
  rejects for an unknown transaction instead of returning null.
- `getLatestEpoch(includeSubmissions)` never sends what it is given (`AbstractRpcProvider.ts:1021`);
  `docs/providers/json-rpc-provider.md:348` and `docs/epochs/epoch-operations.md:48` ask it for submissions. A height of zero is
  taken for none by `call()` and `getStorageAt()`.
- `getPublicKeyInfo()` "throws if the address is invalid"; given a public key it returns an address of that key whenever anything
  was thrown, a request that timed out included.
- Gas parameters are cached for 10 s, whatever blocks come; `docs/providers/internal-caching.md:42` says that they are refreshed
  "On new block", and its line 201 that this is automatic.
- The timer of a request in a worker is set when a worker takes it and cleared at the headers, so a request that is
  queued behind stalled bodies, or whose worker died, has none (`JSONThreader.ts:139`).
- A result taken offline forgets that its function is constant or payable, so the guards of
  `signTransaction()` do not hold there; coins lose `nonWitnessUtxo`; a network of the application's own
  becomes regtest; fee rates are rounded to six decimals.
- Arguments of BYTES32 and BYTES4 are written at whatever length they have, and read at 32 and 4.
- `getBlocks()` asks by number whatever it is given. The result of a call names the sender at the time of
  the answer, not of the call.

## What is not modelled

- Statistics, logging, error texts, and the encoding of payloads and answers.
- Notifications and event handlers of the WebSocket client: they are delivered in the order of
  arrival and change no state of it. Answers to pings, and answers that cannot be decoded. The 32-bit wrap-around of request ids. Several providers that share
  one schema cache.
- In `UTXOsManager` coins are equal, so `optimize`, `maxUTXOs` and the order of selection have no effect there;
  `Select` takes any coins that do. A reorganisation of the chain. An application that itself calls `spentUTXO()`
  after a `sendTransaction()`, as `docs/api-reference/utxo-manager-api.md` shows: what was sent is then reported twice.
- In the calls: widths of numbers (a value fits its codec), tuples inside structs and structs inside tuples,
  the hash of a selector (taken to be injective), `maxUTXOs`, a challenge handed in by the caller, and the options that are
  handed through to the transaction library (`note`, `anchor`, `txVersion` and the MLDSA ones). The transaction library,
  `BinaryWriter` and `BinaryReader` are external, modelled from how the code uses them.
- Batches of the HTTP provider: answers are matched to requests by their position, which is the node's to keep.
- Optional parameters that are left out. The code pushes the others one after another, so a page without a limit takes the
  limit's place (`AbstractRpcProvider.ts:777`).
- A pool that is closed while requests are under way over it (`SharedThreader` has that), and a `postMessage()` that throws.
- JSON that is parsed in a worker, when the request was made in the main thread, is not aborted by the timer; that
  it is parsed at all is the pool's liveness.
- The components marked `not_modelled` in `PROJECT.json`, each with its reason.

## Plan

Done: the pool, the WebSocket client, the coins, and contracts with their calls, results and provider; the
safety of all of them proved. Left, in this order:

1. `RequestIds`: ids through the 32-bit counter, the encoding, and the decoding with signed shifts, at reduced
   width.
2. `JSONThreader`: parsing in the pool beside fetches, by size, and what a stalled body costs the answers that are to be
   parsed.
