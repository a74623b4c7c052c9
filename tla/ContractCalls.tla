---------------------------- MODULE ContractCalls ----------------------------
(***************************************************************************)
(* An application using one contract (Contract.ts) through its provider:   *)
(* calls of the contract's methods that overlap, the settings they share,  *)
(* and what is done with their results (CallResult.ts).                    *)
(*                                                                         *)
(* An action is the code between two awaits.  Calls that wait for the      *)
(* contract's address go on in the order they were made, as microtasks do. *)
(*                                                                         *)
(* What one application does with the library is a use, a record in Uses:  *)
(*   transport          how its provider travels                           *)
(*   abi, fns           the contract's ABI, and the functions it calls     *)
(*   address            the contract is known by an "object", by a "p2op"  *)
(*                      address, or by a "publicKey"                       *)
(*   calls, mistaken    how many calls it makes, also with wrong arguments *)
(*   queries, asks      provider methods it calls itself, and how often    *)
(*   answers            how the node answers                               *)
(*   events, gas        what simulations emit and need                     *)
(*   sets, until        how many settings it makes; when time stops        *)
(*   network            that of the provider                               *)
(*   options, wallets   what it sends with, or takes offline, and the      *)
(*                      coins of its address                               *)
(*   amount             what it takes offline coins for                    *)
(* The uses bound the model; nothing in the code knows of them.            *)
(***************************************************************************)
EXTENDS RpcProvider, CallResults

CONSTANTS
  MaxCalls,    \* calls of the contract's methods, numbered as they are made
  MaxAsks,     \* the application's own calls of the provider
  Uses,        \* what applications do
  Scale,       \* 1 000 000 000 000: gasPerSat is in parts of it
  GasPerSat,   \* the price of gas, by the time it is asked for
  Fees,        \* BitcoinFees
  Challenge,   \* a ChallengeSolution
  Refusals     \* what the message of a broadcast that failed may be about

ASSUME ScaleAssumption == Scale \in Nat \ {0}
ASSUME UsesAssumption ==
  \A u \in Uses :
    /\ u.sets \in Nat /\ u.gas \subseteq Nat
    /\ u.answers \subseteq Answer /\ u.queries \subseteq DOMAIN Method
ASSUME AbiAssumption ==
  \A u \in Uses : u.abi \in Seq(AbiElement) /\ u.fns \subseteq Methods(u.abi)
ASSUME MoneyAssumption ==
  \A u \in Uses :
    u.options \subseteq Parameters /\ u.wallets \subseteq Wallet /\ u.amount \in Nat
ASSUME ChallengeAssumption ==
  /\ Challenge.proofs \in Seq([proof : STRING])
  /\ Challenge.submission \in
       Seq([mldsaPublicKey : STRING, legacyPublicKey : STRING, solution : STRING,
            graffiti : STRING, signature : STRING])
ASSUME RefusalsAssumption == Refusals \subseteq {"fees", "broadcast"} /\ Refusals # {}
ASSUME PriceAssumption == GasPerSat \in [0..MaxTime -> Nat]

Caller == 1..MaxCalls

Lookup == <<"lookup", 1>>
AskSlot(i) == <<"ask", i>>
CallSlot(c) == <<"call", c>>
GasSlot(c) == <<"gas", c>>

ASSUME SlotAssumption ==
  Slot = {Lookup} \cup {AskSlot(i) : i \in 1..MaxAsks}
           \cup {CallSlot(c) : c \in Caller} \cup {GasSlot(c) : c \in Caller}

VARIABLES
  use,        \* what this application does
  settings,   \* currentTxDetails, accessList, simulatedHeight and from; 0 is undefined
  sets,       \* how many settings were made: each is a new one
  contract,   \* whether it is open, the calls that wait for its address, whether it has one,
              \* and the promise of gasParameters it keeps
  call        \* the calls, each with its result

callVars == <<use, settings, sets, contract, call>>
vars == <<rpcVars, callVars>>

Setting == {"details", "list", "height", "sender"}
NoSettings == [x \in Setting |-> 0]

\* The promise of gas parameters a contract keeps: when it was made, and by which call.
NoPromise == [made |-> FALSE, cachedAt |-> 0, by |-> 0]

NoCall == [
  stage |-> "idle", fn |-> "", args |-> <<>>, meant |-> NoSettings,
  alone |-> TRUE, took |-> NoSettings, seen |-> NoSettings, promise |-> 0, gasAt |-> 0,
  wantedAt |-> 0, events |-> <<>>, sim |-> <<>>, options |-> <<>>, coins |-> <<>>,
  retried |-> FALSE, broadcasts |-> 0, buffer |-> <<>>]

Init ==
  /\ RpcInit
  /\ use \in {u \in Uses : u.transport = transport}
  /\ settings = NoSettings
  /\ sets = 0
  /\ contract = [open |-> "", waiting |-> <<>>,
                 known |-> IF use.address = "object" THEN "yes" ELSE "", gas |-> NoPromise]
  /\ call = [c \in Caller |-> NoCall]

\* Mutant: any of the calls that wait for the address may go on.
ResumesInAnyOrder(c) ==
  CASE call[c].stage = "address" -> contract.known # "" \/ Settled(Lookup)
    [] call[c].stage \in {"calling", "challenge", "sending"} -> Settled(CallSlot(c))
    [] call[c].stage = "gas" -> Settled(GasSlot(call[c].promise))
    [] OTHER -> call[c].stage \in {"coins", "moreCoins", "signing"}

\* Mutant: a lookup that failed leaves the calls waiting.
ResumesOnSuccess(c) ==
  CASE call[c].stage = "address" ->
         Head(contract.waiting) = c /\ (contract.known # "" \/ req[Lookup].end = "value")
    [] call[c].stage \in {"calling", "challenge", "sending"} -> Settled(CallSlot(c))
    [] call[c].stage = "gas" -> Settled(GasSlot(call[c].promise))
    [] OTHER -> call[c].stage \in {"coins", "moreCoins", "signing"}

\* What a call awaits is there: calls that wait for the address resume in the order of their
\* waiting, coins and signatures are there when they are asked for.
Resumes(c) ==
  CASE call[c].stage = "address" ->
         Head(contract.waiting) = c /\ (contract.known # "" \/ Settled(Lookup))
    [] call[c].stage \in {"calling", "challenge", "sending"} -> Settled(CallSlot(c))
    [] call[c].stage = "gas" -> Settled(GasSlot(call[c].promise))
    [] OTHER -> call[c].stage \in {"coins", "moreCoins", "signing"}

-----------------------------------------------------------------------------
(* Opening, and settings                                                   *)

\* getContract(): the constructor throws when the ABI will not do.
Open ==
  /\ contract.open = "" /\ use.calls > 0
  /\ contract' = [contract EXCEPT !.open = IF Opens(use.abi) THEN "yes" ELSE "threw"]
  /\ UNCHANGED <<rpcVars, use, settings, sets, call>>

\* A setting disturbs the calls that have yet to be asked or answered.
Disturbed ==
  [c \in Caller |-> IF call[c].stage \in {"address", "calling"}
                    THEN [call[c] EXCEPT !.alone = FALSE] ELSE call[c]]

\* setTransactionDetails(), setAccessList(), setSimulatedHeight(), setSender().  Details with
\* an output 0 are refused and leave things as they are.
Set(x) ==
  /\ contract.open = "yes" /\ sets < use.sets
  /\ sets' = sets + 1
  /\ settings' = [settings EXCEPT ![x] = sets']
  /\ call' = Disturbed
  /\ UNCHANGED <<rpcVars, use, contract>>

\* Mutant: the access list is left for the next call, and so are the details.
SettingsKept == settings

\* Mutant: whatever was set is used up by a call.
NoSettingsLeft == NoSettings

\* What a call leaves behind when it has taken details and access list.
SettingsLeft == [settings EXCEPT !.details = 0, !.list = 0]

-----------------------------------------------------------------------------
(* Calling a method                                                        *)

\* An example of a value of each type, and of a list of types.
Example(t, i) ==
  [js |-> Takes(t), id |-> i,
   size |-> IF t \in DOMAIN FixedSize THEN FixedSize[t] ELSE 8]
ExampleOf(type, i) ==
  LET fields == [k \in DOMAIN type.of |-> Example(type.of[k], 10 * i + k)] IN
  CASE type.shape = "basic" -> fields[1]
    [] type.shape = "struct" -> [js |-> "object", items |-> fields]
    [] type.shape = "tuple" /\ Len(type.of) = 1 ->
         [js |-> "array", items |-> <<fields[1], fields[1]>>]
    [] OTHER -> [js |-> "array", items |-> <<[js |-> "array", items |-> fields]>>]
Examples(types) == [i \in DOMAIN types |-> ExampleOf(types[i], i)]

\* The arguments an application tries: right ones, one too few, one of another kind.
Arguments(f) ==
  LET right == Examples(f.inputs)
      wrong == [js |-> "symbol", size |-> 0, id |-> 0]
  IN {right} \cup IF right = <<>> \/ ~use.mistaken THEN {}
                  ELSE {Tail(right), [right EXCEPT ![1] = wrong]}

\* A call ends by throwing.
Failed(c) ==
  [call EXCEPT ![c] = [NoCall EXCEPT !.stage = "failed", !.took = call[c].took,
                                     !.broadcasts = call[c].broadcasts]]

Function(c) == Definition(use.abi, call[c].fn)

\* No element of another kind has the name of a function that is called.
NamesApart ==
  \A u \in Uses : \A fn \in u.fns, i \in DOMAIN u.abi :
    u.abi[i].name = fn => u.abi[i].type = "function"

\* The library has a name for the network of every provider.
NetworksNamed == \A u \in Uses : u.network \in DOMAIN NetworkByte

\* What the contract is known by is what getPublicKeyInfo() is called with.
LookupMethod ==
  IF use.address = "publicKey" THEN "getPublicKeyInfoOfKey" ELSE "getPublicKeyInfo"

\* A method is called: the contract's address is looked up, the first time.
Start(c, fn, args) ==
  /\ contract.open = "yes" /\ call[c].stage = "idle"
  /\ call' = [call EXCEPT ![c] =
       [NoCall EXCEPT !.stage = "address", !.fn = fn, !.args = args, !.meant = settings,
                      !.alone = contract.waiting = <<>>]]
  /\ contract' = [contract EXCEPT !.waiting = Append(@, c)]
  /\ req' = IF contract.known = "" /\ req[Lookup].stage = "idle"
            THEN Asked(req, Lookup, LookupMethod) ELSE req
  /\ UNCHANGED <<now, transport, cache, use, settings, sets>>

\* contractAddress.  The lookup is made once, and a failure is kept too.  A public key that
\* cannot be looked up will do as it is; one the node knows nothing of will not.
AddressOutcome ==
  IF contract.known # "" THEN contract.known
  ELSE IF req[Lookup].end \in {"value", "itself"} THEN "yes" ELSE "no"

\* What the node gets to see of the settings, by the parameters they are sent as.
SeenByNode ==
  LET sent == Carried("call", transport)
      If(parameter, setting) == IF parameter \in sent THEN setting ELSE 0
  IN [sender |-> If("from", settings.sender), height |-> If("height", settings.height),
      details |-> If("simulatedTransaction", settings.details),
      list |-> If("accessList", settings.list)]

\* callFunction() from the address to its call of the provider.
CallNode(c) ==
  LET f == Function(c)
      unpaid == f.payable /\ settings.details = 0
      encoded == EncodeFunctionData(f, call[c].args)
  IN \/ /\ unpaid \/ ~encoded.ok
        /\ call' = [Failed(c) EXCEPT ![c].took = settings]
        /\ UNCHANGED req
     \/ /\ ~unpaid /\ encoded.ok
        /\ call' = [call EXCEPT ![c].stage = "calling", ![c].took = settings,
                                ![c].seen = SeenByNode,
                                ![c].sim = [calldata |-> encoded.items]]
        /\ req' = Asked(req, CallSlot(c), "call")

\* The contract has an address, or has none, and the call that waits longest goes on.
\* Whatever it fails of then, it has used up details and access list.
AddressKnown(c) ==
  /\ call[c].stage = "address" /\ Resumes(c)
  /\ contract' = [contract EXCEPT !.waiting = Tail(@), !.known = AddressOutcome]
  /\ \/ AddressOutcome = "yes" /\ CallNode(c) /\ settings' = SettingsLeft
     \/ AddressOutcome = "no" /\ call' = Failed(c) /\ UNCHANGED <<settings, req>>
  /\ UNCHANGED <<now, transport, cache, use, sets>>

\* What a node may return of a simulation: the outputs of the function, or what cannot be
\* read as them, and events the ABI has or has not.
Outputs(f) ==
  {InOrder([i \in DOMAIN f.outputs |-> EncodeInput(f.outputs[i], Examples(f.outputs)[i])]).items}
    \cup IF f.outputs = <<>> THEN {} ELSE {<<>>}
Emitted(e) ==
  [type |-> e.name,
   data |-> InOrder([i \in DOMAIN e.inputs |->
                       EncodeInput(e.inputs[i], Examples(e.inputs)[i])]).items]
Events ==
  LET known == {use.abi[i] : i \in {j \in DOMAIN use.abi : use.abi[j].type = "event"}} IN
  {<<>>} \cup
    IF ~use.events THEN {}
    ELSE {<<[type |-> "Unheard", data |-> <<>>]>>} \cup {<<Emitted(e)>> : e \in known}
           \cup {<<[type |-> e.name, data |-> <<>>]>> : e \in known}

\* The result, as callFunction() fills it in before it knows what gas costs.
Simulated(c, output, values, gas, refunded) ==
  LET f == Function(c) IN
  [to |-> "to", address |-> "address", calldata |-> call[c].sim.calldata,
   from |-> settings.sender, csv |-> settings.sender # 0, revert |-> <<>>,
   constant |-> f.constant, payable |-> f.payable, satGas |-> 0, satRefunded |-> 0,
   gas |-> <<gas>>, refunded |-> <<refunded>>, fees |-> <<>>, network |-> use.network,
   result |-> output, values |-> values,
   accessList |-> <<[contract |-> "address", slots |-> 1, key |-> "key", value |-> "value"]>>]

\* Mutant: the promise of gas parameters is kept for good.
PromiseForever == contract.gas.made

\* currentGasParameters() hands out the promise it has, or makes one.
PromiseKept == contract.gas.made /\ contract.gas.cachedAt + Fresh > now

AwaitGas(c, rs, r) ==
  \/ /\ PromiseKept
     /\ call' = [call EXCEPT ![c] = [r EXCEPT !.stage = "gas", !.wantedAt = now,
                                                     !.promise = contract.gas.by]]
     /\ req' = rs
     /\ UNCHANGED <<contract, cache>>
  \/ /\ ~PromiseKept
     /\ call' = [call EXCEPT ![c] = [r EXCEPT !.stage = "gas", !.wantedAt = now, !.promise = c]]
     /\ contract' = [contract EXCEPT !.gas = [made |-> TRUE, cachedAt |-> now, by |-> c]]
     /\ req' = Asked(rs, GasSlot(c), "gasParameters")
     /\ cache' = NotedInCache("gasParameters")

Answered(s) == [req EXCEPT ![s] = Unused]

\* The provider's answer.  The call throws when it is an error, when the simulation reverted,
\* and when its result cannot be decoded; else it goes on to what gas costs.
CallReturns(c) ==
  /\ call[c].stage = "calling" /\ Resumes(c)
  /\ \/ /\ call' = Failed(c)
        /\ req' = Answered(CallSlot(c))
        /\ UNCHANGED <<contract, cache>>
     \/ /\ req[CallSlot(c)].end = "value"
        /\ \E output \in Outputs(Function(c)), gas \in use.gas, events \in Events :
             LET read == DecodeOutput(Function(c).outputs, output)
                 sim == Simulated(c, output, read.values, gas, gas \div 2)
             IN /\ read.ok
                /\ AwaitGas(c, Answered(CallSlot(c)),
                            [call[c] EXCEPT !.args = <<>>, !.events = events, !.sim = sim])
  /\ UNCHANGED <<now, transport, use, settings, sets>>

\* Mutant: the least a transaction has to pay for is left out.
EstimateUnbounded(gas, price) == (((gas * price) \div Scale) * 100) \div 85

\* estimateGas(): 15% more, and never less than 297 sat.
Estimate(gas, price) == Most((((gas * price) \div Scale) * 100) \div 85, 297)

\* The gas parameters are there, of this call's promise or of an earlier one.
GasKnown(c) ==
  /\ call[c].stage = "gas" /\ Resumes(c)
  /\ LET params == req[GasSlot(call[c].promise)]
         price == GasPerSat[params.value]
         decoded == DecodeEvents(use.abi, call[c].events)
     IN \/ params.end # "value" /\ call' = Failed(c)
        \/ /\ params.end = "value" /\ \E i \in DOMAIN decoded : ~decoded[i].ok
           /\ call' = Failed(c)
        \/ /\ params.end = "value" /\ \A i \in DOMAIN decoded : decoded[i].ok
           /\ call' = [call EXCEPT
                ![c].stage = "ready", ![c].gasAt = params.value,
                ![c].events = decoded, ![c].sim.fees = <<Fees>>,
                ![c].sim.satGas = Estimate(Zero(call[c].sim.gas), price),
                ![c].sim.satRefunded = Estimate(Zero(call[c].sim.refunded), price)]
  /\ UNCHANGED <<rpcVars, use, settings, sets, contract>>

-----------------------------------------------------------------------------
(* Sending a result, or taking it offline                                  *)

\* sendTransaction() with options p: signTransaction() refuses, or goes for coins.
Send(c, p) ==
  /\ call[c].stage = "ready"
  /\ \/ ~Signable(call[c].sim, p) /\ call' = Failed(c)
     \/ /\ Signable(call[c].sim, p)
        /\ call' = [call EXCEPT ![c].stage = "coins", ![c].options = <<p>>]
  /\ UNCHANGED <<rpcVars, use, settings, sets, contract>>

\* toOfflineBuffer()
Export(c) ==
  /\ call[c].stage = "ready"
  /\ \/ ~Exportable(call[c].sim) /\ call' = Failed(c)
     \/ Exportable(call[c].sim) /\ call' = [call EXCEPT ![c].stage = "coins"]
  /\ UNCHANGED <<rpcVars, use, settings, sets, contract>>

Addition(c) == IF call[c].retried THEN 200000 ELSE 0

\* The coins either of them may get at first: those of a wallet, or those given.
FirstCoins(c) ==
  IF call[c].options = <<>>
  THEN {CoinsFor(w, ExportAmount(call[c].sim, use.amount), FALSE) : w \in use.wallets}
  ELSE LET p == call[c].options[1]
           amount == FirstAmount(call[c].sim, p, Addition(c))
       IN IF p.coins # <<>> THEN {Without(p.coins, p.extraInputs)}
          ELSE {FetchUTXOs(call[c].sim, p, w, amount) : w \in use.wallets}

\* acquire() is content with them; only it asks.
Content(c, coins) ==
  call[c].options # <<>> /\ call[c].options[1].coins = <<>> =>
    Enough(call[c].sim, call[c].options[1], Addition(c), coins)

AskChallenge(c, coins) ==
  /\ call' = [call EXCEPT ![c].stage = "challenge", ![c].coins = coins]
  /\ req' = Asked(req, CallSlot(c), "getChallenge")

\* The UTXO manager returns coins, or none, or throws; then the challenge is asked for.
CoinsKnown(c) ==
  /\ call[c].stage = "coins"
  /\ \E coins \in FirstCoins(c) :
       \/ coins = <<>> /\ call' = Failed(c) /\ UNCHANGED req
       \/ coins # <<>> /\ Content(c, coins) /\ AskChallenge(c, coins)
       \/ /\ coins # <<>> /\ ~Content(c, coins)
          /\ call' = [call EXCEPT ![c].stage = "moreCoins", ![c].coins = coins]
          /\ UNCHANGED req
  /\ UNCHANGED <<now, transport, cache, use, settings, sets, contract>>

\* acquire() has asked again, of a wallet that may have changed, and gives up unless it gets
\* other coins, and enough of them.
MoreCoinsKnown(c) ==
  /\ call[c].stage = "moreCoins"
  /\ LET sim == call[c].sim
         p == call[c].options[1]
         amount == Wanted(sim, p, Addition(c), call[c].coins)
     IN \E coins \in {FetchUTXOs(sim, p, w, amount) : w \in use.wallets} :
          LET enough == /\ coins # <<>> /\ Value(coins) # Value(call[c].coins)
                        /\ Enough(sim, p, Addition(c), coins)
          IN \/ ~enough /\ call' = Failed(c) /\ UNCHANGED req
             \/ enough /\ AskChallenge(c, coins)
  /\ UNCHANGED <<now, transport, cache, use, settings, sets, contract>>

ChallengeKnown(c) ==
  /\ call[c].stage = "challenge" /\ Resumes(c)
  /\ req' = Answered(CallSlot(c))
  /\ \/ req[CallSlot(c)].end # "value" /\ call' = Failed(c)
     \/ /\ req[CallSlot(c)].end = "value" /\ call[c].options = <<>>
        /\ call' = [call EXCEPT
             ![c].stage = "exported",
             ![c].buffer = ToOfflineBuffer(call[c].sim, call[c].coins, Challenge)]
     \/ /\ req[CallSlot(c)].end = "value" /\ call[c].options # <<>>
        /\ call' = [call EXCEPT ![c].stage = "signing"]
  /\ UNCHANGED <<now, transport, cache, use, settings, sets, contract>>

\* Mutant: whatever goes wrong is tried again.
RetriesAnything(c, message) == ~call[c].retried

\* sendTransaction() tries again, once, when the message says that the fees cannot be paid.
Retries(c, message) == message = "fees" /\ ~call[c].retried

\* The catch of sendTransaction(), which else has the UTXO manager forget all it knows.
Caught(c, message) ==
  IF Retries(c, message)
  THEN [call EXCEPT ![c].stage = "coins", ![c].coins = <<>>, ![c].retried = TRUE]
  ELSE Failed(c)

\* signInteraction() succeeds, and the transaction is broadcast, alone or with the one that
\* funds it; or it throws.
Sign(c) ==
  /\ call[c].stage = "signing"
  /\ \/ \E api \in {"sendRawTransaction", "sendRawTransactionPackage"} :
          /\ call[c].options[1].p2wda => api = "sendRawTransaction"
          /\ req' = Asked(req, CallSlot(c), api)
          /\ call' = [call EXCEPT ![c].stage = "sending", ![c].broadcasts = @ + 1]
     \/ \E message \in {"fees", "sign"} : call' = Caught(c, message) /\ UNCHANGED req
  /\ UNCHANGED <<now, transport, cache, use, settings, sets, contract>>

\* sendPresignedTransaction(): the node has taken all of it, or the send fails: it may have
\* refused one transaction of two, and over HTTP an error is undefined, and thrown as such.
\* The message of a failed broadcast has what the node said of it.
BroadcastReturns(c) ==
  /\ call[c].stage = "sending" /\ Resumes(c)
  /\ req' = Answered(CallSlot(c))
  /\ \/ /\ req[CallSlot(c)].end = "value"
        /\ call' = [call EXCEPT ![c].stage = "sent"]
     \/ \E message \in Refusals : call' = Caught(c, message)
  /\ UNCHANGED <<now, transport, cache, use, settings, sets, contract>>

-----------------------------------------------------------------------------

\* What goes on by itself once a call is made.
CallStep(c) ==
  \/ AddressKnown(c) \/ CallReturns(c) \/ GasKnown(c)
  \/ CoinsKnown(c) \/ MoreCoinsKnown(c) \/ ChallengeKnown(c) \/ Sign(c) \/ BroadcastReturns(c)

ApplicationStep ==
  \/ Open
  \/ \E x \in Setting : Set(x)
  \/ \E c \in Caller, fn \in use.fns :
       /\ c <= use.calls /\ \A d \in 1..c - 1 : call[d].stage # "idle"
       /\ \E args \in Arguments(Definition(use.abi, fn)) : Start(c, fn, args)
  \/ \E c \in Caller, p \in use.options : Send(c, p)
  \/ \E c \in Caller : use.options # {} /\ Export(c)
  \/ \E i \in 1..MaxAsks, api \in use.queries :
       /\ i <= use.asks /\ \A j \in 1..i - 1 : req[AskSlot(j)].stage # "idle"
       /\ Ask(AskSlot(i), api)
       /\ UNCHANGED callVars

RpcStep(s) ==
  /\ \/ Dispatch(s) \/ Lost(s) \/ Headers(s) \/ Fails(s) \/ Expire(s)
     \/ \E answer \in use.answers : Arrives(s, answer)
  /\ UNCHANGED callVars

Next ==
  \/ ApplicationStep
  \/ \E c \in Caller : CallStep(c)
  \/ \E s \in Slot : RpcStep(s)
  \/ now < use.until /\ Tick /\ UNCHANGED callVars

\* The event loop resumes what can be resumed (that is weak fairness of CallStep, each call
\* taking finitely many), a free worker takes up a request that is queued, and a timer that is
\* armed fires in the end if nothing else happens.  That the node ever answers is not assumed.
Fairness ==
  /\ \A c \in Caller : []<>~Resumes(c)
  /\ WF_vars(\E s \in Slot : Expire(s) /\ UNCHANGED callVars)
  /\ WF_vars(\E s \in Slot : Dispatch(s) /\ UNCHANGED callVars)

Spec == Init /\ [][Next]_vars /\ Fairness

-----------------------------------------------------------------------------
(* Properties: the provider                                                *)

\* How a method may have ended.
Outcome == {"", "value", "nothing", "thrown", "crashed", "handed", "itself"}

\* The types, and: the calls that wait for the address are those in the queue, once each,
\* and a call that waits for gas parameters waits for a request that was made.
TypeOK ==
  /\ now \in 0..MaxTime /\ transport \in Transports
  /\ \A s \in Slot : req[s].stage \in Stage /\ req[s].end \in Outcome
  /\ settings \in [Setting -> 0..sets] /\ sets \in 0..use.sets
  /\ contract.open \in {"", "yes", "threw"} /\ contract.known \in {"", "yes", "no"}
  /\ contract.gas.cachedAt \in 0..now
  /\ IsInjective(contract.waiting)
  /\ ToSet(contract.waiting) = {c \in Caller : call[c].stage = "address"}
  /\ \A c \in Caller : call[c].stage = "gas" => req[GasSlot(call[c].promise)].stage # "idle"

Asking(s, api) == req[s].stage # "idle" /\ req[s].api = api /\ req[s].heard # "cached"

\* gasParameters() hands out parameters that were asked for more than 10 s ago only when a
\* newer request for them has failed, is under way, or was overtaken by the older one: it
\* notes the time before it asks.  getChallenge() never hands out a challenge that arrived 10 s
\* ago.  (AbstractRpcProvider.gasParameters(), getChallenge())
CachedAnswersFresh ==
  \A s \in Slot : Settled(s) /\ req[s].heard = "cached" =>
    CASE req[s].api = "gasParameters" ->
           req[s].since - req[s].value > Fresh =>
             \E t \in Slot :
               /\ Asking(t, "gasParameters")
               /\ req[s].value < req[t].since /\ req[t].since <= req[s].since
               /\ \/ req[t].end # "value" \/ req[t].done >= req[s].since
                  \/ \E old \in Slot : /\ Asking(old, "gasParameters") /\ Settled(old)
                                       /\ req[old].since = req[s].value
                                       /\ req[old].done >= req[t].done
      [] req[s].api = "getChallenge" -> req[s].since - req[s].value < Fresh
      [] OTHER -> TRUE

\* The methods that have an empty answer, an unknown transaction, or an address the node has
\* nothing but an error for, mean that there is nothing; and those whose caller has to look
\* for an error in what it gets.
MayFindNothing(api) ==
  api \in Broadcasts \cup {"getPublicKeysInfoRaw", "getMempoolInfo", "getPendingTransaction",
    "getLatestPendingTransactions", "getLatestPendingTransactionsByAddresses", "getReorg",
    "getPublicKeysInfo", "getPublicKeyInfo", "getPublicKeyInfoOfKey"}

\* What a node refuses is thrown: no method takes a refusal, or a broken answer, for what was
\* asked for or, but for those above, for there being nothing; and none but getPublicKeyInfo(),
\* called with a public key, makes something of what it was called with.  Over a WebSocket a
\* message of defaults cannot be told from an empty answer.  (The methods of
\* AbstractRpcProvider; WebsocketRpcProvider.translateProtoResponse())
ErrorsSurface ==
  \A s \in Slot : Settled(s) =>
    /\ req[s].end = "value" =>
         req[s].heard \in {"result", "cached"} \/ (transport = "ws" /\ req[s].heard = "empty")
    /\ req[s].end = "nothing" => MayFindNothing(req[s].api)
    /\ req[s].end = "itself" => req[s].api = "getPublicKeyInfoOfKey"

\* The JSON-RPC methods some of whose parameters have no field in the protobuf messages, or
\* one that means something else.
LosesParameters ==
  {"CALL", "REORG", "GET_STORAGE_AT", "GET_EPOCH_BY_NUMBER", "GET_EPOCH_BY_HASH",
   "SUBMIT_EPOCH", "GET_UTXOS", "GET_CODE"}

\* A node sees every parameter an application gave, as what it was given as, whichever way the
\* request travels, but for those methods over a WebSocket, and for getLatestEpoch().
\* (The methods of AbstractRpcProvider;
\* WebsocketRpcProvider.translateJsonRpcParamsToFieldIds())
QuestionsArrive ==
  \A s \in Slot : req[s].stage # "idle" =>
    \/ req[s].seen = Method[req[s].api].params
    \/ transport = "ws" /\ Method[req[s].api].wire \in LosesParameters
    \/ req[s].api = "getLatestEpoch"

\* Every request is settled in the end, whatever the node does, unless it is abandoned: its
\* body stalls in a worker or a service worker, where the timer is cleared when the head of the
\* answer is in; its worker has died, or the pool of workers could not be created; or it waits
\* for a worker and all of them are held by such requests.
\* (JSONRpcProvider._send(), JSONThreader.fetch(), JSONWorker, SharedThreader.processQueue())
Settles == <>[](\A s \in Slot : Waiting(s) => Abandoned(s))

-----------------------------------------------------------------------------
(* Properties: calls                                                       *)

\* getContract() returns a contract for the ABI it is given, as the documents do with each of
\* the ABIs the library ships.  (Contract.constructor(), defineInternalFunctions())
ContractOpens == contract.open # "threw"

\* A call made while none waits for the contract's address, and during which no setting is
\* made, is simulated with what was set when it was made, all of which gets to the node over
\* HTTP, and its result names the sender it was simulated for.  (Contract.callFunction())
UndisturbedCall ==
  \A c \in Caller : call[c].alone =>
    /\ call[c].stage = "calling" =>
         /\ call[c].took = call[c].meant
         /\ transport # "ws" => call[c].seen = call[c].meant
    /\ call[c].stage = "gas" => call[c].sim.from = call[c].meant.sender

\* Details and access list serve one call at most, be it one that failed.
\* (Contract.callFunction(), which clears both)
UsedOnce ==
  \A c, d \in Caller : \A x \in {"details", "list"} :
    c # d /\ call[c].took[x] = call[d].took[x] => call[c].took[x] = 0

\* What the node is sent is what encodeCalldata() makes of the same name and arguments, and a
\* contract that reads it by the types of the function reads those arguments and no more.
\* (Contract.encodeFunctionData(), encodeCalldata(), encodeInput())
CalldataUnderstood ==
  \A c \in Caller : call[c].stage = "calling" =>
    LET data == call[c].sim.calldata
        read == DecodeOutput(Function(c).inputs, Tail(data))
    IN /\ EncodeCalldata(use.abi, call[c].fn, call[c].args) = Wrote(data)
       /\ read.ok /\ read.rest = <<>> /\ read.values = call[c].args

\* A call succeeds only with what the contract returned: the values of its outputs, and the
\* values of each event the ABI knows.  (Contract.decodeOutput(), decodeEvents())
ResultsUnderstood ==
  \A c \in Caller : call[c].stage = "ready" =>
    /\ call[c].sim.values = Examples(Function(c).outputs)
    /\ \A i \in DOMAIN call[c].events, e \in Range(use.abi) :
         e.type = "event" /\ e.name = call[c].events[i].type =>
           call[c].events[i].values = Examples(e.inputs)

\* A result is estimated with parameters asked for less than 20 s before the call wanted them
\* (the promise of the contract keeps for 10 s what the provider's cache has kept for 10 s),
\* unless newer ones had been asked for by then, which failed or were late.
\* (Contract.currentGasParameters(), AbstractRpcProvider.gasParameters())
GasAge ==
  \A c \in Caller : call[c].stage = "ready" =>
    \/ call[c].wantedAt - call[c].gasAt < 2 * Fresh
    \/ \E s \in Slot : /\ Asking(s, "gasParameters")
                      /\ call[c].gasAt < req[s].since /\ req[s].since <= call[c].wantedAt

\* The sat a result asks for are worth the gas it was found to need, in spite of the two
\* divisions that round down.  (Contract.estimateGas())
EstimateCovers ==
  \A c \in Caller : call[c].stage = "ready" =>
    call[c].sim.satGas * Scale >= Zero(call[c].sim.gas) * GasPerSat[call[c].gasAt]

\* The request a call waits for is abandoned.
Stuck(c) ==
  \/ call[c].stage = "address" /\ Abandoned(Lookup)
  \/ call[c].stage \in {"calling", "challenge", "sending"} /\ Abandoned(CallSlot(c))
  \/ call[c].stage = "gas" /\ Abandoned(GasSlot(call[c].promise))

\* A call, a send and an export end, whatever the node does, unless the very request they wait
\* for is abandoned.
\* (Contract.callFunction(), CallResult.sendTransaction(), toOfflineBuffer())
CallsEnd ==
  <>[](\A c \in Caller :
         call[c].stage \in {"idle", "ready", "failed", "sent", "exported"} \/ Stuck(c))

-----------------------------------------------------------------------------
(* Properties: results                                                     *)

\* The coins acquired for a transaction pay for what it has to: gas, priority fee, outputs
\* and mining, as far as its extra inputs do not.  (CallResult.acquire())
FundsCover ==
  \A c \in Caller : call[c].stage = "signing" /\ call[c].options[1].coins = <<>> =>
    LET p == call[c].options[1]
        u == call[c].coins
    IN Value(u) + Value(p.extraInputs) >=
         GasFee(call[c].sim, p) + p.priorityFee + Addition(c) + Value(p.outs)
           + MiningCost(call[c].sim, p, u)

\* A node that refuses a broadcast does not say that it is for the fees that cannot be paid, in
\* the words of the transaction library.
PhraseApart == "fees" \notin Refusals

\* A transaction is broadcast once: no retry follows a broadcast, given PhraseApart.
\* (CallResult.sendTransaction())
BroadcastOnce == \A c \in Caller : call[c].broadcasts <= 1

\* The coins as they were, but without the transactions they are from.
WithoutRaw(coins) ==
  [i \in DOMAIN coins |-> [f \in DOMAIN coins[i] \ {"raw"} |-> coins[i][f]]]

\* What is restored offline has the coins and the challenge, and signs the same transaction
\* with the same options; it refuses the same but for functions that are constant or payable.
\* (CallResultSerializer, CallResult.toOfflineBuffer(), fromOfflineBuffer())
OfflineSignsSame ==
  \A c \in Caller : call[c].stage = "exported" =>
    LET sim == call[c].sim
        off == FromOfflineBuffer(call[c].buffer)
    IN /\ off.ok /\ off.coins = WithoutRaw(call[c].coins)
       /\ off.challenge.key = Challenge.key /\ off.challenge.proofs = Challenge.proofs
       /\ off.challenge.submission = Challenge.submission
       /\ \A p \in use.options :
            /\ Signable(sim, p) => Signable(off.sim, p)
            /\ Signable(off.sim, p) /\ ~sim.constant /\ ~sim.payable => Signable(sim, p)
            /\ SharedParams(off.sim, p, off.coins) = SharedParams(sim, p, off.coins)
            /\ \A i \in DOMAIN off.coins :
                 Unlocked(off.sim, p, off.coins[i]) = Unlocked(sim, p, off.coins[i])

=============================================================================
