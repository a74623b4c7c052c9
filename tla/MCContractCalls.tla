--------------------------- MODULE MCContractCalls ---------------------------
(***************************************************************************)
(* Instances of ContractCalls: what applications do with the library.      *)
(***************************************************************************)
EXTENDS ContractCalls, ShippedAbis

ASSUME NamesAssumption == NamesApart
ASSUME NetworksAssumption == NetworksNamed
ASSUME PhraseAssumption == PhraseApart

MCSlot ==
  {Lookup} \cup {AskSlot(i) : i \in 1..MaxAsks} \cup {CallSlot(c) : c \in Caller}
    \cup {GasSlot(c) : c \in Caller}
MCGasPerSat == [t \in 0..MaxTime |-> 3 + t]
MCFees == [conservative |-> 20, low |-> 10, medium |-> 20, high |-> 40]
MCRefusals == {"broadcast"}
MCChallenge == [
  raw |-> [f \in {ChallengeLayout[i][1] : i \in DOMAIN ChallengeLayout} |-> f],
  proofs |-> <<[proof |-> "first"], [proof |-> "second"]>>,
  submission |-> <<[f \in {SubmissionLayout[i][1] : i \in DOMAIN SubmissionLayout} |-> f]>>,
  key |-> "originalKey"]

\* A contract with a method of each kind, and one that takes and returns every type.
SmallAbi == <<
  View("read", <<"ADDRESS", "BYTES32">>, <<"UINT256", "STRING">>),
  [Element("function", "pay",
     <<Tuple(<<"ADDRESS", "UINT256">>), Struct(<<"BOOL", "BYTES32">>), Tuple(<<"UINT8">>)>>,
     <<Tuple(<<"UINT16">>), Struct(<<"UINT64", "STRING">>)>>) EXCEPT !.payable = TRUE],
  Fn("touch", <<>>, <<>>),
  Ev("Paid", <<"UINT256">>)>>
EveryType == <<
  "INT128", "UINT256", "BOOL", "STRING", "ADDRESS", "UINT8", "UINT16", "UINT32", "BYTES32",
  "BYTES4", "ADDRESS_UINT256_TUPLE", "BYTES", "UINT64", "ARRAY_OF_ADDRESSES",
  "ARRAY_OF_UINT256", "ARRAY_OF_UINT32", "ARRAY_OF_STRING", "ARRAY_OF_BYTES",
  "ARRAY_OF_UINT64", "ARRAY_OF_UINT8", "ARRAY_OF_UINT16", "UINT128", "ARRAY_OF_UINT128",
  "ARRAY_OF_BUFFERS", "EXTENDED_ADDRESS", "EXTENDED_ADDRESS_UINT256_TUPLE",
  "SCHNORR_SIGNATURE", "ARRAY_OF_EXTENDED_ADDRESSES", "INT8", "INT16", "INT32", "INT64">>
TypesAbi == <<View("every", EveryType, EveryType), Ev("Every", EveryType), Ev("Bare", <<>>)>>

NoUse == [
  transport |-> "http", abi |-> SmallAbi, fns |-> {}, address |-> "object", calls |-> 0,
  mistaken |-> FALSE, queries |-> {}, asks |-> 0, answers |-> {"result"}, events |-> FALSE,
  gas |-> {7}, sets |-> 0, until |-> 0, network |-> "regtest", options |-> {}, wallets |-> {},
  amount |-> 0]

\* Every method of the provider, once, over everything.
QueryUse(t) ==
  [NoUse EXCEPT !.transport = t, !.asks = 1, !.queries = DOMAIN Method, !.answers = Answer]
QueryUses == {QueryUse(t) : t \in Transports}

\* More requests than there are workers.
PoolUse == [NoUse EXCEPT !.transport = "threaded", !.asks = 3, !.queries = {"getBlockNumber"}]

\* The caches, as time passes.
CacheUse(m) == [NoUse EXCEPT !.transport = "ws", !.asks = 3, !.queries = {m}, !.until = 2]
CacheUses ==
  {CacheUse("gasParameters"), CacheUse("getChallenge"),
   [NoUse EXCEPT !.asks = 2, !.queries = {"getChainId"}]}

\* Every method of an ABI, and every event.
AbiUse(abi) ==
  [NoUse EXCEPT !.abi = abi, !.fns = Methods(abi), !.calls = 1, !.mistaken = TRUE]
EventUse(abi) ==
  [NoUse EXCEPT !.abi = abi, !.fns = {CHOOSE fn \in Methods(abi) : TRUE}, !.calls = 1,
                !.events = TRUE]
AbiUses ==
  UNION {{AbiUse(abi), EventUse(abi)} : abi \in Shipped \cup {TypesAbi, SmallAbi}}

\* Just opening a contract by what the library ships.
ShippedUses == {[NoUse EXCEPT !.abi = abi, !.calls = 1] : abi \in Shipped}

\* Calls that overlap, and settings made meanwhile.
SettingsUses ==
  {[NoUse EXCEPT !.fns = {"pay"}, !.calls = 2, !.sets = 2, !.address = "p2op",
                 !.answers = {"result", "refusedEntry"}],
   [NoUse EXCEPT !.transport = "ws", !.fns = {"touch"}, !.calls = 2, !.sets = 2,
                 !.address = "publicKey"]}

\* Calls that overlap where requests may be abandoned, and the contract is to be looked up.
StuckUse(t) ==
  [NoUse EXCEPT !.transport = t, !.fns = {"touch"}, !.calls = 2, !.address = "p2op",
                !.answers = {"result", "error"}]
StuckUses == {StuckUse(t) : t \in {"threaded", "poolless", "serviceWorker"}}

\* Calls that overlap as gas parameters age.
GasUses ==
  {[NoUse EXCEPT !.transport = "ws", !.fns = {"touch"}, !.calls = 2, !.asks = 1,
                 !.queries = {"gasParameters"}, !.until = 2]}

MCCoin(id, value, kind, csv) ==
  [id |-> id, value |-> value, kind |-> kind, csv |-> csv, script |-> "", raw |-> TRUE]
MCMain == <<MCCoin("first", 2000, "P2TR", FALSE), MCCoin("second", 300, "P2PKH", FALSE)>>
MCCsv == <<MCCoin("csv", 5000, "P2WSH", TRUE)>>
MCWallets == {
  [main |-> MCMain, csv |-> MCCsv],
  [main |-> MCMain \o <<MCCoin("third", 250000, "P2WPKH", FALSE)>>, csv |-> <<>>]}
MCPlain == [
  coins |-> <<>>, extraInputs |-> <<>>, outs |-> <<>>, priorityFee |-> 500, minGas |-> 0,
  spend |-> 0, feeRate |-> 0, p2wda |-> FALSE, useCsv |-> TRUE, network |-> "regtest"]
MCOptions == {
  MCPlain,
  [MCPlain EXCEPT !.extraInputs = <<MCCoin("second", 300, "P2PKH", FALSE)>>,
                  !.outs = <<[value |-> 330, kind |-> "P2TR", size |-> 0],
                             [value |-> 0, kind |-> "script", size |-> 300]>>,
                  !.minGas = 2500, !.feeRate = 20, !.p2wda = TRUE],
  [MCPlain EXCEPT !.coins = MCMain, !.spend = 9000]}

\* Sending results, and taking them offline.
SendUse(network) ==
  [NoUse EXCEPT !.fns = {"pay", "read", "touch"}, !.calls = 1, !.sets = 2, !.gas = {0, 4000},
                !.answers = {"result", "error"}, !.network = network, !.options = MCOptions,
                !.wallets = MCWallets, !.amount = 1000]
\* The same while requests may be abandoned.
StuckSend ==
  [SendUse("regtest") EXCEPT !.transport = "threaded", !.fns = {"touch"}, !.gas = {7},
                             !.answers = {"result"}, !.options = {MCPlain}]
SendUses == {SendUse("regtest"), SendUse("opnetTestnet"), StuckSend}

MCUses ==
  QueryUses \cup {PoolUse} \cup CacheUses \cup AbiUses \cup SettingsUses \cup StuckUses
    \cup GasUses \cup SendUses

=============================================================================
