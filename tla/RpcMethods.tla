----------------------------- MODULE RpcMethods -----------------------------
(***************************************************************************)
(* The methods of AbstractRpcProvider: the JSON-RPC method each one asks,  *)
(* the parameters it gives, and what it makes of the node's answer; and    *)
(* what becomes of both when WebsocketRpcProvider carries them.            *)
(*                                                                         *)
(* An answer is "result", "empty" (neither result nor error), "error",     *)
(* "notFound", an error that says so, or "refusedEntry", a result in which *)
(* the entry of the address asked about is an error.                       *)
(***************************************************************************)
EXTENDS Naturals, Sequences, TLC

Answer == {"result", "empty", "error", "notFound", "refusedEntry"}

Asks(wire, params, reads) == [wire |-> wire, params |-> params, reads |-> reads]

(***************************************************************************)
(* The methods, in the order of the source, with every parameter they take *)
(***************************************************************************)

\* getPublicKeyInfo() is two methods here, by whether what it is called with is a public key.
InfoMethods == [
  getPublicKeyInfo |-> Asks("PUBLIC_KEY_INFO", {"addresses"}, "keys"),
  getPublicKeyInfoOfKey |-> Asks("PUBLIC_KEY_INFO", {"addresses"}, "itself")]

BlockMethods == [
  getBlockNumber |-> Asks("BLOCK_BY_NUMBER", {}, "unguarded"),
  getBlockByChecksum |-> Asks("GET_BLOCK_BY_CHECKSUM", {"block", "prefetchTxs"}, "checked"),
  getChallenge |-> Asks("TRANSACTION_PREIMAGE", {}, "checked"),
  getBlock |-> Asks("GET_BLOCK_BY_NUMBER", {"block", "prefetchTxs"}, "checked")]

\* getBlocks() asks by number whatever it is given.
BlocksMethods == [
  getBlocks |-> Asks("GET_BLOCK_BY_NUMBER", {"block", "prefetchTxs"}, "checked"),
  getBlockByHash |-> Asks("GET_BLOCK_BY_HASH", {"block", "prefetchTxs"}, "checked"),
  getBalance |-> Asks("GET_BALANCE", {"address", "filterOrdinals"}, "unguarded"),
  getBalances |-> Asks("GET_BALANCE", {"address", "filterOrdinals"}, "checked"),
  getTransaction |-> Asks("GET_TRANSACTION_BY_HASH", {"hash"}, "checked")]

StateMethods == [
  getTransactionReceipt |-> Asks("GET_TRANSACTION_RECEIPT", {"hash"}, "unguarded"),
  getChainId |-> Asks("CHAIN_ID", {}, "checked"),
  getCode |-> Asks("GET_CODE", {"address", "onlyBytecode"}, "checked"),
  getStorageAt |->
    Asks("GET_STORAGE_AT", {"address", "pointer", "proofs", "height"}, "unguarded")]

CallParameters ==
  {"to", "data", "from", "fromLegacy", "height", "simulatedTransaction", "accessList"}
CallMethods == [call |-> Asks("CALL", CallParameters, "handed")]

BroadcastMethods == [
  gasParameters |-> Asks("GAS", {}, "checked"),
  sendRawTransaction |-> Asks("BROADCAST_TRANSACTION", {"tx", "psbt"}, "blind"),
  sendRawTransactions |-> Asks("BROADCAST_TRANSACTION", {"tx", "psbt"}, "blind"),
  sendRawTransactionPackage |->
    Asks("BROADCAST_TRANSACTION_PACKAGE", {"txs", "isPackage"}, "blind")]

WitnessMethods == [
  getBlockWitness |-> Asks("BLOCK_WITNESS", {"height", "limit", "page"}, "checked"),
  getReorg |-> Asks("REORG", {"fromBlock", "toBlock"}, "unguarded")]

KeyMethods == [
  getPublicKeysInfoRaw |-> Asks("PUBLIC_KEY_INFO", {"addresses"}, "raw"),
  getPublicKeysInfo |-> Asks("PUBLIC_KEY_INFO", {"addresses"}, "keys")]

EpochMethods == [
  getLatestEpoch |-> Asks("LATEST_EPOCH", {"includeSubmissions"}, "unguarded"),
  getEpochByNumber |->
    Asks("GET_EPOCH_BY_NUMBER", {"epochNumber", "includeSubmissions"}, "checked"),
  getEpochByHash |-> Asks("GET_EPOCH_BY_HASH", {"epochHash", "includeSubmissions"}, "checked"),
  getEpochTemplate |-> Asks("GET_EPOCH_TEMPLATE", {}, "checked"),
  submitEpoch |->
    Asks("SUBMIT_EPOCH",
         {"epochNumber", "checksumRoot", "salt", "mldsaPublicKey", "signature", "graffiti"},
         "checked")]

MempoolMethods == [
  getMempoolInfo |-> Asks("GET_MEMPOOL_INFO", {}, "loose"),
  getPendingTransaction |-> Asks("GET_PENDING_TRANSACTION", {"hash"}, "pending"),
  getLatestPendingTransactions |->
    Asks("GET_LATEST_PENDING_TRANSACTIONS", {"address", "addresses", "limit"}, "loose"),
  getLatestPendingTransactionsByAddresses |->
    Asks("GET_LATEST_PENDING_TRANSACTIONS", {"address", "addresses", "limit"}, "loose")]

\* UTXOsManager asks for coins itself.
CoinMethods == [
  getMultipleUTXOs |-> Asks("GET_UTXOS", {"address", "optimize", "olderThan"}, "checked"),
  fetchUTXOs |-> Asks("GET_UTXOS", {"address", "optimize", "olderThan"}, "checked")]

MethodGroups == {
  InfoMethods, BlockMethods, BlocksMethods, StateMethods, CallMethods, BroadcastMethods,
  WitnessMethods, KeyMethods, EpochMethods, MempoolMethods, CoinMethods}

Method ==
  [api \in UNION {DOMAIN group : group \in MethodGroups} |->
     (CHOOSE group \in MethodGroups : api \in DOMAIN group)[api]]

Broadcasts == {"sendRawTransaction", "sendRawTransactions", "sendRawTransactionPackage"}

(***************************************************************************)
(* What a method makes of an answer                                        *)
(***************************************************************************)

\* How a method ends: with the "value" asked for, with "nothing" (undefined, null, or a list or
\* record without an entry), by throwing what the node said ("thrown"), by throwing for want of
\* a result, with an error of its own or by tripping over what is not there ("crashed"), with
\* the refusal as its result ("handed"), or with what it was called with ("itself").
Ends(empty, error, notFound, refusedEntry) ==
  [result |-> "value", empty |-> empty, error |-> error, notFound |-> notFound,
   refusedEntry |-> refusedEntry]

\* Only PUBLIC_KEY_INFO is answered with entries; the other methods never hear of one.
Unheard == "crashed"

\* Mutant: the error of an answer is not looked for, and there is no result to be had.
ReadingUnchecked == [
  checked   |-> Ends("crashed", "nothing", "nothing", Unheard),
  unguarded |-> Ends("crashed", "crashed", "crashed", Unheard),
  loose     |-> Ends("nothing", "thrown", "thrown", Unheard),
  pending   |-> Ends("nothing", "thrown", "nothing", Unheard),
  blind     |-> Ends("nothing", "nothing", "nothing", Unheard),
  handed    |-> Ends("crashed", "handed", "handed", Unheard),
  raw       |-> Ends("nothing", "thrown", "thrown", "handed"),
  keys      |-> Ends("crashed", "thrown", "thrown", "nothing"),
  itself    |-> Ends("itself", "itself", "itself", "nothing")]

\* By the way a method looks at its answer.  getPublicKeysInfo() skips the entries that are
\* errors; getPublicKeyInfo() of a public key makes an address of that key when anything is
\* thrown, whatever it is.
Reading == [
  checked   |-> Ends("crashed", "thrown", "thrown", Unheard),
  unguarded |-> Ends("crashed", "crashed", "crashed", Unheard),
  loose     |-> Ends("nothing", "thrown", "thrown", Unheard),
  pending   |-> Ends("nothing", "thrown", "nothing", Unheard),
  blind     |-> Ends("nothing", "nothing", "nothing", Unheard),
  handed    |-> Ends("crashed", "handed", "handed", Unheard),
  raw       |-> Ends("nothing", "thrown", "thrown", "handed"),
  keys      |-> Ends("crashed", "thrown", "thrown", "nothing"),
  itself    |-> Ends("itself", "itself", "itself", "nothing")]

Reads(api, answer) == Reading[Method[api].reads][answer]

\* What a method can hear.
Hears(api, answer) ==
  answer = "refusedEntry" => Method[api].wire = "PUBLIC_KEY_INFO"

\* How a method ends when its request fails.
Failure(api) == IF Method[api].reads = "itself" THEN "itself" ELSE "thrown"

(***************************************************************************)
(* The same methods over a WebSocket                                       *)
(***************************************************************************)

\* METHOD_MAPPINGS: the message each answer is decoded as.
METHOD_MAPPINGS == [
  BLOCK_BY_NUMBER |-> "GetBlockNumberResponse", GET_BLOCK_BY_NUMBER |-> "BlockResponse",
  GET_BLOCK_BY_HASH |-> "BlockResponse", GET_BLOCK_BY_CHECKSUM |-> "BlockResponse",
  BLOCK_WITNESS |-> "BlockWitnessResponse", GAS |-> "GasResponse",
  GET_TRANSACTION_BY_HASH |-> "TransactionResponse",
  GET_TRANSACTION_RECEIPT |-> "TransactionReceiptResponse",
  BROADCAST_TRANSACTION |-> "BroadcastTransactionResponse",
  BROADCAST_TRANSACTION_PACKAGE |-> "BroadcastTransactionPackageResponse",
  TRANSACTION_PREIMAGE |-> "PreimageResponse", GET_BALANCE |-> "BalanceResponse",
  GET_UTXOS |-> "UTXOsResponse", PUBLIC_KEY_INFO |-> "PublicKeyInfoResponse",
  CHAIN_ID |-> "ChainIdResponse", REORG |-> "ReorgResponse", GET_CODE |-> "CodeResponse",
  GET_STORAGE_AT |-> "StorageResponse", CALL |-> "CallResponse"]

LATER_MAPPINGS == [
  LATEST_EPOCH |-> "EpochResponse", GET_EPOCH_BY_NUMBER |-> "EpochResponse",
  GET_EPOCH_BY_HASH |-> "EpochResponse", GET_EPOCH_TEMPLATE |-> "EpochTemplateResponse",
  SUBMIT_EPOCH |-> "SubmitEpochResponse", GET_MEMPOOL_INFO |-> "GetMempoolInfoResponse",
  GET_PENDING_TRANSACTION |-> "PendingTransactionResponse",
  GET_LATEST_PENDING_TRANSACTIONS |-> "LatestPendingTransactionsResponse"]

Response == METHOD_MAPPINGS @@ LATER_MAPPINGS

\* translateJsonRpcParamsToFieldIds(): the parameters that get a field which means the same.
\* The one field of REORG is a limit, which is given the first block.
ChainFields == [
  BLOCK_BY_NUMBER |-> {}, GET_BLOCK_BY_NUMBER |-> {"block", "prefetchTxs"},
  GET_BLOCK_BY_HASH |-> {"block", "prefetchTxs"},
  GET_BLOCK_BY_CHECKSUM |-> {"block", "prefetchTxs"},
  BLOCK_WITNESS |-> {"height", "limit", "page"}, GAS |-> {},
  GET_TRANSACTION_BY_HASH |-> {"hash"}, GET_TRANSACTION_RECEIPT |-> {"hash"},
  BROADCAST_TRANSACTION |-> {"tx", "psbt"},
  BROADCAST_TRANSACTION_PACKAGE |-> {"txs", "isPackage"}, TRANSACTION_PREIMAGE |-> {},
  GET_BALANCE |-> {"address", "filterOrdinals"}, GET_UTXOS |-> {"address", "optimize"},
  PUBLIC_KEY_INFO |-> {"addresses"}, CHAIN_ID |-> {}, REORG |-> {}]

\* The second field of GET_CODE asks for the code in full; it is given onlyBytecode, which
\* asks for less.  SUBMIT_EPOCH takes a targetHash, which the provider calls checksumRoot and
\* which is therefore missing.
StateFields == [
  GET_CODE |-> {"address"}, GET_STORAGE_AT |-> {"address", "pointer", "proofs"},
  CALL |-> {"to", "data", "from", "fromLegacy"},
  LATEST_EPOCH |-> {}, GET_EPOCH_BY_NUMBER |-> {"epochNumber"},
  GET_EPOCH_BY_HASH |-> {"epochHash"}, GET_EPOCH_TEMPLATE |-> {},
  SUBMIT_EPOCH |-> {"epochNumber", "salt", "mldsaPublicKey", "signature", "graffiti"},
  GET_MEMPOOL_INFO |-> {}, GET_PENDING_TRANSACTION |-> {"hash"},
  GET_LATEST_PENDING_TRANSACTIONS |-> {"address", "addresses", "limit"}]

\* Mutant: whether balances leave out what is inscribed is not asked.
FieldsWithoutFlag == [(ChainFields @@ StateFields) EXCEPT !.GET_BALANCE = {"address"}]

Fields ==
  [wire \in DOMAIN ChainFields \cup DOMAIN StateFields |->
     IF wire \in DOMAIN ChainFields THEN ChainFields[wire] ELSE StateFields[wire]]

\* What a method takes and sends nobody.
Unsent(api) == IF api = "getLatestEpoch" THEN {"includeSubmissions"} ELSE {}

\* The parameters of a method that reach the node.
Carried(api, transport) ==
  IF transport = "ws" THEN Method[api].params \cap Fields[Method[api].wire]
  ELSE Method[api].params \ Unsent(api)

\* translateProtoResponse() takes numbers out of their messages.  These it hands out whole,
\* though the provider expects the transaction, the list, or what is known by each address:
\* a message has the names of its fields only.
HandedWhole ==
  {"TransactionResponse", "BlockWitnessResponse", "ReorgResponse", "PublicKeyInfoResponse"}

\* An error message rejects the request itself, so that no method sees it; an empty answer is
\* a message of defaults.  What expects the content of a message handed out whole trips over
\* it, except getReorg(), which takes it for an empty list, and getPublicKeysInfoRaw(), which
\* does not look at it.
WsReads(api, answer) ==
  LET decoded == IF answer = "empty" THEN "result" ELSE answer IN
  IF answer \in {"error", "notFound"} THEN Failure(api)
  ELSE IF Response[Method[api].wire] \notin HandedWhole \/ api = "getPublicKeysInfoRaw"
  THEN Reads(api, decoded)
  ELSE IF api = "getReorg" THEN "nothing" ELSE Reads(api, "empty")

=============================================================================
