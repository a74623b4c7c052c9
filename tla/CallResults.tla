----------------------------- MODULE CallResults -----------------------------
(***************************************************************************)
(* What can be done with the result of a simulated call: CallResult.ts     *)
(* acquires coins for it and has it signed, CallResultSerializer.ts takes  *)
(* it to a device that is offline, TransactionHelpper.ts estimates what    *)
(* mining it costs.                                                        *)
(*                                                                         *)
(* A result is a record (sim).  Coins are records too: an id for their     *)
(* transaction and output, a value, the kind of address they are at,       *)
(* whether they are CSV coins, the script that unlocks them, and whether   *)
(* the transaction they are from is at hand (raw).  Fee rates are in       *)
(* tenths.  An option that may be left out is a sequence of at most one.   *)
(*                                                                         *)
(* Bounds of the model: an access list has one slot per contract; the      *)
(* options of a transaction that are handed through (note, anchor,         *)
(* txVersion, the MLDSA ones) are left out, and so is maxUTXOs.            *)
(***************************************************************************)
EXTENDS Abi, Integers

Most(a, b) == IF a > b THEN a ELSE b
Ceil(a, b) == (a + b - 1) \div b
Total(numbers) == FoldLeft(LAMBDA a, b : a + b, 0, numbers)
Value(coins) == Total([i \in DOMAIN coins |-> coins[i].value])

(***************************************************************************)
(* What mining costs                                                       *)
(***************************************************************************)

\* The weight of an input, and the bytes of an output, by the kind of address.
INPUT_WU == [
  P2PKH |-> 592, P2SH_OR_P2SH_P2WPKH |-> 471, P2WPKH |-> 271, P2TR |-> 229, P2MR |-> 197,
  P2PK |-> 592, P2WSH |-> 272, P2OP |-> 271, P2WDA |-> 417]
OUTPUT_BYTES == [
  P2PKH |-> 34, P2SH_OR_P2SH_P2WPKH |-> 32, P2WPKH |-> 31, P2TR |-> 43, P2MR |-> 43,
  P2PK |-> 34, P2OP |-> 32, P2WSH |-> 43, P2WDA |-> 43]

VarIntLen(n) == IF n < 253 THEN 1 ELSE IF n <= 65535 THEN 3 ELSE 5

\* An output pays to an address, or holds a script of some length.
OutputBytes(o) ==
  IF o.kind = "script" THEN 8 + VarIntLen(o.size) + o.size ELSE OUTPUT_BYTES[o.kind]

\* usesWitness: one of the coins is at an address of a witness program, P2WDA aside.
UsesWitness(coins) ==
  \E i \in DOMAIN coins : coins[i].kind \notin {"P2PKH", "P2PK", "P2WDA"}

EstimateVBytes(coins, outs, length) ==
  LET kinds == IF coins = <<>> THEN <<"P2TR", "P2TR", "P2TR">>
               ELSE [i \in DOMAIN coins |-> coins[i].kind]
      marker == IF coins = <<>> \/ UsesWitness(coins) THEN 8 ELSE 0
      counts == 4 * (VarIntLen(Len(kinds)) + VarIntLen(Len(outs)))
      inputs == Total([i \in DOMAIN kinds |-> INPUT_WU[kinds[i]]])
      outputs == Total([i \in DOMAIN outs |-> 4 * OutputBytes(outs[i])])
      witness == 1 + 3 * 33 + VarIntLen(length) + length + 34
  IN Ceil(32 + marker + counts + inputs + outputs + witness, 4)

EstimateMiningCost(coins, outs, length, rate) ==
  Ceil(EstimateVBytes(coins, outs, length) * rate, 10)

(***************************************************************************)
(* What results are sent with                                              *)
(***************************************************************************)

\* Coins, with the scripts that unlock them, outputs, TransactionParameters, and what the two
\* addresses of a sender hold.
Script == {"", "p2wda", "csv"}
Coin == [
  id : STRING, value : Nat, kind : DOMAIN INPUT_WU, csv : BOOLEAN, script : Script,
  raw : BOOLEAN]
Output == [value : Nat, kind : DOMAIN OUTPUT_BYTES \cup {"script"}, size : Nat]
Parameters == [
  coins : Seq(Coin), extraInputs : Seq(Coin), outs : Seq(Output), priorityFee : Nat,
  minGas : Nat, spend : Nat, feeRate : Nat, p2wda : BOOLEAN, useCsv : BOOLEAN,
  network : STRING]
Wallet == [main : Seq(Coin), csv : Seq(Coin)]

(***************************************************************************)
(* Acquiring coins                                                         *)
(***************************************************************************)

Without(coins, extras) ==
  FoldLeft(LAMBDA kept, u : IF \E i \in DOMAIN extras : extras[i].id = u.id THEN kept
                            ELSE Append(kept, u), <<>>, coins)

\* getUTXOsForAmount(), which has a module of its own: the first coins, those of the CSV
\* address last, that are worth the amount, or it throws.
CoinsFor(wallet, amount, csv) ==
  LET offered == wallet.main \o (IF csv THEN wallet.csv ELSE <<>>)
      enough == {n \in 0..Len(offered) : Value(SubSeq(offered, 1, n)) >= amount}
  IN IF enough = {} THEN <<>> ELSE SubSeq(offered, 1, Earliest(enough))

\* The script #fetchUTXOs() gives a coin to be unlocked with.
Unlocked(sim, p, u) ==
  IF p.p2wda /\ p.network = sim.network THEN [u EXCEPT !.script = "p2wda"]
  ELSE IF sim.csv /\ u.csv THEN [u EXCEPT !.script = "csv"]
  ELSE u

FetchUTXOs(sim, p, wallet, amount) ==
  LET found == CoinsFor(wallet, amount, sim.csv /\ ~p.p2wda /\ p.useCsv)
      kept == Without(found, p.extraInputs)
  IN [i \in DOMAIN kept |-> Unlocked(sim, p, kept[i])]

GasFee(sim, p) == Most(sim.satGas, p.minGas)

\* computeRequiredAmount()
ComputeRequiredAmount(sim, p, addition, mining) ==
  LET gross == Most(GasFee(sim, p) + p.priorityFee + addition + Value(p.outs) + mining, p.spend)
      extra == Value(p.extraInputs)
  IN IF gross > extra THEN gross - extra ELSE 1

\* The fee rate acquire() leaves in the parameters it was given.
DefaultRate(p) == IF p.feeRate = 0 THEN 15 ELSE p.feeRate

CalldataLength(items) == Total([i \in DOMAIN items |-> items[i].value.size])

MiningCost(sim, p, coins) ==
  EstimateMiningCost(coins, p.outs, CalldataLength(sim.calldata) + 200, DefaultRate(p))

\* Mutant: what was wanted of the first coins is thought to do for the second.
WantedOnce(sim, p, addition, coins) ==
  ComputeRequiredAmount(sim, p, addition, MiningCost(sim, p, SubSeq(coins, 1, 1)))

Wanted(sim, p, addition, coins) ==
  ComputeRequiredAmount(sim, p, addition, MiningCost(sim, p, coins))

\* acquire() looks for coins worth the amount without the cost of mining; when they do not do,
\* for what they were found to cost, once.
Enough(sim, p, addition, coins) == Value(coins) >= Wanted(sim, p, addition, coins)
FirstAmount(sim, p, addition) == ComputeRequiredAmount(sim, p, addition, 0)

(***************************************************************************)
(* Signing                                                                 *)
(***************************************************************************)

\* The guards of signTransaction().
Signable(sim, p) ==
  /\ sim.address # "" /\ sim.calldata # <<>> /\ sim.to # ""
  /\ sim.revert = <<>>
  /\ ~sim.constant
  /\ sim.payable => p.extraInputs # <<>> \/ p.outs # <<>>

SignedRate(sim, p) ==
  IF p.feeRate # 0 THEN p.feeRate
  ELSE IF p.coins = <<>> THEN DefaultRate(p)
  ELSE IF sim.fees # <<>> /\ sim.fees[1].conservative # 0 THEN sim.fees[1].conservative
  ELSE 100

\* What signTransaction() has signed.
SharedParams(sim, p, coins) ==
  [contract |-> sim.address, calldata |-> sim.calldata, to |-> sim.to,
   priorityFee |-> p.priorityFee, gasSatFee |-> GasFee(sim, p), feeRate |-> SignedRate(sim, p),
   utxos |-> coins, network |-> p.network, optionalInputs |-> p.extraInputs,
   optionalOutputs |-> p.outs]

(***************************************************************************)
(* Taking a result offline                                                 *)
(***************************************************************************)

\* The fields of the parts of a buffer, in the order of the code, with their codecs.
HeadLayout == <<
  <<"version", "U8">>, <<"network", "U8">>, <<"calldata", "BytesWithLength">>,
  <<"to", "StringWithLength">>, <<"address", "StringWithLength">>, <<"satGas", "U256">>,
  <<"satRefunded", "U256">>, <<"gas", "U256">>, <<"refunded", "U256">>>>

FeesLayout == <<
  <<"conservative", "U64">>, <<"low", "U64">>, <<"medium", "U64">>, <<"high", "U64">>>>

AccessLayout == <<
  <<"contract", "StringWithLength">>, <<"slots", "U16">>, <<"key", "StringWithLength">>,
  <<"value", "StringWithLength">>>>

ChallengeLayout == <<
  <<"epochNumber", "StringWithLength">>, <<"mldsaPublicKey", "StringWithLength">>,
  <<"legacyPublicKey", "StringWithLength">>, <<"solution", "StringWithLength">>,
  <<"salt", "StringWithLength">>, <<"graffiti", "StringWithLength">>,
  <<"difficulty", "U256">>, <<"epochHash", "StringWithLength">>,
  <<"epochRoot", "StringWithLength">>, <<"targetHash", "StringWithLength">>,
  <<"targetChecksum", "StringWithLength">>, <<"startBlock", "StringWithLength">>,
  <<"endBlock", "StringWithLength">>>>

SubmissionLayout == <<
  <<"mldsaPublicKey", "StringWithLength">>, <<"legacyPublicKey", "StringWithLength">>,
  <<"solution", "StringWithLength">>, <<"graffiti", "StringWithLength">>,
  <<"signature", "StringWithLength">>>>

CoinLayout == <<
  <<"id", "OutPoint">>, <<"value", "U64">>, <<"kind", "StringWithLength">>,
  <<"csv", "Boolean">>, <<"script", "BytesWithLength">>>>

\* The buffer: a part is one record, an optional one after a flag, or a list after its length.
Part(name, form, layout) == [name |-> name, form |-> form, layout |-> layout]
Parts(head) == <<
  Part("head", "one", head),
  Part("revert", "option", <<<<"revert", "StringWithLength">>>>),
  Part("result", "one", <<<<"result", "BytesWithLength">>>>),
  Part("accessList", "list", AccessLayout),
  Part("fees", "option", FeesLayout),
  Part("challenge", "one", ChallengeLayout),
  Part("proofs", "list", <<<<"proof", "StringWithLength">>>>),
  Part("submission", "option", SubmissionLayout),
  Part("originalKey", "one", <<<<"originalKey", "BytesWithLength">>>>),
  Part("utxos", "list", CoinLayout),
  Part("csv", "option", <<<<"address", "StringWithLength">>, <<"script", "BytesWithLength">>>>)>>

WriteRecord(layout, r) == [i \in DOMAIN layout |-> Item(layout[i][2], r[layout[i][1]])]

WritePart(part, rs) ==
  LET prefix == CASE part.form = "one" -> <<>>
                  [] part.form = "option" -> <<Item("Boolean", Len(rs))>>
                  [] part.form = "list" -> <<Item("U16", Len(rs))>>
  IN FoldLeft(LAMBDA items, r : items \o WriteRecord(part.layout, r), prefix, rs)

Serialize(data) ==
  FoldLeft(LAMBDA items, part : items \o WritePart(part, data[part.name]), <<>>,
           Parts(HeadLayout))

ReadRecord(r, layout) ==
  LET n == Len(layout)
      At(f) == CHOOSE i \in 1..n : layout[i][1] = f
      fits == n <= Len(r.rest) /\ \A i \in 1..n : r.rest[i].codec = layout[i][2]
  IN IF ~(r.ok /\ fits) THEN Garbled
     ELSE [r EXCEPT !.rest = SubSeq(@, n + 1, Len(@)),
                    !.values = Append(@, [f \in {layout[i][1] : i \in 1..n} |->
                                            r.rest[At(f)].value])]

\* The data read so far, and rs for the next part.
WithPart(data, name, rs) ==
  [x \in DOMAIN data \cup {name} |-> IF x = name THEN rs ELSE data[x]]

ReadPart(r, part) ==
  LET prefixed == part.form # "one"
      ok == prefixed => r.rest # <<>>
      n == IF prefixed THEN Head(r.rest).value ELSE 1
      start == [Reader(IF prefixed THEN Tail(r.rest) ELSE r.rest) EXCEPT !.ok = r.ok]
      all == FoldLeft(LAMBDA q, i : ReadRecord(q, part.layout), start, [i \in 1..n |-> i])
  IN IF r.ok /\ ok THEN [all EXCEPT !.values = WithPart(r.values, part.name, all.values)]
     ELSE Garbled

\* Mutant: the two fees in sat are read in the other order.
SwappedHead ==
  [HeadLayout EXCEPT ![6] = HeadLayout[7], ![7] = HeadLayout[6]]

\* deserialize() reads the head in the order of serialize().
HeadRead == HeadLayout

Deserialize(items) ==
  FoldLeft(ReadPart, [Reader(items) EXCEPT !.values = [x \in {} |-> <<>>]], Parts(HeadRead))

\* networkNameToU8(#getNetworkName()), and back: a network the library has no name for
\* becomes regtest.
NetworkByte == [bitcoin |-> 0, testnet |-> 1, regtest |-> 2, opnetTestnet |-> 3]
ToByte(network) == IF network \in DOMAIN NetworkByte THEN NetworkByte[network] ELSE 2
FromByte(b) == CHOOSE network \in DOMAIN NetworkByte : NetworkByte[network] = b

\* Undefined gas is written as zero, and zero read as undefined.
Zero(option) == IF option = <<>> THEN 0 ELSE option[1]
NonZero(n) == IF n > 0 THEN <<n>> ELSE <<>>

\* toOfflineBuffer(): the guards, the amount to acquire coins for, and what is written.
Exportable(sim) ==
  sim.calldata # <<>> /\ sim.to # "" /\ sim.address # "" /\ sim.revert = <<>>
ExportAmount(sim, amount) == amount + sim.satGas + 10000

OfflineData(sim, coins, challenge) == [
  head |-> <<[version |-> 1, network |-> ToByte(sim.network), calldata |-> sim.calldata,
              to |-> sim.to, address |-> sim.address, satGas |-> sim.satGas,
              satRefunded |-> sim.satRefunded, gas |-> Zero(sim.gas),
              refunded |-> Zero(sim.refunded)]>>,
  revert |-> sim.revert, result |-> <<[result |-> sim.result]>>,
  accessList |-> sim.accessList, fees |-> sim.fees,
  challenge |-> <<challenge.raw>>, proofs |-> challenge.proofs,
  submission |-> challenge.submission,
  originalKey |-> <<[originalKey |-> challenge.key]>>,
  utxos |-> coins,
  csv |-> IF sim.csv THEN <<[address |-> "csv", script |-> "csv"]>> ELSE <<>>]

ToOfflineBuffer(sim, coins, challenge) == Serialize(OfflineData(sim, coins, challenge))

\* fromOfflineBuffer(): what is restored, with the coins and the challenge its provider has.
\* Whether the function is constant or payable, and who called it, are not.
FromOfflineBuffer(items) ==
  LET read == Deserialize(items)
      data == read.values
      head == data.head[1]
      key == data.originalKey[1].originalKey
  IN [ok |-> read.ok /\ head.version = 1,
      sim |-> [to |-> head.to, address |-> head.address, calldata |-> head.calldata,
               csv |-> data.csv # <<>>, revert |-> data.revert, constant |-> FALSE,
               payable |-> FALSE, satGas |-> head.satGas, satRefunded |-> head.satRefunded,
               gas |-> NonZero(head.gas), refunded |-> NonZero(head.refunded),
               fees |-> data.fees, network |-> FromByte(head.network),
               result |-> data.result[1].result, accessList |-> data.accessList],
      coins |-> data.utxos,
      challenge |-> [raw |-> [data.challenge[1] EXCEPT !.legacyPublicKey = key],
                     proofs |-> data.proofs, submission |-> data.submission, key |-> key]]

=============================================================================
