--------------------------------- MODULE Abi ---------------------------------
(***************************************************************************)
(* How a contract's ABI becomes methods, calldata and decoded results:     *)
(* BitcoinInterface.ts, TypeToStr.ts, and the half of Contract.ts that     *)
(* encodes and decodes.                                                    *)
(*                                                                         *)
(* A value is a record: its JavaScript kind (js), for bytes its length     *)
(* (size), and which value of that kind it is (id).  A buffer is the       *)
(* sequence of the items a BinaryWriter was told to write: what is written *)
(* with one codec can be read back only with the same one.                 *)
(*                                                                         *)
(* A bound of the model: tuples and structs hold basic types only.         *)
(***************************************************************************)
EXTENDS Naturals, Sequences, SequencesExt

(***************************************************************************)
(* Types and elements                                                      *)
(***************************************************************************)

\* BitcoinAbiValue.type: a name of ABIDataTypes, or a tuple or struct of them.
Basic(t) == [shape |-> "basic", of |-> <<t>>]
Tuple(ts) == [shape |-> "tuple", of |-> ts]
Struct(ts) == [shape |-> "struct", of |-> ts]

Element(kind, name, ins, outs) ==
  [type |-> kind, name |-> name, constant |-> FALSE, payable |-> FALSE,
   inputs |-> ins, outputs |-> outs]

Basics(names) == [i \in DOMAIN names |-> Basic(names[i])]

\* The three kinds of element an ABI holds.  The values of an event are its inputs.
Fn(name, ins, outs) == Element("function", name, Basics(ins), Basics(outs))
View(name, ins, outs) == [Fn(name, ins, outs) EXCEPT !.constant = TRUE]
Ev(name, values) == Element("event", name, Basics(values), <<>>)

(***************************************************************************)
(* Writing and reading one value                                           *)
(***************************************************************************)

\* For each ABI type, the kind of JavaScript value encodeInput() takes, and the codec it
\* writes it with; whatever is of another kind makes it throw, or the writer.
ScalarWrites == [
  INT128 |-> <<"bigint", "I128">>, UINT256 |-> <<"bigint", "U256">>,
  BOOL |-> <<"boolean", "Boolean">>, STRING |-> <<"string", "StringWithLength">>,
  ADDRESS |-> <<"address", "Address">>, UINT8 |-> <<"number", "U8">>,
  UINT16 |-> <<"number", "U16">>, UINT32 |-> <<"number", "U32">>,
  BYTES32 |-> <<"bytes", "Bytes">>, BYTES4 |-> <<"bytes", "Bytes">>,
  ADDRESS_UINT256_TUPLE |-> <<"map", "AddressValueTuple">>,
  BYTES |-> <<"bytes", "BytesWithLength">>, UINT64 |-> <<"bigint", "U64">>]

ListWrites == [
  ARRAY_OF_ADDRESSES |-> <<"array", "AddressArray">>,
  ARRAY_OF_UINT256 |-> <<"array", "U256Array">>,
  ARRAY_OF_UINT32 |-> <<"array", "U32Array">>,
  ARRAY_OF_STRING |-> <<"array", "StringArray">>,
  ARRAY_OF_BYTES |-> <<"array", "BytesArray">>,
  ARRAY_OF_UINT64 |-> <<"array", "U64Array">>,
  ARRAY_OF_UINT8 |-> <<"array", "U8Array">>,
  ARRAY_OF_UINT16 |-> <<"array", "U16Array">>,
  UINT128 |-> <<"bigint", "U128">>,
  ARRAY_OF_UINT128 |-> <<"array", "U128Array">>,
  ARRAY_OF_BUFFERS |-> <<"array", "ArrayOfBuffer">>,
  EXTENDED_ADDRESS |-> <<"address", "ExtendedAddress">>,
  EXTENDED_ADDRESS_UINT256_TUPLE |-> <<"map", "ExtendedAddressMapU256">>,
  SCHNORR_SIGNATURE |-> <<"signature", "SchnorrSignature">>,
  ARRAY_OF_EXTENDED_ADDRESSES |-> <<"array", "ExtendedAddressArray">>,
  INT8 |-> <<"number", "I8">>, INT16 |-> <<"number", "I16">>,
  INT32 |-> <<"number", "I32">>, INT64 |-> <<"bigint", "I64">>]

Known == DOMAIN ScalarWrites \cup DOMAIN ListWrites
Writes == [t \in Known |-> IF t \in DOMAIN ScalarWrites THEN ScalarWrites[t] ELSE ListWrites[t]]
Takes(t) == Writes[t][1]

\* What an ABI may declare: of the types, and so of its elements, of whatever kind they are.
AbiType == [shape : {"basic", "tuple", "struct"}, of : Seq(Known)]
WellTyped(type) == type \in AbiType /\ (type.shape = "basic" => Len(type.of) = 1)
AbiElement == [
  type : STRING, name : STRING, constant : BOOLEAN, payable : BOOLEAN,
  inputs : Seq({type \in AbiType : WellTyped(type)}),
  outputs : Seq({type \in AbiType : WellTyped(type)})]

\* The codec decodeOutput() reads each ABI type with.
ReadWith == [
  INT128 |-> "I128", UINT256 |-> "U256", BOOL |-> "Boolean", STRING |-> "StringWithLength",
  ADDRESS |-> "Address", UINT8 |-> "U8", UINT16 |-> "U16", UINT32 |-> "U32",
  BYTES32 |-> "Bytes", BYTES4 |-> "Bytes", ADDRESS_UINT256_TUPLE |-> "AddressValueTuple",
  BYTES |-> "BytesWithLength", UINT64 |-> "U64", ARRAY_OF_ADDRESSES |-> "AddressArray",
  ARRAY_OF_UINT256 |-> "U256Array", ARRAY_OF_UINT32 |-> "U32Array",
  ARRAY_OF_STRING |-> "StringArray", ARRAY_OF_BYTES |-> "BytesArray",
  ARRAY_OF_UINT64 |-> "U64Array", ARRAY_OF_UINT8 |-> "U8Array",
  ARRAY_OF_UINT16 |-> "U16Array", UINT128 |-> "U128", ARRAY_OF_UINT128 |-> "U128Array",
  ARRAY_OF_BUFFERS |-> "ArrayOfBuffer", EXTENDED_ADDRESS |-> "ExtendedAddress",
  EXTENDED_ADDRESS_UINT256_TUPLE |-> "ExtendedAddressMapU256",
  SCHNORR_SIGNATURE |-> "SchnorrSignature",
  ARRAY_OF_EXTENDED_ADDRESSES |-> "ExtendedAddressArray", INT8 |-> "I8", INT16 |-> "I16",
  INT32 |-> "I32", INT64 |-> "I64"]

\* readBytes(32) and readBytes(4) take a fixed number of bytes, writeBytes() all it is given.
FixedSize == [BYTES32 |-> 32, BYTES4 |-> 4]
Fits(t, v) == t \in DOMAIN FixedSize => v.size = FixedSize[t]

\* The type's name in a selector.
TypeName == [
  ADDRESS |-> "address", EXTENDED_ADDRESS |-> "extendedAddress", BOOL |-> "bool",
  BYTES |-> "bytes", BYTES32 |-> "bytes32", BYTES4 |-> "bytes4", UINT256 |-> "uint256",
  UINT128 |-> "uint128", UINT64 |-> "uint64", UINT32 |-> "uint32", UINT16 |-> "uint16",
  UINT8 |-> "uint8", INT128 |-> "int128", INT64 |-> "int64", INT32 |-> "int32",
  INT16 |-> "int16", INT8 |-> "int8", STRING |-> "string",
  ADDRESS_UINT256_TUPLE |-> "tuple(address,uint256)[]",
  EXTENDED_ADDRESS_UINT256_TUPLE |-> "tuple(extendedAddress,uint256)[]",
  SCHNORR_SIGNATURE |-> "schnorrSignature", ARRAY_OF_ADDRESSES |-> "address[]",
  ARRAY_OF_EXTENDED_ADDRESSES |-> "extendedAddress[]", ARRAY_OF_UINT256 |-> "uint256[]",
  ARRAY_OF_UINT128 |-> "uint128[]", ARRAY_OF_UINT64 |-> "uint64[]",
  ARRAY_OF_UINT32 |-> "uint32[]", ARRAY_OF_UINT16 |-> "uint16[]",
  ARRAY_OF_UINT8 |-> "uint8[]", ARRAY_OF_BYTES |-> "bytes[]",
  ARRAY_OF_STRING |-> "string[]", ARRAY_OF_BUFFERS |-> "buffer[]"]

(***************************************************************************)
(* Writing and reading sequences of values                                 *)
(***************************************************************************)

Item(codec, value) == [codec |-> codec, value |-> value]
Wrote(items) == [ok |-> TRUE, items |-> items]
Threw == [ok |-> FALSE, items |-> <<>>]
Then(a, b) == IF a.ok /\ b.ok THEN Wrote(a.items \o b.items) ELSE Threw
InOrder(results) == FoldLeft(Then, Wrote(<<>>), results)

EncodeBasic(t, v) ==
  IF v.js = Takes(t) THEN Wrote(<<Item(Writes[t][2], v)>>) ELSE Threw

\* The entries of a tuple, the fields of a struct in the order of the declaration.
EncodeFields(ts, vs) ==
  IF Len(ts) = Len(vs) THEN InOrder([i \in DOMAIN ts |-> EncodeBasic(ts[i], vs[i])])
  ELSE Threw

\* Mutant: the values of a list are written without their number.
Uncounted(v, results) == InOrder(results)

Counted(v, results) ==
  LET count == [js |-> "number", size |-> 2, id |-> Len(v.items)] IN
  Then(Wrote(<<Item("U16", count)>>), InOrder(results))

\* encodeArray(): a tuple of one type is a flat list.
EncodeArray(t, v) ==
  IF v.js = "array" THEN Counted(v, [i \in DOMAIN v.items |-> EncodeBasic(t, v.items[i])])
  ELSE Threw

\* encodeTuple(): a tuple of several types is a list of entries.
EncodeTuple(ts, v) ==
  IF v.js = "array"
  THEN Counted(v, [i \in DOMAIN v.items |->
                     IF v.items[i].js = "array" THEN EncodeFields(ts, v.items[i].items)
                     ELSE Threw])
  ELSE Threw

\* encodeStruct(): the fields inline, without a count.
EncodeStruct(ts, v) == IF v.js = "object" THEN EncodeFields(ts, v.items) ELSE Threw

EncodeInput(type, v) ==
  CASE type.shape = "basic" -> EncodeBasic(type.of[1], v)
    [] type.shape = "struct" -> EncodeStruct(type.of, v)
    [] type.shape = "tuple" /\ Len(type.of) = 1 -> EncodeArray(type.of[1], v)
    [] OTHER -> EncodeTuple(type.of, v)

\* The reader's state: what it has not read, and what it has.
Reader(items) == [ok |-> TRUE, rest |-> items, values |-> <<>>]
Garbled == [ok |-> FALSE, rest |-> <<>>, values |-> <<>>]

ReadBasic(r, t) ==
  IF /\ r.ok /\ r.rest # <<>>
     /\ Head(r.rest).codec = ReadWith[t] /\ Fits(t, Head(r.rest).value)
  THEN [r EXCEPT !.rest = Tail(@), !.values = Append(@, Head(r.rest).value)]
  ELSE Garbled

\* Mutant: what was read before is taken for fields, too.
ReadFieldsOnTop(r, ts) == FoldLeft(ReadBasic, r, ts)

ReadFields(r, ts) == FoldLeft(ReadBasic, [r EXCEPT !.values = <<>>], ts)

\* What was read since r, as one value of kind js.
Packed(r, js, read) ==
  IF read.ok THEN [read EXCEPT !.values = Append(r.values, [js |-> js, items |-> @])]
  ELSE Garbled

ReadTuple(r, ts) ==
  LET counted == ReadBasic([r EXCEPT !.values = <<>>], "UINT16")
      n == counted.values[1].id
      start == [counted EXCEPT !.values = <<>>]
      entry(q, i) == Packed(q, "array", ReadFields(q, ts))
  IN IF ~counted.ok THEN Garbled
     ELSE Packed(r, "array",
                 IF Len(ts) = 1 THEN ReadFields(start, [i \in 1..n |-> ts[1]])
                 ELSE FoldLeft(entry, start, [i \in 1..n |-> i]))

ReadOne(r, type) ==
  CASE type.shape = "basic" -> ReadBasic(r, type.of[1])
    [] type.shape = "struct" -> Packed(r, "object", ReadFields(r, type.of))
    [] OTHER -> ReadTuple(r, type.of)

\* decodeOutput(), and the reader a contract reads its arguments with.
DecodeOutput(types, items) == FoldLeft(ReadOne, Reader(items), types)

(***************************************************************************)
(* Functions and events                                                    *)
(***************************************************************************)

\* getSelector(): name and types of the inputs.  Its hash is taken to be injective.
TypeString(type) == <<type.shape, [i \in DOMAIN type.of |-> TypeName[type.of[i]]]>>
Selector(f) == <<f.name, [i \in DOMAIN f.inputs |-> TypeString(f.inputs[i])]>>

EncodeFunctionData(f, args) ==
  IF Len(args) # Len(f.inputs) THEN Threw
  ELSE Then(Wrote(<<Item("Selector", [js |-> "number", size |-> 4, id |-> Selector(f)])>>),
            InOrder([i \in DOMAIN args |-> EncodeInput(f.inputs[i], args[i])]))

Named(abi, kind, name) == {i \in DOMAIN abi : abi[i].type = kind /\ abi[i].name = name}
Earliest(S) == CHOOSE i \in S : \A j \in S : i <= j
Latest(S) == CHOOSE i \in S : \A j \in S : j <= i

\* BitcoinInterface.verifyAbi(), verifyAbiValues(): nothing is empty or without a name.
VerifyAbi(abi) ==
  /\ abi # <<>>
  /\ \A i \in DOMAIN abi : abi[i].name # "" /\ abi[i].type # ""

HasFunction(abi, name) == Named(abi, "function", name) # {}
HasEvent(abi, name) == Named(abi, "event", name) # {}

\* What getFunction() finds in every contract before any method is defined.
Members == {
  "address", "network", "interface", "provider", "events", "fetchGasParametersAfter", "p2op",
  "contractAddress", "setSender", "decodeEvents", "decodeEvent", "encodeCalldata",
  "currentGasParameters", "setTransactionDetails", "setAccessList", "setSimulatedHeight",
  "getFunction", "getAddressOrThrow", "defineInternalFunctions", "getSelector",
  "encodeFunctionData", "encodeArray", "encodeTuple", "encodeStruct", "encodeInput",
  "decodeOutput", "estimateGas", "max", "callFunction", "proxify", "constructor", "toString"}

\* The constructor throws for an invalid ABI, and for two events of one name.
Opens(abi) ==
  /\ VerifyAbi(abi)
  /\ \A i \in DOMAIN abi :
       abi[i].type = "event" => Named(abi, "event", abi[i].name) = {i}

\* Mutant: "We will allow overwrites" taken at its word, the last definition stays.
LastDefinition(abi, name) == abi[Latest(Named(abi, "function", name))]

\* defineInternalFunctions(): the first definition of a name stays.
Definition(abi, name) == abi[Earliest(Named(abi, "function", name))]

Methods(abi) == {abi[i].name : i \in {j \in DOMAIN abi : abi[j].type = "function"}} \ Members

\* encodeCalldata(): the first element of the name, a function or not.
EncodeCalldata(abi, name, args) ==
  LET found == {i \in DOMAIN abi : abi[i].name = name} IN
  IF found = {} THEN Threw ELSE EncodeFunctionData(abi[Earliest(found)], args)

\* decodeEvent() of [type, data]: an event the ABI does not know, or one without values, is
\* handed out as it came; one that cannot be read throws.
DecodeEvent(abi, event) ==
  LET known == Named(abi, "event", event.type)
      read == DecodeOutput(abi[Earliest(known)].inputs, event.data)
      undecoded == [ok |-> TRUE, type |-> event.type, values |-> <<>>]
  IN IF known = {} \/ abi[Earliest(known)].inputs = <<>> THEN undecoded
     ELSE [undecoded EXCEPT !.ok = read.ok, !.values = read.values]

\* decodeEvents(): those the receipt files under this contract's address, or none.
DecodeEvents(abi, events) == [i \in DOMAIN events |-> DecodeEvent(abi, events[i])]

=============================================================================
