---------------------------- MODULE ResultsProofs ----------------------------
(***************************************************************************)
(* What a call sends and what its result says, for any ABI, and what a     *)
(* send acquires, for any wallets and options.                             *)
(*                                                                         *)
(* An example of a type is written so that it can be read (AbiProofs), so  *)
(* the node reads the arguments the application gave, and the application  *)
(* the values the node returned.  The coins a send acquires have passed a  *)
(* comparison, made for its own options and result; what has to be shown   *)
(* besides is that the sums it compares are numbers.  The buffer a result  *)
(* is written to for an offline signer is read part by part, each as what  *)
(* is kept of it.                                                          *)
(***************************************************************************)
EXTENDS ContractCallsProofs, AbiProofs

-----------------------------------------------------------------------------
(* Examples                                                                *)

LEMMA SizesAreNumbers == \A t \in DOMAIN FixedSize : FixedSize[t] \in Nat
  BY DEF FixedSize

LEMMA ExampleSuits ==
  ASSUME NEW t, NEW i
  PROVE  Suits(t, Example(t, i))
<1>1. PICK v : v = Example(t, i)
  OBVIOUS
<1>2. v.js = Takes(t)
  BY <1>1 DEF Example
<1>3. CASE t \in DOMAIN FixedSize
  <2>1. v.size = FixedSize[t]
    BY <1>1, <1>3 DEF Example
  <2> QED BY <1>1, <1>2, <1>3, <2>1, SizesAreNumbers DEF Suits, Fits
<1>4. CASE t \notin DOMAIN FixedSize
  <2>1. v.size = 8
    BY <1>1, <1>4 DEF Example
  <2> QED BY <1>1, <1>2, <1>4, <2>1 DEF Suits, Fits
<1> QED BY <1>3, <1>4

\* Every type writes its example so that it can be read.
LEMMA ExampleLegible ==
  ASSUME NEW type, WellTyped(type), NEW i
  PROVE  \E items : Legible(type, ExampleOf(type, i), items)
<1>1. PICK ts : ts = type.of
  OBVIOUS
<1>2. PICK n \in Nat : n = Len(ts)
  BY <1>1 DEF WellTyped, AbiType
<1>3. DOMAIN ts = 1..n /\ \A k \in 1..n : ts[k] \in Known
  BY <1>1, <1>2 DEF WellTyped, AbiType
<1>4. PICK fields : fields = [k \in DOMAIN ts |-> Example(ts[k], 10 * i + k)]
  OBVIOUS
<1>5. /\ DOMAIN fields = 1..n /\ Len(fields) = n
      /\ \A k \in 1..n : Suits(ts[k], fields[k])
  BY <1>2, <1>3, <1>4, ExampleSuits
<1>6. fields = Prefix(fields, n)
  BY <1>3, <1>4 DEF Prefix
<1>7. PICK v : v = ExampleOf(type, i)
  OBVIOUS
<1>8. CASE type.shape = "basic"
  <2>1. n = 1 /\ v = fields[1]
    <3>1. n = 1
      BY <1>1, <1>2, <1>8 DEF WellTyped
    <3>2. ExampleOf(type, i) = fields[1]
      BY <1>1, <1>4, <1>8 DEF ExampleOf
    <3> QED BY <1>7, <3>1, <3>2
  <2>2. ts = <<ts[1]>>
    BY <1>1, <1>2, <1>3, <2>1 DEF WellTyped, AbiType
  <2>3. ts[1] \in Known /\ Suits(ts[1], v)
    BY <1>3, <1>5, <2>1
  <2> QED BY <1>1, <1>7, <1>8, <2>2, <2>3, BasicLegible
<1>9. CASE type.shape = "struct"
  <2>1. v = [js |-> "object", items |-> fields]
    <3>1. ExampleOf(type, i) = [js |-> "object", items |-> fields]
      BY <1>1, <1>4, <1>9 DEF ExampleOf
    <3> QED BY <1>7, <3>1
  <2> QED BY <1>1, <1>2, <1>3, <1>5, <1>6, <1>7, <1>9, <2>1, StructLegible
<1>10. CASE type.shape = "tuple" /\ n = 1
  <2>1. PICK vs : vs = <<fields[1], fields[1]>>
    OBVIOUS
  <2>2. v = [js |-> "array", items |-> vs]
    BY <1>1, <1>2, <1>4, <1>7, <1>10, <2>1 DEF ExampleOf
  <2>3. ts = <<ts[1]>> /\ ts[1] \in Known
    BY <1>1, <1>2, <1>3, <1>10 DEF WellTyped, AbiType
  <2>4. PICK two \in Nat : two = 2
    OBVIOUS
  <2>5. vs = Prefix(vs, two) /\ Len(vs) = two /\ \A k \in 1..two : Suits(ts[1], vs[k])
    <3>1. Suits(ts[1], fields[1])
      BY <1>5, <1>10
    <3> QED BY <2>1, <2>4, <3>1 DEF Prefix
  <2> QED BY <1>1, <1>7, <1>10, <2>2, <2>3, <2>5, ArrayLegible
<1>11. CASE type.shape = "tuple" /\ n # 1
  <2>1. PICK w : w = [js |-> "array", items |-> fields]
    OBVIOUS
  <2>2. v = [js |-> "array", items |-> <<w>>]
    BY <1>1, <1>2, <1>4, <1>7, <1>11, <2>1 DEF ExampleOf
  <2> QED BY <1>1, <1>2, <1>3, <1>5, <1>6, <1>7, <1>11, <2>1, <2>2, TupleLegible
<1> QED
  BY <1>8, <1>9, <1>10, <1>11 DEF WellTyped, AbiType

\* What an ABI declares for the inputs or outputs of an element.
Declared(types) ==
  \E n \in Nat : /\ DOMAIN types = 1..n /\ Len(types) = n
                 /\ \A k \in 1..n : WellTyped(types[k])

LEMMA DecodePasses ==
  ASSUME NEW n \in Nat, NEW types, DOMAIN types = 1..n, NEW st, NEW items,
         st[0] = At(items, Nil), \A k \in 1..n : ReadOne(st[k - 1], types[k]) = st[k]
  PROVE  DecodeOutput(types, items) = st[n]
<1>1. OneFold!Passes(st, n, 0, types)
  BY DEF OneFold!Passes, One
<1>2. OneFold!Folded(0, st[0], types) = st[n]
  BY <1>1, OneFold!FoldPasses
<1>3. Reader(items) = At(items, Nil)
  BY DEF Reader, At, Nil
<1> QED
  BY <1>2, <1>3, DecodeOutputFolds

\* What is written of examples is read as the examples.
LEMMA ExamplesRead ==
  ASSUME NEW types, Declared(types), NEW results,
         results = [i \in DOMAIN types |-> EncodeInput(types[i], Examples(types)[i])]
  PROVE  \E items : /\ InOrder(results) = Wrote(items) /\ Sized(items)
                    /\ DecodeOutput(types, items) = At(Nil, Examples(types))
<1>1. PICK n \in Nat : DOMAIN types = 1..n /\ \A k \in 1..n : WellTyped(types[k])
  BY DEF Declared
<1>2. PICK vs : vs = Examples(types)
  OBVIOUS
<1>3. DOMAIN vs = 1..n /\ \A k \in 1..n : vs[k] = ExampleOf(types[k], k)
  BY <1>1, <1>2 DEF Examples
<1>4. vs = Prefix(vs, n)
  BY <1>1, <1>2, <1>3 DEF Examples, Prefix
<1>5. PICK chunks : chunks = [k \in 1..n |-> CHOOSE items : Legible(types[k], vs[k], items)]
  OBVIOUS
<1>6. \A k \in 1..n : Legible(types[k], vs[k], chunks[k])
  BY <1>1, <1>3, <1>5, ExampleLegible
<1>7. DOMAIN results = 1..n
  BY <1>1
<1>8. \A k \in 1..n : Sized(chunks[k]) /\ results[k] = Wrote(chunks[k])
  BY <1>1, <1>2, <1>6 DEF Legible
<1>9. PICK items : InOrder(results) = Wrote(items) /\ Spells(items, n, chunks)
  BY <1>7, <1>8, InOrderWrites
<1>10. Sized(items) /\ Cat(items, Nil) = items
  BY <1>9, ListUnit DEF Spells, Sized
<1>11. PICK suf : TailsOf(suf, n, chunks, Nil) /\ suf[0] = items
  BY <1>9, <1>10, ListOfNone DEF Spells
<1>12. PICK st : st = [k \in 0..n |-> At(suf[k], Prefix(vs, k))]
  OBVIOUS
<1>13. st[0] = At(items, Nil)
  BY <1>11, <1>12, PrefixNone
<1>14. ASSUME NEW k \in 1..n
       PROVE  ReadOne(st[k - 1], types[k]) = st[k]
  <2>1. k \in 0..n /\ k - 1 \in 0..n /\ k - 1 \in Nat /\ (k - 1) + 1 = k
    OBVIOUS
  <2>2. suf[k - 1] = Cat(chunks[k], suf[k]) /\ List(suf[k])
    BY <1>11, <2>1 DEF TailsOf
  <2>3. ReadOne(At(suf[k - 1], Prefix(vs, k - 1)), types[k])
          = At(suf[k], Append(Prefix(vs, k - 1), vs[k]))
    BY <1>6, <2>2 DEF Legible
  <2>4. Append(Prefix(vs, k - 1), vs[k]) = Prefix(vs, k)
    BY <2>1, PrefixGrows
  <2> QED BY <1>12, <2>1, <2>3, <2>4
<1>15. DecodeOutput(types, items) = st[n]
  BY <1>1, <1>13, <1>14, DecodePasses
<1>16. st[n] = At(Nil, vs)
  BY <1>4, <1>11, <1>12 DEF TailsOf
<1> QED BY <1>2, <1>9, <1>10, <1>15, <1>16

-----------------------------------------------------------------------------
(* Faithful nothing                                                         *)

\* A reader that has come to its end, or to grief.
Spent(r, values) == r.ok => r = At(Nil, values)

LEMMA GarbledIsNot == ~Garbled.ok
  BY DEF Garbled

LEMMA ReadBasicSpent ==
  ASSUME NEW r, r.ok => r.rest = Nil, NEW t
  PROVE  ReadBasic(r, t) = Garbled
  BY DEF ReadBasic, Nil

LEMMA ReadFieldsSpent ==
  ASSUME NEW n \in Nat, NEW ts, DOMAIN ts = 1..n, NEW r, r.ok => r.rest = Nil
  PROVE  ReadFields(r, ts) = IF n = 0 THEN [r EXCEPT !.values = Nil] ELSE Garbled
<1>1. PICK first : first = [r EXCEPT !.values = Nil]
  OBVIOUS
<1>2. first.ok => first.rest = Nil
  BY <1>1
<1>3. PICK st : st = [k \in 0..n |-> IF k = 0 THEN first ELSE Garbled]
  OBVIOUS
<1>4. ASSUME NEW k \in 1..n
      PROVE  ReadBasic(st[k - 1], ts[k]) = st[k]
  <2>1. PICK q : q = st[k - 1]
    OBVIOUS
  <2>2. q.ok => q.rest = Nil
    BY <1>2, <1>3, <2>1, GarbledIsNot
  <2>3. ReadBasic(q, ts[k]) = Garbled
    BY <2>2, ReadBasicSpent
  <2> QED BY <1>3, <2>1, <2>3
<1>5. FieldFold!Passes(st, n, 0, ts)
  BY <1>4 DEF FieldFold!Passes, Field
<1>6. FieldFold!Folded(0, st[0], ts) = st[n]
  BY <1>5, FieldFold!FoldPasses
<1>7. st[0] = first /\ st[n] = IF n = 0 THEN first ELSE Garbled
  BY <1>3
<1> QED
  BY <1>1, <1>6, <1>7, ReadFieldsFolds

LEMMA PackedGarbled ==
  ASSUME NEW r, NEW js, NEW read, ~read.ok
  PROVE  Packed(r, js, read) = Garbled
  BY DEF Packed

LEMMA ReadOneSpent ==
  ASSUME NEW type, WellTyped(type), NEW i, NEW r, NEW values, Spent(r, values)
  PROVE  Spent(ReadOne(r, type), Append(values, ExampleOf(type, i)))
<1>1. PICK ts : ts = type.of
  OBVIOUS
<1>2. PICK n \in Nat : DOMAIN ts = 1..n
  BY <1>1 DEF WellTyped, AbiType
<1>3. r.ok => r.rest = Nil
  BY DEF Spent, At
<1>4. CASE type.shape = "basic"
  <2>1. ReadOne(r, type) = ReadBasic(r, type.of[1])
    BY <1>4 DEF ReadOne
  <2> QED BY <1>3, <2>1, ReadBasicSpent, GarbledIsNot DEF Spent
<1>5. CASE type.shape = "struct"
  <2>1. PICK read : read = ReadFields(r, ts)
    OBVIOUS
  <2>2. ReadOne(r, type) = Packed(r, "object", read)
    BY <1>1, <1>5, <2>1 DEF ReadOne
  <2>3. CASE ~read.ok
    BY <2>2, <2>3, PackedGarbled, GarbledIsNot DEF Spent
  <2>4. CASE read.ok
    <3>1. n = 0 /\ read = [r EXCEPT !.values = Nil]
      BY <1>2, <1>3, <2>1, <2>4, ReadFieldsSpent, GarbledIsNot
    <3>2. r.ok
      BY <2>4, <3>1
    <3>3. r = At(Nil, values) /\ read = At(Nil, Nil)
      BY <3>1, <3>2, AtExcept DEF Spent
    <3>4. PICK fields : fields = [k \in DOMAIN ts |-> Example(ts[k], 10 * i + k)]
      OBVIOUS
    <3>5. ExampleOf(type, i) = [js |-> "object", items |-> fields]
      BY <1>1, <1>5, <3>4 DEF ExampleOf
    <3>6. fields = Prefix(fields, n)
      BY <1>2, <3>4 DEF Prefix
    <3>7. fields = Nil
      BY <3>1, <3>6, PrefixNone
    <3>8. Packed(r, "object", read) = At(Nil, Append(values, ExampleOf(type, i)))
      BY <3>3, <3>5, <3>7, PackedValue
    <3> QED BY <2>2, <3>8 DEF Spent
  <2> QED BY <2>3, <2>4
<1>6. CASE type.shape = "tuple"
  <2>1. PICK first : first = [r EXCEPT !.values = Nil]
    OBVIOUS
  <2>2. first.ok => first.rest = Nil
    BY <1>3, <2>1
  <2>3. ReadBasic(first, "UINT16") = Garbled
    BY <2>2, ReadBasicSpent
  <2>4. ReadTuple(r, ts) = Garbled
    BY <2>1, <2>3, ReadTupleFolds, GarbledIsNot
  <2>5. ReadOne(r, type) = ReadTuple(r, ts)
    BY <1>1, <1>6 DEF ReadOne
  <2> QED BY <2>4, <2>5, GarbledIsNot DEF Spent
<1> QED
  BY <1>4, <1>5, <1>6 DEF WellTyped, AbiType

\* Of nothing only what takes no room can be read.
LEMMA NothingRead ==
  ASSUME NEW types, Declared(types)
  PROVE  Spent(DecodeOutput(types, Nil), Examples(types))
<1>1. PICK n \in Nat : DOMAIN types = 1..n /\ \A k \in 1..n : WellTyped(types[k])
  BY DEF Declared
<1>2. PICK vs : vs = Examples(types)
  OBVIOUS
<1>3. DOMAIN vs = 1..n /\ \A k \in 1..n : vs[k] = ExampleOf(types[k], k)
  BY <1>1, <1>2 DEF Examples
<1>4. vs = Prefix(vs, n)
  BY <1>1, <1>2, <1>3 DEF Examples, Prefix
<1>5. PICK f : OneFold!Follows(f, n, 0, At(Nil, Nil), types)
  BY <1>1, OneFold!FoldSteps
<1>6. /\ f[0] = At(Nil, Nil)
      /\ \A k \in 1..n : f[k] = ReadOne(f[k - 1], types[k])
      /\ OneFold!Folded(0, At(Nil, Nil), types) = f[n]
  BY <1>5 DEF OneFold!Follows, One
<1>7. DecodeOutput(types, Nil) = f[n]
  <2>1. Reader(Nil) = At(Nil, Nil)
    BY DEF Reader, At, Nil
  <2> QED BY <1>6, <2>1, DecodeOutputFolds
<1> DEFINE S == {k \in 0..n : Spent(f[k], Prefix(vs, k))}
<1>8. 0 \in S
  BY <1>6, PrefixNone DEF Spent
<1>9. \A k \in 0..n : k \in S /\ k < n => k + 1 \in S
  <2> TAKE k \in 0..n
  <2> HAVE k \in S /\ k < n
  <2>1. k + 1 \in 1..n /\ k + 1 \in 0..n /\ (k + 1) - 1 = k /\ k \in Nat
    OBVIOUS
  <2>2. f[k + 1] = ReadOne(f[k], types[k + 1])
    BY <1>6, <2>1
  <2>3. Spent(f[k + 1], Append(Prefix(vs, k), vs[k + 1]))
    BY <1>1, <1>3, <2>1, <2>2, ReadOneSpent
  <2>4. Append(Prefix(vs, k), vs[k + 1]) = Prefix(vs, k + 1)
    BY <2>1, PrefixGrows
  <2> QED BY <2>1, <2>3, <2>4
<1>10. n \in S
  <2>1. n \in 0..n
    OBVIOUS
  <2> HIDE DEF S
  <2> QED BY <1>8, <1>9, <2>1, OneFold!Climb
<1> QED
  BY <1>2, <1>4, <1>7, <1>10

-----------------------------------------------------------------------------
(* Functions                                                               *)

LEMMA ElementDeclares ==
  ASSUME NEW e \in AbiElement
  PROVE  Declared(e.inputs) /\ Declared(e.outputs)
<1> DEFINE T == {type \in AbiType : WellTyped(type)}
<1>1. e.inputs \in Seq(T) /\ e.outputs \in Seq(T)
  BY DEF AbiElement
<1>2. ASSUME NEW types \in Seq(T)
      PROVE  Declared(types)
  <2>1. PICK n \in Nat : n = Len(types)
    BY <1>2
  <2>2. DOMAIN types = 1..n /\ \A k \in 1..n : types[k] \in T
    BY <1>2, <2>1
  <2>3. \A type \in T : WellTyped(type)
    OBVIOUS
  <2> HIDE DEF T
  <2>4. \A k \in 1..n : WellTyped(types[k])
    BY <2>2, <2>3
  <2> QED BY <2>1, <2>2, <2>4 DEF Declared
<1> HIDE DEF T
<1> QED BY <1>1, <1>2

LEMMA EarliestThere ==
  ASSUME NEW n, NEW S, S \subseteq 1..n, n \in Nat, S # {}
  PROVE  Earliest(S) \in S
<1>1. S \subseteq Nat
  OBVIOUS
<1>2. \E x \in S : \A y \in S : x <= y
  BY <1>1, JoinFold!LeastNatural
<1> QED BY <1>2 DEF Earliest

\* The definition of a method is there, and is that of a function.
LEMMA DefinitionThere ==
  ASSUME NEW abi \in Seq(AbiElement), NEW fn \in Methods(abi)
  PROVE  Definition(abi, fn) \in AbiElement
<1>1. PICK n \in Nat : n = Len(abi) /\ DOMAIN abi = 1..n
  OBVIOUS
<1>2. Named(abi, "function", fn) \subseteq 1..n /\ Named(abi, "function", fn) # {}
  BY <1>1 DEF Methods, Named
<1>3. Earliest(Named(abi, "function", fn)) \in 1..n
  BY <1>2, EarliestThere
<1> QED BY <1>1, <1>3 DEF Definition

LEMMA EncodedExamples ==
  ASSUME NEW f \in AbiElement
  PROVE  \E item, items :
           /\ EncodeFunctionData(f, Examples(f.inputs)) = Wrote(Cat(<<item>>, items))
           /\ item.value.size \in Nat /\ Sized(items)
           /\ DecodeOutput(f.inputs, items) = At(Nil, Examples(f.inputs))
<1>1. PICK types : types = f.inputs
  OBVIOUS
<1>2. PICK args : args = Examples(types)
  OBVIOUS
<1>3. PICK n \in Nat : DOMAIN types = 1..n /\ Len(types) = n
  BY <1>1, ElementDeclares DEF Declared
<1>4. DOMAIN args = 1..n /\ Len(args) = n
  BY <1>2, <1>3 DEF Examples
<1>5. PICK results : results = [i \in DOMAIN types |-> EncodeInput(types[i], args[i])]
  OBVIOUS
<1>6. PICK items : /\ InOrder(results) = Wrote(items) /\ Sized(items)
                   /\ DecodeOutput(types, items) = At(Nil, args)
  BY <1>1, <1>2, <1>5, ElementDeclares, ExamplesRead
<1>7. PICK item : item = Item("Selector", [js |-> "number", size |-> 4, id |-> Selector(f)])
  OBVIOUS
<1>8. item.value.size \in Nat
  BY <1>7 DEF Item
<1>9. EncodeFunctionData(f, args) = Then(Wrote(<<item>>), InOrder(results))
  BY <1>1, <1>3, <1>4, <1>5, <1>7 DEF EncodeFunctionData
<1> QED BY <1>1, <1>2, <1>6, <1>8, <1>9, ThenWrites

\* No type takes a symbol.
LEMMA SymbolsThrow ==
  ASSUME NEW type, WellTyped(type), NEW v, v.js = "symbol"
  PROVE  EncodeInput(type, v) = Threw
<1>1. CASE type.shape = "basic"
  <2>1. PICK t : t = type.of[1] /\ t \in Known
    BY <1>1 DEF WellTyped, AbiType
  <2>2. Takes(t) # "symbol"
    BY <2>1, CodecsAgree
  <2> QED BY <1>1, <2>1, <2>2 DEF EncodeInput, EncodeBasic
<1>2. CASE type.shape = "struct"
  BY <1>2 DEF EncodeInput, EncodeStruct
<1>3. CASE type.shape = "tuple"
  BY <1>3 DEF EncodeInput, EncodeArray, EncodeTuple
<1> QED BY <1>1, <1>2, <1>3 DEF WellTyped, AbiType

\* Only the right arguments can be encoded.
LEMMA WrongArgumentsThrow ==
  ASSUME NEW f \in AbiElement, NEW args \in Arguments(f), EncodeFunctionData(f, args).ok
  PROVE  args = Examples(f.inputs)
<1>1. PICK types : types = f.inputs
  OBVIOUS
<1>2. PICK right : right = Examples(types)
  OBVIOUS
<1>3. PICK n \in Nat : /\ DOMAIN types = 1..n /\ Len(types) = n
                       /\ \A k \in 1..n : WellTyped(types[k])
  BY <1>1, ElementDeclares DEF Declared
<1>4. DOMAIN right = 1..n /\ Len(right) = n
  BY <1>2, <1>3 DEF Examples
<1>5. SUFFICES ASSUME args # right PROVE FALSE
  BY <1>1, <1>2
<1>6. PICK wrong : wrong = [js |-> "symbol", size |-> 0, id |-> 0]
  OBVIOUS
<1>7. right # <<>> /\ (args = Tail(right) \/ args = [right EXCEPT ![1] = wrong])
  BY <1>1, <1>2, <1>5, <1>6 DEF Arguments
<1>8. ~Threw.ok
  BY DEF Threw
<1>9. CASE args = Tail(right)
  <2>1. PICK S : right \in Seq(S)
    <3>1. right \in Seq({right[k] : k \in 1..n})
      BY <1>2, <1>3, <1>4 DEF Examples
    <3> QED BY <3>1
  <2>2. Len(args) = n - 1 /\ n # n - 1
    BY <1>4, <1>7, <1>9, <2>1
  <2> QED BY <1>1, <1>3, <1>8, <2>2 DEF EncodeFunctionData
<1>10. CASE args = [right EXCEPT ![1] = wrong]
  <2>1. n > 0
    <3>1. n = 0 => right = Prefix(right, 0)
      BY <1>2, <1>3, <1>4 DEF Examples, Prefix
    <3> QED BY <1>7, <3>1, PrefixNone DEF Nil
  <2>2. DOMAIN args = 1..n /\ args[1] = wrong
    BY <1>4, <1>10, <2>1
  <2>3. PICK results : results = [i \in DOMAIN args |-> EncodeInput(types[i], args[i])]
    OBVIOUS
  <2>4. DOMAIN results = 1..n /\ results[1] = EncodeInput(types[1], wrong)
    BY <2>1, <2>2, <2>3
  <2>5. WellTyped(types[1]) /\ wrong.js = "symbol"
    BY <1>3, <1>6, <2>1
  <2>6. InOrder(results) = Threw
    BY <2>1, <2>4, <2>5, SymbolsThrow, InOrderThrows
  <2>7. EncodeFunctionData(f, args) = Threw
    <3>1. PICK first : first = Wrote(<<Item("Selector",
                                       [js |-> "number", size |-> 4, id |-> Selector(f)])>>)
      OBVIOUS
    <3>2. Then(first, Threw) = Threw
      BY <1>8 DEF Then
    <3> QED BY <1>1, <2>3, <2>6, <3>1, <3>2 DEF EncodeFunctionData
  <2> QED BY <1>8, <2>7
<1> QED BY <1>7, <1>9, <1>10

-----------------------------------------------------------------------------
(* What a simulation returns                                               *)

LEMMA ExamplesReadBack ==
  ASSUME NEW types, Declared(types), NEW items,
         items = Nil \/ items = InOrder([i \in DOMAIN types |->
                                          EncodeInput(types[i], Examples(types)[i])]).items,
         DecodeOutput(types, items).ok
  PROVE  DecodeOutput(types, items).values = Examples(types)
<1>1. \A values : At(Nil, values).values = values
  BY DEF At
<1>2. CASE items = Nil
  BY <1>1, <1>2, NothingRead DEF Spent
<1>3. CASE items # Nil
  <2>1. PICK results : results = [i \in DOMAIN types |->
                                    EncodeInput(types[i], Examples(types)[i])]
    OBVIOUS
  <2>2. PICK written : /\ InOrder(results) = Wrote(written)
                       /\ DecodeOutput(types, written) = At(Nil, Examples(types))
    BY <2>1, ExamplesRead
  <2>3. items = written
    BY <1>3, <2>1, <2>2 DEF Wrote
  <2> QED BY <1>1, <2>2, <2>3
<1> QED BY <1>2, <1>3

\* The function a call is of.
Called(u, r) == Definition(u.abi, r.fn)

\* Of the arguments a call is given, those that can be encoded are right.
Meant(u, r) ==
  EncodeFunctionData(Called(u, r), r.args).ok => r.args = Examples(Called(u, r).inputs)

Encoded(u, r) ==
  /\ r.args = Examples(Called(u, r).inputs)
  /\ EncodeFunctionData(Called(u, r), r.args) = Wrote(r.sim.calldata)

Returned(u, r) == r.sim.values = Examples(Called(u, r).outputs)

EventsOf(abi) == {e \in Range(abi) : e.type = "event"}

\* The events of a receipt, before and after they are decoded.
Emits(u, r) ==
  \A i \in DOMAIN r.events, e \in EventsOf(u.abi) :
    e.name = r.events[i].type => r.events[i].data \in {Nil, Emitted(e).data}
Understood(u, r) ==
  \A i \in DOMAIN r.events, e \in EventsOf(u.abi) :
    e.name = r.events[i].type => r.events[i].values = Examples(e.inputs)

LEMMA EventNamed ==
  ASSUME NEW abi, Opens(abi), NEW i \in DOMAIN abi, abi[i].type = "event"
  PROVE  Named(abi, "event", abi[i].name) = {i}
  BY DEF Opens

LEMMA EventsApart ==
  ASSUME NEW abi, Opens(abi), NEW d \in EventsOf(abi), NEW e \in EventsOf(abi), d.name = e.name
  PROVE  d = e
<1>1. PICK i \in DOMAIN abi : abi[i] = d
  BY DEF EventsOf, Range
<1>2. PICK j \in DOMAIN abi : abi[j] = e
  BY DEF EventsOf, Range
<1>3. j \in Named(abi, "event", d.name)
  BY <1>2 DEF Named, EventsOf
<1>4. Named(abi, "event", d.name) = {i}
  <2>1. abi[i].type = "event"
    BY <1>1 DEF EventsOf
  <2>2. Named(abi, "event", abi[i].name) = {i}
    BY <2>1, EventNamed
  <2> QED BY <1>1, <2>2
<1> QED BY <1>1, <1>2, <1>3, <1>4

LEMMA EventsEmit ==
  ASSUME Opens(use.abi), NEW r, r.events \in Events
  PROVE  Emits(use, r)
<1> DEFINE known == {use.abi[i] : i \in {j \in DOMAIN use.abi : use.abi[j].type = "event"}}
<1>1. known = EventsOf(use.abi)
  BY DEF EventsOf, Range
<1>2. ASSUME NEW e \in EventsOf(use.abi), NEW i \in DOMAIN r.events,
             e.name = r.events[i].type
      PROVE  r.events[i].data \in {Nil, Emitted(e).data}
  <2>1. \/ r.events = <<>>
        \/ \E data : data = Nil /\ r.events = <<[type |-> "Unheard", data |-> data]>>
        \/ \E d \in known : r.events = <<Emitted(d)>>
        \/ \E d \in known : \E data : data = Nil /\ r.events = <<[type |-> d.name, data |-> data]>>
    BY DEF Events, Nil
  <2>2. CASE r.events = <<>>
    BY <2>2
  <2>3. CASE \E data, name : data = Nil /\ r.events = <<[type |-> name, data |-> data]>>
    <3>1. PICK data, name : data = Nil /\ r.events = <<[type |-> name, data |-> data]>>
      BY <2>3
    <3>2. PICK event : event = [type |-> name, data |-> data]
      OBVIOUS
    <3>3. r.events[i] = event /\ event.data = Nil
      BY <3>1, <3>2
    <3> QED BY <3>3
  <2>4. ASSUME NEW d \in known, r.events = <<Emitted(d)>>
        PROVE  r.events[i].data \in {Nil, Emitted(e).data}
    <3>1. r.events[i] = Emitted(d)
      <4>1. PICK event : event = Emitted(d)
        OBVIOUS
      <4> QED BY <2>4, <4>1
    <3>2. d.name = e.name
      BY <1>2, <3>1 DEF Emitted
    <3>3. d = e
      BY <1>1, <3>2, EventsApart
    <3> QED BY <3>1, <3>3
  <2> QED BY <2>1, <2>2, <2>3, <2>4
<1> QED BY <1>2 DEF Emits

LEMMA EventDecoded ==
  ASSUME NEW abi \in Seq(AbiElement), Opens(abi), NEW e \in EventsOf(abi), NEW event,
         e.name = event.type, event.data \in {Nil, Emitted(e).data}, DecodeEvent(abi, event).ok
  PROVE  DecodeEvent(abi, event).values = Examples(e.inputs)
<1>1. PICK i \in DOMAIN abi : abi[i] = e
  BY DEF EventsOf, Range
<1>2. Named(abi, "event", event.type) = {i}
  <2>1. abi[i].type = "event"
    BY <1>1 DEF EventsOf
  <2>2. Named(abi, "event", abi[i].name) = {i}
    BY <2>1, EventNamed
  <2> QED BY <1>1, <2>2
<1>3. Earliest({i}) = i
  <2>1. i \in Nat
    BY <1>1
  <2> QED BY <2>1 DEF Earliest
<1>4. abi[Earliest(Named(abi, "event", event.type))] = e
  BY <1>1, <1>2, <1>3
<1>5. Named(abi, "event", event.type) # {}
  BY <1>2
<1>6. CASE e.inputs = <<>>
  <2>1. PICK types : types = e.inputs
    OBVIOUS
  <2>2. Examples(types) = Nil
    <3>1. DOMAIN types = 1..0
      BY <1>6, <2>1
    <3>2. Examples(types) = Prefix(Examples(types), 0)
      BY <3>1 DEF Examples, Prefix
    <3> QED BY <3>2, PrefixNone
  <2>3. DecodeEvent(abi, event).values = Nil
    BY <1>4, <1>6 DEF DecodeEvent, Nil
  <2> QED BY <2>1, <2>2, <2>3
<1>7. CASE e.inputs # <<>>
  <2>1. PICK read : read = DecodeOutput(e.inputs, event.data)
    OBVIOUS
  <2>2. DecodeEvent(abi, event).ok = read.ok /\ DecodeEvent(abi, event).values = read.values
    BY <1>4, <1>5, <1>7, <2>1 DEF DecodeEvent
  <2>3. e \in AbiElement
    BY <1>1
  <2>4. read.values = Examples(e.inputs)
    <3>1. Emitted(e).data = InOrder([k \in DOMAIN e.inputs |->
                              EncodeInput(e.inputs[k], Examples(e.inputs)[k])]).items
      BY DEF Emitted
    <3> QED BY <2>1, <2>2, <2>3, <3>1, ElementDeclares, ExamplesReadBack
  <2> QED BY <2>2, <2>4
<1> QED BY <1>6, <1>7

-----------------------------------------------------------------------------
(* Calls that are simulated, and their results                             *)

Simulation == {"address", "calling", "gas", "ready"}

\* What a call is about, by its stage.
Follows(u, r) ==
  /\ r.stage \in Simulation => r.fn \in u.fns /\ Opens(u.abi)
  /\ r.stage = "address" => Meant(u, r)
  /\ r.stage = "calling" => Encoded(u, r)
  /\ r.stage = "gas" => Returned(u, r) /\ Emits(u, r)
  /\ r.stage = "ready" => Returned(u, r) /\ Understood(u, r)

Faithful ==
  /\ contract.open = "yes" => Opens(use.abi)
  /\ \A c \in Caller : Follows(use, call[c])

ReadInv == GasInv /\ Faithful

\* The calls but for those that come to a stage of their simulation.
Calm ==
  /\ use' = use /\ contract'.open = contract.open
  /\ \A c \in Caller :
       \/ call'[c].stage \notin Simulation
       \/ /\ call'[c].stage = call[c].stage /\ call'[c].fn = call[c].fn
          /\ call'[c].args = call[c].args /\ call'[c].sim = call[c].sim
          /\ call'[c].events = call[c].events

LEMMA CalmKeeps ==
  ASSUME Faithful, Calm
  PROVE  Faithful'
<1>1. /\ use' = use
      /\ contract'.open = "yes" => Opens(use.abi)
  BY DEF Faithful, Calm
<1>2. ASSUME NEW c \in Caller
      PROVE  Follows(use', call'[c])
  <2>1. CASE call'[c].stage \notin Simulation
    BY <2>1 DEF Follows, Simulation
  <2>2. CASE /\ call'[c].stage = call[c].stage /\ call'[c].fn = call[c].fn
             /\ call'[c].args = call[c].args /\ call'[c].sim = call[c].sim
             /\ call'[c].events = call[c].events
    <3>1. Follows(use, call[c])
      BY DEF Faithful
    <3>2. Called(use', call'[c]) = Called(use, call[c])
      BY <1>1, <2>2 DEF Called
    <3> QED
      BY <1>1, <2>2, <3>1, <3>2 DEF Follows, Meant, Encoded, Returned, Emits, Understood
  <2> QED BY <2>1, <2>2 DEF Calm
<1> QED BY <1>1, <1>2 DEF Faithful

LEMMA ContractFields ==
  ASSUME Estimating
  PROVE  DOMAIN contract = {"open", "waiting", "known", "gas"}
  BY DEF Estimating, ContractKeeps

LEMMA CallStepCalm ==
  ASSUME ReadInv, NEW c \in Caller,
         \/ CoinsKnown(c) \/ MoreCoinsKnown(c) \/ ChallengeKnown(c)
         \/ Sign(c) \/ BroadcastReturns(c)
  PROVE  Calm
<1>1. use' = use /\ contract' = contract
  BY DEF CoinsKnown, MoreCoinsKnown, ChallengeKnown, Sign, BroadcastReturns
<1> QED
  BY <1>1, CoinsKnownGoes, MoreCoinsKnownGoes, ChallengeKnownGoes, SignGoes,
     BroadcastReturnsGoes DEF ReadInv, GasInv, Goes, Others, Calm, Simulation

LEMMA StartReads ==
  ASSUME ReadInv, NEW c \in Caller, NEW fn \in use.fns,
         NEW args \in Arguments(Definition(use.abi, fn)), Start(c, fn, args)
  PROVE  Faithful'
<1>1. PICK f : f = Definition(use.abi, fn)
  OBVIOUS
<1>2. /\ use' = use /\ contract' = [contract EXCEPT !.waiting = Append(@, c)]
      /\ contract.open = "yes"
  BY DEF Start
<1>3. contract'.open = contract.open
  BY <1>2, ContractFields DEF ReadInv, GasInv
<1>4. Others(c) /\ call'[c].stage = "address"
  BY StartGoes DEF ReadInv, GasInv
<1>5. call'[c].fn = fn /\ call'[c].args = args
  BY DEF Start, ReadInv, GasInv, Shape, NoCall
<1>6. f \in AbiElement
  BY <1>1, DefinitionThere, AbiAssumption DEF ReadInv, GasInv, Estimating
<1>7. EncodeFunctionData(f, args).ok => args = Examples(f.inputs)
  BY <1>1, <1>6, WrongArgumentsThrow
<1>8. Follows(use', call'[c])
  BY <1>1, <1>2, <1>4, <1>5, <1>7 DEF Follows, Meant, Called, ReadInv, Faithful
<1>9. \A d \in Caller \ {c} : Follows(use', call'[d])
  BY <1>2, <1>4 DEF Others, ReadInv, Faithful
<1> QED
  BY <1>2, <1>3, <1>8, <1>9 DEF Faithful, ReadInv

LEMMA AddressKnownReads ==
  ASSUME ReadInv, NEW c \in Caller, AddressKnown(c)
  PROVE  Faithful'
<1>1. PICK known : contract' = [contract EXCEPT !.waiting = Tail(@), !.known = known]
  BY DEF AddressKnown
<1>2. use' = use /\ contract'.open = contract.open
  BY <1>1, ContractFields DEF AddressKnown, ReadInv, GasInv
<1>3. Others(c) /\ call[c].stage = "address" /\ call'[c].stage \in {"failed", "calling"}
  BY AddressKnownGoes DEF ReadInv, GasInv, TakesSettings
<1>4. CASE call'[c].stage = "failed"
  <2>1. Calm
    BY <1>2, <1>3, <1>4 DEF Calm, Others, Simulation
  <2> QED BY <2>1, CalmKeeps DEF ReadInv
<1>5. CASE call'[c].stage = "calling"
  <2>1. call' # Failed(c) /\ call' # [Failed(c) EXCEPT ![c].took = settings]
    <3> DEFINE new == Failed(c)
    <3>1. /\ DOMAIN new = Caller /\ DOMAIN new[c] = Key /\ new[c].stage = "failed"
      BY FailedGoes DEF ReadInv, GasInv
    <3> HIDE DEF new
    <3>2. call' # new /\ call' # [new EXCEPT ![c].took = settings]
      BY <1>5, <3>1 DEF Key
    <3> QED BY <3>2 DEF new
  <2>2. PICK encoded, sim :
          /\ encoded = EncodeFunctionData(Function(c), call[c].args) /\ encoded.ok
          /\ sim = [calldata |-> encoded.items]
          /\ call' = [call EXCEPT ![c].stage = "calling", ![c].took = settings,
                                  ![c].seen = SeenByNode, ![c].sim = sim]
    BY <2>1 DEF AddressKnown, CallNode
  <2>3. /\ call'[c].sim = sim /\ call'[c].fn = call[c].fn /\ call'[c].args = call[c].args
    BY <2>2 DEF ReadInv, GasInv, Shape, Key
  <2>4. Follows(use, call[c])
    BY DEF ReadInv, Faithful
  <2>5. Called(use, call[c]) = Function(c)
    BY DEF Called, Function
  <2>6. call[c].args = Examples(Function(c).inputs)
    BY <1>3, <2>2, <2>4, <2>5 DEF Follows, Meant
  <2>7. encoded = Wrote(sim.calldata)
    <3>1. Function(c) \in AbiElement
      BY <1>3, <2>4, DefinitionThere, AbiAssumption
         DEF Follows, Simulation, Function, ReadInv, GasInv, Estimating
    <3>2. PICK items : encoded = Wrote(items)
      BY <2>2, <2>6, <3>1, EncodedExamples
    <3> QED BY <2>2, <3>2 DEF Wrote
  <2>8. Follows(use', call'[c])
    BY <1>2, <1>3, <1>5, <2>2, <2>3, <2>4, <2>5, <2>6, <2>7
       DEF Follows, Encoded, Called, Simulation
  <2>9. \A d \in Caller \ {c} : Follows(use', call'[d])
    BY <1>2, <1>3 DEF Others, ReadInv, Faithful
  <2> QED
    BY <1>2, <2>8, <2>9 DEF Faithful, ReadInv
<1> QED BY <1>3, <1>4, <1>5

LEMMA CallReturnsReads ==
  ASSUME ReadInv, NEW c \in Caller, CallReturns(c)
  PROVE  Faithful'
<1>1. call[c].stage = "calling" /\ use' = use
  BY DEF CallReturns
<1>2. CASE call' = Failed(c) /\ contract' = contract
  <2>1. Calm
    BY <1>1, <1>2, FailedGoes DEF ReadInv, GasInv, Calm, Simulation
  <2> QED BY <2>1, CalmKeeps DEF ReadInv
<1>3. ASSUME NEW output \in Outputs(Function(c)), NEW gas, NEW events \in Events,
             DecodeOutput(Function(c).outputs, output).ok,
             AwaitGas(c, Answered(CallSlot(c)),
               [call[c] EXCEPT !.args = <<>>, !.events = events,
                               !.sim = Simulated(c, output,
                                         DecodeOutput(Function(c).outputs, output).values,
                                         gas, gas \div 2)])
      PROVE  Faithful'
  <2>1. PICK rs : rs = Answered(CallSlot(c))
    OBVIOUS
  <2>2. PICK values : values = DecodeOutput(Function(c).outputs, output).values
    OBVIOUS
  <2>3. PICK sim : sim = Simulated(c, output, values, gas, gas \div 2)
    OBVIOUS
  <2>4. PICK r : r = [call[c] EXCEPT !.args = <<>>, !.events = events, !.sim = sim]
    OBVIOUS
  <2>5. AwaitGas(c, rs, r)
    BY <1>3, <2>1, <2>2, <2>3, <2>4
  <2>6. sim.values = values
    BY <2>3 DEF Simulated
  <2>7. DOMAIN r = Key /\ r.sim = sim /\ r.fn = call[c].fn /\ r.events = events
    BY <2>4 DEF ReadInv, GasInv, Shape, Key
  <2>8. \E promise : call' = [call EXCEPT ![c] = [r EXCEPT !.stage = "gas", !.wantedAt = now,
                                                         !.promise = promise]]
    BY <2>5 DEF AwaitGas
  <2>9. /\ call'[c].stage = "gas" /\ call'[c].sim = sim /\ call'[c].fn = call[c].fn
        /\ call'[c].events = events /\ Others(c)
    BY <2>7, <2>8 DEF ReadInv, GasInv, Shape, Key, Others
  <2>10. contract'.open = contract.open
    BY <2>5, ContractFields DEF AwaitGas, ReadInv, GasInv
  <2>11. Follows(use, call[c])
    BY DEF ReadInv, Faithful
  <2>12. call[c].fn \in use.fns /\ Opens(use.abi)
    BY <1>1, <2>11 DEF Follows, Simulation
  <2>13. values = Examples(Function(c).outputs)
    <3>1. Function(c) \in AbiElement
      BY <2>12, DefinitionThere, AbiAssumption DEF Function, ReadInv, GasInv, Estimating
    <3>2. PICK types : types = Function(c).outputs
      OBVIOUS
    <3>3. Declared(types)
      BY <3>1, <3>2, ElementDeclares
    <3>4. output = Nil \/ output = InOrder([i \in DOMAIN types |->
                                         EncodeInput(types[i], Examples(types)[i])]).items
      BY <3>2 DEF Outputs, Nil
    <3> QED BY <1>3, <2>2, <3>2, <3>3, <3>4, ExamplesReadBack
  <2>14. Returned(use', call'[c])
    BY <1>1, <2>6, <2>9, <2>13 DEF Returned, Called, Function
  <2>15. Emits(use', call'[c])
    BY <1>1, <2>9, <2>12, EventsEmit
  <2>16. Follows(use', call'[c])
    BY <1>1, <2>9, <2>12, <2>14, <2>15 DEF Follows
  <2>17. \A d \in Caller \ {c} : Follows(use', call'[d])
    BY <1>1, <2>9 DEF Others, ReadInv, Faithful
  <2> QED
    BY <1>1, <2>10, <2>16, <2>17 DEF Faithful, ReadInv
<1> QED
  BY <1>2, <1>3 DEF CallReturns

LEMMA GasKnownReads ==
  ASSUME ReadInv, NEW c \in Caller, GasKnown(c)
  PROVE  Faithful'
<1>1. call[c].stage = "gas" /\ use' = use /\ contract' = contract
  BY DEF GasKnown
<1>2. CASE call' = Failed(c)
  <2>1. Calm
    BY <1>1, <1>2, FailedGoes DEF ReadInv, GasInv, Calm, Simulation
  <2> QED BY <2>1, CalmKeeps DEF ReadInv
<1>3. CASE call' # Failed(c)
  <2>1. PICK decoded, asked, satGas, satRefunded :
          /\ decoded = DecodeEvents(use.abi, call[c].events)
          /\ \A i \in DOMAIN decoded : decoded[i].ok
          /\ call' = [call EXCEPT
                ![c].stage = "ready", ![c].gasAt = asked,
                ![c].events = decoded, ![c].sim.fees = <<Fees>>,
                ![c].sim.satGas = satGas, ![c].sim.satRefunded = satRefunded]
    <3>1. PICK decoded : decoded = DecodeEvents(use.abi, call[c].events)
      OBVIOUS
    <3>2. PICK asked : asked = req[GasSlot(call[c].promise)].value
      OBVIOUS
    <3>3. PICK satGas : satGas = Estimate(Zero(call[c].sim.gas), GasPerSat[asked])
      OBVIOUS
    <3>4. PICK satRefunded : satRefunded = Estimate(Zero(call[c].sim.refunded), GasPerSat[asked])
      OBVIOUS
    <3>5. /\ \A i \in DOMAIN decoded : decoded[i].ok
          /\ call' = [call EXCEPT
                ![c].stage = "ready", ![c].gasAt = asked,
                ![c].events = decoded, ![c].sim.fees = <<Fees>>,
                ![c].sim.satGas = satGas, ![c].sim.satRefunded = satRefunded]
      BY <1>3, <3>1, <3>2, <3>3, <3>4 DEF GasKnown
    <3> QED BY <3>1, <3>5
  <2>2. DOMAIN call[c].sim = SimKey
    BY <1>1 DEF ReadInv, GasInv, Estimating, AwaitsGas
  <2>3. /\ call'[c].stage = "ready" /\ call'[c].fn = call[c].fn /\ call'[c].events = decoded
        /\ call'[c].sim.values = call[c].sim.values
        /\ Others(c)
    BY <2>1, <2>2 DEF ReadInv, GasInv, Shape, Key, SimKey, Others
  <2>4. /\ call[c].fn \in use.fns /\ Opens(use.abi)
        /\ Returned(use, call[c]) /\ Emits(use, call[c])
    BY <1>1 DEF ReadInv, Faithful, Follows, Simulation
  <2>5. Returned(use', call'[c])
    BY <1>1, <2>3, <2>4 DEF Returned, Called
  <2>6. ASSUME NEW i \in DOMAIN decoded, NEW e \in EventsOf(use.abi), e.name = decoded[i].type
        PROVE  decoded[i].values = Examples(e.inputs)
    <3>1. PICK event : event = call[c].events[i]
      OBVIOUS
    <3>2. i \in DOMAIN call[c].events /\ decoded[i] = DecodeEvent(use.abi, event)
      BY <2>1, <3>1 DEF DecodeEvents
    <3>3. DecodeEvent(use.abi, event).ok
      BY <2>1, <3>2
    <3>4. DecodeEvent(use.abi, event).type = event.type
      BY DEF DecodeEvent
    <3>5. event.data \in {Nil, Emitted(e).data}
      BY <2>4, <2>6, <3>1, <3>2, <3>4 DEF Emits
    <3>6. use.abi \in Seq(AbiElement)
      BY AbiAssumption DEF ReadInv, GasInv, Estimating
    <3> QED BY <2>4, <2>6, <3>2, <3>3, <3>4, <3>5, <3>6, EventDecoded
  <2>7. Understood(use', call'[c])
    BY <1>1, <2>3, <2>6 DEF Understood
  <2>8. Follows(use', call'[c])
    BY <1>1, <2>3, <2>4, <2>5, <2>7 DEF Follows
  <2>9. \A d \in Caller \ {c} : Follows(use', call'[d])
    BY <1>1, <2>3 DEF Others, ReadInv, Faithful
  <2> QED
    BY <1>1, <2>8, <2>9 DEF Faithful, ReadInv
<1> QED BY <1>2, <1>3

LEMMA ApplicationStepReads ==
  ASSUME ReadInv, ApplicationStep
  PROVE  Faithful'
<1>1. CASE Open
  <2>1. PICK yes : /\ contract' = [contract EXCEPT !.open = yes]
                   /\ yes = "yes" => Opens(use.abi)
                   /\ use' = use /\ call' = call
    BY <1>1 DEF Open
  <2>2. contract'.open = yes
    BY <2>1, ContractFields DEF ReadInv, GasInv
  <2> QED
    BY <2>1, <2>2 DEF ReadInv, Faithful
<1>2. ASSUME NEW x \in Setting, Set(x)
      PROVE  Faithful'
  <2>1. call' = Disturbed /\ use' = use /\ contract' = contract
    BY <1>2 DEF Set
  <2>2. Calm
    BY <2>1 DEF Disturbed, ReadInv, GasInv, Shape, Key, Calm
  <2> QED BY <2>2, CalmKeeps DEF ReadInv
<1>3. CASE \E c \in Caller, fn \in use.fns : \E args \in Arguments(Definition(use.abi, fn)) :
             Start(c, fn, args)
  BY <1>3, StartReads
<1>4. ASSUME NEW c \in Caller, (\E p : Send(c, p)) \/ Export(c)
      PROVE  Faithful'
  <2>1. Goes(c, "ready", {"failed", "coins"})
    BY <1>4, SendGoes, ExportGoes DEF ReadInv, GasInv
  <2>2. use' = use /\ contract' = contract
    BY <1>4 DEF Send, Export
  <2>3. Calm
    BY <2>1, <2>2 DEF Goes, Others, Calm, Simulation
  <2> QED BY <2>3, CalmKeeps DEF ReadInv
<1>5. CASE UNCHANGED callVars
  <2>1. Calm
    BY <1>5 DEF callVars, Calm
  <2> QED BY <2>1, CalmKeeps DEF ReadInv
<1> QED
  BY <1>1, <1>2, <1>3, <1>4, <1>5 DEF ApplicationStep

LEMMA ReadStep ==
  ASSUME ReadInv, [Next]_vars
  PROVE  ReadInv'
<1>1. GasInv'
  BY GasStep DEF ReadInv
<1>2. CASE ApplicationStep
  BY <1>1, <1>2, ApplicationStepReads DEF ReadInv
<1>3. ASSUME NEW c \in Caller, CallStep(c)
      PROVE  Faithful'
  BY <1>3, AddressKnownReads, CallReturnsReads, GasKnownReads, CallStepCalm, CalmKeeps
     DEF CallStep, ReadInv
<1>4. ASSUME UNCHANGED callVars
      PROVE  Faithful'
  <2>1. Calm
    BY <1>4 DEF callVars, Calm
  <2> QED BY <2>1, CalmKeeps DEF ReadInv
<1>5. CASE UNCHANGED vars
  BY <1>1, <1>4, <1>5 DEF vars, ReadInv
<1> QED
  BY <1>1, <1>2, <1>3, <1>4, <1>5 DEF Next, RpcStep, ReadInv

LEMMA ReadInit == Init => ReadInv
<1> SUFFICES ASSUME Init PROVE ReadInv
  OBVIOUS
<1>1. contract.open = "" /\ \A c \in Caller : call[c].stage = "idle"
  BY AtFirst DEF Init
<1> QED
  BY <1>1, GasInit DEF ReadInv, Faithful, Follows, Simulation

\* A call succeeds only with what the contract returned: the values of its outputs and of the
\* events its ABI knows, of whatever types they are.  (Contract.decodeOutput(), decodeEvents())
THEOREM ResultsAreUnderstood == Spec => []ResultsUnderstood
<1>1. ReadInv => ResultsUnderstood
  <2> SUFFICES ASSUME ReadInv, NEW c \in Caller, call[c].stage = "ready"
               PROVE  /\ call[c].sim.values = Examples(Function(c).outputs)
                      /\ \A i \in DOMAIN call[c].events, e \in Range(use.abi) :
                           e.type = "event" /\ e.name = call[c].events[i].type =>
                             call[c].events[i].values = Examples(e.inputs)
    BY DEF ResultsUnderstood
  <2>1. Returned(use, call[c]) /\ Understood(use, call[c])
    BY DEF ReadInv, Faithful, Follows
  <2> QED
    BY <2>1 DEF Returned, Understood, Called, Function, EventsOf
<1> QED
  BY <1>1, ReadInit, ReadStep, PTL DEF Spec

\* The first element of a function's name is its definition.
LEMMA FirstNamed ==
  ASSUME NamesApart, use \in Uses, NEW fn \in use.fns, NEW args
  PROVE  EncodeCalldata(use.abi, fn, args) = EncodeFunctionData(Definition(use.abi, fn), args)
<1>1. {i \in DOMAIN use.abi : use.abi[i].name = fn} = Named(use.abi, "function", fn)
  BY DEF NamesApart, Named
<1>2. Named(use.abi, "function", fn) # {}
  <2>1. fn \in Methods(use.abi)
    BY AbiAssumption
  <2> QED BY <2>1 DEF Methods, Named
<1> QED
  BY <1>1, <1>2 DEF EncodeCalldata, Definition

\* What the node is sent is what encodeCalldata() makes of the same name and arguments, and
\* reads as those arguments, whatever types they are of; provided that nothing but a function
\* has a function's name.  (Contract.encodeFunctionData(), encodeCalldata(), encodeInput())
THEOREM CalldataIsUnderstood ==
  ASSUME NamesApart
  PROVE  Spec => []CalldataUnderstood
<1>1. ReadInv => CalldataUnderstood
  <2> SUFFICES ASSUME ReadInv, NEW c \in Caller, call[c].stage = "calling",
                      NEW data, data = call[c].sim.calldata,
                      NEW read, read = DecodeOutput(Function(c).inputs, Tail(data))
               PROVE  /\ EncodeCalldata(use.abi, call[c].fn, call[c].args) = Wrote(data)
                      /\ read.ok /\ read.rest = <<>> /\ read.values = call[c].args
    BY DEF CalldataUnderstood
  <2>1. PICK f : f = Function(c)
    OBVIOUS
  <2>2. call[c].fn \in use.fns /\ Encoded(use, call[c])
    BY DEF ReadInv, Faithful, Follows, Simulation
  <2>3. use \in Uses
    BY DEF ReadInv, GasInv, Estimating
  <2>4. /\ call[c].args = Examples(f.inputs)
        /\ EncodeFunctionData(f, call[c].args) = Wrote(data)
    BY <2>1, <2>2 DEF Encoded, Called, Function
  <2>5. EncodeCalldata(use.abi, call[c].fn, call[c].args) = Wrote(data)
    BY <2>1, <2>2, <2>3, <2>4, FirstNamed DEF Function
  <2>6. f \in AbiElement
    BY <2>1, <2>2, <2>3, DefinitionThere, AbiAssumption DEF Function
  <2>7. PICK item, items :
          /\ EncodeFunctionData(f, Examples(f.inputs)) = Wrote(Cat(<<item>>, items))
          /\ Sized(items) /\ DecodeOutput(f.inputs, items) = At(Nil, Examples(f.inputs))
    BY <2>6, EncodedExamples
  <2>8. data = Cat(<<item>>, items)
    BY <2>4, <2>7 DEF Wrote
  <2>9. Tail(data) = items
    BY <2>7, <2>8, ListFirst DEF Sized
  <2>10. read = At(Nil, call[c].args)
    BY <2>1, <2>4, <2>7, <2>9
  <2> QED
    BY <2>5, <2>10 DEF At, Nil
<1> QED
  BY <1>1, ReadInit, ReadStep, PTL DEF Spec

-----------------------------------------------------------------------------
(* Sums and coins are folded                                               *)

Plus(env, a, b) == a + b
KeepUnless(extras, kept, u) ==
  IF \E i \in DOMAIN extras : extras[i].id = u.id THEN kept ELSE Append(kept, u)

SumFold == INSTANCE LeftFolds WITH Op <- Plus
KeepFold == INSTANCE LeftFolds WITH Op <- KeepUnless

LEMMA TotalFolds ==
  ASSUME NEW numbers
  PROVE  Total(numbers) = SumFold!Folded(0, 0, numbers)
  BY DEF SumFold!Folded, SumFold!FoldLeft, SumFold!MapThenFoldSet, SumFold!Max, FoldLeft,
         MapThenFoldSet, Max, Plus, Total

LEMMA WithoutFolds ==
  ASSUME NEW coins, NEW extras
  PROVE  Without(coins, extras) = KeepFold!Folded(extras, Nil, coins)
  BY DEF KeepFold!Folded, KeepFold!FoldLeft, KeepFold!MapThenFoldSet, KeepFold!Max, FoldLeft,
         MapThenFoldSet, Max, KeepUnless, Without, Nil

-----------------------------------------------------------------------------
(* Fields                                                                  *)

CoinKey == {"id", "value", "kind", "csv", "script", "raw"}

LEMMA CoinFields ==
  ASSUME NEW u
  PROVE  u \in Coin <=>
           /\ u = [f \in CoinKey |-> u[f]]
           /\ u.id \in STRING /\ u.value \in Nat /\ u.kind \in DOMAIN INPUT_WU
           /\ u.csv \in BOOLEAN /\ u.script \in Script /\ u.raw \in BOOLEAN
<1>1. PICK Kinds : Kinds = DOMAIN INPUT_WU
  OBVIOUS
<1>2. Coin = [id : STRING, value : Nat, kind : Kinds, csv : BOOLEAN, script : Script,
              raw : BOOLEAN]
  BY <1>1 DEF Coin
<1> QED BY <1>1, <1>2 DEF CoinKey

LEMMA OutputFields ==
  ASSUME NEW o \in Output
  PROVE  /\ o.value \in Nat /\ o.size \in Nat
         /\ o.kind # "script" => o.kind \in DOMAIN OUTPUT_BYTES
<1>1. PICK Kinds : Kinds = DOMAIN OUTPUT_BYTES
  OBVIOUS
<1>2. Output = [value : Nat, kind : Kinds \cup {"script"}, size : Nat]
  BY <1>1 DEF Output
<1> QED BY <1>1, <1>2

LEMMA ParameterFields ==
  ASSUME NEW p \in Parameters
  PROVE  /\ p.coins \in Seq(Coin) /\ p.extraInputs \in Seq(Coin) /\ p.outs \in Seq(Output)
         /\ p.priorityFee \in Nat /\ p.minGas \in Nat /\ p.spend \in Nat
         /\ p.feeRate \in Nat
  BY DEF Parameters

LEMMA WalletFields ==
  ASSUME NEW wallet \in Wallet
  PROVE  wallet.main \in Seq(Coin) /\ wallet.csv \in Seq(Coin)
  BY DEF Wallet

LEMMA CoinValues ==
  /\ \A u \in Coin : u.value \in Nat
  /\ \A o \in Output : o.value \in Nat
  BY CoinFields, OutputFields

-----------------------------------------------------------------------------
(* Sums                                                                    *)

LEMMA TotalNatural ==
  ASSUME NEW n \in Nat, NEW numbers, DOMAIN numbers = 1..n, \A k \in 1..n : numbers[k] \in Nat
  PROVE  Total(numbers) \in Nat
<1>1. SumFold!Stays(Nat, n, 0, numbers)
  BY DEF SumFold!Stays, Plus
<1>2. SumFold!Folded(0, 0, numbers) \in Nat
  <2>1. PICK zero \in Nat : zero = 0
    OBVIOUS
  <2>2. SumFold!Folded(0, zero, numbers) \in Nat
    BY <1>1, SumFold!FoldStays
  <2> QED BY <2>1, <2>2
<1> QED BY <1>2, TotalFolds

LEMMA ValueNatural ==
  ASSUME NEW S, NEW coins \in Seq(S), \A u \in S : u.value \in Nat
  PROVE  Value(coins) \in Nat
<1>1. PICK n \in Nat : DOMAIN coins = 1..n
  OBVIOUS
<1>2. PICK values : values = [i \in DOMAIN coins |-> coins[i].value]
  OBVIOUS
<1>3. DOMAIN values = 1..n /\ \A k \in 1..n : values[k] \in Nat
  BY <1>1, <1>2
<1> QED BY <1>2, <1>3, TotalNatural DEF Value

LEMMA SizesNatural ==
  ASSUME NEW items, Sized(items)
  PROVE  CalldataLength(items) \in Nat
<1>1. PICK S : items \in Seq(S)
  BY DEF Sized, List
<1>2. PICK n \in Nat : DOMAIN items = 1..n
  BY <1>1
<1>3. PICK sizes : sizes = [i \in DOMAIN items |-> items[i].value.size]
  OBVIOUS
<1>4. DOMAIN sizes = 1..n /\ \A k \in 1..n : sizes[k] \in Nat
  BY <1>2, <1>3 DEF Sized
<1> QED BY <1>3, <1>4, TotalNatural DEF CalldataLength

LEMMA CeilNatural ==
  ASSUME NEW a \in Nat, NEW b \in Nat \ {0}
  PROVE  Ceil(a, b) \in Nat
<1>1. PICK v \in Nat : v = a + b - 1
  OBVIOUS
<1> QED BY <1>1, QuotientBelow DEF Ceil

LEMMA VarIntLenNatural == \A n : VarIntLen(n) \in Nat
  BY DEF VarIntLen

LEMMA WeightsNatural ==
  /\ \A kind \in DOMAIN INPUT_WU : INPUT_WU[kind] \in Nat
  /\ \A kind \in DOMAIN OUTPUT_BYTES : OUTPUT_BYTES[kind] \in Nat
<1>1. \A kind \in DOMAIN INPUT_WU : INPUT_WU[kind] \in Nat
  BY DEF INPUT_WU
<1>2. \A kind \in DOMAIN OUTPUT_BYTES : OUTPUT_BYTES[kind] \in Nat
  BY DEF OUTPUT_BYTES
<1> QED BY <1>1, <1>2

LEMMA InputsNatural ==
  ASSUME NEW kinds \in Seq(DOMAIN INPUT_WU)
  PROVE  Total([i \in DOMAIN kinds |-> INPUT_WU[kinds[i]]]) \in Nat
<1>1. PICK n \in Nat : DOMAIN kinds = 1..n
  OBVIOUS
<1>2. PICK weights : weights = [i \in DOMAIN kinds |-> INPUT_WU[kinds[i]]]
  OBVIOUS
<1>3. DOMAIN weights = 1..n /\ \A k \in 1..n : weights[k] \in Nat
  BY <1>1, <1>2, WeightsNatural
<1> QED BY <1>2, <1>3, TotalNatural

LEMMA OutputsNatural ==
  ASSUME NEW outs \in Seq(Output)
  PROVE  Total([i \in DOMAIN outs |-> 4 * OutputBytes(outs[i])]) \in Nat
<1>1. PICK n \in Nat : DOMAIN outs = 1..n
  OBVIOUS
<1>2. PICK weights : weights = [i \in DOMAIN outs |-> 4 * OutputBytes(outs[i])]
  OBVIOUS
<1>3. ASSUME NEW o \in Output
      PROVE  OutputBytes(o) \in Nat
  <2>1. VarIntLen(o.size) \in Nat /\ o.size \in Nat
    BY VarIntLenNatural, OutputFields
  <2>2. o.kind # "script" => OUTPUT_BYTES[o.kind] \in Nat
    BY WeightsNatural, OutputFields
  <2> QED BY <2>1, <2>2 DEF OutputBytes
<1>4. ASSUME NEW k \in 1..n
      PROVE  weights[k] \in Nat
  <2>1. PICK bytes \in Nat : bytes = OutputBytes(outs[k])
    BY <1>1, <1>3
  <2>2. weights[k] = 4 * bytes
    BY <1>1, <1>2, <2>1
  <2> QED BY <2>2
<1> QED BY <1>1, <1>2, <1>4, TotalNatural

LEMMA MiningCostNatural ==
  ASSUME NEW sim, Sized(sim.calldata), NEW p \in Parameters, NEW coins \in Seq(Coin)
  PROVE  MiningCost(sim, p, coins) \in Nat
<1>1. PICK length \in Nat : length = CalldataLength(sim.calldata) + 200
  BY SizesNatural
<1>2. PICK rate \in Nat : rate = DefaultRate(p)
  BY ParameterFields DEF DefaultRate
<1>3. p.outs \in Seq(Output)
  BY ParameterFields
<1>4. PICK kinds : kinds = IF coins = <<>> THEN <<"P2TR", "P2TR", "P2TR">>
                           ELSE [i \in DOMAIN coins |-> coins[i].kind]
  OBVIOUS
<1>5. kinds \in Seq(DOMAIN INPUT_WU)
  <2>1. "P2TR" \in DOMAIN INPUT_WU
    BY DEF INPUT_WU
  <2>2. CASE coins = <<>>
    BY <1>4, <2>1, <2>2
  <2>3. CASE coins # <<>>
    <3>1. PICK n \in Nat : DOMAIN coins = 1..n
      OBVIOUS
    <3>2. kinds = [i \in 1..n |-> coins[i].kind]
      BY <1>4, <2>3, <3>1
    <3>3. \A i \in 1..n : coins[i].kind \in DOMAIN INPUT_WU
      <4>1. \A i \in 1..n : coins[i] \in Coin
        BY <3>1
      <4> QED BY <4>1, CoinFields
    <3> HIDE DEF INPUT_WU
    <3> QED BY <3>2, <3>3
  <2> QED BY <2>2, <2>3
<1>6. PICK marker \in Nat : marker = IF coins = <<>> \/ UsesWitness(coins) THEN 8 ELSE 0
  OBVIOUS
<1>7. PICK counts \in Nat : counts = 4 * (VarIntLen(Len(kinds)) + VarIntLen(Len(p.outs)))
  BY VarIntLenNatural
<1>8. PICK inputs \in Nat : inputs = Total([i \in DOMAIN kinds |-> INPUT_WU[kinds[i]]])
  BY <1>5, InputsNatural
<1>9. PICK outputs \in Nat :
        outputs = Total([i \in DOMAIN p.outs |-> 4 * OutputBytes(p.outs[i])])
  BY <1>3, OutputsNatural
<1>10. PICK witness \in Nat : witness = 1 + 3 * 33 + VarIntLen(length) + length + 34
  BY VarIntLenNatural
<1>11. PICK vbytes \in Nat : vbytes = Ceil(32 + marker + counts + inputs + outputs + witness, 4)
  BY CeilNatural
<1>12. EstimateVBytes(coins, p.outs, length) = vbytes
  BY <1>4, <1>6, <1>7, <1>8, <1>9, <1>10, <1>11 DEF EstimateVBytes
<1>13. PICK cost \in Nat : cost = vbytes * rate
  OBVIOUS
<1>14. MiningCost(sim, p, coins) = Ceil(cost, 10)
  BY <1>1, <1>2, <1>12, <1>13 DEF MiningCost, EstimateMiningCost
<1> QED BY <1>14, CeilNatural

-----------------------------------------------------------------------------
(* Coins                                                                   *)

LEMMA WithoutTyped ==
  ASSUME NEW coins \in Seq(Coin), NEW extras
  PROVE  Without(coins, extras) \in Seq(Coin)
<1>1. PICK n \in Nat : DOMAIN coins = 1..n
  OBVIOUS
<1>2. KeepFold!Stays(Seq(Coin), n, extras, coins)
  <2>1. ASSUME NEW k \in 1..n, NEW kept \in Seq(Coin)
        PROVE  KeepUnless(extras, kept, coins[k]) \in Seq(Coin)
    <3>1. coins[k] \in Coin
      BY <1>1
    <3>2. Append(kept, coins[k]) \in Seq(Coin)
      BY <3>1
    <3> QED BY <3>2 DEF KeepUnless
  <2> QED BY <2>1 DEF KeepFold!Stays
<1>3. Nil \in Seq(Coin)
  BY DEF Nil
<1>4. KeepFold!Folded(extras, Nil, coins) \in Seq(Coin)
  <2>1. PICK S : S = Seq(Coin)
    OBVIOUS
  <2>2. PICK none \in S : none = Nil
    BY <1>3, <2>1
  <2>3. KeepFold!Folded(extras, none, coins) \in S
    BY <1>1, <1>2, <2>1, KeepFold!FoldStays
  <2> QED BY <2>1, <2>2, <2>3
<1> QED BY <1>4, WithoutFolds

LEMMA CoinsForTyped ==
  ASSUME NEW wallet \in Wallet, NEW amount, NEW csv
  PROVE  CoinsFor(wallet, amount, csv) \in Seq(Coin)
<1>1. PICK offered \in Seq(Coin) : offered = wallet.main \o (IF csv THEN wallet.csv ELSE <<>>)
  <2>1. PICK main, more : main \in Seq(Coin) /\ more \in Seq(Coin)
                          /\ main = wallet.main /\ more = IF csv THEN wallet.csv ELSE <<>>
    <3>1. (IF csv THEN wallet.csv ELSE <<>>) \in Seq(Coin)
      <4>1. CASE csv
        BY <4>1, WalletFields
      <4>2. CASE ~csv
        BY <4>2
      <4> QED BY <4>1, <4>2
    <3> QED BY <3>1, WalletFields
  <2>2. main \o more \in Seq(Coin)
    BY <2>1
  <2> QED BY <2>1, <2>2
<1>2. PICK enough : enough = {n \in 0..Len(offered) : Value(SubSeq(offered, 1, n)) >= amount}
  OBVIOUS
<1>3. CASE enough = {}
  <2>1. CoinsFor(wallet, amount, csv) = <<>>
    BY <1>1, <1>2, <1>3 DEF CoinsFor
  <2> QED BY <2>1
<1>4. CASE enough # {}
  <2>1. \E x \in enough : \A y \in enough : x <= y
    <3>1. enough \subseteq Nat
      BY <1>2
    <3> QED BY <1>4, <3>1, JoinFold!LeastNatural
  <2>2. Earliest(enough) \in 0..Len(offered)
    BY <1>2, <2>1 DEF Earliest
  <2>3. CoinsFor(wallet, amount, csv) = SubSeq(offered, 1, Earliest(enough))
    BY <1>1, <1>2, <1>4 DEF CoinsFor
  <2> QED BY <2>2, <2>3
<1> QED BY <1>3, <1>4

LEMMA RescriptedTyped ==
  ASSUME NEW u \in Coin, NEW script \in Script
  PROVE  [u EXCEPT !.script = script] \in Coin
<1>1. PICK v : v = [u EXCEPT !.script = script]
  OBVIOUS
<1>2. /\ u = [f \in CoinKey |-> u[f]] /\ "script" \in CoinKey
      /\ u.id \in STRING /\ u.value \in Nat /\ u.kind \in DOMAIN INPUT_WU
      /\ u.csv \in BOOLEAN /\ u.raw \in BOOLEAN
  BY CoinFields DEF CoinKey
<1>3. DOMAIN v = CoinKey /\ v = [f \in CoinKey |-> v[f]]
  BY <1>1, <1>2
<1>4. /\ v.id = u.id /\ v.value = u.value /\ v.kind = u.kind /\ v.csv = u.csv
      /\ v.raw = u.raw /\ v.script = script
  BY <1>1, <1>2 DEF CoinKey
<1>5. v \in Coin
  BY <1>2, <1>3, <1>4, CoinFields
<1> QED BY <1>1, <1>5

LEMMA FetchedTyped ==
  ASSUME NEW sim, NEW p, NEW wallet \in Wallet, NEW amount
  PROVE  FetchUTXOs(sim, p, wallet, amount) \in Seq(Coin)
<1>1. PICK found \in Seq(Coin) :
        found = CoinsFor(wallet, amount, sim.csv /\ ~p.p2wda /\ p.useCsv)
  BY CoinsForTyped
<1>2. PICK kept \in Seq(Coin) : kept = Without(found, p.extraInputs)
  BY WithoutTyped
<1>3. FetchUTXOs(sim, p, wallet, amount) = [i \in DOMAIN kept |-> Unlocked(sim, p, kept[i])]
  BY <1>1, <1>2 DEF FetchUTXOs
<1>4. ASSUME NEW u \in Coin
      PROVE  Unlocked(sim, p, u) \in Coin
  <2>1. "p2wda" \in Script /\ "csv" \in Script
    BY DEF Script
  <2> QED BY <2>1, RescriptedTyped DEF Unlocked
<1>5. PICK n \in Nat : DOMAIN kept = 1..n
  OBVIOUS
<1>6. \A i \in 1..n : Unlocked(sim, p, kept[i]) \in Coin
  BY <1>4, <1>5
<1>7. [i \in 1..n |-> Unlocked(sim, p, kept[i])] \in Seq(Coin)
  BY <1>6
<1> QED BY <1>3, <1>5, <1>7

\* Coins that are enough pay for all there is to pay.
LEMMA EnoughCovers ==
  ASSUME NEW sim, sim.satGas \in Nat, Sized(sim.calldata), NEW p \in Parameters,
         NEW coins \in Seq(Coin), NEW addition \in Nat, Enough(sim, p, addition, coins)
  PROVE  Value(coins) + Value(p.extraInputs) >=
           GasFee(sim, p) + p.priorityFee + addition + Value(p.outs) + MiningCost(sim, p, coins)
<1>1. PICK mining \in Nat : mining = MiningCost(sim, p, coins)
  BY MiningCostNatural
<1>2. PICK held \in Nat : held = Value(coins)
  BY ValueNatural, CoinValues
<1>3. PICK extra \in Nat : extra = Value(p.extraInputs)
  BY ValueNatural, CoinValues, ParameterFields
<1>4. PICK outs \in Nat : outs = Value(p.outs)
  BY ValueNatural, CoinValues, ParameterFields
<1>5. PICK fee \in Nat : fee = GasFee(sim, p)
  BY ParameterFields DEF GasFee, Most
<1>6. p.priorityFee \in Nat /\ p.spend \in Nat
  BY ParameterFields
<1>7. PICK due \in Nat : due = fee + p.priorityFee + addition + outs + mining
  BY <1>6
<1>8. PICK gross \in Nat : gross = Most(due, p.spend) /\ gross >= due
  BY <1>6 DEF Most
<1>9. held >= IF gross > extra THEN gross - extra ELSE 1
  BY <1>1, <1>2, <1>3, <1>4, <1>5, <1>7, <1>8 DEF Enough, Wanted, ComputeRequiredAmount
<1>10. held + extra >= due
  BY <1>8, <1>9
<1> QED BY <1>1, <1>2, <1>3, <1>4, <1>5, <1>7, <1>10

-----------------------------------------------------------------------------
(* Sends, and what they have acquired                                      *)

\* The stages of a call that knows what it asks for.
Costed == {"gas", "ready", "coins", "moreCoins", "challenge", "signing", "sending"}

AdditionOf(r) == IF r.retried THEN 200000 ELSE 0

Funded(r) ==
  r.options # <<>> /\ r.options[1].coins = <<>> =>
    r.coins \in Seq(Coin) /\ Enough(r.sim, r.options[1], AdditionOf(r), r.coins)

Affords(u, r) ==
  /\ r.options = <<>> \/ \E p \in u.options : r.options = <<p>>
  /\ r.stage \in Costed => r.sim.satGas \in Nat /\ Sized(r.sim.calldata)
  /\ r.stage \in {"moreCoins", "signing"} => r.options # <<>>
  /\ r.stage \in {"challenge", "signing"} => Funded(r)

\* What makes FundsCover inductive.
Afforded == \A c \in Caller : Affords(use, call[c])
FundsInv == ReadInv /\ Afforded

\* The calls but for those that come to know what they ask for, or to get it.
Idle ==
  /\ use' = use
  /\ \A c \in Caller :
       \/ call'[c].stage \notin Costed /\ call'[c].options \in {<<>>, call[c].options}
       \/ /\ call'[c].stage = call[c].stage /\ call'[c].options = call[c].options
          /\ call'[c].sim = call[c].sim /\ call'[c].coins = call[c].coins
          /\ call'[c].retried = call[c].retried

LEMMA IdleKeeps ==
  ASSUME Afforded, Idle
  PROVE  Afforded'
<1>1. use' = use
  BY DEF Idle
<1>2. ASSUME NEW c \in Caller
      PROVE  Affords(use', call'[c])
  <2>1. Affords(use, call[c])
    BY DEF Afforded
  <2>2. CASE call'[c].stage \notin Costed /\ call'[c].options \in {<<>>, call[c].options}
    BY <1>1, <2>1, <2>2 DEF Affords, Costed
  <2>3. CASE /\ call'[c].stage = call[c].stage /\ call'[c].options = call[c].options
             /\ call'[c].sim = call[c].sim /\ call'[c].coins = call[c].coins
             /\ call'[c].retried = call[c].retried
    BY <1>1, <2>1, <2>3 DEF Affords, Funded, AdditionOf
  <2> QED BY <2>2, <2>3 DEF Idle
<1> QED BY <1>1, <1>2 DEF Afforded

\* A call that moves, and the others.
LEMMA OneAffords ==
  ASSUME Afforded, NEW c \in Caller, Others(c), use' = use, Affords(use, call'[c])
  PROVE  Afforded'
<1>1. \A d \in Caller \ {c} : Affords(use, call'[d])
  BY DEF Others, Afforded
<1> QED BY <1>1 DEF Afforded

LEMMA FailedIdle ==
  ASSUME Shape, use' = use, NEW c \in Caller, call' = Failed(c)
  PROVE  Idle
<1> DEFINE new == Failed(c)
<1>1. /\ DOMAIN new = Caller /\ \A d \in Caller \ {c} : new[d] = call[d]
      /\ new[c].stage = "failed"
  BY FailedGoes
<1>2. new[c].options = <<>>
  BY DEF Failed, NoCall, Shape, Key
<1> HIDE DEF new
<1>3. call' = new
  BY DEF new
<1> QED BY <1>1, <1>2, <1>3 DEF Idle, Costed

LEMMA OptionsKnown ==
  ASSUME FundsInv, NEW c \in Caller
  PROVE  /\ call[c].options = <<>> \/ (\E p \in use.options : call[c].options = <<p>>)
         /\ call[c].options # <<>> => call[c].options[1] \in Parameters
         /\ use.wallets \subseteq Wallet /\ use.options \subseteq Parameters
<1>1. use.wallets \subseteq Wallet /\ use.options \subseteq Parameters
  BY MoneyAssumption DEF FundsInv, ReadInv, GasInv, Estimating
<1>2. call[c].options = <<>> \/ (\E p \in use.options : call[c].options = <<p>>)
  BY DEF FundsInv, Afforded, Affords
<1>3. ASSUME NEW p \in use.options, call[c].options = <<p>>
      PROVE  call[c].options[1] \in Parameters
  <2>1. call[c].options[1] = p
    BY <1>3
  <2> QED BY <1>1, <2>1
<1> QED BY <1>1, <1>2, <1>3

\* What a call sends was written of examples, and its items have sizes.
LEMMA CalldataSized ==
  ASSUME ReadInv, NEW c \in Caller, call[c].stage = "calling"
  PROVE  Sized(call[c].sim.calldata)
<1>1. PICK f : f = Function(c)
  OBVIOUS
<1>2. call[c].fn \in use.fns /\ Encoded(use, call[c])
  BY DEF ReadInv, Faithful, Follows, Simulation
<1>3. /\ call[c].args = Examples(f.inputs)
      /\ EncodeFunctionData(f, call[c].args) = Wrote(call[c].sim.calldata)
  BY <1>1, <1>2 DEF Encoded, Called, Function
<1>4. f \in AbiElement
  BY <1>1, <1>2, DefinitionThere, AbiAssumption DEF Function, ReadInv, GasInv, Estimating
<1>5. PICK item, items :
        /\ EncodeFunctionData(f, Examples(f.inputs)) = Wrote(Cat(<<item>>, items))
        /\ item.value.size \in Nat /\ Sized(items)
  BY <1>4, EncodedExamples
<1>6. call[c].sim.calldata = Cat(<<item>>, items)
  BY <1>3, <1>5 DEF Wrote
<1> QED BY <1>5, <1>6, SizedOne, SizedJoin

LEMMA EstimateNatural ==
  ASSUME NEW gas \in Nat, NEW price \in Nat
  PROVE  Estimate(gas, price) \in Nat
<1>1. PICK q \in Nat : q = (gas * price) \div Scale
  BY ScaleAssumption, QuotientBelow
<1>2. PICK e \in Nat : e = (q * 100) \div 85
  OBVIOUS
<1> QED BY <1>1, <1>2 DEF Estimate, Most

LEMMA CallReturnsAffords ==
  ASSUME FundsInv, NEW c \in Caller, CallReturns(c)
  PROVE  Afforded'
<1>1. call[c].stage = "calling" /\ use' = use
  BY DEF CallReturns
<1>2. CASE call' = Failed(c)
  BY <1>1, <1>2, FailedIdle, IdleKeeps DEF FundsInv, ReadInv, GasInv
<1>3. ASSUME NEW rs, NEW events, NEW output, NEW values, NEW gas, NEW refunded,
             AwaitGas(c, rs, [call[c] EXCEPT !.args = <<>>, !.events = events,
                                !.sim = Simulated(c, output, values, gas, refunded)])
      PROVE  Afforded'
  <2>1. PICK sim : sim = Simulated(c, output, values, gas, refunded)
    OBVIOUS
  <2>2. PICK r : r = [call[c] EXCEPT !.args = <<>>, !.events = events, !.sim = sim]
    OBVIOUS
  <2>3. AwaitGas(c, rs, r)
    BY <1>3, <2>1, <2>2
  <2>4. sim.satGas = 0 /\ sim.calldata = call[c].sim.calldata
    BY <2>1 DEF Simulated
  <2>5. Sized(call[c].sim.calldata)
    BY <1>1, CalldataSized DEF FundsInv
  <2>6. DOMAIN r = Key /\ r.sim = sim /\ r.options = call[c].options
    BY <2>2 DEF FundsInv, ReadInv, GasInv, Shape, Key
  <2>7. \E promise : call' = [call EXCEPT ![c] = [r EXCEPT !.stage = "gas", !.wantedAt = now,
                                                         !.promise = promise]]
    BY <2>3 DEF AwaitGas
  <2>8. /\ call'[c].stage = "gas" /\ call'[c].sim = sim
        /\ call'[c].options = call[c].options /\ Others(c)
    BY <2>6, <2>7 DEF FundsInv, ReadInv, GasInv, Shape, Key, Others
  <2>9. Affords(use, call'[c])
    BY <2>4, <2>5, <2>8 DEF Affords, Costed, FundsInv, Afforded
  <2> QED BY <1>1, <2>8, <2>9, OneAffords DEF FundsInv
<1> QED BY <1>2, <1>3 DEF CallReturns

LEMMA GasKnownAffords ==
  ASSUME FundsInv, NEW c \in Caller, GasKnown(c)
  PROVE  Afforded'
<1>1. call[c].stage = "gas" /\ use' = use
  BY DEF GasKnown
<1>2. CASE call' = Failed(c)
  BY <1>1, <1>2, FailedIdle, IdleKeeps DEF FundsInv, ReadInv, GasInv
<1>3. CASE call' # Failed(c)
  <2>1. PICK params : params = req[GasSlot(call[c].promise)]
    OBVIOUS
  <2>2. PICK asked : asked = params.value
    OBVIOUS
  <2>3. PICK decoded : decoded = DecodeEvents(use.abi, call[c].events)
    OBVIOUS
  <2>4. PICK satGas : satGas = Estimate(Zero(call[c].sim.gas), GasPerSat[asked])
    OBVIOUS
  <2>5. PICK satRefunded : satRefunded = Estimate(Zero(call[c].sim.refunded), GasPerSat[asked])
    OBVIOUS
  <2>6. call' = [call EXCEPT
                ![c].stage = "ready", ![c].gasAt = asked,
                ![c].events = decoded, ![c].sim.fees = <<Fees>>,
                ![c].sim.satGas = satGas, ![c].sim.satRefunded = satRefunded]
    BY <1>3, <2>1, <2>2, <2>3, <2>4, <2>5 DEF GasKnown
  <2>7. AwaitsGas(call[c])
    BY <1>1 DEF FundsInv, ReadInv, GasInv, Estimating
  <2>8. satGas \in Nat
    <3>1. asked \in Time
      BY <2>1, <2>2, <2>7, SlotsThere
         DEF AwaitsGas, FundsInv, ReadInv, GasInv, RpcTimed, Timed
    <3>2. GasPerSat[asked] \in Nat
      BY <3>1, PriceAssumption DEF Time
    <3> QED BY <2>4, <2>7, <3>2, EstimateNatural DEF AwaitsGas
  <2>9. /\ call'[c].stage = "ready" /\ call'[c].options = call[c].options
        /\ call'[c].sim.satGas = satGas /\ call'[c].sim.calldata = call[c].sim.calldata
        /\ Others(c)
    BY <2>6, <2>7 DEF FundsInv, ReadInv, GasInv, Shape, Key, AwaitsGas, SimKey, Others
  <2>10. Affords(use, call'[c])
    BY <1>1, <2>8, <2>9 DEF Affords, Costed, FundsInv, Afforded
  <2> QED BY <1>1, <2>9, <2>10, OneAffords DEF FundsInv
<1> QED BY <1>2, <1>3

LEMMA SendAffords ==
  ASSUME FundsInv, NEW c \in Caller, (\E p \in use.options : Send(c, p)) \/ Export(c)
  PROVE  Afforded'
<1>1. call[c].stage = "ready" /\ use' = use
  BY DEF Send, Export
<1>2. CASE call' = Failed(c)
  BY <1>1, <1>2, FailedIdle, IdleKeeps DEF FundsInv, ReadInv, GasInv
<1>3. ASSUME NEW options, options = call[c].options \/ \E p \in use.options : options = <<p>>,
             /\ call'[c].stage = "coins" /\ call'[c].options = options
             /\ call'[c].sim = call[c].sim /\ Others(c)
      PROVE  Afforded'
  <2>1. Affords(use, call'[c])
    BY <1>1, <1>3 DEF Affords, Costed, FundsInv, Afforded
  <2> QED BY <1>1, <1>3, <2>1, OneAffords DEF FundsInv
<1>4. ASSUME NEW p \in use.options,
             call' = [call EXCEPT ![c].stage = "coins", ![c].options = <<p>>]
      PROVE  Afforded'
  <2>1. PICK options : options = <<p>>
    OBVIOUS
  <2>2. /\ call'[c].stage = "coins" /\ call'[c].options = options
        /\ call'[c].sim = call[c].sim /\ Others(c)
    BY <1>4, <2>1 DEF FundsInv, ReadInv, GasInv, Shape, Key, Others
  <2> QED BY <1>3, <2>1, <2>2
<1>5. CASE call' = [call EXCEPT ![c].stage = "coins"]
  <2>1. /\ call'[c].stage = "coins" /\ call'[c].options = call[c].options
        /\ call'[c].sim = call[c].sim /\ Others(c)
    BY <1>5 DEF FundsInv, ReadInv, GasInv, Shape, Key, Others
  <2> QED BY <1>3, <2>1
<1> QED BY <1>2, <1>4, <1>5 DEF Send, Export

\* Coins that are acquired for a send are enough for it.
LEMMA AskChallengeAffords ==
  ASSUME FundsInv, NEW c \in Caller, call[c].stage \in {"coins", "moreCoins"}, NEW coins,
         AskChallenge(c, coins), use' = use,
         call[c].options # <<>> /\ call[c].options[1].coins = <<>> =>
           coins \in Seq(Coin) /\ Enough(call[c].sim, call[c].options[1], Addition(c), coins)
  PROVE  Afforded'
<1>1. call' = [call EXCEPT ![c].stage = "challenge", ![c].coins = coins]
  BY DEF AskChallenge
<1>2. /\ call'[c].stage = "challenge" /\ call'[c].coins = coins
      /\ call'[c].options = call[c].options /\ call'[c].sim = call[c].sim
      /\ call'[c].retried = call[c].retried /\ Others(c)
  BY <1>1 DEF FundsInv, ReadInv, GasInv, Shape, Key, Others
<1>3. AdditionOf(call'[c]) = Addition(c)
  BY <1>2 DEF AdditionOf, Addition
<1>4. Funded(call'[c])
  BY <1>2, <1>3 DEF Funded
<1>5. Affords(use, call'[c])
  BY <1>2, <1>4 DEF Affords, Costed, FundsInv, Afforded
<1> QED BY <1>2, <1>5, OneAffords DEF FundsInv

LEMMA CoinsKnownAffords ==
  ASSUME FundsInv, NEW c \in Caller, CoinsKnown(c)
  PROVE  Afforded'
<1>1. call[c].stage = "coins" /\ use' = use
  BY DEF CoinsKnown
<1>2. PICK coins \in FirstCoins(c) :
        \/ call' = Failed(c)
        \/ Content(c, coins) /\ AskChallenge(c, coins)
        \/ /\ ~Content(c, coins)
           /\ call' = [call EXCEPT ![c].stage = "moreCoins", ![c].coins = coins]
  BY DEF CoinsKnown
<1>3. CASE call' = Failed(c)
  BY <1>1, <1>3, FailedIdle, IdleKeeps DEF FundsInv, ReadInv, GasInv
<1>4. CASE Content(c, coins) /\ AskChallenge(c, coins)
  <2>1. ASSUME call[c].options # <<>>, call[c].options[1].coins = <<>>
        PROVE  coins \in Seq(Coin)
    <3>1. PICK p : p = call[c].options[1] /\ p.coins = <<>>
      BY <2>1
    <3>2. PICK amount : amount = FirstAmount(call[c].sim, p, Addition(c))
      OBVIOUS
    <3>3. PICK w \in use.wallets : coins = FetchUTXOs(call[c].sim, p, w, amount)
      BY <1>2, <2>1, <3>1, <3>2 DEF FirstCoins
    <3>4. w \in Wallet
      BY OptionsKnown
    <3> QED BY <3>3, <3>4, FetchedTyped
  <2> QED BY <1>1, <1>4, <2>1, AskChallengeAffords DEF Content
<1>5. CASE /\ ~Content(c, coins)
           /\ call' = [call EXCEPT ![c].stage = "moreCoins", ![c].coins = coins]
  <2>1. call[c].options # <<>>
    BY <1>5 DEF Content
  <2>2. /\ call'[c].stage = "moreCoins" /\ call'[c].options = call[c].options
        /\ call'[c].sim = call[c].sim /\ Others(c)
    BY <1>5 DEF FundsInv, ReadInv, GasInv, Shape, Key, Others
  <2>3. Affords(use, call'[c])
    BY <1>1, <2>1, <2>2 DEF Affords, Costed, FundsInv, Afforded
  <2> QED BY <1>1, <2>2, <2>3, OneAffords DEF FundsInv
<1> QED BY <1>2, <1>3, <1>4, <1>5

LEMMA MoreCoinsKnownAffords ==
  ASSUME FundsInv, NEW c \in Caller, MoreCoinsKnown(c)
  PROVE  Afforded'
<1>1. call[c].stage = "moreCoins" /\ use' = use
  BY DEF MoreCoinsKnown
<1>2. PICK p : p = call[c].options[1]
  OBVIOUS
<1>3. PICK amount : amount = Wanted(call[c].sim, p, Addition(c), call[c].coins)
  OBVIOUS
<1>4. PICK w, coins :
        /\ w \in use.wallets /\ coins = FetchUTXOs(call[c].sim, p, w, amount)
        /\ \/ call' = Failed(c)
           \/ Enough(call[c].sim, p, Addition(c), coins) /\ AskChallenge(c, coins)
  BY <1>2, <1>3 DEF MoreCoinsKnown
<1>5. CASE call' = Failed(c)
  BY <1>1, <1>5, FailedIdle, IdleKeeps DEF FundsInv, ReadInv, GasInv
<1>6. CASE Enough(call[c].sim, p, Addition(c), coins) /\ AskChallenge(c, coins)
  <2>1. w \in Wallet
    BY <1>4, OptionsKnown
  <2>2. coins \in Seq(Coin)
    BY <1>4, <2>1, FetchedTyped
  <2> QED BY <1>1, <1>2, <1>6, <2>2, AskChallengeAffords
<1> QED BY <1>4, <1>5, <1>6

LEMMA ChallengeKnownAffords ==
  ASSUME FundsInv, NEW c \in Caller, ChallengeKnown(c)
  PROVE  Afforded'
<1>1. call[c].stage = "challenge" /\ use' = use
  BY DEF ChallengeKnown
<1>2. CASE call' = Failed(c)
  BY <1>1, <1>2, FailedIdle, IdleKeeps DEF FundsInv, ReadInv, GasInv
<1>3. CASE \E buffer : call' = [call EXCEPT ![c].stage = "exported", ![c].buffer = buffer]
  <2>1. call'[c].stage = "exported" /\ call'[c].options = call[c].options /\ Others(c)
    BY <1>3 DEF FundsInv, ReadInv, GasInv, Shape, Key, Others
  <2>2. Idle
    BY <1>1, <2>1 DEF Idle, Others, Costed
  <2> QED BY <2>2, IdleKeeps DEF FundsInv
<1>4. CASE call[c].options # <<>> /\ call' = [call EXCEPT ![c].stage = "signing"]
  <2>1. /\ call'[c].stage = "signing" /\ call'[c].coins = call[c].coins
        /\ call'[c].options = call[c].options /\ call'[c].sim = call[c].sim
        /\ call'[c].retried = call[c].retried /\ Others(c)
    BY <1>4 DEF FundsInv, ReadInv, GasInv, Shape, Key, Others
  <2>2. Affords(use, call[c])
    BY DEF FundsInv, Afforded
  <2>3. Affords(use, call'[c])
    BY <1>1, <1>4, <2>1, <2>2 DEF Affords, Costed, Funded, AdditionOf
  <2> QED BY <1>1, <2>1, <2>3, OneAffords DEF FundsInv
<1> QED BY <1>2, <1>3, <1>4 DEF ChallengeKnown

\* A send that is tried again has its options and its result, and no coins.
LEMMA SignAffords ==
  ASSUME FundsInv, NEW c \in Caller, Sign(c)
  PROVE  Afforded'
<1>1. call[c].stage = "signing" /\ use' = use
  BY DEF Sign
<1>2. CASE call' = Failed(c)
  BY <1>1, <1>2, FailedIdle, IdleKeeps DEF FundsInv, ReadInv, GasInv
<1>3. CASE call' = [call EXCEPT ![c].stage = "sending", ![c].broadcasts = @ + 1]
  <2>1. /\ call'[c].stage = "sending" /\ call'[c].options = call[c].options
        /\ call'[c].sim = call[c].sim /\ Others(c)
    BY <1>3 DEF FundsInv, ReadInv, GasInv, Shape, Key, Others
  <2>2. Affords(use, call'[c])
    BY <1>1, <2>1 DEF Affords, Costed, FundsInv, Afforded
  <2> QED BY <1>1, <2>1, <2>2, OneAffords DEF FundsInv
<1>4. CASE call' = [call EXCEPT ![c].stage = "coins", ![c].coins = <<>>, ![c].retried = TRUE]
  <2>1. /\ call'[c].stage = "coins" /\ call'[c].options = call[c].options
        /\ call'[c].sim = call[c].sim /\ Others(c)
    BY <1>4 DEF FundsInv, ReadInv, GasInv, Shape, Key, Others
  <2>2. Affords(use, call'[c])
    BY <1>1, <2>1 DEF Affords, Costed, FundsInv, Afforded
  <2> QED BY <1>1, <2>1, <2>2, OneAffords DEF FundsInv
<1> QED BY <1>2, <1>3, <1>4 DEF Sign, Caught

\* A refusal that reads like the error a retry is for sends the call back for coins.
LEMMA BroadcastReturnsAffords ==
  ASSUME FundsInv, NEW c \in Caller, BroadcastReturns(c)
  PROVE  Afforded'
<1>1. call[c].stage = "sending" /\ use' = use
  BY DEF BroadcastReturns
<1>2. CASE call' = Failed(c)
  BY <1>1, <1>2, FailedIdle, IdleKeeps DEF FundsInv, ReadInv, GasInv
<1>3. CASE call' = [call EXCEPT ![c].stage = "sent"]
  <2>1. call'[c].stage = "sent" /\ call'[c].options = call[c].options /\ Others(c)
    BY <1>3 DEF FundsInv, ReadInv, GasInv, Shape, Key, Others
  <2>2. Idle
    BY <1>1, <2>1 DEF Idle, Others, Costed
  <2> QED BY <2>2, IdleKeeps DEF FundsInv
<1>4. CASE call' = [call EXCEPT ![c].stage = "coins", ![c].coins = <<>>, ![c].retried = TRUE]
  <2>1. /\ call'[c].stage = "coins" /\ call'[c].options = call[c].options
        /\ call'[c].sim = call[c].sim /\ Others(c)
    BY <1>4 DEF FundsInv, ReadInv, GasInv, Shape, Key, Others
  <2>2. Affords(use, call'[c])
    BY <1>1, <2>1 DEF Affords, Costed, FundsInv, Afforded
  <2> QED BY <1>1, <2>1, <2>2, OneAffords DEF FundsInv
<1> QED BY <1>2, <1>3, <1>4 DEF BroadcastReturns, Caught

\* The step that comes to nothing of the kind.
LEMMA AddressKnownIdle ==
  ASSUME FundsInv, NEW c \in Caller, AddressKnown(c)
  PROVE  Idle
<1>1. use' = use
  BY DEF AddressKnown
<1>2. CASE call' = Failed(c)
  BY <1>1, <1>2, FailedIdle DEF FundsInv, ReadInv, GasInv
<1>3. CASE call' = [Failed(c) EXCEPT ![c].took = settings]
  <2> DEFINE new == Failed(c)
  <2>1. /\ DOMAIN new = Caller /\ \A d \in Caller \ {c} : new[d] = call[d]
        /\ new[c].stage = "failed" /\ DOMAIN new[c] = Key
    BY FailedGoes DEF FundsInv, ReadInv, GasInv
  <2>2. new[c].options = <<>>
    BY DEF Failed, NoCall, FundsInv, ReadInv, GasInv, Shape, Key
  <2>3. call' = [new EXCEPT ![c].took = settings]
    BY <1>3
  <2> HIDE DEF new
  <2>4. call'[c].stage = "failed" /\ call'[c].options = <<>> /\ Others(c)
    BY <2>1, <2>2, <2>3 DEF Key, Others
  <2> QED BY <1>1, <2>4 DEF Idle, Others, Costed
<1>4. CASE \E sim : call' = [call EXCEPT ![c].stage = "calling", ![c].took = settings,
                                        ![c].seen = SeenByNode, ![c].sim = sim]
  <2>1. call'[c].stage = "calling" /\ call'[c].options = call[c].options /\ Others(c)
    BY <1>4 DEF FundsInv, ReadInv, GasInv, Shape, Key, Others
  <2> QED BY <1>1, <2>1 DEF Idle, Others, Costed
<1> QED
  BY <1>2, <1>3, <1>4 DEF AddressKnown, CallNode

LEMMA ApplicationStepAffords ==
  ASSUME FundsInv, ApplicationStep
  PROVE  Afforded'
<1>1. CASE Open \/ UNCHANGED callVars
  <2>1. use' = use /\ call' = call
    BY <1>1 DEF Open, callVars
  <2>2. Idle
    BY <2>1 DEF Idle
  <2> QED BY <2>2, IdleKeeps DEF FundsInv
<1>2. ASSUME NEW x \in Setting, Set(x)
      PROVE  Afforded'
  <2>1. call' = Disturbed /\ use' = use
    BY <1>2 DEF Set
  <2>2. Idle
    BY <2>1 DEF Disturbed, FundsInv, ReadInv, GasInv, Shape, Key, Idle
  <2> QED BY <2>2, IdleKeeps DEF FundsInv
<1>3. ASSUME NEW c \in Caller, NEW fn, NEW args, Start(c, fn, args)
      PROVE  Afforded'
  <2>1. Others(c) /\ call'[c].stage = "address"
    BY <1>3, StartGoes DEF FundsInv, ReadInv, GasInv
  <2>2. call'[c].options = <<>> /\ use' = use
    BY <1>3 DEF Start, FundsInv, ReadInv, GasInv, Shape, NoCall
  <2>3. Idle
    BY <2>1, <2>2 DEF Idle, Others, Costed
  <2> QED BY <2>3, IdleKeeps DEF FundsInv
<1>4. CASE \E c \in Caller : (\E p \in use.options : Send(c, p)) \/ Export(c)
  BY <1>4, SendAffords
<1> QED
  BY <1>1, <1>2, <1>3, <1>4 DEF ApplicationStep

LEMMA FundsStep ==
  ASSUME FundsInv, [Next]_vars
  PROVE  FundsInv'
<1>1. ReadInv'
  BY ReadStep DEF FundsInv
<1>2. ASSUME NEW c \in Caller, CallStep(c)
      PROVE  Afforded'
  BY <1>2, AddressKnownIdle, IdleKeeps, BroadcastReturnsAffords, CallReturnsAffords, GasKnownAffords, CoinsKnownAffords,
     MoreCoinsKnownAffords, ChallengeKnownAffords, SignAffords DEF CallStep, FundsInv
<1>3. ASSUME UNCHANGED callVars
      PROVE  Afforded'
  <2>1. Idle
    BY <1>3 DEF callVars, Idle
  <2> QED BY <2>1, IdleKeeps DEF FundsInv
<1>4. CASE UNCHANGED vars
  BY <1>1, <1>3, <1>4 DEF vars, FundsInv
<1>5. CASE Next
  BY <1>1, <1>2, <1>3, <1>5, ApplicationStepAffords DEF Next, RpcStep, FundsInv
<1> QED BY <1>4, <1>5

LEMMA FundsInit == Init => FundsInv
<1> SUFFICES ASSUME Init PROVE FundsInv
  OBVIOUS
<1>1. \A c \in Caller : call[c].stage = "idle" /\ call[c].options = <<>>
  BY DEF Init, NoCall
<1> QED
  BY <1>1, ReadInit DEF FundsInv, Afforded, Affords, Costed

\* Coins acquired for a transaction pay for what it has to, whatever the wallets hold and
\* whatever they are asked for.  (CallResult.acquire())
THEOREM FundsAreCovered == Spec => []FundsCover
<1>1. FundsInv => FundsCover
  <2> SUFFICES ASSUME FundsInv, NEW c \in Caller, call[c].stage = "signing",
                      NEW p, p = call[c].options[1], p.coins = <<>>,
                      NEW u, u = call[c].coins
               PROVE  Value(u) + Value(p.extraInputs) >=
                        GasFee(call[c].sim, p) + p.priorityFee + Addition(c) + Value(p.outs)
                          + MiningCost(call[c].sim, p, u)
    BY DEF FundsCover
  <2>1. Affords(use, call[c])
    BY DEF FundsInv, Afforded
  <2>2. call[c].options # <<>> /\ p \in Parameters
    BY <2>1, OptionsKnown DEF Affords
  <2>3. /\ u \in Seq(Coin) /\ Enough(call[c].sim, p, AdditionOf(call[c]), u)
        /\ call[c].sim.satGas \in Nat /\ Sized(call[c].sim.calldata)
    BY <2>1, <2>2 DEF Affords, Funded, Costed
  <2>4. Addition(c) = AdditionOf(call[c]) /\ Addition(c) \in Nat
    BY DEF Addition, AdditionOf
  <2> QED BY <2>2, <2>3, <2>4, EnoughCovers
<1> QED
  BY <1>1, FundsInit, FundsStep, PTL DEF Spec

-----------------------------------------------------------------------------
(* Buffers of parts                                                        *)

WriteOne(layout, items, x) == Cat(items, WriteRecord(layout, x))
ReadOneRecord(layout, r, i) == ReadRecord(r, layout)
WriteData(data, items, part) == Cat(items, WritePart(part, data[part.name]))
ReadNext(env, r, part) == ReadPart(r, part)

RecordFold == INSTANCE LeftFolds WITH Op <- WriteOne
RereadFold == INSTANCE LeftFolds WITH Op <- ReadOneRecord
DataFold == INSTANCE LeftFolds WITH Op <- WriteData
PartFold == INSTANCE LeftFolds WITH Op <- ReadNext

Prefixed(part, n) ==
  CASE part.form = "one" -> Nil
    [] part.form = "option" -> <<Item("Boolean", n)>>
    [] part.form = "list" -> <<Item("U16", n)>>

LEMMA WritePartFolds ==
  ASSUME NEW part, NEW rs
  PROVE  WritePart(part, rs) = RecordFold!Folded(part.layout, Prefixed(part, Len(rs)), rs)
  BY DEF RecordFold!Folded, RecordFold!FoldLeft, RecordFold!MapThenFoldSet, RecordFold!Max,
         FoldLeft, MapThenFoldSet, Max, WriteOne, WritePart, Prefixed, Nil, Cat

LEMMA ReadPartFolds ==
  ASSUME NEW r, NEW part
  PROVE  LET prefixed == part.form # "one"
             ok == prefixed => r.rest # Nil
             n == IF prefixed THEN Head(r.rest).value ELSE 1
             start == [Reader(IF prefixed THEN Tail(r.rest) ELSE r.rest) EXCEPT !.ok = r.ok]
             all == RereadFold!Folded(part.layout, start, Upto(n))
         IN ReadPart(r, part) =
              IF r.ok /\ ok THEN [all EXCEPT !.values = WithPart(r.values, part.name, all.values)]
              ELSE Garbled
  BY DEF RereadFold!Folded, RereadFold!FoldLeft, RereadFold!MapThenFoldSet, RereadFold!Max,
         FoldLeft, MapThenFoldSet, Max, ReadOneRecord, ReadPart, Nil, Upto

LEMMA SerializeFolds ==
  ASSUME NEW data
  PROVE  Serialize(data) = DataFold!Folded(data, Nil, Parts(HeadLayout))
  BY DEF DataFold!Folded, DataFold!FoldLeft, DataFold!MapThenFoldSet, DataFold!Max,
         FoldLeft, MapThenFoldSet, Max, WriteData, Serialize, Nil, Cat

LEMMA DeserializeFolds ==
  ASSUME NEW items
  PROVE  Deserialize(items) =
           PartFold!Folded(0, [Reader(items) EXCEPT !.values = [x \in {} |-> Nil]], Parts(HeadRead))
  BY DEF PartFold!Folded, PartFold!FoldLeft, PartFold!MapThenFoldSet, PartFold!Max,
         FoldLeft, MapThenFoldSet, Max, ReadNext, Deserialize, Nil

-----------------------------------------------------------------------------
(* Lists that are appended to                                              *)

\* acc[k] is a list with the first k of n chunks appended.
Appends(acc, n, chunks) ==
  /\ List(acc[0])
  /\ \A k \in 1..n : List(chunks[k]) /\ acc[k] = Cat(acc[k - 1], chunks[k])

\* What chunks were appended to a list is there, one after the other.
LEMMA ChunksAppended ==
  ASSUME NEW n \in Nat, NEW chunks, NEW acc, Appends(acc, n, chunks), NEW tail, List(tail)
  PROVE  /\ List(acc[n])
         /\ \E suf : TailsOf(suf, n, chunks, tail) /\ Cat(acc[0], suf[0]) = Cat(acc[n], tail)
<1> USE DEF Appends
<1>1. ASSUME NEW k \in 0..n, k < n
      PROVE  acc[k + 1] = Cat(acc[k], chunks[k + 1])
  <2>1. k + 1 \in 1..n /\ (k + 1) - 1 = k
    BY <1>1
  <2> QED BY <2>1
<1> DEFINE S == {k \in 0..n : List(acc[k])}
<1>2. \A k \in 0..n : k \in S
  <2>1. 0 \in S
    OBVIOUS
  <2>2. \A k \in 0..n : k \in S /\ k < n => k + 1 \in S
    <3> TAKE k \in 0..n
    <3> HAVE k \in S /\ k < n
    <3>1. k + 1 \in 1..n /\ k + 1 \in 0..n
      OBVIOUS
    <3>2. List(acc[k + 1])
      BY <1>1, <3>1, ListJoin
    <3> QED BY <3>1, <3>2
  <2> HIDE DEF S
  <2> QED BY <2>1, <2>2, JoinFold!Climb
<1>3. List(acc[n])
  <2>1. n \in 0..n
    OBVIOUS
  <2> QED BY <1>2, <2>1
<1>4. PICK suf : TailsOf(suf, n, chunks, tail)
  BY TailsThere
<1> DEFINE T == {k \in 0..n : Cat(acc[k], suf[k]) = Cat(acc[0], suf[0])}
<1>5. 0 \in T
  OBVIOUS
<1>6. \A k \in 0..n : k \in T /\ k < n => k + 1 \in T
  <2> TAKE k \in 0..n
  <2> HAVE k \in T /\ k < n
  <2>1. k + 1 \in 1..n /\ (k + 1) - 1 = k /\ k + 1 \in 0..n
    OBVIOUS
  <2>2. suf[k] = Cat(chunks[k + 1], suf[k + 1]) /\ List(suf[k + 1])
    BY <1>4, <2>1 DEF TailsOf
  <2>3. List(acc[k]) /\ List(chunks[k + 1])
    BY <1>2, <2>1
  <2>4. Cat(acc[k + 1], suf[k + 1]) = Cat(acc[k], Cat(chunks[k + 1], suf[k + 1]))
    BY <1>1, <2>2, <2>3, ListAssociative
  <2> QED BY <2>1, <2>2, <2>4
<1>7. n \in T
  <2>1. n \in 0..n
    OBVIOUS
  <2> HIDE DEF T
  <2> QED BY <1>5, <1>6, <2>1, JoinFold!Climb
<1>8. suf[n] = tail
  BY <1>4 DEF TailsOf
<1> QED BY <1>3, <1>4, <1>7, <1>8

-----------------------------------------------------------------------------
(* Records and parts                                                       *)

\* What a record keeps that is written by a layout, and the records of a list.
Kept(layout, x) == [f \in {layout[i][1] : i \in 1..Len(layout)} |-> x[f]]
AllKept(layout, rs) == [i \in 1..Len(rs) |-> Kept(layout, rs[i])]

Laid(layout) == \E m \in Nat : DOMAIN layout = 1..m /\ Len(layout) = m

LEMMA ItemFields ==
  ASSUME NEW codec, NEW value
  PROVE  Item(codec, value).codec = codec /\ Item(codec, value).value = value
  BY DEF Item

LEMMA RecordWritten ==
  ASSUME NEW layout, Laid(layout), NEW x
  PROVE  List(WriteRecord(layout, x))
<1>1. PICK m \in Nat : DOMAIN layout = 1..m
  BY DEF Laid
<1>2. PICK items : items = WriteRecord(layout, x)
  OBVIOUS
<1>3. items = Prefix(items, m)
  BY <1>1, <1>2 DEF WriteRecord, Prefix
<1> QED BY <1>2, <1>3, PrefixList

\* A record is read as what was kept of it.
LEMMA RecordRead ==
  ASSUME NEW layout, Laid(layout), NEW x, NEW tail, List(tail), NEW values
  PROVE  ReadRecord(At(Cat(WriteRecord(layout, x), tail), values), layout)
           = At(tail, Append(values, Kept(layout, x)))
<1>1. PICK m \in Nat : DOMAIN layout = 1..m /\ Len(layout) = m
  BY DEF Laid
<1>2. PICK items : items = WriteRecord(layout, x)
  OBVIOUS
<1>3. PICK rest : rest = Cat(items, tail)
  OBVIOUS
<1>4. PICK S : items \in Seq(S) /\ tail \in Seq(S)
  BY <1>2, RecordWritten, ListsShare
<1>5. /\ DOMAIN items = 1..m /\ Len(items) = m
      /\ \A i \in 1..m : items[i] = Item(layout[i][2], x[layout[i][1]])
  BY <1>1, <1>2, <1>4 DEF WriteRecord
<1>6. /\ rest \in Seq(S) /\ Len(rest) = m + Len(tail) /\ Len(tail) \in Nat
      /\ \A i \in 1..Len(rest) : rest[i] = IF i <= m THEN items[i] ELSE tail[i - m]
  <2>1. Len(items) = m
    BY <1>5
  <2>2. /\ rest \in Seq(S) /\ Len(rest) = Len(items) + Len(tail) /\ Len(tail) \in Nat
        /\ \A i \in 1..Len(rest) :
             rest[i] = IF i <= Len(items) THEN items[i] ELSE tail[i - Len(items)]
    BY <1>3, <1>4, ConcatProperties DEF Cat
  <2> QED BY <2>1, <2>2
<1>7. \A i \in 1..m : /\ rest[i].codec = layout[i][2]
                     /\ rest[i].value = x[layout[i][1]]
  <2>1. \A i \in 1..m : rest[i] = Item(layout[i][2], x[layout[i][1]])
    BY <1>5, <1>6
  <2> QED BY <2>1, ItemFields
<1>8. SubSeq(rest, m + 1, Len(rest)) = tail
  <2>1. PICK after : after = SubSeq(rest, m + 1, Len(rest))
    OBVIOUS
  <2>2. after \in Seq(S) /\ Len(after) = Len(tail)
    BY <1>6, <2>1
  <2>3. \A i \in 1..Len(tail) : after[i] = tail[i]
    BY <1>6, <2>1
  <2> QED BY <1>4, <2>1, <2>2, <2>3, SeqEqual
<1>9. ASSUME NEW f \in {layout[i][1] : i \in 1..m}
      PROVE  rest[CHOOSE i \in 1..m : layout[i][1] = f].value = x[f]
  <2>1. PICK i : i = CHOOSE j \in 1..m : layout[j][1] = f
    OBVIOUS
  <2>2. i \in 1..m /\ layout[i][1] = f
    BY <2>1
  <2> QED BY <1>7, <2>1, <2>2
<1>10. PICK kept : kept = [f \in {layout[i][1] : i \in 1..m} |->
                            rest[CHOOSE i \in 1..m : layout[i][1] = f].value]
  OBVIOUS
<1>11. kept = Kept(layout, x)
  <2>1. PICK F : F = {layout[i][1] : i \in 1..m}
    OBVIOUS
  <2>2. Kept(layout, x) = [f \in F |-> x[f]]
    BY <1>1, <2>1 DEF Kept
  <2>3. DOMAIN kept = F /\ kept = [f \in F |-> kept[f]]
    BY <1>10, <2>1
  <2>4. \A f \in F : kept[f] = x[f]
    BY <1>9, <1>10, <2>1
  <2> QED BY <2>2, <2>3, <2>4
<1>12. PICK r : r = At(rest, values)
  OBVIOUS
<1>13. r.ok = TRUE /\ r.rest = rest /\ r.values = values
  BY <1>12 DEF At
<1>14. m <= Len(rest) /\ \A i \in 1..m : rest[i].codec = layout[i][2]
  BY <1>6, <1>7
<1>15. ReadRecord(r, layout) =
         [r EXCEPT !.rest = SubSeq(@, m + 1, Len(@)), !.values = Append(@, kept)]
  BY <1>1, <1>10, <1>13, <1>14 DEF ReadRecord
<1>16. ReadRecord(r, layout) = At(tail, Append(values, kept))
  BY <1>8, <1>12, <1>13, <1>15 DEF At
<1> QED BY <1>2, <1>3, <1>11, <1>12, <1>16

\* What a part may hold: records, one of them where there is no prefix.
Holds(part, rs) ==
  /\ part.form \in {"one", "option", "list"}
  /\ Laid(part.layout)
  /\ \E n \in Nat : DOMAIN rs = 1..n /\ Len(rs) = n /\ (part.form = "one" => n = 1)

LEMMA PrefixedList ==
  ASSUME NEW part, part.form \in {"one", "option", "list"}, NEW n
  PROVE  List(Prefixed(part, n))
  BY ListOfNone, ListOfOne DEF Prefixed

\* The records of a part are read as what was kept of each.
LEMMA PartRead ==
  ASSUME NEW part, NEW rs, Holds(part, rs), NEW tail, List(tail), NEW values
  PROVE  /\ List(WritePart(part, rs))
         /\ ReadPart(At(Cat(WritePart(part, rs), tail), values), part)
              = At(tail, WithPart(values, part.name, AllKept(part.layout, rs)))
<1>1. PICK n \in Nat : DOMAIN rs = 1..n /\ Len(rs) = n /\ (part.form = "one" => n = 1)
  BY DEF Holds
<1>2. PICK layout : layout = part.layout
  OBVIOUS
<1>3. PICK chunks : chunks = [k \in 1..n |-> WriteRecord(layout, rs[k])]
  OBVIOUS
<1>4. \A k \in 1..n : List(chunks[k])
  BY <1>2, <1>3, RecordWritten DEF Holds
<1>5. PICK prefix : prefix = Prefixed(part, n)
  OBVIOUS
<1>6. PICK acc : RecordFold!Follows(acc, n, layout, prefix, rs)
  BY <1>1, RecordFold!FoldSteps
<1>7. /\ acc[0] = prefix /\ \A k \in 1..n : acc[k] = Cat(acc[k - 1], chunks[k])
      /\ WritePart(part, rs) = acc[n]
  BY <1>1, <1>2, <1>3, <1>5, <1>6, WritePartFolds DEF RecordFold!Follows, WriteOne
<1>8. List(acc[0])
  BY <1>5, <1>7, PrefixedList DEF Holds
<1>9. /\ List(acc[n])
      /\ \E suf : TailsOf(suf, n, chunks, tail) /\ Cat(acc[0], suf[0]) = Cat(acc[n], tail)
  <2>1. Appends(acc, n, chunks)
    BY <1>4, <1>7, <1>8 DEF Appends
  <2> QED BY <2>1, ChunksAppended
<1>10. PICK suf : TailsOf(suf, n, chunks, tail) /\ Cat(prefix, suf[0]) = Cat(acc[n], tail)
  BY <1>7, <1>9
<1>11. PICK rest : rest = Cat(acc[n], tail)
  OBVIOUS
<1>12. PICK prefixed \in BOOLEAN : prefixed = (part.form # "one")
  OBVIOUS
<1>13. List(suf[0])
  BY <1>10 DEF TailsOf
<1>14. /\ prefixed => rest # Nil /\ Head(rest).value = n
       /\ (IF prefixed THEN Tail(rest) ELSE rest) = suf[0]
  <2>1. CASE part.form = "one"
    <3>1. prefix = Nil
      BY <1>5, <2>1 DEF Prefixed
    <3> QED BY <1>10, <1>11, <1>12, <1>13, <2>1, <3>1, ListUnit
  <2>2. CASE part.form # "one"
    <3>1. \E codec : prefix = <<Item(codec, n)>>
      BY <1>5, <2>2 DEF Prefixed, Holds
    <3>2. PICK codec : prefix = <<Item(codec, n)>>
      BY <3>1
    <3>3. PICK item : item = Item(codec, n)
      OBVIOUS
    <3>4. rest = Cat(<<item>>, suf[0])
      BY <1>10, <1>11, <3>2, <3>3
    <3>5. Head(rest) = item /\ Tail(rest) = suf[0] /\ rest # Nil
      BY <1>13, <3>4, ListFirst DEF Nil
    <3>6. Head(rest).value = n
      BY <3>3, <3>5, ItemFields
    <3> QED BY <1>12, <2>2, <3>5, <3>6
  <2> QED BY <2>1, <2>2
<1>15. PICK all : all = [i \in 1..n |-> Kept(layout, rs[i])]
  OBVIOUS
<1>16. all = AllKept(layout, rs)
  BY <1>1, <1>15 DEF AllKept
<1>17. RereadFold!Folded(layout, At(suf[0], Nil), Upto(n)) = At(tail, all)
  <2>1. PICK st : st = [k \in 0..n |-> At(suf[k], Prefix(all, k))]
    OBVIOUS
  <2>2. ASSUME NEW k \in 1..n
        PROVE  ReadRecord(st[k - 1], layout) = st[k]
    <3>1. k \in 0..n /\ k - 1 \in 0..n /\ k - 1 \in Nat /\ (k - 1) + 1 = k
      OBVIOUS
    <3>2. suf[k - 1] = Cat(WriteRecord(layout, rs[k]), suf[k]) /\ List(suf[k])
      BY <1>3, <1>10, <3>1 DEF TailsOf
    <3>3. ReadRecord(At(suf[k - 1], Prefix(all, k - 1)), layout)
            = At(suf[k], Append(Prefix(all, k - 1), Kept(layout, rs[k])))
      BY <1>2, <3>2, RecordRead DEF Holds
    <3>4. Append(Prefix(all, k - 1), all[k]) = Prefix(all, k)
      BY <3>1, PrefixGrows
    <3>5. all[k] = Kept(layout, rs[k])
      BY <1>15
    <3> QED BY <2>1, <3>1, <3>3, <3>4, <3>5
  <2>3. DOMAIN Upto(n) = 1..n
    BY DEF Upto
  <2>4. RereadFold!Passes(st, n, layout, Upto(n))
    BY <2>2 DEF RereadFold!Passes, ReadOneRecord
  <2>5. RereadFold!Folded(layout, st[0], Upto(n)) = st[n]
    BY <2>3, <2>4, RereadFold!FoldPasses
  <2>6. st[0] = At(suf[0], Nil)
    BY <2>1, PrefixNone
  <2>7. st[n] = At(tail, all)
    <3>1. Prefix(all, n) = all
      BY <1>15 DEF Prefix
    <3>2. suf[n] = tail
      BY <1>10 DEF TailsOf
    <3> QED BY <2>1, <3>1, <3>2
  <2> QED BY <2>5, <2>6, <2>7
<1>18. PICK r : r = At(rest, values)
  OBVIOUS
<1>19. r.ok = TRUE /\ r.rest = rest /\ r.values = values
  BY <1>18 DEF At
<1>20. PICK start : start = [Reader(suf[0]) EXCEPT !.ok = r.ok]
  OBVIOUS
<1>21. start = At(suf[0], Nil)
  BY <1>19, <1>20 DEF Reader, At, Nil
<1>22. ReadPart(r, part) =
         [At(tail, all) EXCEPT !.values = WithPart(r.values, part.name, At(tail, all).values)]
  <2>1. PICK count : count = IF prefixed THEN Head(r.rest).value ELSE 1
    OBVIOUS
  <2>2. count = n
    BY <1>1, <1>12, <1>14, <1>19, <2>1
  <2>3. [Reader(IF prefixed THEN Tail(r.rest) ELSE r.rest) EXCEPT !.ok = r.ok] = start
    BY <1>14, <1>19, <1>20
  <2>4. r.ok /\ (prefixed => r.rest # Nil)
    BY <1>14, <1>19
  <2> QED BY <1>2, <1>12, <1>17, <1>21, <2>1, <2>2, <2>3, <2>4, ReadPartFolds
<1>23. PICK new : new = WithPart(values, part.name, all)
  OBVIOUS
<1>24. ReadPart(r, part) = At(tail, new)
  BY <1>19, <1>22, <1>23, AtExcept DEF At
<1> QED BY <1>2, <1>7, <1>9, <1>11, <1>16, <1>18, <1>23, <1>24

-----------------------------------------------------------------------------
(* Whole buffers                                                           *)

\* Data that has something for every part.
Complete(data, n, parts) ==
  DOMAIN parts = 1..n /\ \A k \in 1..n : Holds(parts[k], data[parts[k].name])

\* What is restored of data.
Restores(taken, data, n, parts) ==
  \A k \in 1..n : taken[parts[k].name] = AllKept(parts[k].layout, data[parts[k].name])

\* What is taken of the first k parts.
TakenOf(taken, parts, k) == [x \in {parts[j].name : j \in 1..k} |-> taken[x]]

LEMMA TakesNext ==
  ASSUME NEW taken, NEW parts, NEW k \in Nat, NEW rs, rs = taken[parts[k + 1].name]
  PROVE  WithPart(TakenOf(taken, parts, k), parts[k + 1].name, rs) = TakenOf(taken, parts, k + 1)
<1>1. PICK x : x = parts[k + 1].name
  OBVIOUS
<1>2. PICK A : A = {parts[j].name : j \in 1..k}
  OBVIOUS
<1>3. {parts[j].name : j \in 1..(k + 1)} = A \cup {x}
  <2>1. 1..(k + 1) = 1..k \cup {k + 1}
    OBVIOUS
  <2> QED BY <1>1, <1>2, <2>1
<1>4. WithPart([y \in A |-> taken[y]], x, rs) = [y \in A \cup {x} |-> taken[y]]
  BY <1>1 DEF WithPart
<1> QED BY <1>1, <1>2, <1>3, <1>4 DEF TakenOf

LEMMA PartsRead ==
  ASSUME NEW n \in Nat, NEW parts, NEW data, Complete(data, n, parts), NEW taken,
         Restores(taken, data, n, parts)
  PROVE  \E items :
           /\ DataFold!Folded(data, Nil, parts) = items
           /\ PartFold!Folded(0, At(items, TakenOf(taken, parts, 0)), parts)
                = At(Nil, TakenOf(taken, parts, n))
<1>1. PICK chunks : chunks = [k \in 1..n |-> WritePart(parts[k], data[parts[k].name])]
  OBVIOUS
<1>2. \A k \in 1..n : List(chunks[k])
  BY <1>1, PartRead, ListOfNone DEF Complete
<1>3. PICK acc : DataFold!Follows(acc, n, data, Nil, parts)
  BY DataFold!FoldSteps DEF Complete
<1>4. acc[0] = Nil /\ DataFold!Folded(data, Nil, parts) = acc[n]
  BY <1>3 DEF DataFold!Follows
<1>5. \A k \in 1..n : acc[k] = Cat(acc[k - 1], chunks[k])
  BY <1>1, <1>3 DEF DataFold!Follows, WriteData
<1>6. List(acc[0])
  BY <1>4, ListOfNone
<1>7. /\ List(acc[n])
      /\ \E suf : TailsOf(suf, n, chunks, Nil) /\ Cat(acc[0], suf[0]) = Cat(acc[n], Nil)
  <2>1. Appends(acc, n, chunks)
    BY <1>2, <1>5, <1>6 DEF Appends
  <2>2. n \in Nat
    BY DEF Complete
  <2> QED BY <2>1, <2>2, ListOfNone, ChunksAppended
<1>8. PICK suf : TailsOf(suf, n, chunks, Nil) /\ Cat(acc[0], suf[0]) = Cat(acc[n], Nil)
  BY <1>7
<1>9. suf[0] = acc[n]
  <2>1. List(suf[0])
    BY <1>8 DEF TailsOf
  <2> QED BY <1>4, <1>7, <1>8, <2>1, ListUnit
<1>10. PICK st : st = [k \in 0..n |-> At(suf[k], TakenOf(taken, parts, k))]
  OBVIOUS
<1>11. ASSUME NEW k \in 1..n
       PROVE  ReadPart(st[k - 1], parts[k]) = st[k]
  <2>1. k \in 0..n /\ k - 1 \in 0..n /\ k - 1 \in Nat /\ (k - 1) + 1 = k
    OBVIOUS
  <2>2. PICK rs : rs = data[parts[k].name]
    OBVIOUS
  <2>3. suf[k - 1] = Cat(WritePart(parts[k], rs), suf[k]) /\ List(suf[k])
    BY <1>1, <1>8, <2>1, <2>2 DEF TailsOf
  <2>4. Holds(parts[k], rs)
    BY <2>2 DEF Complete
  <2>5. PICK before : before = TakenOf(taken, parts, k - 1)
    OBVIOUS
  <2>6. ReadPart(At(suf[k - 1], before), parts[k])
          = At(suf[k], WithPart(before, parts[k].name, AllKept(parts[k].layout, rs)))
    BY <2>3, <2>4, PartRead
  <2>7. AllKept(parts[k].layout, rs) = taken[parts[k].name]
    BY <2>2 DEF Restores
  <2>8. WithPart(before, parts[k].name, taken[parts[k].name]) = TakenOf(taken, parts, k)
    BY <2>1, <2>5, TakesNext
  <2> QED BY <1>10, <2>1, <2>5, <2>6, <2>7, <2>8
<1>12. PartFold!Passes(st, n, 0, parts)
  BY <1>11 DEF PartFold!Passes, ReadNext
<1>13. PartFold!Folded(0, st[0], parts) = st[n]
  BY <1>12, PartFold!FoldPasses DEF Complete
<1>14. st[0] = At(acc[n], TakenOf(taken, parts, 0))
  BY <1>9, <1>10
<1>15. st[n] = At(Nil, TakenOf(taken, parts, n))
  BY <1>8, <1>10 DEF TailsOf
<1> QED BY <1>4, <1>13, <1>14, <1>15

LEMMA BufferRead ==
  ASSUME NEW data, Complete(data, 11, Parts(HeadLayout)), NEW taken,
         Restores(taken, data, 11, Parts(HeadLayout))
  PROVE  Deserialize(Serialize(data)) = At(Nil, TakenOf(taken, Parts(HeadLayout), 11))
<1>1. PICK parts : parts = Parts(HeadLayout)
  OBVIOUS
<1>2. PICK n \in Nat : n = 11
  OBVIOUS
<1>3. PICK items :
        /\ DataFold!Folded(data, Nil, parts) = items
        /\ PartFold!Folded(0, At(items, TakenOf(taken, parts, 0)), parts)
             = At(Nil, TakenOf(taken, parts, n))
  BY <1>1, <1>2, PartsRead
<1>4. Serialize(data) = items
  BY <1>1, <1>3, SerializeFolds
<1>5. PICK none : none = [x \in {} |-> Nil]
  OBVIOUS
<1>6. none = TakenOf(taken, parts, 0)
  <2>1. {parts[j].name : j \in 1..0} = {}
    OBVIOUS
  <2> QED BY <1>5, <2>1 DEF TakenOf
<1>7. [Reader(items) EXCEPT !.values = none] = At(items, none)
  <2>1. Reader(items) = At(items, <<>>)
    BY DEF Reader, At
  <2> QED BY <2>1, AtExcept
<1> QED BY <1>1, <1>2, <1>3, <1>4, <1>5, <1>6, <1>7, DeserializeFolds DEF HeadRead

-----------------------------------------------------------------------------
(* The buffer of a result                                                  *)

RevertLayout == <<<<"revert", "StringWithLength">>>>
ResultLayout == <<<<"result", "BytesWithLength">>>>
ProofLayout == <<<<"proof", "StringWithLength">>>>
KeyLayout == <<<<"originalKey", "BytesWithLength">>>>
CsvLayout == <<<<"address", "StringWithLength">>, <<"script", "BytesWithLength">>>>

LEMMA PartFields ==
  ASSUME NEW name, NEW form, NEW layout
  PROVE  /\ Part(name, form, layout).name = name /\ Part(name, form, layout).form = form
         /\ Part(name, form, layout).layout = layout
  BY DEF Part

LEMMA PartsAre ==
  ASSUME NEW head, NEW parts, parts = Parts(head)
  PROVE  /\ DOMAIN parts = 1..11
         /\ parts[1] = Part("head", "one", head)
         /\ parts[2] = Part("revert", "option", RevertLayout)
         /\ parts[3] = Part("result", "one", ResultLayout)
         /\ parts[4] = Part("accessList", "list", AccessLayout)
         /\ parts[5] = Part("fees", "option", FeesLayout)
         /\ parts[6] = Part("challenge", "one", ChallengeLayout)
         /\ parts[7] = Part("proofs", "list", ProofLayout)
         /\ parts[8] = Part("submission", "option", SubmissionLayout)
         /\ parts[9] = Part("originalKey", "one", KeyLayout)
         /\ parts[10] = Part("utxos", "list", CoinLayout)
         /\ parts[11] = Part("csv", "option", CsvLayout)
  BY DEF Parts, RevertLayout, ResultLayout, ProofLayout, KeyLayout, CsvLayout

LEMMA LayoutsLaid ==
  /\ Laid(HeadLayout) /\ Laid(RevertLayout) /\ Laid(ResultLayout) /\ Laid(AccessLayout)
  /\ Laid(FeesLayout) /\ Laid(ChallengeLayout) /\ Laid(ProofLayout) /\ Laid(SubmissionLayout)
  /\ Laid(KeyLayout) /\ Laid(CoinLayout) /\ Laid(CsvLayout)
<1>1. DOMAIN HeadLayout = 1..9 /\ Len(HeadLayout) = 9
  BY DEF HeadLayout
<1>2. DOMAIN RevertLayout = 1..1 /\ Len(RevertLayout) = 1
  BY DEF RevertLayout
<1>3. DOMAIN ResultLayout = 1..1 /\ Len(ResultLayout) = 1
  BY DEF ResultLayout
<1>4. DOMAIN AccessLayout = 1..4 /\ Len(AccessLayout) = 4
  BY DEF AccessLayout
<1>5. DOMAIN FeesLayout = 1..4 /\ Len(FeesLayout) = 4
  BY DEF FeesLayout
<1>6. DOMAIN ChallengeLayout = 1..13 /\ Len(ChallengeLayout) = 13
  BY DEF ChallengeLayout
<1>7. DOMAIN ProofLayout = 1..1 /\ Len(ProofLayout) = 1
  BY DEF ProofLayout
<1>8. DOMAIN SubmissionLayout = 1..5 /\ Len(SubmissionLayout) = 5
  BY DEF SubmissionLayout
<1>9. DOMAIN KeyLayout = 1..1 /\ Len(KeyLayout) = 1
  BY DEF KeyLayout
<1>10. DOMAIN CoinLayout = 1..5 /\ Len(CoinLayout) = 5
  BY DEF CoinLayout
<1>11. DOMAIN CsvLayout = 1..2 /\ Len(CsvLayout) = 2
  BY DEF CsvLayout
<1> QED
  BY <1>1, <1>2, <1>3, <1>4, <1>5, <1>6, <1>7, <1>8, <1>9, <1>10, <1>11 DEF Laid

\* The fields that are kept.
FieldsOf(layout) == {layout[i][1] : i \in 1..Len(layout)}

LEMMA HeadFields ==
  {"version", "network", "calldata", "to", "address", "satGas"} \subseteq FieldsOf(HeadLayout)
<1>1. /\ Len(HeadLayout) = 9
      /\ HeadLayout[1][1] = "version" /\ HeadLayout[2][1] = "network"
      /\ HeadLayout[3][1] = "calldata" /\ HeadLayout[4][1] = "to"
      /\ HeadLayout[5][1] = "address" /\ HeadLayout[6][1] = "satGas"
  BY DEF HeadLayout
<1> QED BY <1>1 DEF FieldsOf

LEMMA FeesFields == "conservative" \in FieldsOf(FeesLayout)
<1>1. Len(FeesLayout) = 4 /\ FeesLayout[1][1] = "conservative"
  BY DEF FeesLayout
<1> QED BY <1>1 DEF FieldsOf

LEMMA KeyFields == "originalKey" \in FieldsOf(KeyLayout)
<1>1. Len(KeyLayout) = 1 /\ KeyLayout[1][1] = "originalKey"
  BY DEF KeyLayout
<1> QED BY <1>1 DEF FieldsOf

LEMMA ProofFields == FieldsOf(ProofLayout) = {"proof"}
<1>1. Len(ProofLayout) = 1 /\ ProofLayout[1][1] = "proof"
  BY DEF ProofLayout
<1> QED BY <1>1 DEF FieldsOf

LEMMA SubmissionFields ==
  FieldsOf(SubmissionLayout) =
    {"mldsaPublicKey", "legacyPublicKey", "solution", "graffiti", "signature"}
<1>1. /\ Len(SubmissionLayout) = 5
      /\ SubmissionLayout[1][1] = "mldsaPublicKey" /\ SubmissionLayout[2][1] = "legacyPublicKey"
      /\ SubmissionLayout[3][1] = "solution" /\ SubmissionLayout[4][1] = "graffiti"
      /\ SubmissionLayout[5][1] = "signature"
  BY DEF SubmissionLayout
<1>2. 1..5 = {1, 2, 3, 4, 5}
  OBVIOUS
<1> QED BY <1>1, <1>2 DEF FieldsOf

LEMMA CoinLayoutFields == FieldsOf(CoinLayout) = CoinKey \ {"raw"}
<1>1. /\ Len(CoinLayout) = 5
      /\ CoinLayout[1][1] = "id" /\ CoinLayout[2][1] = "value" /\ CoinLayout[3][1] = "kind"
      /\ CoinLayout[4][1] = "csv" /\ CoinLayout[5][1] = "script"
  BY DEF CoinLayout
<1>2. 1..5 = {1, 2, 3, 4, 5}
  OBVIOUS
<1> QED BY <1>1, <1>2 DEF FieldsOf, CoinKey

LEMMA KeptField ==
  ASSUME NEW layout, NEW f \in FieldsOf(layout), NEW x
  PROVE  Kept(layout, x)[f] = x[f]
  BY DEF Kept, FieldsOf

\* Records of these fields only are kept as they are.
LEMMA AllAreKept ==
  ASSUME NEW layout, NEW S, NEW rs \in Seq(S),
         \A x \in S : x = [f \in FieldsOf(layout) |-> x[f]]
  PROVE  AllKept(layout, rs) = rs
<1>1. PICK n \in Nat : DOMAIN rs = 1..n /\ Len(rs) = n
  OBVIOUS
<1>2. \A i \in 1..n : rs[i] \in S
  BY <1>1
<1>3. \A i \in 1..n : Kept(layout, rs[i]) = rs[i]
  BY <1>2 DEF Kept, FieldsOf
<1>4. rs = [i \in 1..n |-> rs[i]]
  BY <1>1
<1>5. [i \in 1..n |-> Kept(layout, rs[i])] = [i \in 1..n |-> rs[i]]
  BY <1>3
<1> QED BY <1>1, <1>4, <1>5 DEF AllKept

-----------------------------------------------------------------------------
(* Results that are taken offline                                          *)

\* A result that can be written: what may be left out is a list.
Portable(network, sim) ==
  /\ List(sim.revert) /\ List(sim.accessList) /\ List(sim.fees)
  /\ sim.csv \in BOOLEAN /\ sim.network = network

\* What is restored of the data of a result.
TakenFrom(data) == [
  head |-> AllKept(HeadLayout, data.head), revert |-> AllKept(RevertLayout, data.revert),
  result |-> AllKept(ResultLayout, data.result),
  accessList |-> AllKept(AccessLayout, data.accessList), fees |-> AllKept(FeesLayout, data.fees),
  challenge |-> AllKept(ChallengeLayout, data.challenge),
  proofs |-> AllKept(ProofLayout, data.proofs),
  submission |-> AllKept(SubmissionLayout, data.submission),
  originalKey |-> AllKept(KeyLayout, data.originalKey), utxos |-> AllKept(CoinLayout, data.utxos),
  csv |-> AllKept(CsvLayout, data.csv)]

LEMMA HoldsOne ==
  ASSUME NEW part, NEW name, NEW layout, part = Part(name, "one", layout), Laid(layout), NEW x
  PROVE  Holds(part, <<x>>)
<1>1. part.form = "one" /\ part.layout = layout
  BY PartFields
<1>2. DOMAIN <<x>> = 1..1 /\ Len(<<x>>) = 1
  OBVIOUS
<1> QED BY <1>1, <1>2 DEF Holds

LEMMA HoldsList ==
  ASSUME NEW part, NEW name, NEW form \in {"option", "list"}, NEW layout,
         part = Part(name, form, layout), Laid(layout), NEW rs, List(rs)
  PROVE  Holds(part, rs)
<1>1. part.form = form /\ part.layout = layout
  BY PartFields
<1>2. \E n \in Nat : DOMAIN rs = 1..n /\ Len(rs) = n
  BY DEF List
<1> QED BY <1>1, <1>2 DEF Holds

LEMMA DataComplete ==
  ASSUME NEW network, NEW sim, Portable(network, sim), NEW coins, List(coins),
         NEW challenge, List(challenge.proofs), List(challenge.submission)
  PROVE  Complete(OfflineData(sim, coins, challenge), 11, Parts(HeadLayout))
<1>1. PICK data : data = OfflineData(sim, coins, challenge)
  OBVIOUS
<1>2. PICK parts : parts = Parts(HeadLayout)
  OBVIOUS
<1>3. /\ \E x : data.head = <<x>>
      /\ \E x : data.result = <<x>>
      /\ \E x : data.challenge = <<x>>
      /\ \E x : data.originalKey = <<x>>
  BY <1>1 DEF OfflineData
<1>4. /\ List(data.revert) /\ List(data.accessList) /\ List(data.fees)
      /\ List(data.proofs) /\ List(data.submission) /\ List(data.utxos)
  BY <1>1 DEF OfflineData, Portable
<1>5. List(data.csv)
  <2>1. PICK x : x = [address |-> "csv", script |-> "csv"]
    OBVIOUS
  <2>2. data.csv = IF sim.csv THEN <<x>> ELSE Nil
    BY <1>1, <2>1 DEF OfflineData, Nil
  <2> QED BY <2>2, ListOfNone, ListOfOne
<1>6. /\ parts[1].name = "head" /\ parts[2].name = "revert" /\ parts[3].name = "result"
      /\ parts[4].name = "accessList" /\ parts[5].name = "fees" /\ parts[6].name = "challenge"
      /\ parts[7].name = "proofs" /\ parts[8].name = "submission"
      /\ parts[9].name = "originalKey" /\ parts[10].name = "utxos" /\ parts[11].name = "csv"
  BY <1>2, PartsAre, PartFields
<1>7. Holds(parts[1], data.head) /\ Holds(parts[3], data.result)
  BY <1>2, <1>3, PartsAre, LayoutsLaid, HoldsOne
<1>8. Holds(parts[6], data.challenge) /\ Holds(parts[9], data.originalKey)
  BY <1>2, <1>3, PartsAre, LayoutsLaid, HoldsOne
<1>9. Holds(parts[2], data.revert) /\ Holds(parts[4], data.accessList)
  BY <1>2, <1>4, PartsAre, LayoutsLaid, HoldsList
<1>10. Holds(parts[5], data.fees) /\ Holds(parts[7], data.proofs)
  BY <1>2, <1>4, PartsAre, LayoutsLaid, HoldsList
<1>11. Holds(parts[8], data.submission) /\ Holds(parts[10], data.utxos)
  BY <1>2, <1>4, PartsAre, LayoutsLaid, HoldsList
<1>12. Holds(parts[11], data.csv)
  BY <1>2, <1>5, PartsAre, LayoutsLaid, HoldsList
<1>13. \A k \in 1..11 : Holds(parts[k], data[parts[k].name])
  BY <1>6, <1>7, <1>8, <1>9, <1>10, <1>11, <1>12
<1> QED BY <1>1, <1>2, <1>13, PartsAre DEF Complete

LEMMA DataRestored ==
  ASSUME NEW data
  PROVE  Restores(TakenFrom(data), data, 11, Parts(HeadLayout))
<1>1. PICK taken : taken = TakenFrom(data)
  OBVIOUS
<1>2. PICK parts : parts = Parts(HeadLayout)
  OBVIOUS
<1>3. ASSUME NEW k \in 1..11, NEW name, NEW form, NEW layout,
             parts[k] = Part(name, form, layout),
             taken[name] = AllKept(layout, data[name])
      PROVE  taken[parts[k].name] = AllKept(parts[k].layout, data[parts[k].name])
  BY <1>3, PartFields
<1>4. \A k \in 1..4 : taken[parts[k].name] = AllKept(parts[k].layout, data[parts[k].name])
  <2>1. /\ taken["head"] = AllKept(HeadLayout, data["head"])
        /\ taken["revert"] = AllKept(RevertLayout, data["revert"])
        /\ taken["result"] = AllKept(ResultLayout, data["result"])
        /\ taken["accessList"] = AllKept(AccessLayout, data["accessList"])
    BY <1>1 DEF TakenFrom
  <2> QED BY <1>2, <1>3, <2>1, PartsAre
<1>5. \A k \in 5..8 : taken[parts[k].name] = AllKept(parts[k].layout, data[parts[k].name])
  <2>1. /\ taken["fees"] = AllKept(FeesLayout, data["fees"])
        /\ taken["challenge"] = AllKept(ChallengeLayout, data["challenge"])
        /\ taken["proofs"] = AllKept(ProofLayout, data["proofs"])
        /\ taken["submission"] = AllKept(SubmissionLayout, data["submission"])
    BY <1>1 DEF TakenFrom
  <2> QED BY <1>2, <1>3, <2>1, PartsAre
<1>6. \A k \in 9..11 : taken[parts[k].name] = AllKept(parts[k].layout, data[parts[k].name])
  <2>1. /\ taken["originalKey"] = AllKept(KeyLayout, data["originalKey"])
        /\ taken["utxos"] = AllKept(CoinLayout, data["utxos"])
        /\ taken["csv"] = AllKept(CsvLayout, data["csv"])
    BY <1>1 DEF TakenFrom
  <2> QED BY <1>2, <1>3, <2>1, PartsAre
<1> QED BY <1>1, <1>2, <1>4, <1>5, <1>6 DEF Restores

PartNames == {"head", "revert", "result", "accessList", "fees", "challenge", "proofs",
              "submission", "originalKey", "utxos", "csv"}

LEMMA NamesOfParts ==
  {Parts(HeadLayout)[j].name : j \in 1..11} = PartNames
<1>1. PICK parts : parts = Parts(HeadLayout)
  OBVIOUS
<1>2. /\ parts[1].name = "head" /\ parts[2].name = "revert" /\ parts[3].name = "result"
      /\ parts[4].name = "accessList" /\ parts[5].name = "fees" /\ parts[6].name = "challenge"
      /\ parts[7].name = "proofs" /\ parts[8].name = "submission"
      /\ parts[9].name = "originalKey" /\ parts[10].name = "utxos" /\ parts[11].name = "csv"
  BY <1>1, PartsAre, PartFields
<1>3. 1..11 = {1, 2, 3, 4, 5, 6, 7, 8, 9, 10, 11}
  OBVIOUS
<1> QED BY <1>1, <1>2, <1>3 DEF PartNames

\* A buffer of a result is read as what was kept of it.
LEMMA ResultRead ==
  ASSUME NEW network, NEW sim, Portable(network, sim), NEW coins, List(coins),
         NEW challenge, List(challenge.proofs), List(challenge.submission)
  PROVE  Deserialize(ToOfflineBuffer(sim, coins, challenge))
           = At(Nil, [x \in PartNames |-> TakenFrom(OfflineData(sim, coins, challenge))[x]])
<1>1. PICK data : data = OfflineData(sim, coins, challenge)
  OBVIOUS
<1>2. ToOfflineBuffer(sim, coins, challenge) = Serialize(data)
  BY <1>1 DEF ToOfflineBuffer
<1>3. Complete(data, 11, Parts(HeadLayout))
  BY <1>1, DataComplete
<1>4. PICK taken : taken = TakenFrom(data)
  OBVIOUS
<1>5. Deserialize(Serialize(data)) = At(Nil, TakenOf(taken, Parts(HeadLayout), 11))
  BY <1>3, <1>4, DataRestored, BufferRead
<1>6. TakenOf(taken, Parts(HeadLayout), 11) = [x \in PartNames |-> taken[x]]
  BY NamesOfParts DEF TakenOf
<1> QED BY <1>1, <1>2, <1>4, <1>5, <1>6

LEMMA BytesNameNetworks ==
  ASSUME NEW network \in DOMAIN NetworkByte
  PROVE  FromByte(ToByte(network)) = network
<1>1. PICK names : names = {"bitcoin", "testnet", "regtest", "opnetTestnet"}
  OBVIOUS
<1>2. DOMAIN NetworkByte = names
  BY <1>1 DEF NetworkByte
<1>3. /\ NetworkByte["bitcoin"] = 0 /\ NetworkByte["testnet"] = 1
      /\ NetworkByte["regtest"] = 2 /\ NetworkByte["opnetTestnet"] = 3
  BY DEF NetworkByte
<1>4. \A other \in names : NetworkByte[other] = NetworkByte[network] => other = network
  BY <1>1, <1>2, <1>3
<1> QED BY <1>2, <1>4 DEF FromByte, ToByte

LEMMA OneKept ==
  ASSUME NEW layout, NEW x
  PROVE  AllKept(layout, <<x>>)[1] = Kept(layout, x)
<1>1. Len(<<x>>) = 1 /\ <<x>>[1] = x
  OBVIOUS
<1> QED BY <1>1 DEF AllKept

LEMMA KeptLength ==
  ASSUME NEW layout, NEW rs, List(rs)
  PROVE  (AllKept(layout, rs) = Nil) <=> (rs = Nil)
<1>1. PICK n \in Nat : DOMAIN rs = 1..n /\ Len(rs) = n
  BY DEF List
<1>2. PICK S : rs \in Seq(S)
  BY DEF List
<1>3. PICK kept : kept = [i \in 1..n |-> Kept(layout, rs[i])]
  OBVIOUS
<1>4. kept = Prefix(kept, n)
  BY <1>3 DEF Prefix
<1>5. PICK T : kept \in Seq(T)
  BY <1>4, PrefixList DEF List
<1>6. Len(kept) = n
  BY <1>3
<1>7. (rs = <<>>) <=> (n = 0)
  BY <1>1, <1>2, EmptySeq
<1>8. (kept = <<>>) <=> (n = 0)
  BY <1>5, <1>6, EmptySeq
<1> QED BY <1>1, <1>3, <1>7, <1>8 DEF AllKept, Nil

\* What is restored of a result agrees with it in all that signing looks at.
Agrees(off, sim) ==
  /\ off.address = sim.address /\ off.calldata = sim.calldata /\ off.to = sim.to
  /\ (off.revert = <<>>) <=> (sim.revert = <<>>)
  /\ off.constant = FALSE /\ off.payable = FALSE
  /\ off.satGas = sim.satGas /\ off.network = sim.network /\ off.csv = sim.csv
  /\ (off.fees = <<>>) <=> (sim.fees = <<>>)
  /\ sim.fees # <<>> => off.fees[1].conservative = sim.fees[1].conservative

LEMMA RestoredAgrees ==
  ASSUME NEW network \in DOMAIN NetworkByte, NEW sim, Portable(network, sim),
         NEW coins, List(coins),
         NEW challenge, List(challenge.proofs), List(challenge.submission),
         NEW off, off = FromOfflineBuffer(ToOfflineBuffer(sim, coins, challenge))
  PROVE  /\ off.ok /\ Agrees(off.sim, sim)
         /\ off.coins = AllKept(CoinLayout, coins)
         /\ off.challenge.key = challenge.key
         /\ off.challenge.proofs = AllKept(ProofLayout, challenge.proofs)
         /\ off.challenge.submission = AllKept(SubmissionLayout, challenge.submission)
<1>1. PICK items : items = ToOfflineBuffer(sim, coins, challenge)
  OBVIOUS
<1>2. PICK data : data = OfflineData(sim, coins, challenge)
  OBVIOUS
<1>3. PICK values : values = [x \in PartNames |-> TakenFrom(data)[x]]
  OBVIOUS
<1>4. Deserialize(items) = At(Nil, values)
  BY <1>1, <1>2, <1>3, ResultRead
<1>5. PICK taken : taken = TakenFrom(data)
  OBVIOUS
<1>6. /\ values.head = taken.head /\ values.revert = taken.revert /\ values.fees = taken.fees
      /\ values.proofs = taken.proofs /\ values.submission = taken.submission
      /\ values.originalKey = taken.originalKey /\ values.utxos = taken.utxos
      /\ values.csv = taken.csv
  BY <1>3, <1>5 DEF PartNames
<1>7. /\ taken.head = AllKept(HeadLayout, data.head)
      /\ taken.revert = AllKept(RevertLayout, data.revert)
      /\ taken.fees = AllKept(FeesLayout, data.fees)
      /\ taken.proofs = AllKept(ProofLayout, data.proofs)
      /\ taken.submission = AllKept(SubmissionLayout, data.submission)
      /\ taken.originalKey = AllKept(KeyLayout, data.originalKey)
      /\ taken.utxos = AllKept(CoinLayout, data.utxos)
      /\ taken.csv = AllKept(CsvLayout, data.csv)
  BY <1>5 DEF TakenFrom
<1>8. PICK head, key, csv :
        /\ data.head = <<head>> /\ data.originalKey = <<key>>
        /\ data.csv = IF sim.csv THEN <<csv>> ELSE <<>>
        /\ head.version = 1 /\ head.network = ToByte(sim.network)
        /\ head.calldata = sim.calldata /\ head.to = sim.to /\ head.address = sim.address
        /\ head.satGas = sim.satGas /\ key.originalKey = challenge.key
  <2>1. PICK head : head =
          [version |-> 1, network |-> ToByte(sim.network), calldata |-> sim.calldata,
           to |-> sim.to, address |-> sim.address, satGas |-> sim.satGas,
           satRefunded |-> sim.satRefunded, gas |-> Zero(sim.gas),
           refunded |-> Zero(sim.refunded)]
    OBVIOUS
  <2>2. PICK key : key = [originalKey |-> challenge.key]
    OBVIOUS
  <2>3. PICK csv : csv = [address |-> "csv", script |-> "csv"]
    OBVIOUS
  <2>4. /\ data.head = <<head>> /\ data.originalKey = <<key>>
        /\ data.csv = IF sim.csv THEN <<csv>> ELSE <<>>
    BY <1>2, <2>1, <2>2, <2>3 DEF OfflineData
  <2>5. /\ head.version = 1 /\ head.network = ToByte(sim.network)
        /\ head.calldata = sim.calldata /\ head.to = sim.to /\ head.address = sim.address
        /\ head.satGas = sim.satGas
    BY <2>1
  <2>6. key.originalKey = challenge.key
    BY <2>2
  <2> QED BY <2>4, <2>5, <2>6
<1>9. /\ data.revert = sim.revert /\ data.fees = sim.fees /\ data.proofs = challenge.proofs
      /\ data.submission = challenge.submission /\ data.utxos = coins
  BY <1>2 DEF OfflineData
<1>10. PICK read : read = values.head[1] /\ read = Kept(HeadLayout, head)
  BY <1>6, <1>7, <1>8, OneKept
<1>11. /\ read.version = 1 /\ read.network = ToByte(sim.network)
       /\ read.calldata = sim.calldata /\ read.to = sim.to /\ read.address = sim.address
       /\ read.satGas = sim.satGas
  <2>1. /\ read["version"] = head["version"] /\ read["network"] = head["network"]
        /\ read["calldata"] = head["calldata"] /\ read["to"] = head["to"]
        /\ read["address"] = head["address"] /\ read["satGas"] = head["satGas"]
    BY <1>10, HeadFields, KeptField
  <2> QED BY <1>8, <2>1
<1>12. values.originalKey[1].originalKey = challenge.key
  BY <1>6, <1>7, <1>8, OneKept, KeyFields, KeptField
<1>13. FromByte(read.network) = sim.network
  BY <1>11, BytesNameNetworks DEF Portable
<1>14. (values.csv # <<>>) = sim.csv
  <2>1. List(data.csv) /\ (data.csv = Nil <=> ~sim.csv)
    BY <1>8, ListOfNone, ListOfOne DEF Nil
  <2>2. (values.csv = Nil) <=> (data.csv = Nil)
    BY <1>6, <1>7, <2>1, KeptLength
  <2> QED BY <2>1, <2>2 DEF Nil, Portable
<1>15. (values.revert = <<>>) <=> (sim.revert = <<>>)
  BY <1>6, <1>7, <1>9, KeptLength DEF Portable, Nil
<1>16. (values.fees = <<>>) <=> (sim.fees = <<>>)
  BY <1>6, <1>7, <1>9, KeptLength DEF Portable, Nil
<1>17. ASSUME sim.fees # <<>>
       PROVE  values.fees[1].conservative = sim.fees[1].conservative
  <2>1. PICK fees : fees = sim.fees
    OBVIOUS
  <2>2. PICK S : fees \in Seq(S)
    BY <2>1 DEF Portable, List
  <2>3. 1 \in 1..Len(fees)
    BY <1>17, <2>1, <2>2, EmptySeq
  <2>4. values.fees[1] = Kept(FeesLayout, fees[1])
    BY <1>6, <1>7, <1>9, <2>1, <2>3 DEF AllKept
  <2> QED BY <2>1, <2>4, FeesFields, KeptField
<1>18. PICK r, legacy, rawSim :
         /\ r = At(Nil, values)
         /\ legacy = values.originalKey[1].originalKey
         /\ rawSim = [to |-> read.to, address |-> read.address, calldata |-> read.calldata,
              csv |-> values.csv # <<>>, revert |-> values.revert, constant |-> FALSE,
              payable |-> FALSE, satGas |-> read.satGas, satRefunded |-> read.satRefunded,
              gas |-> NonZero(read.gas), refunded |-> NonZero(read.refunded),
              fees |-> values.fees, network |-> FromByte(read.network),
              result |-> values.result[1].result, accessList |-> values.accessList]
  OBVIOUS
<1>19. r.ok = TRUE /\ r.values = values
  BY <1>18 DEF At
<1>20. off = [ok |-> r.ok /\ read.version = 1, sim |-> rawSim, coins |-> values.utxos,
              challenge |-> [raw |-> [values.challenge[1] EXCEPT !.legacyPublicKey = legacy],
                             proofs |-> values.proofs, submission |-> values.submission,
                             key |-> legacy]]
  BY <1>1, <1>4, <1>10, <1>18, <1>19 DEF FromOfflineBuffer
<1>21. /\ off.ok = (r.ok /\ read.version = 1)
       /\ off.sim = rawSim /\ off.coins = values.utxos
       /\ off.challenge.key = legacy
       /\ off.challenge.proofs = values.proofs
       /\ off.challenge.submission = values.submission
  BY <1>20
<1>22. /\ rawSim.to = read.to /\ rawSim.address = read.address
       /\ rawSim.calldata = read.calldata /\ rawSim.csv = (values.csv # <<>>)
       /\ rawSim.revert = values.revert /\ rawSim.constant = FALSE /\ rawSim.payable = FALSE
       /\ rawSim.satGas = read.satGas /\ rawSim.fees = values.fees
       /\ rawSim.network = FromByte(read.network)
  BY <1>18
<1>23. Agrees(off.sim, sim)
  BY <1>11, <1>13, <1>14, <1>15, <1>16, <1>17, <1>21, <1>22 DEF Agrees
<1>24. off.ok
  BY <1>11, <1>19, <1>21
<1> QED
  BY <1>6, <1>7, <1>9, <1>12, <1>18, <1>21, <1>23, <1>24

LEMMA AgreeingSigns ==
  ASSUME NEW off, NEW sim, Agrees(off, sim), NEW p, NEW coins
  PROVE  /\ Signable(sim, p) => Signable(off, p)
         /\ Signable(off, p) /\ ~sim.constant /\ ~sim.payable => Signable(sim, p)
         /\ SharedParams(off, p, coins) = SharedParams(sim, p, coins)
         /\ \A u : Unlocked(off, p, u) = Unlocked(sim, p, u)
<1>1. SignedRate(off, p) = SignedRate(sim, p)
  BY DEF Agrees, SignedRate
<1>2. GasFee(off, p) = GasFee(sim, p)
  BY DEF Agrees, GasFee
<1>3. SharedParams(off, p, coins) = SharedParams(sim, p, coins)
  BY <1>1, <1>2 DEF Agrees, SharedParams
<1>4. \A u : Unlocked(off, p, u) = Unlocked(sim, p, u)
  BY DEF Agrees, Unlocked
<1> QED BY <1>3, <1>4 DEF Agrees, Signable

LEMMA CoinsKept ==
  ASSUME NEW coins \in Seq(Coin)
  PROVE  AllKept(CoinLayout, coins) = WithoutRaw(coins)
<1>1. PICK n \in Nat : DOMAIN coins = 1..n /\ Len(coins) = n
  OBVIOUS
<1>2. ASSUME NEW i \in 1..n
      PROVE  Kept(CoinLayout, coins[i]) = [f \in DOMAIN coins[i] \ {"raw"} |-> coins[i][f]]
  <2>1. PICK u \in Coin : u = coins[i]
    BY <1>1
  <2>2. u = [f \in CoinKey |-> u[f]]
    BY CoinFields
  <2>3. DOMAIN u = CoinKey
    BY <2>2
  <2>4. PICK F : F = FieldsOf(CoinLayout)
    OBVIOUS
  <2>5. F = DOMAIN u \ {"raw"}
    BY <2>3, <2>4, CoinLayoutFields
  <2>6. Kept(CoinLayout, u) = [f \in F |-> u[f]]
    BY <2>4 DEF Kept, FieldsOf
  <2> QED BY <2>1, <2>5, <2>6
<1> QED BY <1>1, <1>2 DEF AllKept, WithoutRaw

\* What a device that is offline restores, and what it signs of it.
LEMMA OfflineSigns ==
  ASSUME NEW network \in DOMAIN NetworkByte, NEW sim, Portable(network, sim),
         NEW coins \in Seq(Coin),
         NEW off, off = FromOfflineBuffer(ToOfflineBuffer(sim, coins, Challenge)), NEW p
  PROVE  /\ off.ok /\ off.coins = WithoutRaw(coins)
         /\ off.challenge.key = Challenge.key /\ off.challenge.proofs = Challenge.proofs
         /\ off.challenge.submission = Challenge.submission
         /\ Signable(sim, p) => Signable(off.sim, p)
         /\ Signable(off.sim, p) /\ ~sim.constant /\ ~sim.payable => Signable(sim, p)
         /\ SharedParams(off.sim, p, off.coins) = SharedParams(sim, p, off.coins)
         /\ \A u : Unlocked(off.sim, p, u) = Unlocked(sim, p, u)
<1>1. PICK proofs, submission : proofs = Challenge.proofs /\ submission = Challenge.submission
  OBVIOUS
<1>2. PICK Proof : Proof = [proof : STRING]
  OBVIOUS
<1>3. PICK Submission : Submission =
        [mldsaPublicKey : STRING, legacyPublicKey : STRING, solution : STRING,
         graffiti : STRING, signature : STRING]
  OBVIOUS
<1>4. proofs \in Seq(Proof) /\ submission \in Seq(Submission)
  BY <1>1, <1>2, <1>3, ChallengeAssumption
<1>5. List(coins) /\ List(Challenge.proofs) /\ List(Challenge.submission)
  BY <1>1, <1>4 DEF List
<1>6. /\ off.ok /\ Agrees(off.sim, sim)
      /\ off.coins = AllKept(CoinLayout, coins)
      /\ off.challenge.key = Challenge.key
      /\ off.challenge.proofs = AllKept(ProofLayout, proofs)
      /\ off.challenge.submission = AllKept(SubmissionLayout, submission)
  BY <1>1, <1>5, RestoredAgrees
<1>7. AllKept(ProofLayout, proofs) = proofs
  <2>1. \A x \in Proof : x = [f \in {"proof"} |-> x[f]]
    BY <1>2
  <2>2. \A x \in Proof : x = [f \in FieldsOf(ProofLayout) |-> x[f]]
    BY <2>1, ProofFields
  <2> QED BY <1>4, <2>2, AllAreKept
<1>8. AllKept(SubmissionLayout, submission) = submission
  <2>1. PICK F : F = {"mldsaPublicKey", "legacyPublicKey", "solution", "graffiti", "signature"}
    OBVIOUS
  <2>2. \A x \in Submission : x = [f \in F |-> x[f]]
    BY <1>3, <2>1
  <2>3. \A x \in Submission : x = [f \in FieldsOf(SubmissionLayout) |-> x[f]]
    BY <2>1, <2>2, SubmissionFields
  <2> QED BY <1>4, <2>3, AllAreKept
<1> QED
  BY <1>1, <1>6, <1>7, <1>8, CoinsKept, AgreeingSigns

-----------------------------------------------------------------------------
(* Exports                                                                 *)

Carrying == Costed \cup {"exported"}

Carries(u, r) ==
  /\ r.stage \in Carrying => Portable(u.network, r.sim)
  /\ r.stage \in {"challenge", "exported"} => r.coins \in Seq(Coin)
  /\ r.stage = "exported" => r.buffer = ToOfflineBuffer(r.sim, r.coins, Challenge)

\* What makes OfflineSignsSame inductive.
AllCarry == \A c \in Caller : Carries(use, call[c])
OfflineInv == FundsInv /\ AllCarry

\* The calls but for those that have nothing to carry.
Parked ==
  /\ use' = use
  /\ \A c \in Caller :
       \/ call'[c].stage \notin Carrying
       \/ /\ call'[c].stage = call[c].stage /\ call'[c].sim = call[c].sim
          /\ call'[c].coins = call[c].coins /\ call'[c].buffer = call[c].buffer

LEMMA ParkedKeeps ==
  ASSUME AllCarry, Parked
  PROVE  AllCarry'
<1>1. use' = use
  BY DEF Parked
<1>2. ASSUME NEW c \in Caller
      PROVE  Carries(use', call'[c])
  <2>1. Carries(use, call[c])
    BY DEF AllCarry
  <2>2. CASE call'[c].stage \notin Carrying
    BY <2>2 DEF Carries, Carrying, Costed
  <2>3. CASE /\ call'[c].stage = call[c].stage /\ call'[c].sim = call[c].sim
             /\ call'[c].coins = call[c].coins /\ call'[c].buffer = call[c].buffer
    BY <1>1, <2>1, <2>3 DEF Carries
  <2> QED BY <2>2, <2>3 DEF Parked
<1> QED BY <1>1, <1>2 DEF AllCarry

\* A call that moves, and the others.
LEMMA OneCarries ==
  ASSUME AllCarry, NEW c \in Caller, Others(c), use' = use, Carries(use, call'[c])
  PROVE  AllCarry'
<1>1. \A d \in Caller \ {c} : Carries(use, call'[d])
  BY DEF Others, AllCarry
<1> QED BY <1>1 DEF AllCarry

LEMMA FailedParked ==
  ASSUME Shape, use' = use, NEW c \in Caller, call' = Failed(c)
  PROVE  Parked
  BY FailedGoes DEF Parked, Carrying, Costed

LEMMA CallReturnsCarries ==
  ASSUME OfflineInv, NEW c \in Caller, CallReturns(c)
  PROVE  AllCarry'
<1>1. call[c].stage = "calling" /\ use' = use
  BY DEF CallReturns
<1>2. CASE call' = Failed(c)
  BY <1>1, <1>2, FailedParked, ParkedKeeps DEF OfflineInv, FundsInv, ReadInv, GasInv
<1>3. ASSUME NEW rs, NEW events, NEW output, NEW values, NEW gas, NEW refunded,
             AwaitGas(c, rs, [call[c] EXCEPT !.args = <<>>, !.events = events,
                                !.sim = Simulated(c, output, values, gas, refunded)])
      PROVE  AllCarry'
  <2>1. PICK sim : sim = Simulated(c, output, values, gas, refunded)
    OBVIOUS
  <2>2. PICK r : r = [call[c] EXCEPT !.args = <<>>, !.events = events, !.sim = sim]
    OBVIOUS
  <2>3. AwaitGas(c, rs, r)
    BY <1>3, <2>1, <2>2
  <2>4. PICK slot : slot = [contract |-> "address", slots |-> 1, key |-> "key", value |-> "value"]
    OBVIOUS
  <2>5. /\ sim.revert = Nil /\ sim.fees = Nil /\ sim.accessList = <<slot>>
        /\ sim.csv \in BOOLEAN /\ sim.network = use.network
    BY <2>1, <2>4 DEF Simulated, Nil
  <2>6. Portable(use.network, sim)
    BY <2>5, ListOfNone, ListOfOne DEF Portable
  <2>7. DOMAIN r = Key /\ r.sim = sim
    BY <2>2 DEF OfflineInv, FundsInv, ReadInv, GasInv, Shape, Key
  <2>8. \E promise : call' = [call EXCEPT ![c] = [r EXCEPT !.stage = "gas", !.wantedAt = now,
                                                         !.promise = promise]]
    BY <2>3 DEF AwaitGas
  <2>9. call'[c].stage = "gas" /\ call'[c].sim = sim /\ Others(c)
    BY <2>7, <2>8 DEF OfflineInv, FundsInv, ReadInv, GasInv, Shape, Key, Others
  <2>10. Carries(use, call'[c])
    BY <2>6, <2>9 DEF Carries
  <2> QED BY <1>1, <2>9, <2>10, OneCarries DEF OfflineInv
<1> QED BY <1>2, <1>3 DEF CallReturns

LEMMA GasKnownCarries ==
  ASSUME OfflineInv, NEW c \in Caller, GasKnown(c)
  PROVE  AllCarry'
<1>1. call[c].stage = "gas" /\ use' = use
  BY DEF GasKnown
<1>2. CASE call' = Failed(c)
  BY <1>1, <1>2, FailedParked, ParkedKeeps DEF OfflineInv, FundsInv, ReadInv, GasInv
<1>3. CASE call' # Failed(c)
  <2>1. PICK params : params = req[GasSlot(call[c].promise)]
    OBVIOUS
  <2>2. PICK asked : asked = params.value
    OBVIOUS
  <2>3. PICK decoded : decoded = DecodeEvents(use.abi, call[c].events)
    OBVIOUS
  <2>4. PICK satGas : satGas = Estimate(Zero(call[c].sim.gas), GasPerSat[asked])
    OBVIOUS
  <2>5. PICK satRefunded : satRefunded = Estimate(Zero(call[c].sim.refunded), GasPerSat[asked])
    OBVIOUS
  <2>6. PICK fees : fees = <<Fees>>
    OBVIOUS
  <2>7. call' = [call EXCEPT
                ![c].stage = "ready", ![c].gasAt = asked,
                ![c].events = decoded, ![c].sim.fees = fees,
                ![c].sim.satGas = satGas, ![c].sim.satRefunded = satRefunded]
    BY <1>3, <2>1, <2>2, <2>3, <2>4, <2>5, <2>6 DEF GasKnown
  <2>8. DOMAIN call[c].sim = SimKey
    BY <1>1 DEF OfflineInv, FundsInv, ReadInv, GasInv, Estimating, AwaitsGas
  <2>9. PICK sim, new : sim = call[c].sim /\ new = call'[c].sim
    OBVIOUS
  <2>10. /\ call'[c].stage = "ready" /\ new.fees = fees
         /\ new.revert = sim.revert /\ new.accessList = sim.accessList
         /\ new.csv = sim.csv /\ new.network = sim.network
         /\ Others(c)
    BY <2>7, <2>8, <2>9
       DEF OfflineInv, FundsInv, ReadInv, GasInv, Shape, Key, SimKey, Others
  <2>11. Portable(use.network, sim)
    BY <1>1, <2>9 DEF OfflineInv, AllCarry, Carries, Carrying, Costed
  <2>12. Portable(use.network, new)
    BY <2>6, <2>10, <2>11, ListOfOne DEF Portable
  <2>13. Carries(use, call'[c])
    BY <2>9, <2>10, <2>12 DEF Carries
  <2> QED BY <1>1, <2>10, <2>13, OneCarries DEF OfflineInv
<1> QED BY <1>2, <1>3

\* A result that is sent or taken offline is carried along.
LEMMA CarriesAlong ==
  ASSUME OfflineInv, NEW c \in Caller, call[c].stage \in Carrying, use' = use,
         Others(c), call'[c].sim = call[c].sim, call'[c].stage # "exported",
         call'[c].stage = "challenge" => call'[c].coins \in Seq(Coin)
  PROVE  AllCarry'
<1>1. Portable(use.network, call[c].sim)
  BY DEF OfflineInv, AllCarry, Carries
<1>2. Carries(use, call'[c])
  BY <1>1 DEF Carries
<1> QED BY <1>2, OneCarries DEF OfflineInv

LEMMA SendCarries ==
  ASSUME OfflineInv, NEW c \in Caller, (\E p \in use.options : Send(c, p)) \/ Export(c)
  PROVE  AllCarry'
<1>1. call[c].stage = "ready" /\ use' = use
  BY DEF Send, Export
<1>2. CASE call' = Failed(c)
  BY <1>1, <1>2, FailedParked, ParkedKeeps DEF OfflineInv, FundsInv, ReadInv, GasInv
<1>3. CASE \/ \E options : call' = [call EXCEPT ![c].stage = "coins", ![c].options = options]
           \/ call' = [call EXCEPT ![c].stage = "coins"]
  <2>1. call'[c].stage = "coins" /\ call'[c].sim = call[c].sim /\ Others(c)
    BY <1>3 DEF OfflineInv, FundsInv, ReadInv, GasInv, Shape, Key, Others
  <2> QED BY <1>1, <2>1, CarriesAlong DEF Carrying, Costed
<1> QED BY <1>2, <1>3 DEF Send, Export

LEMMA AskChallengeCarries ==
  ASSUME OfflineInv, NEW c \in Caller, call[c].stage \in {"coins", "moreCoins"},
         NEW coins \in Seq(Coin), AskChallenge(c, coins), use' = use
  PROVE  AllCarry'
<1>1. call' = [call EXCEPT ![c].stage = "challenge", ![c].coins = coins]
  BY DEF AskChallenge
<1>2. /\ call'[c].stage = "challenge" /\ call'[c].coins = coins
      /\ call'[c].sim = call[c].sim /\ Others(c)
  BY <1>1 DEF OfflineInv, FundsInv, ReadInv, GasInv, Shape, Key, Others
<1> QED BY <1>2, CarriesAlong DEF Carrying, Costed

LEMMA FirstCoinsTyped ==
  ASSUME FundsInv, NEW c \in Caller, NEW coins \in FirstCoins(c)
  PROVE  coins \in Seq(Coin)
<1>1. CASE call[c].options = <<>>
  <2>1. PICK amount : amount = ExportAmount(call[c].sim, use.amount)
    OBVIOUS
  <2>2. PICK w \in use.wallets : coins = CoinsFor(w, amount, FALSE)
    BY <1>1, <2>1 DEF FirstCoins
  <2>3. w \in Wallet
    BY OptionsKnown
  <2> QED BY <2>2, <2>3, CoinsForTyped
<1>2. CASE call[c].options # <<>>
  <2>1. PICK p : p = call[c].options[1]
    OBVIOUS
  <2>2. p \in Parameters
    BY <1>2, <2>1, OptionsKnown
  <2>3. PICK amount : amount = FirstAmount(call[c].sim, p, Addition(c))
    OBVIOUS
  <2>4. CASE p.coins # <<>>
    <3>1. coins = Without(p.coins, p.extraInputs)
      BY <1>2, <2>1, <2>4 DEF FirstCoins
    <3> QED BY <2>2, <3>1, ParameterFields, WithoutTyped
  <2>5. CASE p.coins = <<>>
    <3>1. PICK w \in use.wallets : coins = FetchUTXOs(call[c].sim, p, w, amount)
      BY <1>2, <2>1, <2>3, <2>5 DEF FirstCoins
    <3>2. w \in Wallet
      BY OptionsKnown
    <3> QED BY <3>1, <3>2, FetchedTyped
  <2> QED BY <2>4, <2>5
<1> QED BY <1>1, <1>2

LEMMA CoinsKnownCarries ==
  ASSUME OfflineInv, NEW c \in Caller, CoinsKnown(c)
  PROVE  AllCarry'
<1>1. call[c].stage = "coins" /\ use' = use
  BY DEF CoinsKnown
<1>2. PICK coins \in FirstCoins(c) :
        \/ call' = Failed(c)
        \/ AskChallenge(c, coins)
        \/ call' = [call EXCEPT ![c].stage = "moreCoins", ![c].coins = coins]
  BY DEF CoinsKnown
<1>3. CASE call' = Failed(c)
  BY <1>1, <1>3, FailedParked, ParkedKeeps DEF OfflineInv, FundsInv, ReadInv, GasInv
<1>4. CASE AskChallenge(c, coins)
  BY <1>1, <1>2, <1>4, FirstCoinsTyped, AskChallengeCarries DEF OfflineInv
<1>5. CASE call' = [call EXCEPT ![c].stage = "moreCoins", ![c].coins = coins]
  <2>1. call'[c].stage = "moreCoins" /\ call'[c].sim = call[c].sim /\ Others(c)
    BY <1>5 DEF OfflineInv, FundsInv, ReadInv, GasInv, Shape, Key, Others
  <2> QED BY <1>1, <2>1, CarriesAlong DEF Carrying, Costed
<1> QED BY <1>2, <1>3, <1>4, <1>5

LEMMA MoreCoinsKnownCarries ==
  ASSUME OfflineInv, NEW c \in Caller, MoreCoinsKnown(c)
  PROVE  AllCarry'
<1>1. call[c].stage = "moreCoins" /\ use' = use
  BY DEF MoreCoinsKnown
<1>2. PICK p : p = call[c].options[1]
  OBVIOUS
<1>3. PICK amount : amount = Wanted(call[c].sim, p, Addition(c), call[c].coins)
  OBVIOUS
<1>4. PICK w, coins :
        /\ w \in use.wallets /\ coins = FetchUTXOs(call[c].sim, p, w, amount)
        /\ call' = Failed(c) \/ AskChallenge(c, coins)
  BY <1>2, <1>3 DEF MoreCoinsKnown
<1>5. CASE call' = Failed(c)
  BY <1>1, <1>5, FailedParked, ParkedKeeps DEF OfflineInv, FundsInv, ReadInv, GasInv
<1>6. CASE AskChallenge(c, coins)
  <2>1. w \in Wallet
    BY <1>4, OptionsKnown DEF OfflineInv
  <2>2. coins \in Seq(Coin)
    BY <1>4, <2>1, FetchedTyped
  <2> QED BY <1>1, <1>6, <2>2, AskChallengeCarries
<1> QED BY <1>4, <1>5, <1>6

\* A buffer is made of the result and the coins there are.
LEMMA ChallengeKnownCarries ==
  ASSUME OfflineInv, NEW c \in Caller, ChallengeKnown(c)
  PROVE  AllCarry'
<1>1. call[c].stage = "challenge" /\ use' = use
  BY DEF ChallengeKnown
<1>2. CASE call' = Failed(c)
  BY <1>1, <1>2, FailedParked, ParkedKeeps DEF OfflineInv, FundsInv, ReadInv, GasInv
<1>3. PICK buffer : buffer = ToOfflineBuffer(call[c].sim, call[c].coins, Challenge)
  OBVIOUS
<1>4. CASE call' = [call EXCEPT ![c].stage = "exported", ![c].buffer = buffer]
  <2>1. /\ call'[c].stage = "exported" /\ call'[c].buffer = buffer
        /\ call'[c].sim = call[c].sim /\ call'[c].coins = call[c].coins /\ Others(c)
    BY <1>4 DEF OfflineInv, FundsInv, ReadInv, GasInv, Shape, Key, Others
  <2>2. Portable(use.network, call[c].sim) /\ call[c].coins \in Seq(Coin)
    BY <1>1 DEF OfflineInv, AllCarry, Carries, Carrying, Costed
  <2>3. Carries(use, call'[c])
    BY <1>3, <2>1, <2>2 DEF Carries
  <2> QED BY <1>1, <2>1, <2>3, OneCarries DEF OfflineInv
<1>5. CASE call' = [call EXCEPT ![c].stage = "signing"]
  <2>1. call'[c].stage = "signing" /\ call'[c].sim = call[c].sim /\ Others(c)
    BY <1>5 DEF OfflineInv, FundsInv, ReadInv, GasInv, Shape, Key, Others
  <2> QED BY <1>1, <2>1, CarriesAlong DEF Carrying, Costed
<1> QED BY <1>2, <1>3, <1>4, <1>5 DEF ChallengeKnown

LEMMA SignCarries ==
  ASSUME OfflineInv, NEW c \in Caller, Sign(c)
  PROVE  AllCarry'
<1>1. call[c].stage = "signing" /\ use' = use
  BY DEF Sign
<1>2. CASE call' = Failed(c)
  BY <1>1, <1>2, FailedParked, ParkedKeeps DEF OfflineInv, FundsInv, ReadInv, GasInv
<1>3. CASE call' = [call EXCEPT ![c].stage = "sending", ![c].broadcasts = @ + 1]
  <2>1. call'[c].stage = "sending" /\ call'[c].sim = call[c].sim /\ Others(c)
    BY <1>3 DEF OfflineInv, FundsInv, ReadInv, GasInv, Shape, Key, Others
  <2> QED BY <1>1, <2>1, CarriesAlong DEF Carrying, Costed
<1>4. CASE call' = [call EXCEPT ![c].stage = "coins", ![c].coins = <<>>, ![c].retried = TRUE]
  <2>1. call'[c].stage = "coins" /\ call'[c].sim = call[c].sim /\ Others(c)
    BY <1>4 DEF OfflineInv, FundsInv, ReadInv, GasInv, Shape, Key, Others
  <2> QED BY <1>1, <2>1, CarriesAlong DEF Carrying, Costed
<1> QED BY <1>2, <1>3, <1>4 DEF Sign, Caught

LEMMA BroadcastReturnsCarries ==
  ASSUME OfflineInv, NEW c \in Caller, BroadcastReturns(c)
  PROVE  AllCarry'
<1>1. call[c].stage = "sending" /\ use' = use
  BY DEF BroadcastReturns
<1>2. CASE call' = Failed(c)
  BY <1>1, <1>2, FailedParked, ParkedKeeps DEF OfflineInv, FundsInv, ReadInv, GasInv
<1>3. CASE call' = [call EXCEPT ![c].stage = "sent"]
  <2>1. call'[c].stage = "sent" /\ Others(c)
    BY <1>3 DEF OfflineInv, FundsInv, ReadInv, GasInv, Shape, Key, Others
  <2>2. Parked
    BY <1>1, <2>1 DEF Parked, Others, Carrying, Costed
  <2> QED BY <2>2, ParkedKeeps DEF OfflineInv
<1>4. CASE call' = [call EXCEPT ![c].stage = "coins", ![c].coins = <<>>, ![c].retried = TRUE]
  <2>1. call'[c].stage = "coins" /\ call'[c].sim = call[c].sim /\ Others(c)
    BY <1>4 DEF OfflineInv, FundsInv, ReadInv, GasInv, Shape, Key, Others
  <2> QED BY <1>1, <2>1, CarriesAlong DEF Carrying, Costed
<1> QED BY <1>2, <1>3, <1>4 DEF BroadcastReturns, Caught

\* The step of calls that have nothing to carry yet.
LEMMA AddressKnownParked ==
  ASSUME OfflineInv, NEW c \in Caller, AddressKnown(c)
  PROVE  Parked
<1>1. use' = use
  BY DEF AddressKnown
<1>2. Others(c) /\ call'[c].stage \in {"failed", "calling"}
  BY AddressKnownGoes DEF OfflineInv, FundsInv, ReadInv, GasInv, TakesSettings
<1> QED BY <1>1, <1>2 DEF Parked, Others, Carrying, Costed

LEMMA ApplicationStepCarries ==
  ASSUME OfflineInv, ApplicationStep
  PROVE  AllCarry'
<1>1. CASE Open \/ UNCHANGED callVars
  <2>1. use' = use /\ call' = call
    BY <1>1 DEF Open, callVars
  <2>2. Parked
    BY <2>1 DEF Parked
  <2> QED BY <2>2, ParkedKeeps DEF OfflineInv
<1>2. ASSUME NEW x \in Setting, Set(x)
      PROVE  AllCarry'
  <2>1. call' = Disturbed /\ use' = use
    BY <1>2 DEF Set
  <2>2. Parked
    BY <2>1 DEF Disturbed, OfflineInv, FundsInv, ReadInv, GasInv, Shape, Key, Parked
  <2> QED BY <2>2, ParkedKeeps DEF OfflineInv
<1>3. ASSUME NEW c \in Caller, NEW fn, NEW args, Start(c, fn, args)
      PROVE  AllCarry'
  <2>1. Others(c) /\ call'[c].stage = "address" /\ use' = use
    BY <1>3, StartGoes DEF Start, OfflineInv, FundsInv, ReadInv, GasInv
  <2>2. Parked
    BY <2>1 DEF Parked, Others, Carrying, Costed
  <2> QED BY <2>2, ParkedKeeps DEF OfflineInv
<1>4. CASE \E c \in Caller : (\E p \in use.options : Send(c, p)) \/ Export(c)
  BY <1>4, SendCarries
<1> QED
  BY <1>1, <1>2, <1>3, <1>4 DEF ApplicationStep

LEMMA OfflineStep ==
  ASSUME OfflineInv, [Next]_vars
  PROVE  OfflineInv'
<1>1. FundsInv'
  BY FundsStep DEF OfflineInv
<1>2. ASSUME NEW c \in Caller, CallStep(c)
      PROVE  AllCarry'
  BY <1>2, AddressKnownParked, BroadcastReturnsCarries, ParkedKeeps, CallReturnsCarries, GasKnownCarries, CoinsKnownCarries,
     MoreCoinsKnownCarries, ChallengeKnownCarries, SignCarries DEF CallStep, OfflineInv
<1>3. ASSUME UNCHANGED callVars
      PROVE  AllCarry'
  <2>1. Parked
    BY <1>3 DEF callVars, Parked
  <2> QED BY <2>1, ParkedKeeps DEF OfflineInv
<1>4. CASE UNCHANGED vars
  BY <1>1, <1>3, <1>4 DEF vars, OfflineInv
<1>5. CASE Next
  BY <1>1, <1>2, <1>3, <1>5, ApplicationStepCarries DEF Next, RpcStep, OfflineInv
<1> QED BY <1>4, <1>5

LEMMA OfflineInit == Init => OfflineInv
<1> SUFFICES ASSUME Init PROVE OfflineInv
  OBVIOUS
<1>1. \A c \in Caller : call[c].stage = "idle"
  BY DEF Init, NoCall
<1> QED
  BY <1>1, FundsInit DEF OfflineInv, AllCarry, Carries, Carrying, Costed

\* What a device that is offline restores of a buffer has the coins and the challenge that were
\* written, and signs the same transaction, whatever the result and the options; provided that
\* the library has a name for the network.
\* (CallResultSerializer, CallResult.toOfflineBuffer(), fromOfflineBuffer())
THEOREM OfflineSignaturesAgree ==
  ASSUME NetworksNamed
  PROVE  Spec => []OfflineSignsSame
<1>1. OfflineInv => OfflineSignsSame
  <2> SUFFICES ASSUME OfflineInv, NEW c \in Caller, call[c].stage = "exported",
                      NEW sim, sim = call[c].sim,
                      NEW off, off = FromOfflineBuffer(call[c].buffer)
               PROVE  /\ off.ok /\ off.coins = WithoutRaw(call[c].coins)
                      /\ off.challenge.key = Challenge.key
                      /\ off.challenge.proofs = Challenge.proofs
                      /\ off.challenge.submission = Challenge.submission
                      /\ \A p \in use.options :
                           /\ Signable(sim, p) => Signable(off.sim, p)
                           /\ Signable(off.sim, p) /\ ~sim.constant /\ ~sim.payable =>
                                Signable(sim, p)
                           /\ SharedParams(off.sim, p, off.coins) =
                                SharedParams(sim, p, off.coins)
                           /\ \A i \in DOMAIN off.coins :
                                Unlocked(off.sim, p, off.coins[i]) = Unlocked(sim, p, off.coins[i])
    BY DEF OfflineSignsSame
  <2>1. Carries(use, call[c])
    BY DEF OfflineInv, AllCarry
  <2>2. PICK coins \in Seq(Coin) : coins = call[c].coins
    BY <2>1 DEF Carries
  <2>3. off = FromOfflineBuffer(ToOfflineBuffer(sim, coins, Challenge))
    BY <2>1, <2>2 DEF Carries
  <2>4. PICK network \in DOMAIN NetworkByte : Portable(network, sim)
    <3>1. use \in Uses
      BY DEF OfflineInv, FundsInv, ReadInv, GasInv, Estimating
    <3> QED BY <2>1, <3>1 DEF NetworksNamed, Carries, Carrying
  <2> QED BY <2>2, <2>3, <2>4, OfflineSigns
<1> QED
  BY <1>1, OfflineInit, OfflineStep, PTL DEF Spec

=============================================================================
