------------------------------ MODULE AbiProofs ------------------------------
(***************************************************************************)
(* What EncodeInput() writes of a value that suits its type, ReadOne()     *)
(* reads as that value, and leaves what comes after (Legible): for every   *)
(* basic type, for structs, tuples and arrays of any length.               *)
(*                                                                         *)
(* Writing and reading are folds.  An instance of LeftFolds for each of    *)
(* them says that a fold goes through the values one expects.              *)
(***************************************************************************)
EXTENDS Abi, SequenceTheorems, TLAPS

Join(env, a, b) == Then(a, b)
Field(env, r, t) == ReadBasic(r, t)
Entry(ts, q, i) == Packed(q, "array", ReadFields(q, ts))
One(env, r, type) == ReadOne(r, type)
Cat(a, b) == a \o b
AppendChunk(chunks, s, k) == Cat(s, chunks[k])
Prepend(chunks, s, k) == Cat(chunks[k], s)

JoinFold == INSTANCE LeftFolds WITH Op <- Join
FieldFold == INSTANCE LeftFolds WITH Op <- Field
EntryFold == INSTANCE LeftFolds WITH Op <- Entry
OneFold == INSTANCE LeftFolds WITH Op <- One
AppendFold == INSTANCE LeftFolds WITH Op <- AppendChunk
PrependFold == INSTANCE LeftFolds WITH Op <- Prepend

Nil == <<>>
Upto(n) == [i \in 1..n |-> i]
Same(n, t) == [i \in 1..n |-> t]

LEMMA InOrderFolds ==
  ASSUME NEW results
  PROVE  InOrder(results) = JoinFold!Folded(0, Wrote(Nil), results)
  BY DEF JoinFold!Folded, JoinFold!FoldLeft, JoinFold!MapThenFoldSet, JoinFold!Max, FoldLeft,
         MapThenFoldSet, Max, Join, InOrder, Nil

LEMMA ReadFieldsFolds ==
  ASSUME NEW r, NEW ts
  PROVE  ReadFields(r, ts) = FieldFold!Folded(0, [r EXCEPT !.values = Nil], ts)
  BY DEF FieldFold!Folded, FieldFold!FoldLeft, FieldFold!MapThenFoldSet, FieldFold!Max, FoldLeft,
         MapThenFoldSet, Max, Field, ReadFields, Nil

LEMMA DecodeOutputFolds ==
  ASSUME NEW types, NEW items
  PROVE  DecodeOutput(types, items) = OneFold!Folded(0, Reader(items), types)
  BY DEF OneFold!Folded, OneFold!FoldLeft, OneFold!MapThenFoldSet, OneFold!Max, FoldLeft,
         MapThenFoldSet, Max, One, DecodeOutput

LEMMA ReadTupleFolds ==
  ASSUME NEW r, NEW ts
  PROVE  LET counted == ReadBasic([r EXCEPT !.values = Nil], "UINT16")
             n == counted.values[1].id
             start == [counted EXCEPT !.values = Nil]
         IN ReadTuple(r, ts) =
              IF ~counted.ok THEN Garbled
              ELSE Packed(r, "array",
                          IF Len(ts) = 1 THEN ReadFields(start, Same(n, ts[1]))
                          ELSE EntryFold!Folded(ts, start, Upto(n)))
  BY DEF EntryFold!Folded, EntryFold!FoldLeft, EntryFold!MapThenFoldSet, EntryFold!Max, FoldLeft,
         MapThenFoldSet, Max, Entry, ReadTuple, Nil, Upto, Same

-----------------------------------------------------------------------------
(* Lists                                                                   *)

List(s) == \E S : s \in Seq(S)

LEMMA ListOfNone == List(Nil)
  BY EmptySeq DEF List, Nil

LEMMA ListOfOne == ASSUME NEW x PROVE List(<<x>>)
<1>1. <<x>> \in Seq({x})
  OBVIOUS
<1> QED BY <1>1 DEF List

LEMMA ListsShare ==
  ASSUME NEW a, NEW b, NEW c, List(a), List(b), List(c)
  PROVE  \E S : a \in Seq(S) /\ b \in Seq(S) /\ c \in Seq(S)
<1>1. PICK A : a \in Seq(A)
  BY DEF List
<1>2. PICK B : b \in Seq(B)
  BY DEF List
<1>3. PICK C : c \in Seq(C)
  BY DEF List
<1> DEFINE S == A \cup B \cup C
<1>4. a \in Seq(S) /\ b \in Seq(S) /\ c \in Seq(S)
  <2>1. A \subseteq S /\ B \subseteq S /\ C \subseteq S
    OBVIOUS
  <2> HIDE DEF S
  <2> QED BY <1>1, <1>2, <1>3, <2>1, SeqMonotonic
<1> QED BY <1>4

LEMMA ListJoin ==
  ASSUME NEW a, NEW b, List(a), List(b)
  PROVE  List(Cat(a, b))
<1>1. PICK S : a \in Seq(S) /\ b \in Seq(S)
  BY ListsShare
<1> QED BY <1>1, ConcatProperties DEF List, Cat

LEMMA ListAssociative ==
  ASSUME NEW a, NEW b, NEW c, List(a), List(b), List(c)
  PROVE  Cat(Cat(a, b), c) = Cat(a, Cat(b, c))
<1>1. PICK S : a \in Seq(S) /\ b \in Seq(S) /\ c \in Seq(S)
  BY ListsShare
<1> QED BY <1>1, ConcatAssociative DEF Cat

LEMMA ListUnit ==
  ASSUME NEW a, List(a)
  PROVE  Cat(a, Nil) = a /\ Cat(Nil, a) = a
  BY ConcatEmptySeq DEF List, Cat, Nil

LEMMA ListFirst ==
  ASSUME NEW x, NEW s, List(s)
  PROVE  /\ Head(Cat(<<x>>, s)) = x /\ Tail(Cat(<<x>>, s)) = s
         /\ Cat(<<x>>, s) # <<>>
<1>1. PICK S : s \in Seq(S)
  BY DEF List
<1>2. <<x>> \in Seq(S \cup {x}) /\ s \in Seq(S \cup {x})
  BY <1>1, SeqMonotonic
<1>3. PICK t : t = <<x>> \o s
  OBVIOUS
<1>4. /\ t \in Seq(S \cup {x}) /\ Len(t) = 1 + Len(s) /\ Len(s) \in Nat
      /\ \A i \in 1..Len(t) : t[i] = IF i <= 1 THEN x ELSE s[i - 1]
  BY <1>2, <1>3, ConcatProperties
<1>5. t # <<>> /\ Head(t) = x
  BY <1>4
<1>6. Tail(t) \in Seq(S \cup {x}) /\ Len(Tail(t)) = Len(s)
  BY <1>4, <1>5
<1>7. \A i \in 1..Len(s) : Tail(t)[i] = s[i]
  BY <1>4, <1>5
<1>8. Tail(t) = s
  BY <1>2, <1>6, <1>7, SeqEqual
<1> QED BY <1>3, <1>5, <1>8 DEF Cat

\* The first k elements of v.
Prefix(v, k) == [i \in 1..k |-> v[i]]

LEMMA PrefixList ==
  ASSUME NEW v, NEW k \in Nat
  PROVE  List(Prefix(v, k))
<1>1. Prefix(v, k) \in Seq({v[i] : i \in 1..k})
  BY DEF Prefix
<1> QED BY <1>1 DEF List

LEMMA PrefixGrows ==
  ASSUME NEW v, NEW k \in Nat
  PROVE  Append(Prefix(v, k), v[k + 1]) = Prefix(v, k + 1)
<1> DEFINE S == {v[i] : i \in 1..(k + 1)}
<1>1. PICK p : p = Prefix(v, k)
  OBVIOUS
<1>2. PICK q : q = Prefix(v, k + 1)
  OBVIOUS
<1>3. p \in Seq(S) /\ Len(p) = k /\ \A i \in 1..k : p[i] = v[i]
  BY <1>1 DEF Prefix
<1>4. q \in Seq(S) /\ Len(q) = k + 1 /\ \A i \in 1..k + 1 : q[i] = v[i]
  BY <1>2 DEF Prefix
<1>5. PICK x \in S : x = v[k + 1]
  OBVIOUS
<1> HIDE DEF S
<1>6. /\ Append(p, x) \in Seq(S) /\ Len(Append(p, x)) = k + 1
      /\ \A i \in 1..k + 1 : Append(p, x)[i] = v[i]
  BY <1>3, <1>5, AppendProperties
<1>7. Append(p, x) = q
  BY <1>4, <1>6, SeqEqual
<1> QED BY <1>1, <1>2, <1>5, <1>7

LEMMA PrefixNone == ASSUME NEW v PROVE Prefix(v, 0) = Nil
<1>1. Prefix(v, 0) \in Seq({}) /\ Len(Prefix(v, 0)) = 0
  BY DEF Prefix
<1> QED BY <1>1, EmptySeq DEF Nil

-----------------------------------------------------------------------------
(* Writing in order                                                        *)

\* Lists of items that have a size.
Sized(items) == List(items) /\ \A i \in DOMAIN items : items[i].value.size \in Nat

LEMMA SizedNone == Sized(Nil)
  BY ListOfNone DEF Sized, Nil

LEMMA SizedOne ==
  ASSUME NEW item, item.value.size \in Nat
  PROVE  Sized(<<item>>)
  BY ListOfOne DEF Sized

LEMMA SizedJoin ==
  ASSUME NEW a, NEW b, Sized(a), Sized(b)
  PROVE  Sized(Cat(a, b))
<1>1. PICK S : a \in Seq(S) /\ b \in Seq(S)
  BY ListsShare DEF Sized
<1>2. PICK t : t = a \o b
  OBVIOUS
<1>3. /\ t \in Seq(S) /\ Len(t) = Len(a) + Len(b)
      /\ \A i \in 1..Len(t) : t[i] = IF i <= Len(a) THEN a[i] ELSE b[i - Len(a)]
      /\ Len(a) \in Nat /\ Len(b) \in Nat
  BY <1>1, <1>2, ConcatProperties
<1>4. ASSUME NEW i \in DOMAIN t
      PROVE  t[i].value.size \in Nat
  <2>1. i \in 1..Len(a) + Len(b)
    BY <1>3
  <2>2. CASE i <= Len(a)
    <3>1. i \in DOMAIN a /\ t[i] = a[i]
      BY <1>1, <1>3, <2>1, <2>2
    <3> QED BY <3>1 DEF Sized
  <2>3. CASE ~ (i <= Len(a))
    <3>1. i - Len(a) \in DOMAIN b /\ t[i] = b[i - Len(a)]
      BY <1>1, <1>3, <2>1, <2>3
    <3> QED BY <3>1 DEF Sized
  <2> QED BY <2>2, <2>3
<1> QED BY <1>2, <1>3, <1>4 DEF Sized, List, Cat

\* What is left of chunks and a tail after the first k chunks.
TailsOf(suf, n, chunks, tail) ==
  /\ suf[n] = tail
  /\ \A k \in 1..n : suf[k - 1] = Cat(chunks[k], suf[k])
  /\ \A k \in 0..n : List(suf[k])

LEMMA TailsThere ==
  ASSUME NEW n \in Nat, NEW chunks, \A k \in 1..n : List(chunks[k]), NEW tail, List(tail)
  PROVE  \E suf : TailsOf(suf, n, chunks, tail)
<1> DEFINE back == [j \in 1..n |-> n + 1 - j]
<1>1. DOMAIN back = 1..n
  OBVIOUS
<1>2. PICK f : PrependFold!Follows(f, n, chunks, tail, back)
  <2> HIDE DEF back
  <2> QED BY <1>1, PrependFold!FoldSteps
<1>3. f[0] = tail /\ \A j \in 1..n : f[j] = Cat(chunks[n + 1 - j], f[j - 1])
  BY <1>2 DEF PrependFold!Follows, Prepend
<1> DEFINE S == {k \in 0..n : List(f[k])}
<1>4. \A k \in 0..n : k \in S
  <2>1. 0 \in S
    BY <1>3
  <2>2. \A k \in 0..n : k \in S /\ k < n => k + 1 \in S
    <3> TAKE k \in 0..n
    <3> HAVE k \in S /\ k < n
    <3>1. k + 1 \in 1..n /\ (k + 1) - 1 = k /\ n + 1 - (k + 1) \in 1..n /\ k + 1 \in 0..n
      OBVIOUS
    <3>2. f[k + 1] = Cat(chunks[n + 1 - (k + 1)], f[k])
      BY <1>3, <3>1
    <3>3. List(f[k + 1])
      <4>1. List(f[k]) /\ List(chunks[n + 1 - (k + 1)])
        BY <3>1
      <4> QED BY <3>2, <4>1, ListJoin
    <3> QED BY <3>1, <3>3
  <2> HIDE DEF S
  <2> QED BY <2>1, <2>2, PrependFold!Climb
<1>5. PICK suf : suf = [k \in 0..n |-> f[n - k]]
  OBVIOUS
<1>6. suf[n] = tail
  BY <1>3, <1>5
<1>7. ASSUME NEW k \in 1..n
      PROVE  suf[k - 1] = Cat(chunks[k], suf[k])
  <2>1. PICK j \in 1..n : j = n + 1 - k
    OBVIOUS
  <2>2. n + 1 - j = k /\ j - 1 = n - k /\ k \in 0..n /\ k - 1 \in 0..n /\ n - (k - 1) = j
    BY <2>1
  <2>3. f[j] = Cat(chunks[k], f[n - k])
    BY <1>3, <2>2
  <2> QED BY <1>5, <2>2, <2>3
<1>8. \A k \in 0..n : List(suf[k])
  BY <1>4, <1>5
<1> QED BY <1>6, <1>7, <1>8 DEF TailsOf

\* The items are the chunks, one after the other.
Spells(items, n, chunks) ==
  /\ Sized(items)
  /\ \A tail : List(tail) => \E suf : TailsOf(suf, n, chunks, tail) /\ suf[0] = Cat(items, tail)

LEMMA PrefixesThere ==
  ASSUME NEW n \in Nat, NEW chunks
  PROVE  \E acc : acc[0] = Nil /\ \A k \in 1..n : acc[k] = Cat(acc[k - 1], chunks[k])
<1> DEFINE seq == [k \in 1..n |-> k]
<1>1. DOMAIN seq = 1..n
  OBVIOUS
<1>2. PICK f : AppendFold!Follows(f, n, chunks, Nil, seq)
  <2> HIDE DEF seq
  <2> QED BY <1>1, AppendFold!FoldSteps
<1>3. f[0] = Nil /\ \A k \in 1..n : f[k] = Cat(f[k - 1], chunks[k])
  BY <1>2 DEF AppendFold!Follows, AppendChunk
<1> QED BY <1>3

LEMMA JoinPasses ==
  ASSUME NEW n \in Nat, NEW results, DOMAIN results = 1..n, NEW st,
         st[0] = Wrote(Nil), \A k \in 1..n : Then(st[k - 1], results[k]) = st[k]
  PROVE  InOrder(results) = st[n]
<1>1. JoinFold!Passes(st, n, 0, results)
  BY DEF JoinFold!Passes, Join
<1>2. JoinFold!Folded(0, st[0], results) = st[n]
  BY <1>1, JoinFold!FoldPasses
<1> QED
  BY <1>2, InOrderFolds

LEMMA InOrderWrites ==
  ASSUME NEW n \in Nat, NEW chunks, NEW results, DOMAIN results = 1..n,
         \A k \in 1..n : Sized(chunks[k]) /\ results[k] = Wrote(chunks[k])
  PROVE  \E items : InOrder(results) = Wrote(items) /\ Spells(items, n, chunks)
<1>1. PICK acc : acc[0] = Nil /\ \A k \in 1..n : acc[k] = Cat(acc[k - 1], chunks[k])
  BY PrefixesThere
<1>0. acc[0] = Nil
  BY <1>1
<1>2. ASSUME NEW k \in 0..n, k < n
      PROVE  acc[k + 1] = Cat(acc[k], chunks[k + 1])
  <2>1. k + 1 \in 1..n /\ (k + 1) - 1 = k
    BY <1>2
  <2> QED BY <1>1, <2>1
<1> DEFINE S == {k \in 0..n : Sized(acc[k])}
<1>3. \A k \in 0..n : k \in S
  <2>1. 0 \in S
    BY <1>1, SizedNone
  <2>2. \A k \in 0..n : k \in S /\ k < n => k + 1 \in S
    <3> TAKE k \in 0..n
    <3> HAVE k \in S /\ k < n
    <3>1. k + 1 \in 1..n /\ k + 1 \in 0..n
      OBVIOUS
    <3>2. Sized(acc[k + 1])
      BY <1>2, <3>1, SizedJoin
    <3> QED BY <3>1, <3>2
  <2> HIDE DEF S
  <2> QED BY <2>1, <2>2, JoinFold!Climb
<1>4. InOrder(results) = Wrote(acc[n])
  <2>1. PICK st : st = [k \in 0..n |-> Wrote(acc[k])]
    OBVIOUS
  <2>2. ASSUME NEW k \in 1..n
        PROVE  Then(st[k - 1], results[k]) = st[k]
    <3>1. k \in 0..n /\ k - 1 \in 0..n
      OBVIOUS
    <3>2. st[k] = Wrote(acc[k]) /\ st[k - 1] = Wrote(acc[k - 1])
      BY <2>1, <3>1
    <3>3. acc[k] = Cat(acc[k - 1], chunks[k]) /\ results[k] = Wrote(chunks[k])
      BY <1>1
    <3> QED BY <3>2, <3>3 DEF Then, Wrote, Cat
  <2>3. st[0] = Wrote(Nil) => InOrder(results) = st[n]
    BY <2>2, JoinPasses
  <2>4. st[0] = Wrote(Nil) /\ st[n] = Wrote(acc[n])
    BY <1>1, <2>1
  <2> QED BY <2>3, <2>4
<1>5. Sized(acc[n])
  <2>1. n \in 0..n
    OBVIOUS
  <2> QED BY <1>3, <2>1
<1>6. ASSUME NEW tail, List(tail)
      PROVE  \E suf : TailsOf(suf, n, chunks, tail) /\ suf[0] = Cat(acc[n], tail)
  <2>1. PICK suf : TailsOf(suf, n, chunks, tail)
    BY <1>6, TailsThere DEF Sized
  <2> DEFINE T == {k \in 0..n : Cat(acc[k], suf[k]) = suf[0]}
  <2>2. 0 \in T
    <3>1. List(suf[0])
      BY <2>1 DEF TailsOf
    <3>2. Cat(Nil, suf[0]) = suf[0]
      BY <3>1, ListUnit
    <3> QED BY <1>0, <3>2
  <2>3. \A k \in 0..n : k \in T /\ k < n => k + 1 \in T
    <3> TAKE k \in 0..n
    <3> HAVE k \in T /\ k < n
    <3>1. k + 1 \in 1..n /\ (k + 1) - 1 = k /\ k + 1 \in 0..n
      OBVIOUS
    <3>2. suf[k] = Cat(chunks[k + 1], suf[k + 1]) /\ List(suf[k + 1])
      BY <2>1, <3>1 DEF TailsOf
    <3>3. List(acc[k]) /\ List(chunks[k + 1])
      BY <1>3, <3>1 DEF Sized
    <3>4. Cat(acc[k + 1], suf[k + 1]) = Cat(acc[k], Cat(chunks[k + 1], suf[k + 1]))
      BY <1>2, <3>2, <3>3, ListAssociative
    <3> QED BY <3>1, <3>2, <3>4
  <2>4. n \in T
    <3>1. n \in 0..n
      OBVIOUS
    <3> HIDE DEF T
    <3> QED BY <2>2, <2>3, <3>1, JoinFold!Climb
  <2>5. suf[n] = tail
    BY <2>1 DEF TailsOf
  <2> QED BY <2>1, <2>4, <2>5
<1> QED BY <1>4, <1>5, <1>6 DEF Spells

\* One result that threw is enough.
LEMMA InOrderThrows ==
  ASSUME NEW n \in Nat, NEW results, DOMAIN results = 1..n, n > 0, results[1] = Threw
  PROVE  InOrder(results) = Threw
<1>1. PICK f : JoinFold!Follows(f, n, 0, Wrote(Nil), results)
  BY JoinFold!FoldSteps
<1>2. /\ InOrder(results) = f[n]
      /\ \A k \in 1..n : f[k] = Then(f[k - 1], results[k])
  BY <1>1, InOrderFolds DEF JoinFold!Follows, Join
<1> DEFINE S == {k \in 0..n : k = 0 \/ f[k] = Threw}
<1>3. \A k \in 0..n : k \in S /\ k < n => k + 1 \in S
  <2> TAKE k \in 0..n
  <2> HAVE k \in S /\ k < n
  <2>1. k + 1 \in 1..n /\ (k + 1) - 1 = k /\ k + 1 \in 0..n
    OBVIOUS
  <2>2. f[k + 1] = Then(f[k], results[k + 1])
    BY <1>2, <2>1
  <2>3. f[k + 1] = Threw
    BY <2>2 DEF Then, Threw
  <2> QED BY <2>1, <2>3
<1>4. n \in S
  <2>1. 0 \in S /\ n \in 0..n
    OBVIOUS
  <2> HIDE DEF S
  <2> QED BY <1>3, <2>1, JoinFold!Climb
<1> QED BY <1>2, <1>4

-----------------------------------------------------------------------------
(* Reading what was written                                                *)

\* A reader that has had no trouble.
At(rest, values) == [ok |-> TRUE, rest |-> rest, values |-> values]

LEMMA AtExcept ==
  ASSUME NEW rest, NEW values, NEW new
  PROVE  [At(rest, values) EXCEPT !.values = new] = At(rest, new)
<1>1. PICK r : r = At(rest, values)
  OBVIOUS
<1>2. PICK q : q = [r EXCEPT !.values = new]
  OBVIOUS
<1>3. r.ok = TRUE /\ r.rest = rest /\ DOMAIN r = {"ok", "rest", "values"}
  BY <1>1 DEF At
<1>4. q.ok = TRUE /\ q.rest = rest /\ DOMAIN q = {"ok", "rest", "values"} /\ q.values = new
  BY <1>2, <1>3
<1>5. q = [f \in DOMAIN q |-> q[f]]
  BY <1>2
<1>6. q = At(rest, new)
  BY <1>4, <1>5 DEF At
<1> QED BY <1>1, <1>2, <1>6

LEMMA ScalarCodecs ==
  \A t \in DOMAIN ScalarWrites :
    /\ ReadWith[t] = ScalarWrites[t][2]
    /\ ScalarWrites[t][1] # "symbol"
  BY DEF ScalarWrites, ReadWith

LEMMA ListCodecs ==
  \A t \in DOMAIN ListWrites :
    /\ ReadWith[t] = ListWrites[t][2]
    /\ ListWrites[t][1] # "symbol"
  BY DEF ListWrites, ReadWith

\* What is written of a type is read with the codec it was written with.
LEMMA CodecsAgree ==
  ASSUME NEW t \in Known
  PROVE  Writes[t][2] = ReadWith[t] /\ Takes(t) # "symbol"
<1>1. Writes[t] = IF t \in DOMAIN ScalarWrites THEN ScalarWrites[t] ELSE ListWrites[t]
  BY DEF Writes, Known
<1> QED
  BY <1>1, ScalarCodecs, ListCodecs DEF Known, Takes

LEMMA CountCodec == ReadWith["UINT16"] = "U16" /\ "UINT16" \notin DOMAIN FixedSize
<1>1. ReadWith["UINT16"] = "U16"
  BY DEF ReadWith
<1> QED BY <1>1 DEF FixedSize

\* A value that a type takes, of the size it has.
Suits(t, v) == v.js = Takes(t) /\ v.size \in Nat /\ Fits(t, v)

LEMMA EncodeBasicWrites ==
  ASSUME NEW t, NEW v, Suits(t, v)
  PROVE  /\ EncodeBasic(t, v) = Wrote(<<Item(Writes[t][2], v)>>)
         /\ Sized(<<Item(Writes[t][2], v)>>)
<1>1. Item(Writes[t][2], v).value.size \in Nat
  BY DEF Suits, Item
<1> QED
  BY <1>1, SizedOne DEF EncodeBasic, Suits

LEMMA ReadItem ==
  ASSUME NEW t, NEW v, NEW codec, codec = ReadWith[t], Fits(t, v), NEW tail, List(tail), NEW values
  PROVE  ReadBasic(At(Cat(<<Item(codec, v)>>, tail), values), t) = At(tail, Append(values, v))
<1>1. PICK rest : rest = Cat(<<Item(codec, v)>>, tail)
  OBVIOUS
<1>2. Head(rest) = Item(codec, v) /\ Tail(rest) = tail /\ rest # <<>>
  BY <1>1, ListFirst
<1>3. PICK r : r = At(rest, values)
  OBVIOUS
<1>4. r.ok = TRUE /\ r.rest = rest /\ r.values = values
  BY <1>3 DEF At
<1>5. Head(rest).codec = ReadWith[t] /\ Head(rest).value = v
  BY <1>2 DEF Item
<1>6. ReadBasic(r, t) = [r EXCEPT !.rest = Tail(@), !.values = Append(@, Head(r.rest).value)]
  BY <1>2, <1>4, <1>5 DEF ReadBasic
<1>7. ReadBasic(r, t) = At(tail, Append(values, v))
  BY <1>2, <1>3, <1>4, <1>5, <1>6 DEF At
<1> QED BY <1>1, <1>3, <1>7

LEMMA FieldPasses ==
  ASSUME NEW n \in Nat, NEW ts, DOMAIN ts = 1..n, NEW st, NEW rest, NEW values,
         st[0] = At(rest, Nil), \A k \in 1..n : ReadBasic(st[k - 1], ts[k]) = st[k]
  PROVE  ReadFields(At(rest, values), ts) = st[n]
<1>1. FieldFold!Passes(st, n, 0, ts)
  BY DEF FieldFold!Passes, Field
<1>2. FieldFold!Folded(0, st[0], ts) = st[n]
  BY <1>1, FieldFold!FoldPasses
<1>3. [At(rest, values) EXCEPT !.values = Nil] = At(rest, Nil)
  BY AtExcept
<1> QED
  BY <1>2, <1>3, ReadFieldsFolds

\* A row of n fields that is written as items and read as the values vs.
Row(n, ts, vs, items) ==
  /\ Sized(items)
  /\ \A tail, values : List(tail) => ReadFields(At(Cat(items, tail), values), ts) = At(tail, vs)

LEMMA RowOfFields ==
  ASSUME NEW n \in Nat, NEW ts, DOMAIN ts = 1..n, NEW vs, vs = Prefix(vs, n),
         \A k \in 1..n : ts[k] \in Known /\ Suits(ts[k], vs[k]),
         NEW results, DOMAIN results = 1..n,
         \A k \in 1..n : results[k] = EncodeBasic(ts[k], vs[k])
  PROVE  \E items : InOrder(results) = Wrote(items) /\ Row(n, ts, vs, items)
<1>1. PICK chunks : chunks = [k \in 1..n |-> <<Item(Writes[ts[k]][2], vs[k])>>]
  OBVIOUS
<1>2. \A k \in 1..n : Sized(chunks[k]) /\ results[k] = Wrote(chunks[k])
  BY <1>1, EncodeBasicWrites
<1>3. PICK items : InOrder(results) = Wrote(items) /\ Spells(items, n, chunks)
  BY <1>2, InOrderWrites
<1>4. ASSUME NEW tail, NEW values, List(tail)
      PROVE  ReadFields(At(Cat(items, tail), values), ts) = At(tail, vs)
  <2>1. PICK suf : TailsOf(suf, n, chunks, tail) /\ suf[0] = Cat(items, tail)
    BY <1>3, <1>4 DEF Spells
  <2>2. PICK st : st = [k \in 0..n |-> At(suf[k], Prefix(vs, k))]
    OBVIOUS
  <2>3. st[0] = At(Cat(items, tail), Nil)
    BY <2>1, <2>2, PrefixNone
  <2>4. ASSUME NEW k \in 1..n
        PROVE  ReadBasic(st[k - 1], ts[k]) = st[k]
    <3>1. k \in 0..n /\ k - 1 \in 0..n /\ k - 1 \in Nat /\ (k - 1) + 1 = k
      OBVIOUS
    <3>2. /\ suf[k - 1] = Cat(<<Item(Writes[ts[k]][2], vs[k])>>, suf[k])
          /\ List(suf[k])
      BY <1>1, <2>1, <3>1 DEF TailsOf
    <3>3. Writes[ts[k]][2] = ReadWith[ts[k]] /\ Fits(ts[k], vs[k])
      BY CodecsAgree DEF Suits
    <3>4. ReadBasic(At(suf[k - 1], Prefix(vs, k - 1)), ts[k])
            = At(suf[k], Append(Prefix(vs, k - 1), vs[k]))
      BY <3>2, <3>3, ReadItem
    <3>5. Append(Prefix(vs, k - 1), vs[k]) = Prefix(vs, k)
      BY <3>1, PrefixGrows
    <3> QED BY <2>2, <3>1, <3>4, <3>5
  <2>5. ReadFields(At(Cat(items, tail), values), ts) = st[n]
    BY <2>3, <2>4, FieldPasses
  <2>6. st[n] = At(tail, vs)
    BY <2>1, <2>2 DEF TailsOf
  <2> QED BY <2>5, <2>6
<1>5. Sized(items)
  BY <1>3 DEF Spells
<1> QED BY <1>3, <1>4, <1>5 DEF Row

-----------------------------------------------------------------------------
(* The types                                                               *)

\* What is written of v by its type is read as v.
Legible(type, v, items) ==
  /\ EncodeInput(type, v) = Wrote(items)
  /\ Sized(items)
  /\ \A tail, values :
       List(tail) => ReadOne(At(Cat(items, tail), values), type) = At(tail, Append(values, v))

LEMMA PackedValue ==
  ASSUME NEW rest, NEW values, NEW js, NEW tail, NEW vs
  PROVE  Packed(At(rest, values), js, At(tail, vs))
           = At(tail, Append(values, [js |-> js, items |-> vs]))
<1>1. PICK v : v = [js |-> js, items |-> vs]
  OBVIOUS
<1>2. PICK r : r = At(rest, values)
  OBVIOUS
<1>3. PICK q : q = At(tail, vs)
  OBVIOUS
<1>4. r.values = values /\ q.ok = TRUE /\ q.values = vs
  BY <1>2, <1>3 DEF At
<1>5. Packed(r, js, q) = [q EXCEPT !.values = Append(values, v)]
  BY <1>1, <1>4 DEF Packed
<1>6. [q EXCEPT !.values = Append(values, v)] = At(tail, Append(values, v))
  BY <1>3, AtExcept
<1> QED BY <1>1, <1>2, <1>3, <1>5, <1>6

LEMMA BasicLegible ==
  ASSUME NEW t \in Known, NEW v, Suits(t, v), NEW type, type.shape = "basic", type.of = <<t>>
  PROVE  Legible(type, v, <<Item(Writes[t][2], v)>>)
<1>1. type.of[1] = t
  OBVIOUS
<1>2. EncodeInput(type, v) = EncodeBasic(t, v)
  BY <1>1 DEF EncodeInput
<1>3. \A r : ReadOne(r, type) = ReadBasic(r, t)
  BY <1>1 DEF ReadOne
<1>4. Writes[t][2] = ReadWith[t] /\ Fits(t, v)
  BY CodecsAgree DEF Suits
<1>5. ASSUME NEW tail, NEW values, List(tail)
      PROVE  ReadOne(At(Cat(<<Item(Writes[t][2], v)>>, tail), values), type)
               = At(tail, Append(values, v))
  BY <1>3, <1>4, <1>5, ReadItem
<1> QED
  BY <1>2, <1>5, EncodeBasicWrites DEF Legible

LEMMA StructLegible ==
  ASSUME NEW n \in Nat, NEW ts, DOMAIN ts = 1..n, Len(ts) = n,
         NEW vs, vs = Prefix(vs, n), Len(vs) = n,
         \A k \in 1..n : ts[k] \in Known /\ Suits(ts[k], vs[k]),
         NEW type, type.shape = "struct", type.of = ts,
         NEW v, v = [js |-> "object", items |-> vs]
  PROVE  \E items : Legible(type, v, items)
<1>1. PICK results : results = [k \in DOMAIN ts |-> EncodeBasic(ts[k], vs[k])]
  OBVIOUS
<1>2. PICK items : InOrder(results) = Wrote(items) /\ Row(n, ts, vs, items)
  BY <1>1, RowOfFields
<1>3. v.js = "object" /\ v.items = vs
  OBVIOUS
<1>4. EncodeInput(type, v) = EncodeFields(ts, vs)
  BY <1>3 DEF EncodeInput, EncodeStruct
<1>5. EncodeFields(ts, vs) = InOrder(results)
  BY <1>1 DEF EncodeFields
<1>6. ASSUME NEW tail, NEW values, List(tail)
      PROVE  ReadOne(At(Cat(items, tail), values), type) = At(tail, Append(values, v))
  <2>1. PICK r : r = At(Cat(items, tail), values)
    OBVIOUS
  <2>2. ReadFields(r, ts) = At(tail, vs)
    BY <1>2, <1>6, <2>1 DEF Row
  <2>3. ReadOne(r, type) = Packed(r, "object", ReadFields(r, ts))
    BY DEF ReadOne
  <2> QED BY <2>1, <2>2, <2>3, PackedValue
<1>7. Sized(items)
  BY <1>2 DEF Row
<1> QED BY <1>2, <1>4, <1>5, <1>6, <1>7 DEF Legible

LEMMA ThenWrites ==
  ASSUME NEW a, NEW b
  PROVE  Then(Wrote(a), Wrote(b)) = Wrote(Cat(a, b))
  BY DEF Then, Wrote, Cat

LEMMA AppendFirst == ASSUME NEW x PROVE Append(Nil, x) = <<x>> /\ <<x>>[1] = x
<1>1. Append(Nil, x) = <<x>>
  BY DEF Nil
<1> QED BY <1>1

Count(n) == [js |-> "number", size |-> 2, id |-> n]
CountItem(n) == Item("U16", Count(n))

\* The number of entries is read first, and then as many entries.
LEMMA ReadCounted ==
  ASSUME NEW rest, List(rest), NEW n, NEW values, NEW ts,
         NEW r, r = At(Cat(<<CountItem(n)>>, rest), values)
  PROVE  ReadTuple(r, ts) =
           Packed(r, "array",
                  IF Len(ts) = 1 THEN ReadFields(At(rest, Nil), Same(n, ts[1]))
                  ELSE EntryFold!Folded(ts, At(rest, Nil), Upto(n)))
<1>1. r = At(Cat(<<CountItem(n)>>, rest), values)
  OBVIOUS
<1>2. [r EXCEPT !.values = Nil] = At(Cat(<<CountItem(n)>>, rest), Nil)
  BY <1>1, AtExcept
<1>3. Fits("UINT16", Count(n)) /\ ReadWith["UINT16"] = "U16"
  BY CountCodec DEF Fits
<1>4. ReadBasic(At(Cat(<<CountItem(n)>>, rest), Nil), "UINT16")
        = At(rest, Append(Nil, Count(n)))
  <2>1. PICK t, codec : t = "UINT16" /\ codec = "U16"
    OBVIOUS
  <2>2. codec = ReadWith[t] /\ Fits(t, Count(n)) /\ CountItem(n) = Item(codec, Count(n))
    BY <1>3, <2>1 DEF CountItem
  <2>3. ReadBasic(At(Cat(<<Item(codec, Count(n))>>, rest), Nil), t)
          = At(rest, Append(Nil, Count(n)))
    BY <2>2, ReadItem
  <2> QED BY <2>1, <2>2, <2>3
<1>5. PICK counted : counted = At(rest, <<Count(n)>>)
  OBVIOUS
<1>6. ReadBasic([r EXCEPT !.values = Nil], "UINT16") = counted
  BY <1>2, <1>4, <1>5, AppendFirst
<1>7. counted.ok = TRUE /\ counted.values[1].id = n
  <2>1. counted.ok = TRUE /\ counted.values = <<Count(n)>>
    BY <1>5 DEF At
  <2>2. PICK first : first = Count(n)
    OBVIOUS
  <2>3. counted.values[1] = first
    BY <2>1, <2>2
  <2>4. first.id = n
    BY <2>2 DEF Count
  <2> QED BY <2>1, <2>3, <2>4
<1>8. [counted EXCEPT !.values = Nil] = At(rest, Nil)
  BY <1>5, AtExcept
<1>9. ReadTuple(r, ts) =
        IF ~counted.ok THEN Garbled
        ELSE Packed(r, "array",
                    IF Len(ts) = 1
                    THEN ReadFields([counted EXCEPT !.values = Nil],
                                    Same(counted.values[1].id, ts[1]))
                    ELSE EntryFold!Folded(ts, [counted EXCEPT !.values = Nil],
                                          Upto(counted.values[1].id)))
  BY <1>6, ReadTupleFolds
<1>10. ReadTuple(r, ts) =
         Packed(r, "array",
                IF Len(ts) = 1 THEN ReadFields(At(rest, Nil), Same(n, ts[1]))
                ELSE EntryFold!Folded(ts, At(rest, Nil), Upto(n)))
  BY <1>7, <1>8, <1>9
<1> QED BY <1>10

LEMMA ReadFlat ==
  ASSUME NEW rest, List(rest), NEW n, NEW values, NEW ts, Len(ts) = 1,
         NEW r, r = At(Cat(<<CountItem(n)>>, rest), values)
  PROVE  ReadTuple(r, ts) = Packed(r, "array", ReadFields(At(rest, Nil), Same(n, ts[1])))
  BY ReadCounted

LEMMA ReadEntries ==
  ASSUME NEW rest, List(rest), NEW n, NEW values, NEW ts, Len(ts) # 1,
         NEW r, r = At(Cat(<<CountItem(n)>>, rest), values)
  PROVE  ReadTuple(r, ts) = Packed(r, "array", EntryFold!Folded(ts, At(rest, Nil), Upto(n)))
  BY ReadCounted

LEMMA ArrayLegible ==
  ASSUME NEW t \in Known, NEW n \in Nat, NEW vs, vs = Prefix(vs, n), Len(vs) = n,
         \A k \in 1..n : Suits(t, vs[k]),
         NEW type, type.shape = "tuple", type.of = <<t>>,
         NEW v, v = [js |-> "array", items |-> vs]
  PROVE  \E items : Legible(type, v, items)
<1>1. PICK ts : ts = [k \in 1..n |-> t]
  OBVIOUS
<1>2. PICK results : results = [k \in DOMAIN vs |-> EncodeBasic(t, vs[k])]
  OBVIOUS
<1>3. DOMAIN vs = 1..n
  BY DEF Prefix
<1>4. DOMAIN ts = 1..n /\ DOMAIN results = 1..n
      /\ \A k \in 1..n : ts[k] = t /\ results[k] = EncodeBasic(ts[k], vs[k])
  BY <1>1, <1>2, <1>3
<1>5. PICK row : InOrder(results) = Wrote(row) /\ Row(n, ts, vs, row)
  BY <1>4, RowOfFields
<1>6. v.js = "array" /\ v.items = vs /\ type.of[1] = t /\ Len(type.of) = 1
  OBVIOUS
<1> DEFINE items == Cat(<<CountItem(n)>>, row)
<1>7. EncodeInput(type, v) = Wrote(items)
  <2>1. EncodeInput(type, v) = EncodeArray(t, v)
    BY <1>6 DEF EncodeInput
  <2>2. EncodeArray(t, v) = Counted(v, results)
    BY <1>2, <1>6 DEF EncodeArray
  <2>3. Counted(v, results) = Then(Wrote(<<CountItem(n)>>), InOrder(results))
    BY <1>6 DEF Counted, CountItem, Count
  <2> QED BY <1>5, <2>1, <2>2, <2>3, ThenWrites
<1>8. Sized(items)
  <2>1. CountItem(n).value.size \in Nat
    BY DEF CountItem, Item, Count
  <2> QED BY <1>5, <2>1, SizedOne, SizedJoin DEF Row
<1>9. ASSUME NEW tail, NEW values, List(tail)
      PROVE  ReadOne(At(Cat(items, tail), values), type) = At(tail, Append(values, v))
  <2>1. Cat(items, tail) = Cat(<<CountItem(n)>>, Cat(row, tail)) /\ List(Cat(row, tail))
    BY <1>5, <1>9, ListAssociative, ListOfOne, ListJoin DEF Row, Sized
  <2>2. PICK r : r = At(Cat(items, tail), values)
    OBVIOUS
  <2> HIDE DEF items
  <2>3. ReadOne(r, type) = ReadTuple(r, type.of)
    BY DEF ReadOne
  <2>4. ReadTuple(r, type.of) = Packed(r, "array", ReadFields(At(Cat(row, tail), Nil), ts))
    <3>1. r = At(Cat(<<CountItem(n)>>, Cat(row, tail)), values)
      BY <2>1, <2>2
    <3>2. Same(n, type.of[1]) = ts
      BY <1>1, <1>6 DEF Same
    <3> QED BY <1>6, <2>1, <3>1, <3>2, ReadFlat
  <2>5. ReadFields(At(Cat(row, tail), Nil), ts) = At(tail, vs)
    BY <1>5, <1>9 DEF Row
  <2> QED BY <2>2, <2>3, <2>4, <2>5, PackedValue
<1> QED BY <1>7, <1>8, <1>9 DEF Legible

LEMMA OneOnly ==
  ASSUME NEW items, NEW results, DOMAIN results = 1..1, Sized(items), results[1] = Wrote(items)
  PROVE  InOrder(results) = Wrote(items)
<1>1. PICK chunks : chunks = [k \in 1..1 |-> items]
  OBVIOUS
<1>2. \A k \in 1..1 : Sized(chunks[k]) /\ results[k] = Wrote(chunks[k])
  BY <1>1
<1>3. PICK all : InOrder(results) = Wrote(all) /\ Spells(all, 1, chunks)
  BY <1>2, InOrderWrites
<1>4. PICK suf : TailsOf(suf, 1, chunks, Nil) /\ suf[0] = Cat(all, Nil)
  BY <1>3, ListOfNone DEF Spells
<1>5. suf[1] = Nil /\ suf[0] = Cat(chunks[1], suf[1])
  <2>1. 1 \in 1..1 /\ 1 - 1 = 0
    OBVIOUS
  <2> QED BY <1>4, <2>1 DEF TailsOf
<1>6. Cat(all, Nil) = Cat(items, Nil)
  BY <1>1, <1>4, <1>5
<1> QED BY <1>3, <1>6, ListUnit DEF Spells, Sized

LEMMA EntryFoldPasses ==
  ASSUME NEW n \in Nat, NEW ts, NEW st, \A k \in 1..n : Entry(ts, st[k - 1], k) = st[k]
  PROVE  EntryFold!Folded(ts, st[0], Upto(n)) = st[n]
<1>1. DOMAIN Upto(n) = 1..n /\ \A k \in 1..n : Upto(n)[k] = k
  BY DEF Upto
<1>2. EntryFold!Passes(st, n, ts, Upto(n))
  BY <1>1 DEF EntryFold!Passes
<1> QED BY <1>1, <1>2, EntryFold!FoldPasses

LEMMA EntryPasses ==
  ASSUME NEW ts, NEW rest, NEW tail, NEW vs, ReadFields(At(rest, Nil), ts) = At(tail, vs),
         NEW w, w = [js |-> "array", items |-> vs]
  PROVE  EntryFold!Folded(ts, At(rest, Nil), Upto(1)) = At(tail, <<w>>)
<1>1. PICK last : last = At(tail, <<w>>)
  OBVIOUS
<1>2. PICK first : first = At(rest, Nil)
  OBVIOUS
<1>3. PICK st : st = [k \in 0..1 |-> IF k = 0 THEN first ELSE last]
  OBVIOUS
<1>4. st[0] = first /\ st[1] = last
  BY <1>3
<1>5. \A i : Entry(ts, first, i) = last
  <2>1. Packed(At(rest, Nil), "array", At(tail, vs)) = At(tail, Append(Nil, w))
    BY PackedValue
  <2> QED BY <1>1, <1>2, <2>1, AppendFirst DEF Entry
<1>6. PICK one \in Nat : one = 1
  OBVIOUS
<1>7. \A k \in 1..one : Entry(ts, st[k - 1], k) = st[k]
  <2>1. \A k \in 1..one : k = 1 /\ k - 1 = 0
    BY <1>6
  <2> QED BY <1>4, <1>5, <2>1
<1>8. EntryFold!Folded(ts, st[0], Upto(one)) = st[one]
  BY <1>7, EntryFoldPasses
<1> QED BY <1>1, <1>2, <1>4, <1>6, <1>8

LEMMA TupleLegible ==
  ASSUME NEW n \in Nat, n # 1, NEW ts, DOMAIN ts = 1..n, Len(ts) = n,
         NEW vs, vs = Prefix(vs, n), Len(vs) = n,
         \A k \in 1..n : ts[k] \in Known /\ Suits(ts[k], vs[k]),
         NEW type, type.shape = "tuple", type.of = ts,
         NEW w, w = [js |-> "array", items |-> vs],
         NEW v, v = [js |-> "array", items |-> <<w>>]
  PROVE  \E items : Legible(type, v, items)
<1>0. PICK one : one = 1
  OBVIOUS
<1>1. PICK fields : fields = [k \in DOMAIN ts |-> EncodeBasic(ts[k], vs[k])]
  OBVIOUS
<1>2. PICK row : InOrder(fields) = Wrote(row) /\ Row(n, ts, vs, row)
  BY <1>1, RowOfFields
<1>3. v.js = "array" /\ v.items = <<w>> /\ w.js = "array" /\ w.items = vs
  OBVIOUS
<1>4. DOMAIN v.items = 1..1 /\ v.items[1] = w /\ Len(v.items) = 1
  BY <1>3
<1>5. EncodeFields(ts, vs) = Wrote(row)
  BY <1>1, <1>2 DEF EncodeFields
<1>6. PICK results :
        results = [i \in DOMAIN v.items |->
                     IF v.items[i].js = "array" THEN EncodeFields(ts, v.items[i].items)
                     ELSE Threw]
  OBVIOUS
<1>7. DOMAIN results = 1..1 /\ results[1] = Wrote(row)
  BY <1>3, <1>4, <1>5, <1>6
<1>8. InOrder(results) = Wrote(row)
  BY <1>2, <1>7, OneOnly DEF Row
<1> DEFINE items == Cat(<<CountItem(one)>>, row)
<1>9. EncodeInput(type, v) = Wrote(items)
  <2>1. EncodeInput(type, v) = EncodeTuple(ts, v)
    BY DEF EncodeInput
  <2>2. EncodeTuple(ts, v) = Counted(v, results)
    BY <1>3, <1>6 DEF EncodeTuple
  <2>3. Counted(v, results) = Then(Wrote(<<CountItem(one)>>), InOrder(results))
    BY <1>0, <1>4 DEF Counted, CountItem, Count
  <2> QED BY <1>8, <2>1, <2>2, <2>3, ThenWrites
<1>10. Sized(items)
  <2>1. CountItem(one).value.size \in Nat
    BY DEF CountItem, Item, Count
  <2> QED BY <1>2, <2>1, SizedOne, SizedJoin DEF Row
<1>11. ASSUME NEW tail, NEW values, List(tail)
       PROVE  ReadOne(At(Cat(items, tail), values), type) = At(tail, Append(values, v))
  <2>1. Cat(items, tail) = Cat(<<CountItem(one)>>, Cat(row, tail)) /\ List(Cat(row, tail))
    BY <1>2, <1>11, ListAssociative, ListOfOne, ListJoin DEF Row, Sized
  <2>2. PICK r : r = At(Cat(items, tail), values)
    OBVIOUS
  <2> HIDE DEF items
  <2>3. ReadOne(r, type) = ReadTuple(r, ts)
    BY DEF ReadOne
  <2>4. ReadTuple(r, ts)
          = Packed(r, "array", EntryFold!Folded(ts, At(Cat(row, tail), Nil), Upto(one)))
    <3>1. r = At(Cat(<<CountItem(one)>>, Cat(row, tail)), values)
      BY <2>1, <2>2
    <3>2. Len(ts) # 1
      OBVIOUS
    <3>3. List(Cat(row, tail))
      BY <2>1
    <3> QED BY <3>1, <3>2, <3>3, ReadEntries
  <2>5. ReadFields(At(Cat(row, tail), Nil), ts) = At(tail, vs)
    BY <1>2, <1>11 DEF Row
  <2>6. EntryFold!Folded(ts, At(Cat(row, tail), Nil), Upto(one)) = At(tail, <<w>>)
    BY <1>0, <2>5, EntryPasses
  <2> QED BY <2>2, <2>3, <2>4, <2>6, PackedValue
<1> QED BY <1>9, <1>10, <1>11 DEF Legible
====
