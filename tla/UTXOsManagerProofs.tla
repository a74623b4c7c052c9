------------------------- MODULE UTXOsManagerProofs -------------------------
(***************************************************************************)
(* The coin bookkeeping, for any number of coins, of sends and of reads,   *)
(* any limit on chains and any times: what each address's data and each    *)
(* call in progress keep; and, for a wallet that sends one at a time, that *)
(* its transactions do not conflict.                                       *)
(***************************************************************************)
EXTENDS UTXOsManager, WellFoundedInduction, TLAPS

-----------------------------------------------------------------------------
(* Depths                                                                  *)

LEMMA LeastNatural ==
  ASSUME NEW S, S \subseteq Nat, S # {}
  PROVE  \E x \in S : \A y \in S : x <= y
<1>1. IsWellFoundedOn(OpToRel(<, Nat), Nat)
  BY NatLessThanWellFounded
<1>2. \E x \in S : \A y \in S : ~ (<<y, x>> \in OpToRel(<, Nat))
  BY <1>1, WFMin
<1>3. \A x, y \in Nat : x < y => <<x, y>> \in OpToRel(<, Nat)
  BY DEF OpToRel
<1>4. PICK x \in S : \A y \in S : ~ (<<y, x>> \in OpToRel(<, Nat))
  BY <1>2
<1>5. ASSUME NEW y \in S
      PROVE  x <= y
  <2>1. x \in Nat /\ y \in Nat
    OBVIOUS
  <2>2. ~ (y < x)
    BY <1>3, <1>4, <2>1, Zenon
  <2> QED BY <2>1, <2>2
<1> QED
  BY <1>5

LEMMA MaxIsGreatest ==
  ASSUME NEW b \in Nat, NEW S, S \subseteq 0..b, S # {}
  PROVE  Max(S) \in S /\ \A y \in S : Max(S) >= y
<1> DEFINE below == {b - x : x \in S}
<1>1. \A x \in S : x \in Nat /\ b - x \in Nat
  OBVIOUS
<1>2. below \subseteq Nat /\ below # {}
  BY <1>1
<1>3. PICK z \in below : \A y \in below : z <= y
  <2> HIDE DEF below
  <2> QED BY <1>2, LeastNatural
<1>4. PICK m \in S : z = b - m
  BY <1>3
<1>5. ASSUME NEW y \in S
      PROVE  m >= y
  <2>1. b - y \in below
    OBVIOUS
  <2>2. b - m <= b - y
    <3> HIDE DEF below
    <3> QED BY <1>3, <1>4, <2>1
  <2>3. m \in Nat /\ y \in Nat
    BY <1>1
  <2> HIDE DEF below
  <2> QED BY <2>2, <2>3
<1> QED
  BY <1>5 DEF Max

LEMMA ParentDepthTyped ==
  ASSUME NEW D \in AddressData, NEW spent \in SUBSET Coin
  PROVE  ParentDepth(D, spent) \in 0..Limit
<1>1. {D.depth[i] : i \in spent} \cup {0} \subseteq 0..Limit
  BY TimeAssumption DEF AddressData
<1>2. {D.depth[i] : i \in spent} \cup {0} # {} /\ Limit \in Nat
  BY TimeAssumption
<1>3. Max({D.depth[i] : i \in spent} \cup {0}) \in {D.depth[i] : i \in spent} \cup {0}
  BY <1>1, <1>2, MaxIsGreatest
<1> QED
  BY <1>1, <1>3 DEF ParentDepth

-----------------------------------------------------------------------------
(* One AddressData                                                         *)

\* DepthOfEachPending and CacheNotOlderThanStamp of one address.  Batch reads
\* note a time at which the node has been asked already.
DepthsAgree(D) == \A i \in Coin : i \in D.pending <=> D.depth[i] > 0
Stamped(D) == ReadersBatch \/ D.fetched = NoAnswer \/ D.lastFetch <= D.fetched.asOf

Sound(D) == D \in AddressData /\ DepthsAgree(D) /\ Stamped(D)

LEMMA NoAnswerTyped == NoAnswer \in Answer
  BY TimeAssumption DEF NoAnswer, Answer

LEMMA NoDepthTyped == NoDepth \in [Coin -> 0..Limit] /\ \A i \in Coin : NoDepth[i] = 0
  BY TimeAssumption DEF NoDepth

LEMMA NoDataSound == Sound(NoData)
<1>1. /\ NoData.made = FALSE /\ NoData.spent = {} /\ NoData.pending = {}
      /\ NoData.depth = NoDepth /\ NoData.fetched = NoAnswer
      /\ NoData.lastCleanup = 0 /\ NoData.lastFetch = 0
  BY DEF NoData
<1>2. NoData \in AddressData
  BY NoAnswerTyped, NoDepthTyped, TimeAssumption DEF NoData, AddressData
<1>3. DepthsAgree(NoData)
  BY <1>1, NoDepthTyped DEF DepthsAgree
<1> QED
  BY <1>1, <1>2, <1>3 DEF Sound, Stamped

LEMMA GetSound ==
  ASSUME now \in 1..MaxTime, NEW k \in Key, Sound(data[k])
  PROVE  Sound(GetAddressData(k)) /\ GetAddressData(k).made = TRUE
<1>1. CASE data[k].made
  <2>1. data[k].made = TRUE
    BY <1>1 DEF Sound, AddressData
  <2> QED BY <1>1, <2>1 DEF GetAddressData
<1>2. CASE ~data[k].made
  <2>1. PICK D : D = [NoData EXCEPT !.made = TRUE, !.lastCleanup = now]
    OBVIOUS
  <2>2. D \in AddressData
    <3>1. NoData \in AddressData
      BY NoDataSound DEF Sound
    <3>2. now \in 0..MaxTime
      BY TimeAssumption
    <3> QED BY <2>1, <3>1, <3>2 DEF AddressData
  <2>3. /\ D.pending = NoData.pending /\ D.depth = NoData.depth /\ D.made = TRUE
        /\ D.fetched = NoData.fetched /\ D.lastFetch = NoData.lastFetch
    BY <2>1 DEF NoData
  <2>4. Sound(D)
    <3>1. DepthsAgree(D)
      BY <2>3, NoDataSound DEF Sound, DepthsAgree
    <3>2. Stamped(D)
      BY <2>3, NoDataSound DEF Sound, Stamped
    <3> QED BY <2>2, <3>1, <3>2 DEF Sound
  <2> QED BY <1>2, <2>1, <2>3, <2>4 DEF GetAddressData
<1> QED
  BY <1>1, <1>2

LEMMA CleanSound ==
  ASSUME now \in 1..MaxTime, NEW D, Sound(D)
  PROVE  /\ Sound(Clean(D)) /\ Clean(D).spent = {} /\ Clean(D).pending = {}
         /\ Clean(D).fetched = NoAnswer /\ Clean(D).made = D.made
<1>1. PICK C : C = Clean(D)
  OBVIOUS
<1>2. C \in AddressData
  <2>1. D \in AddressData
    BY DEF Sound
  <2>2. now \in 0..MaxTime /\ 0 \in 0..MaxTime
    BY TimeAssumption
  <2>3. NoDepth \in [Coin -> 0..Limit] /\ NoAnswer \in Answer
    BY NoDepthTyped, NoAnswerTyped
  <2> QED BY <1>1, <2>1, <2>2, <2>3 DEF Clean, AddressData
<1>3. /\ C.pending = {} /\ C.spent = {} /\ C.depth = NoDepth /\ C.fetched = NoAnswer
      /\ C.made = D.made
  BY <1>1 DEF Clean, Sound, AddressData
<1>4. DepthsAgree(C)
  <2>1. \A i \in Coin : C.depth[i] = 0 /\ i \notin C.pending
    BY <1>3, NoDepthTyped
  <2> QED BY <2>1 DEF DepthsAgree
<1> QED
  BY <1>1, <1>2, <1>3, <1>4 DEF Sound, Stamped

LEMMA SyncSound ==
  ASSUME NEW D, Sound(D)
  PROVE  /\ Sound(Sync(D)) /\ Sync(D).pending \subseteq D.pending
         /\ Sync(D).spent = D.spent /\ Sync(D).fetched = D.fetched /\ Sync(D).made = D.made
<1>1. PICK gone : gone = D.pending \cap (D.fetched.confirmed \cup D.fetched.spent)
  OBVIOUS
<1>2. PICK depth : depth = [i \in Coin |-> IF i \in gone THEN 0 ELSE D.depth[i]]
  OBVIOUS
<1>3. D \in AddressData
  BY DEF Sound
<1>4. depth \in [Coin -> 0..Limit]
  BY <1>2, <1>3, TimeAssumption DEF AddressData
<1>5. PICK S : S = [D EXCEPT !.pending = @ \ gone, !.depth = depth]
  OBVIOUS
<1>6. S = Sync(D)
  BY <1>1, <1>2, <1>5 DEF Sync
<1>7. S \in AddressData
  BY <1>3, <1>4, <1>5 DEF AddressData
<1>8. /\ S.pending = D.pending \ gone /\ S.depth = depth /\ S.fetched = D.fetched
      /\ S.lastFetch = D.lastFetch /\ S.spent = D.spent /\ S.made = D.made
  BY <1>3, <1>5 DEF AddressData
<1>9. DepthsAgree(S)
  BY <1>2, <1>8 DEF Sound, DepthsAgree
<1>10. Sound(S)
  BY <1>7, <1>8, <1>9 DEF Sound, Stamped
<1> QED
  BY <1>6, <1>8, <1>10

MaySpend(D, spent, new) ==
  Sound(D) /\ spent \in SUBSET Coin /\ new \in SUBSET Coin

LEMMA SpentSound ==
  ASSUME NEW D, NEW spent, NEW new, MaySpend(D, spent, new),
         NEW E, E = SpentUTXO(D, spent, new)
  PROVE  /\ Sound(E) /\ E.fetched = D.fetched /\ E.made = D.made
         /\ E.spent = D.spent \cup spent /\ E.pending \subseteq D.pending \cup new
<1>1. PICK made : made = IF TooLong(D, spent) THEN {} ELSE new
  OBVIOUS
<1>2. PICK p : p = ParentDepth(D, spent)
  OBVIOUS
<1>3. PICK depth : depth = [i \in Coin |-> IF i \in made THEN p + 1
                                           ELSE IF i \in spent THEN 0 ELSE D.depth[i]]
  OBVIOUS
<1>4. Sound(D) /\ D \in AddressData /\ spent \in SUBSET Coin /\ new \in SUBSET Coin
  BY DEF MaySpend, Sound
<1>5. p \in 0..Limit /\ (made # {} => p + 1 <= Limit)
  BY <1>1, <1>2, <1>4, ParentDepthTyped, TimeAssumption DEF TooLong
<1>6. depth \in [Coin -> 0..Limit]
  BY <1>3, <1>4, <1>5, TimeAssumption DEF AddressData
<1>7. PICK S : S = [D EXCEPT !.spent = @ \cup spent, !.pending = (@ \ spent) \cup made,
                            !.depth = depth]
  OBVIOUS
<1>8. S = E
  BY <1>1, <1>2, <1>3, <1>7 DEF SpentUTXO
<1>9. made \in SUBSET Coin /\ made \subseteq new
  BY <1>1, <1>4
<1>10. S \in AddressData
  BY <1>4, <1>6, <1>7, <1>9 DEF AddressData
<1>11. /\ S.pending = (D.pending \ spent) \cup made /\ S.depth = depth
       /\ S.fetched = D.fetched /\ S.lastFetch = D.lastFetch /\ S.made = D.made
       /\ S.spent = D.spent \cup spent
  BY <1>4, <1>7 DEF AddressData
<1>12. DepthsAgree(S)
  BY <1>3, <1>4, <1>5, <1>11, TimeAssumption DEF Sound, DepthsAgree, AddressData
<1>13. Sound(S)
  BY <1>4, <1>10, <1>11, <1>12 DEF Sound, Stamped
<1> QED
  BY <1>8, <1>9, <1>11, <1>13

LEMMA FilledSound ==
  ASSUME NEW D, Sound(D), NEW a \in Answer, NEW t \in 0..MaxTime, ReadersBatch \/ t <= a.asOf
  PROVE  /\ Sound([D EXCEPT !.fetched = a, !.lastFetch = t])
         /\ [D EXCEPT !.fetched = a, !.lastFetch = t].made = D.made
<1>1. PICK E : E = [D EXCEPT !.fetched = a, !.lastFetch = t]
  OBVIOUS
<1>2. D \in AddressData
  BY DEF Sound
<1>3. E \in AddressData
  BY <1>1, <1>2 DEF AddressData
<1>4. /\ E.pending = D.pending /\ E.depth = D.depth /\ E.made = D.made
      /\ E.fetched = a /\ E.lastFetch = t
  BY <1>1, <1>2 DEF AddressData
<1>5. DepthsAgree(E)
  BY <1>4 DEF Sound, DepthsAgree
<1>6. Stamped(E)
  BY <1>4 DEF Stamped
<1> QED
  BY <1>1, <1>3, <1>4, <1>5, <1>6 DEF Sound

-----------------------------------------------------------------------------
(* The calls                                                               *)

\* A call has asked the node no later than now, and what it was answered is no
\* older than its asking.
Timely(r, t) ==
  /\ r.started <= t
  /\ r.pc = "answered" => r.started <= r.answer.asOf

CallsOK(cs, t) == cs \in [Call -> CallState] /\ \A c \in Call : Timely(cs[c], t)
DataOK(D) == D \in [Key -> AddressData] /\ \A k \in Key : Sound(D[k])
PastOK(p) == p \in [forgotten : BOOLEAN, outdated : BOOLEAN, overtaken : BOOLEAN]
CoinsOK(coins) == coins \in [Coin -> CoinState]

\* TypeOK, and what makes it and the stamps of the cache inductive.
IInv ==
  /\ now \in 1..MaxTime
  /\ DataOK(data) /\ CallsOK(call, now)
  /\ CoinsOK(chain) /\ CoinsOK(index)
  /\ PastOK(past)

LEMMA IdleTyped == IdleCall \in CallState /\ \A t \in Nat : Timely(IdleCall, t)
<1>1. IdleCall \in CallState
  BY NoAnswerTyped, TimeAssumption DEF IdleCall, CallState, Key
<1>2. IdleCall.pc = "idle" /\ IdleCall.started = 0
  BY DEF IdleCall
<1> QED
  BY <1>1, <1>2 DEF Timely

LEMMA OneCall ==
  ASSUME NEW cs, NEW t, CallsOK(cs, t), NEW c \in Call, NEW r \in CallState, Timely(r, t)
  PROVE  CallsOK([cs EXCEPT ![c] = r], t)
BY DEF CallsOK

LEMMA OneData ==
  ASSUME NEW D, DataOK(D), NEW k \in Key, NEW E, Sound(E)
  PROVE  DataOK([D EXCEPT ![k] = E])
BY DEF DataOK, Sound

LEMMA OrphanedOK ==
  ASSUME now \in 1..MaxTime, DataOK(data), NEW cs, CallsOK(cs, now)
  PROVE  CallsOK(Orphaned(cs), now)
<1>1. ASSUME NEW c \in Call
      PROVE  Orphaned(cs)[c] \in CallState /\ Timely(Orphaned(cs)[c], now)
  <2>1. cs[c] \in CallState /\ Timely(cs[c], now) /\ cs[c].key \in Key
    BY DEF CallsOK, CallState
  <2>2. PICK D : D = GetAddressData(cs[c].key)
    OBVIOUS
  <2>3. D \in AddressData
    BY <2>1, <2>2, GetSound DEF DataOK, Sound
  <2>4. PICK o : o = {[spent |-> D.spent, pending |-> D.pending]}
    OBVIOUS
  <2>5. o \in SUBSET [spent : SUBSET Coin, pending : SUBSET Coin]
    BY <2>3, <2>4 DEF AddressData
  <2>6. PICK r : r = [cs[c] EXCEPT !.own = o]
    OBVIOUS
  <2>7. r \in CallState
    BY <2>1, <2>5, <2>6 DEF CallState
  <2>8. r.pc = cs[c].pc /\ r.started = cs[c].started /\ r.answer = cs[c].answer
    BY <2>1, <2>6 DEF CallState
  <2>9. Timely(r, now)
    BY <2>1, <2>8 DEF Timely
  <2>10. Orphaned(cs)[c] \in {r, cs[c]}
    BY <2>2, <2>4, <2>6 DEF Orphaned
  <2> QED BY <2>1, <2>7, <2>9, <2>10
<1>2. Orphaned(cs) = [c \in Call |-> Orphaned(cs)[c]]
  BY DEF Orphaned
<1> QED
  BY <1>1, <1>2 DEF CallsOK

LEMMA CleanAllOK ==
  ASSUME IInv, NEW cs, CallsOK(cs, now), CleanAll(cs)
  PROVE  DataOK(data') /\ CallsOK(call', now) /\ PastOK(past')
<1>1. DataOK(data')
  BY NoDataSound DEF CleanAll, DataOK, Sound
<1>2. CallsOK(call', now)
  BY OrphanedOK DEF CleanAll, IInv
<1>3. PastOK(past')
  BY DEF CleanAll, IInv, PastOK
<1> QED
  BY <1>1, <1>2, <1>3

LEMMA OfferTyped ==
  ASSUME NEW s \in SUBSET Coin, NEW p \in SUBSET Coin, NEW a \in Answer, NEW m
  PROVE  Offer(s, p, a, m) \in SUBSET Coin
BY DEF Offer, Answer

LEMMA AskOK ==
  ASSUME IInv, NEW c \in Call, NEW k \in Key, NEW r \in CallState, Timely(r, now),
         Ask(c, k, r)
  PROVE  DataOK(data') /\ CallsOK(call', now) /\ PastOK(past')
<1>1. PICK old : old = GetAddressData(k)
  OBVIOUS
<1>2. PICK purged : purged = (now - old.lastCleanup > AutoPurgeAfter)
  OBVIOUS
<1>3. PICK D : D = IF purged THEN Clean(old) ELSE old
  OBVIOUS
<1>4. Sound(old)
  BY <1>1, GetSound DEF IInv, DataOK
<1>5. Sound(D)
  BY <1>3, <1>4, CleanSound DEF IInv
<1>6. DataOK(data')
  <2>1. data' = [data EXCEPT ![k] = D]
    BY <1>1, <1>2, <1>3 DEF Ask
  <2> QED BY <1>5, <2>1, OneData DEF IInv
<1>7. PastOK(past')
  BY DEF Ask, IInv, PastOK
<1>8. PICK o : o = Offer(D.spent, D.pending, D.fetched, Merges(k))
  OBVIOUS
<1>9. o \in SUBSET Coin
  BY <1>5, <1>8, OfferTyped DEF Sound, AddressData
<1>10. PICK go : go = [r EXCEPT !.pc = "selecting", !.key = k, !.offered = o]
  OBVIOUS
<1>11. PICK ask : ask = [r EXCEPT !.pc = "asked", !.key = k, !.started = now]
  OBVIOUS
<1>12. go \in CallState /\ Timely(go, now)
  <2>1. go \in CallState
    BY <1>9, <1>10 DEF CallState
  <2>2. go.pc = "selecting" /\ go.started = r.started
    BY <1>10 DEF CallState
  <2> QED BY <2>1, <2>2 DEF Timely
<1>13. ask \in CallState /\ Timely(ask, now)
  <2>1. now \in 0..MaxTime
    BY TimeAssumption DEF IInv
  <2>2. ask \in CallState
    BY <1>11, <2>1 DEF CallState
  <2>3. ask.pc = "asked" /\ ask.started = now
    BY <1>11 DEF CallState
  <2> QED BY <2>1, <2>2, <2>3 DEF Timely, IInv
<1>14. \E v \in {IdleCall, go, ask} : call' = [call EXCEPT ![c] = v]
  BY <1>1, <1>2, <1>3, <1>8, <1>10, <1>11 DEF Ask
<1>15. PICK v \in {IdleCall, go, ask} : call' = [call EXCEPT ![c] = v]
  BY <1>14
<1>16. v \in CallState /\ Timely(v, now)
  BY <1>12, <1>13, IdleTyped, TimeAssumption DEF IInv
<1>17. CallsOK(call', now)
  BY <1>15, <1>16, OneCall DEF IInv
<1> QED
  BY <1>6, <1>7, <1>17

-----------------------------------------------------------------------------
(* The steps                                                               *)

LEMMA InitOK == Init => IInv
<1> SUFFICES ASSUME Init PROVE IInv
  OBVIOUS
<1>1. now \in 1..MaxTime
  BY TimeAssumption DEF Init
<1>2. DataOK(data)
  BY NoDataSound DEF Init, DataOK, Sound
<1>3. CallsOK(call, now)
  BY IdleTyped, TimeAssumption DEF Init, CallsOK
<1>4. CoinsOK(chain) /\ CoinsOK(index)
  BY DEF Init, CoinsOK, CoinState
<1>5. PastOK(past)
  BY DEF Init, PastOK
<1> QED
  BY <1>1, <1>2, <1>3, <1>4, <1>5 DEF IInv

\* What is left to show of a step that only the wallet takes.
WalletOK == DataOK(data') /\ CallsOK(call', now) /\ PastOK(past')

LEMMA WalletStep ==
  ASSUME IInv, WalletOK, UNCHANGED <<now, chain, index>>
  PROVE  IInv'
BY DEF IInv, WalletOK, CallsOK, DataOK, PastOK, CoinsOK, Timely, Sound, Stamped, DepthsAgree

LEMMA StartOK ==
  ASSUME IInv, NEW c \in Call, NEW want \in 1..MaxWant, Start(c, want)
  PROVE  WalletOK
<1>1. PICK r : r = [IdleCall EXCEPT !.want = want]
  OBVIOUS
<1>2. want \in 0..MaxWant
  BY TimeAssumption
<1>3. r \in CallState
  BY <1>1, <1>2, IdleTyped DEF CallState
<1>4. Timely(r, now)
  <2>1. r.pc = "idle" /\ r.started = 0
    BY <1>1 DEF IdleCall
  <2> QED BY <2>1 DEF Timely, IInv
<1>5. Ask(c, "main", r)
  BY <1>1 DEF Start
<1> QED
  BY <1>3, <1>4, <1>5, AskOK DEF Key, WalletOK

LEMMA ReadOK ==
  ASSUME IInv, NEW c \in Call, Read(c)
  PROVE  WalletOK
<1>1. CASE Ask(c, "main", IdleCall)
  <2>1. Timely(IdleCall, now)
    BY IdleTyped DEF IInv
  <2> QED BY <1>1, <2>1, AskOK, IdleTyped DEF Key, WalletOK
<1>2. CASE call' = [call EXCEPT ![c].pc = "asked"] /\ UNCHANGED <<data, past>>
  <2>1. PICK r : r = [call[c] EXCEPT !.pc = "asked"]
    OBVIOUS
  <2>2. call[c] \in CallState /\ Timely(call[c], now)
    BY DEF IInv, CallsOK
  <2>3. r \in CallState /\ r.pc = "asked" /\ r.started = call[c].started
    BY <2>1, <2>2 DEF CallState
  <2>4. call' = [call EXCEPT ![c] = r]
    BY <1>2, <2>1 DEF IInv, CallsOK
  <2>5. CallsOK(call', now)
    BY <2>2, <2>3, <2>4, OneCall DEF Timely, IInv
  <2> QED BY <1>2, <2>5 DEF WalletOK, IInv
<1> QED
  BY <1>1, <1>2 DEF Read

LEMMA NotedOK == ASSUME IInv, NEW c \in Call PROVE PastOK(Noted(c))
BY DEF Noted, IInv, PastOK

LEMMA GotOK ==
  ASSUME IInv, NEW c \in Call, NEW o \in SUBSET Coin
  PROVE  Got(c, o) \in CallState /\ Timely(Got(c, o), now)
<1>1. PICK r : r = [call[c] EXCEPT !.pc = "selecting", !.offered = o, !.own = {},
                                   !.answer = NoAnswer, !.started = 0]
  OBVIOUS
<1>2. call[c] \in CallState
  BY DEF IInv, CallsOK
<1>3. 0 \in 0..MaxTime
  BY TimeAssumption
<1>4. r \in CallState
  BY <1>1, <1>2, <1>3, NoAnswerTyped DEF CallState
<1>5. r.pc = "selecting" /\ r.started = 0
  BY <1>1, <1>2 DEF CallState
<1>6. Timely(r, now)
  BY <1>5 DEF Timely, IInv
<1>7. Got(c, o) \in {r, IdleCall}
  BY <1>1 DEF Got
<1> QED
  BY <1>4, <1>6, <1>7, IdleTyped DEF IInv

LEMMA FetchDoneOK ==
  ASSUME IInv, NEW c \in Call, FetchDone(c)
  PROVE  WalletOK
<1>1. PICK k : k = call[c].key
  OBVIOUS
<1>2. PICK live : live = GetAddressData(k)
  OBVIOUS
<1>3. PICK a : a = call[c].answer
  OBVIOUS
<1>4. PICK t : t = FetchedAt(c)
  OBVIOUS
<1>5. PICK fresh : fresh = [live EXCEPT !.fetched = a, !.lastFetch = t]
  OBVIOUS
<1>6. PICK filled : filled = IF call[c].own = {} THEN fresh ELSE live
  OBVIOUS
<1>7. PICK D : D = IF k # "csv_1" THEN Sync(filled)
                   ELSE IF call[c].own = {} THEN filled ELSE data[k]
  OBVIOUS
<1>8. /\ call[c] \in CallState /\ Timely(call[c], now) /\ call[c].pc = "answered"
      /\ k \in Key /\ a \in Answer /\ t \in 0..MaxTime /\ t <= a.asOf
  BY <1>1, <1>3, <1>4 DEF FetchDone, IInv, CallsOK, CallState, Timely, FetchedAt
<1>9. Sound(live) /\ Sound(data[k])
  BY <1>2, <1>8, GetSound DEF IInv, DataOK
<1>10. Sound(fresh)
  BY <1>5, <1>8, <1>9, FilledSound
<1>11. Sound(D)
  BY <1>6, <1>7, <1>9, <1>10, SyncSound
<1>12. data' = [data EXCEPT ![k] = D]
  BY <1>1, <1>2, <1>3, <1>4, <1>5, <1>6, <1>7 DEF FetchDone
<1>13. DataOK(data')
  BY <1>8, <1>11, <1>12, OneData DEF IInv
<1>14. PICK os : os = IF call[c].own = {} THEN {[spent |-> D.spent, pending |-> D.pending]}
                      ELSE call[c].own
  OBVIOUS
<1>15. os \subseteq [spent : SUBSET Coin, pending : SUBSET Coin]
  BY <1>8, <1>11, <1>14 DEF CallState, Sound, AddressData
<1>16. \E o \in os : call' = [call EXCEPT ![c] = Got(c, Offer(o.spent, o.pending, a, Merges(k)))]
  BY <1>1, <1>2, <1>3, <1>4, <1>5, <1>6, <1>7, <1>14 DEF FetchDone
<1>17. PICK o \in os : call' = [call EXCEPT ![c] = Got(c, Offer(o.spent, o.pending, a, Merges(k)))]
  BY <1>16
<1>18. PICK offered : offered = Offer(o.spent, o.pending, a, Merges(k))
  OBVIOUS
<1>19. offered \in SUBSET Coin
  BY <1>8, <1>15, <1>18, OfferTyped
<1>20. CallsOK(call', now)
  BY <1>17, <1>18, <1>19, GotOK, OneCall DEF IInv
<1>21. PastOK(past')
  BY NotedOK DEF FetchDone
<1> QED
  BY <1>13, <1>20, <1>21 DEF WalletOK

LEMMA IdledOK ==
  ASSUME IInv, NEW c \in Call
  PROVE  CallsOK([call EXCEPT ![c] = IdleCall], now)
BY IdleTyped, OneCall DEF IInv

LEMMA BatchDoneOK ==
  ASSUME IInv, NEW c \in Call, BatchDone(c)
  PROVE  WalletOK
<1>1. PICK live : live = GetAddressData("main")
  OBVIOUS
<1>2. PICK a : a = call[c].answer
  OBVIOUS
<1>3. PICK fresh : fresh = [live EXCEPT !.fetched = a, !.lastFetch = now]
  OBVIOUS
<1>4. a \in Answer /\ now \in 0..MaxTime
  BY <1>2, TimeAssumption DEF IInv, CallsOK, CallState
<1>5. Sound(live)
  BY <1>1, GetSound DEF IInv, DataOK, Key
<1>6. ReadersBatch
  BY DEF BatchDone, IsBatch
<1>7. Sound(fresh)
  BY <1>3, <1>4, <1>5, <1>6, FilledSound
<1>8. Sound(Sync(fresh))
  BY <1>7, SyncSound
<1>9. data' = [data EXCEPT !["main"] = Sync(fresh)]
  BY <1>1, <1>2, <1>3 DEF BatchDone
<1>10. DataOK(data')
  BY <1>8, <1>9, OneData DEF IInv, Key
<1>11. CallsOK(call', now)
  BY IdledOK DEF BatchDone
<1>12. PastOK(past')
  BY NotedOK DEF BatchDone
<1> QED
  BY <1>10, <1>11, <1>12 DEF WalletOK

LEMMA FetchFailsOK ==
  ASSUME IInv, NEW c \in Call, FetchFails(c)
  PROVE  WalletOK
<1>1. PICK rest : rest = [call EXCEPT ![c] = IdleCall]
  OBVIOUS
<1>2. CallsOK(rest, now)
  BY <1>1, IdledOK
<1>3. CleanAll(rest) \/ (call' = rest /\ UNCHANGED <<data, past>>)
  BY <1>1 DEF FetchFails
<1> QED
  BY <1>2, <1>3, CleanAllOK DEF WalletOK, IInv

LEMMA SelectOK ==
  ASSUME IInv, NEW c \in Call, Select(c)
  PROVE  WalletOK
<1>1. PICK picked \in SUBSET call[c].offered :
        LET r == [call[c] EXCEPT !.chosen = call[c].chosen \cup picked, !.offered = {}]
        IN \/ /\ call' = [call EXCEPT ![c] = [r EXCEPT !.pc = "ready"]]
              /\ UNCHANGED <<data, past>>
           \/ Ask(c, "csv_1", r)
           \/ CleanAll([call EXCEPT ![c] = IdleCall])
  BY DEF Select
<1>2. PICK r : r = [call[c] EXCEPT !.chosen = call[c].chosen \cup picked, !.offered = {}]
  OBVIOUS
<1>3. PICK go : go = [r EXCEPT !.pc = "ready"]
  OBVIOUS
<1>4. call[c] \in CallState /\ Timely(call[c], now) /\ call[c].pc = "selecting"
  BY DEF Select, IInv, CallsOK
<1>5. r \in CallState /\ r.pc = "selecting" /\ r.started = call[c].started
  BY <1>1, <1>2, <1>4 DEF CallState
<1>6. go \in CallState /\ go.pc = "ready" /\ go.started = r.started
  BY <1>3, <1>5 DEF CallState
<1>7. Timely(r, now) /\ Timely(go, now)
  BY <1>4, <1>5, <1>6 DEF Timely
<1>8. \/ call' = [call EXCEPT ![c] = go] /\ UNCHANGED <<data, past>>
      \/ Ask(c, "csv_1", r)
      \/ CleanAll([call EXCEPT ![c] = IdleCall])
  BY <1>1, <1>2, <1>3
<1>9. CASE call' = [call EXCEPT ![c] = go] /\ UNCHANGED <<data, past>>
  BY <1>6, <1>7, <1>9, OneCall DEF WalletOK, IInv
<1>10. CASE Ask(c, "csv_1", r)
  BY <1>5, <1>7, <1>10, AskOK DEF Key, WalletOK
<1>11. CASE CleanAll([call EXCEPT ![c] = IdleCall])
  <2>1. PICK rest : rest = [call EXCEPT ![c] = IdleCall]
    OBVIOUS
  <2> QED BY <1>11, <2>1, IdledOK, CleanAllOK DEF WalletOK
<1> QED
  BY <1>8, <1>9, <1>10, <1>11

LEMMA BroadcastOK ==
  ASSUME IInv, NEW c \in Call, Broadcast(c)
  PROVE  IInv'
<1>1. PICK ins : ins = call[c].chosen
  OBVIOUS
<1>2. call[c] \in CallState /\ Timely(call[c], now) /\ ins \in SUBSET Coin
  BY <1>1 DEF IInv, CallsOK, CallState
<1>3. CASE \E new \in Coin :
             /\ chain' = [i \in Coin |->
                  IF i = new THEN [at |-> "mempool", spent |-> "no", from |-> ins]
                  ELSE IF i \in ins THEN [chain[i] EXCEPT !.spent = "mempool"] ELSE chain[i]]
             /\ call' = [call EXCEPT ![c].pc = "accepted", ![c].offered = {new}]
  <2>1. PICK new \in Coin :
             /\ chain' = [i \in Coin |->
                  IF i = new THEN [at |-> "mempool", spent |-> "no", from |-> ins]
                  ELSE IF i \in ins THEN [chain[i] EXCEPT !.spent = "mempool"] ELSE chain[i]]
             /\ call' = [call EXCEPT ![c].pc = "accepted", ![c].offered = {new}]
    BY <1>3
  <2>2. PICK r : r = [call[c] EXCEPT !.pc = "accepted", !.offered = {new}]
    OBVIOUS
  <2>3. r \in CallState /\ r.pc = "accepted" /\ r.started = call[c].started
    BY <1>2, <2>2 DEF CallState
  <2>4. call' = [call EXCEPT ![c] = r]
    BY <2>1, <2>2 DEF IInv, CallsOK
  <2>5. CallsOK(call', now)
    BY <1>2, <2>3, <2>4, OneCall DEF Timely, IInv
  <2>6. CoinsOK(chain')
    BY <1>2, <2>1 DEF CoinsOK, CoinState, IInv
  <2> QED BY <2>5, <2>6 DEF Broadcast, IInv, CallsOK, DataOK, PastOK, CoinsOK, Timely,
                            Sound, Stamped, DepthsAgree
<1>4. CASE call' = [call EXCEPT ![c].pc = "refused"] /\ UNCHANGED chain
  <2>1. PICK r : r = [call[c] EXCEPT !.pc = "refused"]
    OBVIOUS
  <2>2. r \in CallState /\ r.pc = "refused" /\ r.started = call[c].started
    BY <1>2, <2>1 DEF CallState
  <2>3. call' = [call EXCEPT ![c] = r]
    BY <1>4, <2>1 DEF IInv, CallsOK
  <2>4. CallsOK(call', now)
    BY <1>2, <2>2, <2>3, OneCall DEF Timely, IInv
  <2> QED BY <1>4, <2>4 DEF Broadcast, IInv, CallsOK, DataOK, PastOK, CoinsOK, Timely,
                            Sound, Stamped, DepthsAgree
<1>5. \/ \E new \in Coin :
           /\ chain' = [i \in Coin |->
                IF i = new THEN [at |-> "mempool", spent |-> "no", from |-> ins]
                ELSE IF i \in ins THEN [chain[i] EXCEPT !.spent = "mempool"] ELSE chain[i]]
           /\ call' = [call EXCEPT ![c].pc = "accepted", ![c].offered = {new}]
      \/ call' = [call EXCEPT ![c].pc = "refused"] /\ UNCHANGED chain
  BY <1>1 DEF Broadcast
<1> QED
  BY <1>3, <1>4, <1>5

LEMMA SentOK ==
  ASSUME IInv, NEW c \in Call, Sent(c)
  PROVE  WalletOK
<1>1. PICK mains : mains = call[c].chosen \ CsvCoin
  OBVIOUS
<1>2. PICK csvs : csvs = call[c].chosen \cap CsvCoin
  OBVIOUS
<1>3. PICK main : main = GetAddressData("main")
  OBVIOUS
<1>4. PICK csv : csv = GetAddressData("csv")
  OBVIOUS
<1>5. PICK rest : rest = [call EXCEPT ![c] = IdleCall]
  OBVIOUS
<1>6. CallsOK(rest, now)
  BY <1>5, IdledOK
<1>7. /\ mains \in SUBSET Coin /\ csvs \in SUBSET Coin /\ call[c].offered \in SUBSET Coin
      /\ {} \in SUBSET Coin
  BY <1>1, <1>2 DEF IInv, CallsOK, CallState
<1>8. Sound(main) /\ Sound(csv) /\ Sound(data["csv"])
  BY <1>3, <1>4, GetSound DEF IInv, DataOK, Key
<1>9. PICK csvNow : csvNow = IF csvs = {} THEN data["csv"] ELSE SpentUTXO(csv, csvs, {})
  OBVIOUS
<1>10. PICK mainNow : mainNow = SpentUTXO(main, mains, call[c].offered)
  OBVIOUS
<1>11. Sound(csvNow)
  <2>1. MaySpend(csv, csvs, {})
    BY <1>7, <1>8 DEF MaySpend
  <2> QED BY <1>8, <1>9, <2>1, SpentSound
<1>12. Sound(mainNow)
  <2>1. MaySpend(main, mains, call[c].offered)
    BY <1>7, <1>8 DEF MaySpend
  <2> QED BY <1>10, <2>1, SpentSound
<1>13. CASE CleanAll(rest)
  BY <1>6, <1>13, CleanAllOK DEF WalletOK
<1>14. CASE /\ data' = [data EXCEPT !["csv"] = csvNow, !["main"] = mainNow]
            /\ call' = rest /\ UNCHANGED past
  <2>1. PICK D : D = [data EXCEPT !["csv"] = csvNow]
    OBVIOUS
  <2>2. DataOK(D)
    BY <1>11, <2>1, OneData DEF IInv, Key
  <2>3. data' = [D EXCEPT !["main"] = mainNow]
    BY <1>14, <2>1
  <2>4. DataOK(data')
    BY <1>12, <2>2, <2>3, OneData DEF Key
  <2> QED BY <1>6, <1>14, <2>4 DEF WalletOK, IInv
<1>15. \/ CleanAll(rest)
       \/ /\ data' = [data EXCEPT !["csv"] = csvNow, !["main"] = mainNow]
          /\ call' = rest /\ UNCHANGED past
  <2>1. \/ CleanAll(rest)
        \/ /\ data' = [data EXCEPT
                !["csv"] = IF csvs = {} THEN @ ELSE SpentUTXO(csv, csvs, {}),
                !["main"] = SpentUTXO(main, mains, call[c].offered)]
           /\ call' = rest /\ UNCHANGED past
    BY <1>1, <1>2, <1>3, <1>4, <1>5 DEF Sent
  <2> QED BY <1>9, <1>10, <2>1
<1> QED
  BY <1>13, <1>14, <1>15

LEMMA SendFailsOK ==
  ASSUME IInv, NEW c \in Call, SendFails(c)
  PROVE  WalletOK
<1>1. PICK rest : rest = [call EXCEPT ![c] = IdleCall]
  OBVIOUS
<1>2. CallsOK(rest, now) /\ CleanAll(rest)
  BY <1>1, IdledOK DEF SendFails
<1> QED
  BY <1>2, CleanAllOK DEF WalletOK

LEMMA NodeAnswersOK ==
  ASSUME IInv, NEW c \in Call, NodeAnswers(c)
  PROVE  IInv'
<1>1. PICK coins : coins = IF NodeLags THEN index ELSE chain
  OBVIOUS
<1>2. PICK of : of = IF call[c].key = "main" THEN Coin \ CsvCoin ELSE CsvCoin
  OBVIOUS
<1>3. PICK v : v = View(coins)
  OBVIOUS
<1>4. PICK a : a = Only(v, of)
  OBVIOUS
<1>5. now \in 0..MaxTime
  BY TimeAssumption DEF IInv
<1>6. v \in Answer /\ v.asOf = now
  BY <1>3, <1>5 DEF View, Answer
<1>7. a \in Answer /\ a.asOf = now
  BY <1>4, <1>6 DEF Only, Answer
<1>8. PICK r : r = [call[c] EXCEPT !.pc = "answered", !.answer = a]
  OBVIOUS
<1>9. call[c] \in CallState /\ Timely(call[c], now)
  BY DEF IInv, CallsOK
<1>10. r \in CallState /\ r.answer = a /\ r.started = call[c].started
  BY <1>7, <1>8, <1>9 DEF CallState
<1>11. call' = [call EXCEPT ![c] = r]
  BY <1>1, <1>2, <1>3, <1>4, <1>8 DEF NodeAnswers, IInv, CallsOK
<1>12. CallsOK(call', now)
  BY <1>7, <1>9, <1>10, <1>11, OneCall DEF Timely, IInv
<1> QED
  BY <1>12 DEF NodeAnswers, IInv, CallsOK, DataOK, PastOK, CoinsOK, Timely,
               Sound, Stamped, DepthsAgree

LEMMA MinedOK ==
  ASSUME IInv, NEW i \in Coin, Mined(i)
  PROVE  IInv'
<1>1. CoinsOK(chain')
  BY DEF Mined, IInv, CoinsOK, CoinState
<1> QED
  BY <1>1 DEF Mined, IInv, CallsOK, DataOK, PastOK, CoinsOK, Timely, Sound, Stamped,
              DepthsAgree

LEMMA TickOK == ASSUME IInv, Tick PROVE IInv'
<1>1. now' \in 1..MaxTime /\ now <= now'
  BY TimeAssumption DEF Tick, IInv
<1>2. \A c \in Call : call[c].started \in Nat
  BY DEF IInv, CallsOK, CallState
<1>3. CallsOK(call', now')
  BY <1>1, <1>2 DEF Tick, IInv, CallsOK, Timely
<1> QED
  BY <1>1, <1>3 DEF Tick, IInv, CallsOK, DataOK, PastOK, CoinsOK, Sound, Stamped,
                    DepthsAgree

LEMMA StutterOK == ASSUME IInv, UNCHANGED vars PROVE IInv'
BY DEF vars, IInv, CallsOK, DataOK, PastOK, CoinsOK, Timely, Sound, Stamped, DepthsAgree

-----------------------------------------------------------------------------

LEMMA InvariantStep == IInv /\ [Next]_vars => IInv'
<1> SUFFICES ASSUME IInv, [Next]_vars PROVE IInv'
  OBVIOUS
<1>1. ASSUME NEW c \in Call, NEW want \in 1..MaxWant, Start(c, want)
      PROVE  IInv'
  BY <1>1, StartOK, WalletStep DEF Start
<1>2. ASSUME NEW c \in Call, Read(c)
      PROVE  IInv'
  BY <1>2, ReadOK, WalletStep DEF Read
<1>3. ASSUME NEW c \in Call, NodeAnswers(c)
      PROVE  IInv'
  BY <1>3, NodeAnswersOK
<1>4. ASSUME NEW c \in Call, FetchDone(c)
      PROVE  IInv'
  <2>1. UNCHANGED <<now, chain, index>>
    BY <1>4 DEF FetchDone
  <2> QED BY <1>4, <2>1, FetchDoneOK, WalletStep
<1>5. ASSUME NEW c \in Call, BatchDone(c)
      PROVE  IInv'
  BY <1>5, BatchDoneOK, WalletStep DEF BatchDone
<1>6. ASSUME NEW c \in Call, FetchFails(c)
      PROVE  IInv'
  BY <1>6, FetchFailsOK, WalletStep DEF FetchFails
<1>7. ASSUME NEW c \in Call, Select(c)
      PROVE  IInv'
  BY <1>7, SelectOK, WalletStep DEF Select
<1>8. ASSUME NEW c \in Call, Broadcast(c)
      PROVE  IInv'
  BY <1>8, BroadcastOK
<1>9. ASSUME NEW c \in Call, Sent(c)
      PROVE  IInv'
  <2>1. UNCHANGED <<now, chain, index>>
    BY <1>9 DEF Sent
  <2> QED BY <1>9, <2>1, SentOK, WalletStep
<1>10. ASSUME NEW c \in Call, SendFails(c)
       PROVE  IInv'
  BY <1>10, SendFailsOK, WalletStep DEF SendFails
<1>11. ASSUME NEW i \in Coin, Mined(i)
       PROVE  IInv'
  BY <1>11, MinedOK
<1>12. CASE IndexerCatchesUp
  BY <1>12 DEF IndexerCatchesUp, IInv, CallsOK, DataOK, PastOK, CoinsOK, Timely, Sound,
               Stamped, DepthsAgree
<1>13. CASE Tick
  BY <1>13, TickOK
<1>14. CASE UNCHANGED vars
  BY <1>14, StutterOK
<1> QED
  BY <1>1, <1>2, <1>3, <1>4, <1>5, <1>6, <1>7, <1>8, <1>9, <1>10, <1>11, <1>12, <1>13,
     <1>14 DEF Next

THEOREM Invariance == Spec => []IInv
BY InitOK, InvariantStep, PTL DEF Spec

\* TypeOK, in which AddressData bounds every depth noted by the limit on chains
\* of the mempool (spentUTXO()).
THEOREM DepthsWithinLimit == Spec => []TypeOK
<1>1. IInv => TypeOK
  BY DEF IInv, TypeOK, DataOK, CallsOK, CoinsOK, PastOK
<1> QED
  BY <1>1, Invariance, PTL

\* DepthOfEachPending: whatever the order in which answers, reports, purges and
\* clean-ups of any number of sends and reads arrive, the pending coins are those
\* with a depth (syncPendingDepthWithFetched(), spentUTXO(), clean()).
THEOREM PendingHaveDepth == Spec => []DepthOfEachPending
<1>1. IInv => DepthOfEachPending
  BY DEF IInv, DepthOfEachPending, DataOK, Sound, DepthsAgree
<1> QED
  BY <1>1, Invariance, PTL

\* CacheNotOlderThanStamp, unless others read in batches: the clock the cache is
\* judged by was read before the node looked (maybeFetchUTXOs()).
THEOREM StampsAreEarly == ASSUME ReadersBatch = FALSE PROVE Spec => []CacheNotOlderThanStamp
<1>1. IInv => CacheNotOlderThanStamp
  BY DEF IInv, CacheNotOlderThanStamp, DataOK, Sound, Stamped
<1> QED
  BY <1>1, Invariance, PTL

-----------------------------------------------------------------------------
(* Why the transactions of a wallet that sends one at a time, without CSV  *)
(* coins, do not conflict: what is spent has been noted, or is about to    *)
(* be, as long as nothing is forgotten; and an answer of the node that     *)
(* offers a spent coin was out of date when it was taken in.               *)

\* One send at a time, and no CSV coins.
Alone == CsvCoin = {} /\ \A s, t \in Sender : s = t

Known(coins, S) == \A i \in S : coins[i].at # "absent"
Unspent(coins, S) == \A i \in S : coins[i].spent = "no"
Both(p) == p.forgotten /\ p.outdated

\* Coins that are spent and not reported yet.
Held(cs) == {i \in Coin : \E s \in Sender : cs[s].pc = "accepted" /\ i \in cs[s].chosen}

\* Of the spent coins in S each is noted, or held by a send that will report it.
NotedSpent(D, H, coins, S) == \A i \in S : coins[i].spent = "no" \/ i \in D.spent \cup H

\* The AddressData of the wallet's address.
MainOK(D, H, coins, p) ==
  /\ ~D.made => D.spent = {} /\ D.pending = {} /\ D.fetched = NoAnswer
  /\ Known(coins, D.pending \cup Offered(D.fetched))
  /\ NotedSpent(D, H, coins, D.pending)
  /\ p.forgotten \/ NotedSpent(D, H, coins, Coin)
  /\ p.outdated \/ NotedSpent(D, H, coins, Offered(D.fetched))

\* A send.
SendOK(r, coins, p) ==
  /\ r.own = {}
  /\ Known(coins, r.chosen \cup r.offered)
  /\ r.pc \in {"idle", "asked", "answered", "selecting"} => r.chosen = {}
  /\ r.pc \in {"selecting", "ready"} => Unspent(coins, r.chosen \cup r.offered) \/ Both(p)
  /\ r.pc = "accepted" => Unspent(coins, r.offered)
  /\ r.pc = "refused" => Both(p)

CallOK(c, r, coins, p) ==
  /\ r.key = "main"
  /\ r.pc = "answered" => Known(coins, Offered(r.answer))
  /\ IF c \in Sender THEN SendOK(r, coins, p) ELSE r.pc \in {"idle", "asked", "answered"}

ChainOK(coins, idx) ==
  /\ \A i \in Coin : coins[i].at = "absent" => coins[i].spent = "no"
  /\ \A i \in Coin : coins[i].at = "mempool" =>
       \A j \in coins[i].from : coins[j].spent # "no"
  /\ \A i \in Coin : coins[i].at = "absent" => idx[i].at = "absent"

CInv ==
  /\ IInv
  /\ ChainOK(chain, index)
  /\ MainOK(data["main"], Held(call), chain, past)
  /\ \A c \in Call : CallOK(c, call[c], chain, past)

-----------------------------------------------------------------------------
(* What keeps the parts                                                    *)

Later(p, q) == (p.forgotten => q.forgotten) /\ (p.outdated => q.outdated)

LEMMA CallLater ==
  ASSUME NEW c, NEW r, NEW coins, NEW p, NEW q, Later(p, q), CallOK(c, r, coins, p)
  PROVE  CallOK(c, r, coins, q)
BY DEF CallOK, SendOK, Later, Both

LEMMA MainLater ==
  ASSUME NEW D, NEW H, NEW coins, NEW p, NEW q, Later(p, q), MainOK(D, H, coins, p)
  PROVE  MainOK(D, H, coins, q)
BY DEF MainOK, Later

\* Only the coins pending may have become fewer.
LEMMA MainShrinks ==
  ASSUME NEW D, NEW E, NEW H, NEW coins, NEW p, MainOK(D, H, coins, p),
         E.made \in BOOLEAN, E.spent = D.spent, E.fetched = D.fetched, E.pending \subseteq D.pending,
         ~E.made => ~D.made
  PROVE  MainOK(E, H, coins, p)
<1>1. Known(coins, E.pending \cup Offered(E.fetched))
  BY DEF MainOK, Known
<1>2. NotedSpent(E, H, coins, E.pending)
  BY DEF MainOK, NotedSpent
<1>3. p.forgotten \/ NotedSpent(E, H, coins, Coin)
  BY DEF MainOK, NotedSpent
<1>4. p.outdated \/ NotedSpent(E, H, coins, Offered(E.fetched))
  BY DEF MainOK, NotedSpent
<1>5. ~E.made => E.spent = {} /\ E.pending = {} /\ E.fetched = NoAnswer
  BY DEF MainOK
<1> QED
  BY <1>1, <1>2, <1>3, <1>4, <1>5 DEF MainOK

LEMMA MainFilled ==
  ASSUME NEW D, NEW E, NEW H, NEW coins, NEW p, MainOK(D, H, coins, p),
         E.made = TRUE, E.spent = D.spent, E.pending = D.pending,
         Known(coins, Offered(E.fetched)),
         p.outdated \/ Unspent(coins, Offered(E.fetched))
  PROVE  MainOK(E, H, coins, p)
<1>1. Known(coins, E.pending \cup Offered(E.fetched))
  BY DEF MainOK, Known
<1>2. NotedSpent(E, H, coins, E.pending)
  BY DEF MainOK, NotedSpent
<1>3. p.forgotten \/ NotedSpent(E, H, coins, Coin)
  BY DEF MainOK, NotedSpent
<1>4. p.outdated \/ NotedSpent(E, H, coins, Offered(E.fetched))
  BY DEF NotedSpent, Unspent
<1> QED
  BY <1>1, <1>2, <1>3, <1>4 DEF MainOK

LEMMA NothingOffered == Offered(NoAnswer) = {}
<1>1. NoAnswer.confirmed = {} /\ NoAnswer.pending = {}
  BY DEF NoAnswer
<1> QED
  BY <1>1 DEF Offered

\* Nothing is noted of a purged or dropped AddressData, and that has been noted.
LEMMA MainEmptied ==
  ASSUME NEW E, NEW H, NEW coins, NEW p, p.forgotten,
         E.spent = {}, E.pending = {}, E.fetched = NoAnswer
  PROVE  MainOK(E, H, coins, p)
BY NothingOffered DEF MainOK, Known, NotedSpent

LEMMA GetMain ==
  ASSUME CInv
  PROVE  /\ MainOK(GetAddressData("main"), Held(call), chain, past)
         /\ GetAddressData("main").spent = data["main"].spent
         /\ GetAddressData("main").made = TRUE
<1>1. PICK G : G = GetAddressData("main")
  OBVIOUS
<1>2. Sound(data["main"]) /\ now \in 1..MaxTime
  BY DEF CInv, IInv, DataOK, Key
<1>3. Sound(G) /\ G.made = TRUE
  BY <1>1, <1>2, GetSound DEF Key
<1>4. MainOK(data["main"], Held(call), chain, past)
  BY DEF CInv
<1>5. CASE data["main"].made
  BY <1>1, <1>3, <1>4, <1>5 DEF GetAddressData
<1>6. CASE ~data["main"].made
  <2>1. G = [NoData EXCEPT !.made = TRUE, !.lastCleanup = now]
    BY <1>1, <1>6 DEF GetAddressData
  <2>2. G.spent = {} /\ G.pending = {} /\ G.fetched = NoAnswer
    BY <2>1 DEF NoData
  <2>3. data["main"].spent = {} /\ data["main"].pending = {}
        /\ data["main"].fetched = NoAnswer
    BY <1>4, <1>6 DEF MainOK
  <2>4. MainOK(G, Held(call), chain, past)
    BY <1>3, <1>4, <2>2, <2>3, MainShrinks
  <2> QED BY <1>1, <1>3, <2>2, <2>3, <2>4
<1> QED
  BY <1>5, <1>6

LEMMA HeldNone ==
  ASSUME Alone, NEW cs, NEW c \in Sender, cs[c].pc # "accepted"
  PROVE  Held(cs) = {}
BY DEF Held, Alone

LEMMA HeldSame ==
  ASSUME NEW cs, cs \in [Call -> CallState], NEW c \in Call, NEW r,
         cs[c].pc # "accepted", r.pc # "accepted"
  PROVE  Held([cs EXCEPT ![c] = r]) = Held(cs)
<1>1. Sender \subseteq Call
  BY DEF Call
<1>2. \A s \in Sender : [cs EXCEPT ![c] = r][s] = IF s = c THEN r ELSE cs[s]
  BY <1>1
<1>3. \A s \in Sender, i \in Coin :
        ([cs EXCEPT ![c] = r][s].pc = "accepted" /\ i \in [cs EXCEPT ![c] = r][s].chosen)
          <=> (cs[s].pc = "accepted" /\ i \in cs[s].chosen)
  BY <1>2
<1> QED
  BY <1>3 DEF Held

\* What is offered of the coins noted and of what an answer offers has not been
\* spent, unless both have gone wrong.
LEMMA OfferUnspent ==
  ASSUME NEW D, NEW coins, NEW p, NEW a, NEW m, D \in AddressData, a \in Answer,
         MainOK(D, {}, coins, p), Known(coins, Offered(a)),
         p.outdated \/ NotedSpent(D, {}, coins, Offered(a))
  PROVE  /\ Unspent(coins, Offer(D.spent, D.pending, a, m)) \/ Both(p)
         /\ Known(coins, Offer(D.spent, D.pending, a, m))
<1>1. PICK o : o = Offer(D.spent, D.pending, a, m)
  OBVIOUS
<1>2. o \subseteq (D.pending \cup Offered(a)) \ D.spent
  BY <1>1 DEF Offer, Offered
<1>3. Known(coins, o)
  BY <1>2 DEF MainOK, Known
<1>4. D.pending \subseteq Coin /\ Offered(a) \subseteq Coin
  BY DEF AddressData, Answer, Offered
<1>5. ASSUME ~Both(p)
      PROVE  Unspent(coins, o)
  <2>1. CASE ~p.forgotten
    BY <1>2, <1>4, <2>1 DEF MainOK, NotedSpent, Unspent
  <2>2. CASE ~p.outdated
    BY <1>2, <2>2 DEF MainOK, NotedSpent, Unspent
  <2> QED BY <1>5, <2>1, <2>2 DEF Both
<1> QED
  BY <1>1, <1>3, <1>5

LEMMA CallsUpdated ==
  ASSUME NEW cs, cs \in [Call -> CallState], NEW coins, NEW p, NEW q, Later(p, q),
         \A d \in Call : CallOK(d, cs[d], coins, p),
         NEW c \in Call, NEW r, CallOK(c, r, coins, q)
  PROVE  \A d \in Call : CallOK(d, [cs EXCEPT ![c] = r][d], coins, q)
<1>1. \A d \in Call : CallOK(d, cs[d], coins, q)
  BY CallLater
<1>2. \A d \in Call : [cs EXCEPT ![c] = r][d] = IF d = c THEN r ELSE cs[d]
  OBVIOUS
<1> QED
  BY <1>1, <1>2

LEMMA IdleOK ==
  ASSUME NEW c, NEW coins, NEW p
  PROVE  CallOK(c, IdleCall, coins, p)
<1>1. /\ IdleCall.pc = "idle" /\ IdleCall.key = "main" /\ IdleCall.own = {}
      /\ IdleCall.chosen = {} /\ IdleCall.offered = {}
  BY DEF IdleCall
<1> QED
  BY <1>1 DEF CallOK, SendOK, Known

\* What is left to show of a step the wallet takes.
Kept ==
  /\ MainOK(data'["main"], Held(call'), chain, past')
  /\ \A c \in Call : CallOK(c, call'[c], chain, past')

LEMMA KeptStep ==
  ASSUME CInv, IInv', Kept, UNCHANGED <<chain, index>>
  PROVE  CInv'
BY DEF CInv, Kept

LEMMA AskKept ==
  ASSUME Alone, CInv, NEW c \in Call, call[c].pc = "idle", NEW r \in CallState,
         CallOK(c, r, chain, past), r.pc = "idle", Ask(c, "main", r)
  PROVE  Kept
<1>1. PICK old : old = GetAddressData("main")
  OBVIOUS
<1>2. PICK purged : purged = (now - old.lastCleanup > AutoPurgeAfter)
  OBVIOUS
<1>3. PICK D : D = IF purged THEN Clean(old) ELSE old
  OBVIOUS
<1>4. PICK o : o = Offer(D.spent, D.pending, D.fetched, Merges("main"))
  OBVIOUS
<1>5. PICK go : go = [r EXCEPT !.pc = "selecting", !.key = "main", !.offered = o]
  OBVIOUS
<1>6. PICK ask : ask = [r EXCEPT !.pc = "asked", !.key = "main", !.started = now]
  OBVIOUS
<1>7. /\ data' = [data EXCEPT !["main"] = D]
      /\ \/ c \in Reader /\ call' = [call EXCEPT ![c] = IdleCall]
         \/ c \notin Reader /\ call' = [call EXCEPT ![c] = go]
         \/ call' = [call EXCEPT ![c] = ask]
      /\ past' = [past EXCEPT !.forgotten = @ \/ purged]
  BY <1>1, <1>2, <1>3, <1>4, <1>5, <1>6 DEF Ask
<1>8. purged \in BOOLEAN /\ PastOK(past) /\ call \in [Call -> CallState] /\ now \in 1..MaxTime
  BY <1>2 DEF CInv, IInv, CallsOK
<1>9. Later(past, past') /\ (purged => past'.forgotten)
  BY <1>7, <1>8 DEF Later, PastOK
<1>10. MainOK(old, Held(call), chain, past) /\ Sound(old)
  BY <1>1, GetMain, GetSound DEF CInv, IInv, DataOK, Key
<1>11. Sound(D)
  BY <1>3, <1>8, <1>10, CleanSound
<1>12. MainOK(D, Held(call), chain, past')
  <2>1. CASE purged
    BY <1>3, <1>8, <1>9, <1>10, <2>1, CleanSound, MainEmptied
  <2>2. CASE ~purged
    BY <1>3, <1>9, <1>10, <2>2, MainLater
  <2> QED BY <1>8, <2>1, <2>2
<1>13. ask.pc = "asked" /\ ask.own = r.own /\ ask.chosen = r.chosen
       /\ ask.offered = r.offered /\ ask.key = "main"
  BY <1>6 DEF CallState
<1>14. CallOK(c, ask, chain, past')
  BY <1>13 DEF CallOK, SendOK
<1>15. ASSUME c \notin Reader
       PROVE  CallOK(c, go, chain, past')
  <2>1. c \in Sender /\ Held(call) = {}
    BY <1>15, HeldNone DEF Call
  <2>2. D \in AddressData /\ D.fetched \in Answer
    BY <1>11 DEF Sound, AddressData
  <2>3. MainOK(D, {}, chain, past')
    BY <1>12, <2>1
  <2>4. /\ Known(chain, Offered(D.fetched))
        /\ past'.outdated \/ NotedSpent(D, {}, chain, Offered(D.fetched))
    BY <2>3 DEF MainOK, Known
  <2>5. (Unspent(chain, o) \/ Both(past')) /\ Known(chain, o)
    BY <1>4, <2>2, <2>3, <2>4, OfferUnspent
  <2>6. /\ go.pc = "selecting" /\ go.own = r.own /\ go.chosen = r.chosen
        /\ go.offered = o /\ go.key = "main"
    BY <1>5 DEF CallState
  <2>7. SendOK(r, chain, past) /\ r.chosen = {}
    BY <2>1 DEF CallOK, SendOK
  <2>8. SendOK(go, chain, past')
    BY <2>6, <2>7, <2>5 DEF SendOK, Known, Unspent
  <2> QED BY <2>1, <2>6, <2>8 DEF CallOK
<1>16. PICK v : call' = [call EXCEPT ![c] = v] /\ v.pc # "accepted" /\ CallOK(c, v, chain, past')
  <2>1. IdleCall.pc # "accepted" /\ go.pc # "accepted" /\ ask.pc # "accepted"
    BY <1>5, <1>13 DEF IdleCall, CallState
  <2> QED BY <1>7, <1>14, <1>15, <2>1, IdleOK
<1>17. \A d \in Call : CallOK(d, call'[d], chain, past')
  BY <1>8, <1>9, <1>16, CallsUpdated DEF CInv
<1>18. Held(call') = Held(call)
  BY <1>8, <1>16, HeldSame
<1>19. data'["main"] = D
  BY <1>7 DEF CInv, IInv, DataOK, Key
<1> QED
  BY <1>12, <1>17, <1>18, <1>19 DEF Kept

LEMMA StartKept ==
  ASSUME Alone, CInv, NEW c \in Call, NEW want \in 1..MaxWant, Start(c, want)
  PROVE  Kept
<1>1. PICK r : r = [IdleCall EXCEPT !.want = want]
  OBVIOUS
<1>2. want \in 0..MaxWant
  BY TimeAssumption
<1>3. r \in CallState
  BY <1>1, <1>2, IdleTyped DEF CallState
<1>4. /\ r.pc = "idle" /\ r.key = "main" /\ r.own = {} /\ r.chosen = {} /\ r.offered = {}
  BY <1>1 DEF IdleCall
<1>5. CallOK(c, r, chain, past)
  BY <1>4 DEF CallOK, SendOK, Known
<1>6. Ask(c, "main", r) /\ call[c].pc = "idle"
  BY <1>1 DEF Start
<1> QED
  BY <1>3, <1>4, <1>5, <1>6, AskKept

LEMMA ReadKept ==
  ASSUME Alone, CInv, NEW c \in Call, Read(c)
  PROVE  Kept
<1>1. call[c].pc = "idle" /\ c \in Reader
  BY DEF Read
<1>2. CASE Ask(c, "main", IdleCall)
  <2>1. IdleCall \in CallState /\ IdleCall.pc = "idle"
    BY IdleTyped DEF IdleCall
  <2> QED BY <1>1, <1>2, <2>1, IdleOK, AskKept
<1>3. CASE call' = [call EXCEPT ![c].pc = "asked"] /\ UNCHANGED <<data, past>>
  <2>1. PICK r : r = [call[c] EXCEPT !.pc = "asked"]
    OBVIOUS
  <2>2. call \in [Call -> CallState] /\ CallOK(c, call[c], chain, past)
    BY DEF CInv, IInv, CallsOK
  <2>3. r.pc = "asked" /\ r.key = call[c].key
    BY <2>1, <2>2 DEF CallState
  <2>4. c \notin Sender
    BY <1>1, CoinAssumption
  <2>5. CallOK(c, r, chain, past)
    BY <2>2, <2>3, <2>4 DEF CallOK
  <2>6. call' = [call EXCEPT ![c] = r]
    BY <1>3, <2>1, <2>2
  <2>7. Held(call') = Held(call)
    BY <1>1, <2>2, <2>3, <2>6, HeldSame
  <2>8. \A d \in Call : CallOK(d, call'[d], chain, past)
    BY <2>2, <2>5, <2>6, CallsUpdated DEF CInv, Later
  <2> QED BY <1>3, <2>7, <2>8 DEF Kept, CInv
<1> QED
  BY <1>2, <1>3 DEF Read

LEMMA NodeAnswersKept ==
  ASSUME Alone, CInv, NEW c \in Call, NodeAnswers(c)
  PROVE  Kept
<1>1. PICK coins : coins = IF NodeLags THEN index ELSE chain
  OBVIOUS
<1>2. PICK of : of = IF call[c].key = "main" THEN Coin \ CsvCoin ELSE CsvCoin
  OBVIOUS
<1>3. PICK v : v = View(coins)
  OBVIOUS
<1>4. PICK a : a = Only(v, of)
  OBVIOUS
<1>5. Offered(a) \subseteq {i \in Coin : coins[i].at # "absent"}
  <2>1. /\ v.confirmed \subseteq {i \in Coin : coins[i].at # "absent"}
        /\ v.pending \subseteq {i \in Coin : coins[i].at # "absent"}
    BY <1>3 DEF View
  <2>2. a.confirmed \subseteq v.confirmed /\ a.pending \subseteq v.pending
    BY <1>3, <1>4 DEF Only, View
  <2> QED BY <2>1, <2>2 DEF Offered
<1>6. Known(chain, Offered(a))
  BY <1>1, <1>5 DEF Known, CInv, ChainOK
<1>7. PICK r : r = [call[c] EXCEPT !.pc = "answered", !.answer = a]
  OBVIOUS
<1>8. /\ call \in [Call -> CallState] /\ CallOK(c, call[c], chain, past)
      /\ call[c].pc = "asked"
  BY DEF CInv, IInv, CallsOK, NodeAnswers
<1>9. /\ r.pc = "answered" /\ r.answer = a /\ r.own = call[c].own /\ r.key = call[c].key
      /\ r.chosen = call[c].chosen /\ r.offered = call[c].offered
  BY <1>7, <1>8 DEF CallState
<1>10. CallOK(c, r, chain, past)
  BY <1>6, <1>8, <1>9 DEF CallOK, SendOK
<1>11. call' = [call EXCEPT ![c] = r]
  BY <1>1, <1>2, <1>3, <1>4, <1>7, <1>8 DEF NodeAnswers
<1>12. Held(call') = Held(call)
  BY <1>8, <1>9, <1>11, HeldSame
<1>13. \A d \in Call : CallOK(d, call'[d], chain, past)
  BY <1>8, <1>10, <1>11, CallsUpdated DEF CInv, Later
<1> QED
  BY <1>12, <1>13 DEF Kept, CInv, NodeAnswers

\* An answer taken in is noted to be outdated when it offers a spent coin.
LEMMA NotedWhenOutdated ==
  ASSUME IInv, NEW c \in Call, past' = Noted(c)
  PROVE  /\ Later(past, past')
         /\ past'.outdated \/ Unspent(chain, Offered(call[c].answer))
<1>1. PICK late : late = \E i \in Offered(call[c].answer) : chain[i].spent # "no"
  OBVIOUS
<1>2. PICK over : over = \E s \in Sender : call[s].pc = "accepted"
  OBVIOUS
<1>3. past' = [past EXCEPT !.outdated = @ \/ late, !.overtaken = @ \/ over]
  BY <1>1, <1>2 DEF Noted
<1>4. late \in BOOLEAN /\ over \in BOOLEAN /\ PastOK(past)
  BY <1>1, <1>2 DEF IInv
<1>5. Later(past, past') /\ (late => past'.outdated)
  BY <1>3, <1>4 DEF PastOK, Later
<1> QED
  BY <1>1, <1>5 DEF Unspent

LEMMA FetchDoneKept ==
  ASSUME Alone, CInv, NEW c \in Call, FetchDone(c)
  PROVE  Kept
<1>1. PICK live : live = GetAddressData("main")
  OBVIOUS
<1>2. PICK a : a = call[c].answer
  OBVIOUS
<1>3. PICK t : t = FetchedAt(c)
  OBVIOUS
<1>4. PICK fresh : fresh = [live EXCEPT !.fetched = a, !.lastFetch = t]
  OBVIOUS
<1>5. PICK filled : filled = IF call[c].own = {} THEN fresh ELSE live
  OBVIOUS
<1>6. PICK D : D = Sync(filled)
  OBVIOUS
<1>7. /\ call \in [Call -> CallState] /\ CallOK(c, call[c], chain, past)
      /\ Timely(call[c], now) /\ call[c].pc = "answered" /\ call[c].key = "main"
      /\ a \in Answer /\ t \in 0..MaxTime /\ t <= a.asOf
  BY <1>2, <1>3 DEF FetchDone, CInv, CallOK, IInv, CallsOK, CallState, Timely, FetchedAt
<1>8. Later(past, past') /\ (past'.outdated \/ Unspent(chain, Offered(a)))
  BY <1>2, NotedWhenOutdated DEF FetchDone, CInv
<1>9. Known(chain, Offered(a))
  BY <1>2, <1>7 DEF CallOK
<1>10. MainOK(live, Held(call), chain, past') /\ Sound(live) /\ live.made = TRUE
  BY <1>1, <1>8, GetMain, GetSound, MainLater DEF CInv, IInv, DataOK, Key
<1>11. Sound(fresh)
  BY <1>4, <1>7, <1>10, FilledSound
<1>12. MainOK(fresh, Held(call), chain, past') /\ fresh.made = TRUE
  <2>1. /\ fresh.made = TRUE /\ fresh.spent = live.spent /\ fresh.pending = live.pending
        /\ fresh.fetched = a
    BY <1>4, <1>10 DEF Sound, AddressData
  <2> QED BY <1>8, <1>9, <1>10, <2>1, MainFilled
<1>13. MainOK(filled, Held(call), chain, past') /\ Sound(filled) /\ filled.made = TRUE
  BY <1>5, <1>10, <1>11, <1>12
<1>14. Sound(D) /\ D.made = TRUE /\ MainOK(D, Held(call), chain, past')
  BY <1>6, <1>13, SyncSound, MainShrinks
<1>15. data' = [data EXCEPT !["main"] = D]
  BY <1>1, <1>2, <1>3, <1>4, <1>5, <1>6, <1>7 DEF FetchDone
<1>16. PICK os : os = IF call[c].own = {} THEN {[spent |-> D.spent, pending |-> D.pending]}
                      ELSE call[c].own
  OBVIOUS
<1>17. \E o \in os :
         call' = [call EXCEPT ![c] = Got(c, Offer(o.spent, o.pending, a, Merges("main")))]
  BY <1>1, <1>2, <1>3, <1>4, <1>5, <1>6, <1>7, <1>16 DEF FetchDone
<1>18. PICK o \in os :
         call' = [call EXCEPT ![c] = Got(c, Offer(o.spent, o.pending, a, Merges("main")))]
  BY <1>17
<1>19. PICK offered : offered = Offer(o.spent, o.pending, a, Merges("main"))
  OBVIOUS
<1>20. PICK v : v = Got(c, offered)
  OBVIOUS
<1>21. v.pc # "accepted" /\ CallOK(c, v, chain, past')
  <2>1. CASE c \in Sender
    <3>1. call[c].own = {} /\ call[c].chosen = {}
      BY <1>7, <2>1 DEF CallOK, SendOK
    <3>2. offered = Offer(D.spent, D.pending, a, Merges("main"))
      BY <1>16, <1>18, <1>19, <3>1
    <3>3. MainOK(D, {}, chain, past')
      BY <1>7, <1>14, <2>1, HeldNone
    <3>4. D \in AddressData
      BY <1>14 DEF Sound
    <3>5. past'.outdated \/ NotedSpent(D, {}, chain, Offered(a))
      BY <1>8 DEF NotedSpent, Unspent
    <3>6. (Unspent(chain, offered) \/ Both(past')) /\ Known(chain, offered)
      BY <1>7, <1>9, <3>2, <3>3, <3>4, <3>5, OfferUnspent
    <3>7. v = [call[c] EXCEPT !.pc = "selecting", !.offered = offered, !.own = {},
                              !.answer = NoAnswer, !.started = 0]
      BY <1>20, <2>1 DEF Got
    <3>8. /\ v.pc = "selecting" /\ v.own = {} /\ v.chosen = {} /\ v.offered = offered
          /\ v.key = "main"
      BY <1>7, <3>1, <3>7 DEF CallState
    <3> QED BY <2>1, <3>6, <3>8 DEF CallOK, SendOK, Known, Unspent
  <2>2. CASE c \notin Sender
    <3>1. v = IdleCall
      BY <1>20, <2>2 DEF Got
    <3> QED BY <3>1, IdleOK DEF IdleCall
  <2> QED BY <2>1, <2>2
<1>22. Held(call') = Held(call)
  BY <1>7, <1>18, <1>19, <1>20, <1>21, HeldSame
<1>23. \A d \in Call : CallOK(d, call'[d], chain, past')
  BY <1>7, <1>8, <1>18, <1>19, <1>20, <1>21, CallsUpdated DEF CInv
<1>24. data'["main"] = D
  BY <1>15 DEF CInv, IInv, DataOK, Key
<1> QED
  BY <1>14, <1>22, <1>23, <1>24 DEF Kept

LEMMA BatchDoneKept ==
  ASSUME Alone, CInv, NEW c \in Call, BatchDone(c)
  PROVE  Kept
<1>1. PICK live : live = GetAddressData("main")
  OBVIOUS
<1>2. PICK a : a = call[c].answer
  OBVIOUS
<1>3. PICK fresh : fresh = [live EXCEPT !.fetched = a, !.lastFetch = now]
  OBVIOUS
<1>4. PICK D : D = Sync(fresh)
  OBVIOUS
<1>5. /\ call \in [Call -> CallState] /\ CallOK(c, call[c], chain, past)
      /\ call[c].pc = "answered" /\ a \in Answer /\ now \in 0..MaxTime
  BY <1>2, TimeAssumption DEF BatchDone, CInv, IInv, CallsOK, CallState
<1>6. Later(past, past') /\ (past'.outdated \/ Unspent(chain, Offered(a)))
  BY <1>2, NotedWhenOutdated DEF BatchDone, CInv
<1>7. Known(chain, Offered(a))
  BY <1>2, <1>5 DEF CallOK
<1>8. MainOK(live, Held(call), chain, past') /\ Sound(live) /\ live.made = TRUE
  BY <1>1, <1>6, GetMain, GetSound, MainLater DEF CInv, IInv, DataOK, Key
<1>9. Sound(fresh)
  <2>1. ReadersBatch
    BY DEF BatchDone, IsBatch
  <2> QED BY <1>3, <1>5, <1>8, <2>1, FilledSound
<1>10. MainOK(fresh, Held(call), chain, past') /\ fresh.made = TRUE
  <2>1. /\ fresh.made = TRUE /\ fresh.spent = live.spent /\ fresh.pending = live.pending
        /\ fresh.fetched = a
    BY <1>3, <1>8 DEF Sound, AddressData
  <2> QED BY <1>6, <1>7, <1>8, <2>1, MainFilled
<1>11. MainOK(D, Held(call), chain, past')
  BY <1>4, <1>9, <1>10, SyncSound, MainShrinks
<1>12. data' = [data EXCEPT !["main"] = D] /\ call' = [call EXCEPT ![c] = IdleCall]
  BY <1>1, <1>2, <1>3, <1>4 DEF BatchDone
<1>13. Held(call') = Held(call)
  <2>1. IdleCall.pc # "accepted"
    BY DEF IdleCall
  <2> QED BY <1>5, <1>12, <2>1, HeldSame
<1>14. \A d \in Call : CallOK(d, call'[d], chain, past')
  BY <1>5, <1>6, <1>12, IdleOK, CallsUpdated DEF CInv
<1>15. data'["main"] = D
  BY <1>12 DEF CInv, IInv, DataOK, Key
<1> QED
  BY <1>11, <1>13, <1>14, <1>15 DEF Kept

\* Nobody but the one sender has a send in progress.
LEMMA CleanAllKept ==
  ASSUME Alone, CInv, NEW c \in Sender, NEW cs, cs = [call EXCEPT ![c] = IdleCall],
         CleanAll(cs)
  PROVE  Kept
<1>1. c \in Call /\ call \in [Call -> CallState]
  BY DEF Call, CInv, IInv, CallsOK
<1>2. past'.forgotten /\ Later(past, past')
  BY DEF CleanAll, CInv, IInv, PastOK, Later
<1>3. \A d \in Call : CallOK(d, cs[d], chain, past')
  BY <1>1, <1>2, IdleOK, CallsUpdated DEF CInv
<1>4. cs \in [Call -> CallState] /\ cs[c] = IdleCall
  BY <1>1, IdleTyped
<1>5. ASSUME NEW d \in Call
      PROVE  CallOK(d, call'[d], chain, past')
  <2>1. CASE cs[d].pc \in {"asked", "answered"} /\ cs[d].own = {}
    <3>1. PICK o : o = {[spent |-> GetAddressData(cs[d].key).spent,
                         pending |-> GetAddressData(cs[d].key).pending]}
      OBVIOUS
    <3>2. call'[d] = [cs[d] EXCEPT !.own = o]
      BY <2>1, <3>1 DEF CleanAll, Orphaned
    <3>3. call'[d].pc = cs[d].pc /\ call'[d].key = cs[d].key /\ call'[d].answer = cs[d].answer
      BY <1>4, <3>2 DEF CallState
    <3>4. d # c
      BY <1>4, <2>1 DEF IdleCall
    <3>5. d \notin Sender
      BY <3>4 DEF Alone
    <3> QED BY <1>3, <3>3, <3>5 DEF CallOK
  <2>2. CASE ~(cs[d].pc \in {"asked", "answered"} /\ cs[d].own = {})
    <3>1. call'[d] = cs[d]
      BY <2>2 DEF CleanAll, Orphaned
    <3> QED BY <1>3, <3>1
  <2> QED BY <2>1, <2>2
<1>6. data'["main"] = NoData
  BY DEF CleanAll, Key
<1>7. MainOK(NoData, Held(call'), chain, past')
  <2>1. NoData.spent = {} /\ NoData.pending = {} /\ NoData.fetched = NoAnswer
    BY DEF NoData
  <2> QED BY <1>2, <2>1, MainEmptied
<1> QED
  BY <1>5, <1>6, <1>7 DEF Kept

LEMMA FetchFailsKept ==
  ASSUME Alone, CInv, NEW c \in Call, FetchFails(c)
  PROVE  Kept
<1>1. PICK rest : rest = [call EXCEPT ![c] = IdleCall]
  OBVIOUS
<1>2. \/ c \in Sender /\ CleanAll(rest)
      \/ call' = rest /\ UNCHANGED <<data, past>>
  BY <1>1 DEF FetchFails
<1>3. call[c].pc = "asked"
  BY DEF FetchFails
<1>4. CASE c \in Sender /\ CleanAll(rest)
  BY <1>1, <1>3, <1>4, CleanAllKept
<1>5. CASE call' = rest /\ UNCHANGED <<data, past>>
  <2>1. call \in [Call -> CallState] /\ IdleCall.pc # "accepted"
    BY DEF CInv, IInv, CallsOK, IdleCall
  <2>2. Held(call') = Held(call)
    BY <1>1, <1>3, <1>5, <2>1, HeldSame
  <2>3. \A d \in Call : CallOK(d, call'[d], chain, past)
    BY <1>1, <1>5, <2>1, IdleOK, CallsUpdated DEF CInv, Later
  <2> QED BY <1>5, <2>2, <2>3 DEF Kept, CInv
<1> QED
  BY <1>2, <1>4, <1>5

LEMMA SelectKept ==
  ASSUME Alone, CInv, NEW c \in Call, Select(c)
  PROVE  Kept
<1>1. /\ call \in [Call -> CallState] /\ CallOK(c, call[c], chain, past)
      /\ call[c].pc = "selecting"
  BY DEF Select, CInv, IInv, CallsOK
<1>2. c \in Sender /\ SendOK(call[c], chain, past) /\ call[c].chosen = {}
  BY <1>1 DEF CallOK, SendOK
<1>3. PICK picked \in SUBSET call[c].offered :
        LET r == [call[c] EXCEPT !.chosen = call[c].chosen \cup picked, !.offered = {}]
        IN \/ /\ call' = [call EXCEPT ![c] = [r EXCEPT !.pc = "ready"]]
              /\ UNCHANGED <<data, past>>
           \/ CsvCoin # {}
           \/ CleanAll([call EXCEPT ![c] = IdleCall])
  BY DEF Select
<1>4. PICK r : r = [call[c] EXCEPT !.chosen = call[c].chosen \cup picked, !.offered = {}]
  OBVIOUS
<1>5. PICK go : go = [r EXCEPT !.pc = "ready"]
  OBVIOUS
<1>6. r \in CallState /\ r.own = {} /\ r.chosen = picked /\ r.offered = {} /\ r.key = "main"
  BY <1>1, <1>2, <1>3, <1>4 DEF CallState, SendOK, CallOK
<1>7. /\ go.pc = "ready" /\ go.own = {} /\ go.chosen = picked /\ go.offered = {}
      /\ go.key = "main"
  BY <1>5, <1>6 DEF CallState
<1>8. \/ call' = [call EXCEPT ![c] = go] /\ UNCHANGED <<data, past>>
      \/ CleanAll([call EXCEPT ![c] = IdleCall])
  BY <1>3, <1>4, <1>5 DEF Alone
<1>9. CASE call' = [call EXCEPT ![c] = go] /\ UNCHANGED <<data, past>>
  <2>1. CallOK(c, go, chain, past)
    BY <1>1, <1>2, <1>3, <1>7 DEF CallOK, SendOK, Known, Unspent
  <2>2. Held(call') = Held(call)
    BY <1>1, <1>7, <1>9, HeldSame
  <2>3. \A d \in Call : CallOK(d, call'[d], chain, past)
    BY <1>1, <1>9, <2>1, CallsUpdated DEF CInv, Later
  <2> QED BY <1>9, <2>2, <2>3 DEF Kept, CInv
<1>10. CASE CleanAll([call EXCEPT ![c] = IdleCall])
  <2>1. PICK rest : rest = [call EXCEPT ![c] = IdleCall]
    OBVIOUS
  <2> QED BY <1>1, <1>2, <1>10, <2>1, CleanAllKept
<1> QED
  BY <1>8, <1>9, <1>10

LEMMA BroadcastKept ==
  ASSUME Alone, CInv, NEW c \in Call, Broadcast(c)
  PROVE  CInv'
<1>1. PICK ins : ins = call[c].chosen
  OBVIOUS
<1>2. PICK D : D = data["main"]
  OBVIOUS
<1>3. /\ call \in [Call -> CallState] /\ CallOK(c, call[c], chain, past)
      /\ call[c].pc = "ready" /\ call[c].key = "main" /\ chain \in [Coin -> CoinState]
  BY DEF Broadcast, CInv, IInv, CallsOK, CoinsOK, CallOK
<1>4. c \in Sender /\ SendOK(call[c], chain, past) /\ ins \in SUBSET Coin
  BY <1>1, <1>3 DEF CallOK, CallState
<1>5. Held(call) = {} /\ MainOK(D, {}, chain, past)
  BY <1>2, <1>3, <1>4, HeldNone DEF CInv
<1>6. D.pending \subseteq Coin /\ Offered(D.fetched) \subseteq Coin
  BY <1>2 DEF CInv, IInv, DataOK, Sound, AddressData, Answer, Offered, Key
<1>7. IInv'
  BY BroadcastOK DEF CInv
<1>8. CASE /\ \A i \in ins : chain[i].spent = "no"
           /\ \E new \in Coin :
                /\ chain[new].at = "absent"
                /\ chain' = [i \in Coin |->
                     IF i = new THEN [at |-> "mempool", spent |-> "no", from |-> ins]
                     ELSE IF i \in ins THEN [chain[i] EXCEPT !.spent = "mempool"] ELSE chain[i]]
                /\ call' = [call EXCEPT ![c].pc = "accepted", ![c].offered = {new}]
  <2>1. PICK new \in Coin :
                /\ chain[new].at = "absent"
                /\ chain' = [i \in Coin |->
                     IF i = new THEN [at |-> "mempool", spent |-> "no", from |-> ins]
                     ELSE IF i \in ins THEN [chain[i] EXCEPT !.spent = "mempool"] ELSE chain[i]]
                /\ call' = [call EXCEPT ![c].pc = "accepted", ![c].offered = {new}]
    BY <1>8
  <2>2. Known(chain, ins) /\ new \notin ins
    BY <1>1, <1>4, <2>1 DEF SendOK, Known
  <2>3. chain'[new].at = "mempool" /\ chain'[new].spent = "no" /\ chain'[new].from = ins
    BY <2>1
  <2>4. ASSUME NEW i \in Coin, i # new
        PROVE  /\ chain'[i].at = chain[i].at /\ chain'[i].from = chain[i].from
               /\ i \in ins => chain'[i].spent = "mempool"
               /\ i \notin ins => chain'[i].spent = chain[i].spent
    BY <1>3, <2>1, <2>4 DEF CoinState
  <2>5. ChainOK(chain', index')
    <3>1. chain[new].spent = "no"
      BY <2>1 DEF CInv, ChainOK
    <3>2. index' = index
      BY DEF Broadcast
    <3>3. ASSUME NEW i \in Coin, chain'[i].at = "absent"
          PROVE  chain'[i].spent = "no" /\ index'[i].at = "absent"
      <4>1. i # new
        BY <2>3, <3>3
      <4>2. chain[i].at = "absent" /\ i \notin ins
        BY <2>2, <2>4, <3>3, <4>1 DEF Known
      <4> QED BY <2>4, <3>2, <4>1, <4>2 DEF CInv, ChainOK
    <3>4. ASSUME NEW i \in Coin, chain'[i].at = "mempool", NEW j \in chain'[i].from
          PROVE  chain'[j].spent # "no"
      <4>1. CASE i = new
        BY <1>4, <2>2, <2>3, <2>4, <3>4, <4>1
      <4>2. CASE i # new
        <5>1. j \in Coin /\ chain[j].spent # "no"
          BY <1>3, <2>4, <3>4, <4>2 DEF CInv, ChainOK, CoinState
        <5> QED BY <2>4, <3>1, <5>1
      <4> QED BY <4>1, <4>2
    <3> QED BY <3>3, <3>4 DEF ChainOK
  <2>6. \A S \in SUBSET Coin : Known(chain, S) => Known(chain', S)
    BY <2>3, <2>4 DEF Known
  <2>7. PICK r : r = [call[c] EXCEPT !.pc = "accepted", !.offered = {new}]
    OBVIOUS
  <2>8. /\ r.pc = "accepted" /\ r.offered = {new} /\ r.chosen = ins /\ r.own = {}
        /\ r.key = "main"
    BY <1>1, <1>3, <1>4, <2>7 DEF CallState, SendOK
  <2>9. call' = [call EXCEPT ![c] = r]
    BY <1>3, <2>1, <2>7
  <2>10. SendOK(r, chain', past')
    <3>1. Known(chain', ins)
      BY <1>4, <2>2, <2>6
    <3> QED BY <2>3, <2>8, <3>1 DEF SendOK, Known, Unspent
  <2>11. ASSUME NEW d \in Call
         PROVE  CallOK(d, call'[d], chain', past')
    <3>1. CASE d = c
      BY <1>3, <1>4, <2>8, <2>9, <2>10, <3>1 DEF CallOK
    <3>2. CASE d # c
      <4>1. call'[d] = call[d] /\ call[d] \in CallState /\ CallOK(d, call[d], chain, past)
        BY <1>3, <2>9, <3>2 DEF CInv
      <4>2. d \notin Sender
        BY <1>4, <3>2 DEF Alone
      <4>3. Offered(call[d].answer) \in SUBSET Coin
        BY <4>1 DEF CallState, Answer, Offered
      <4> QED BY <2>6, <4>1, <4>2, <4>3 DEF CallOK
    <3> QED BY <3>1, <3>2
  <2>12. Held(call') = ins
    <3>1. call'[c] = r /\ c \in Call
      BY <1>3, <2>9
    <3> QED BY <1>4, <2>8, <3>1 DEF Held, Alone
  <2>13. \A S \in SUBSET Coin :
           NotedSpent(D, {}, chain, S) => NotedSpent(D, ins, chain', S)
    BY <2>3, <2>4 DEF NotedSpent
  <2>14. MainOK(D, ins, chain', past)
    <3>1. Known(chain', D.pending \cup Offered(D.fetched))
      BY <1>5, <1>6, <2>6 DEF MainOK
    <3>2. NotedSpent(D, ins, chain', D.pending)
      BY <1>5, <1>6, <2>13 DEF MainOK
    <3>3. past.forgotten \/ NotedSpent(D, ins, chain', Coin)
      BY <1>5, <2>13 DEF MainOK
    <3>4. past.outdated \/ NotedSpent(D, ins, chain', Offered(D.fetched))
      BY <1>5, <1>6, <2>13 DEF MainOK
    <3> QED BY <1>5, <3>1, <3>2, <3>3, <3>4 DEF MainOK
  <2> QED BY <1>2, <1>7, <2>5, <2>11, <2>12, <2>14 DEF CInv, Broadcast
<1>9. CASE /\ \E i \in ins : chain[i].spent # "no"
           /\ call' = [call EXCEPT ![c].pc = "refused"] /\ UNCHANGED chain
  <2>1. PICK r : r = [call[c] EXCEPT !.pc = "refused"]
    OBVIOUS
  <2>2. /\ r.pc = "refused" /\ r.offered = call[c].offered /\ r.chosen = ins /\ r.own = {}
        /\ r.key = "main"
    BY <1>1, <1>3, <1>4, <2>1 DEF CallState, SendOK
  <2>3. call' = [call EXCEPT ![c] = r]
    BY <1>3, <1>9, <2>1
  <2>4. Both(past)
    BY <1>1, <1>3, <1>4, <1>9 DEF SendOK, Unspent
  <2>5. CallOK(c, r, chain, past)
    BY <1>1, <1>4, <2>2, <2>4 DEF CallOK, SendOK
  <2>6. Held(call') = Held(call)
    BY <1>3, <2>2, <2>3, HeldSame
  <2>7. \A d \in Call : CallOK(d, call'[d], chain, past)
    BY <1>3, <2>3, <2>5, CallsUpdated DEF CInv, Later
  <2> QED BY <1>7, <1>9, <2>6, <2>7 DEF CInv, Broadcast
<1> QED
  BY <1>1, <1>8, <1>9 DEF Broadcast

LEMMA SentKept ==
  ASSUME Alone, CInv, NEW c \in Call, Sent(c)
  PROVE  Kept
<1>1. PICK mains : mains = call[c].chosen \ CsvCoin
  OBVIOUS
<1>2. PICK new : new = call[c].offered
  OBVIOUS
<1>3. PICK G : G = GetAddressData("main")
  OBVIOUS
<1>4. PICK E : E = SpentUTXO(G, mains, new)
  OBVIOUS
<1>5. PICK rest : rest = [call EXCEPT ![c] = IdleCall]
  OBVIOUS
<1>6. /\ call \in [Call -> CallState] /\ CallOK(c, call[c], chain, past)
      /\ call[c].pc = "accepted"
  BY DEF Sent, CInv, IInv, CallsOK
<1>7. /\ c \in Sender /\ SendOK(call[c], chain, past) /\ mains = call[c].chosen
      /\ mains \in SUBSET Coin /\ new \in SUBSET Coin
  BY <1>1, <1>2, <1>6 DEF CallOK, CallState, Alone
<1>8. CASE CleanAll(rest)
  BY <1>5, <1>7, <1>8, CleanAllKept
<1>9. CASE data'["main"] = E /\ call' = rest /\ UNCHANGED past
  <2>1. MainOK(G, Held(call), chain, past) /\ Sound(G) /\ G.made = TRUE
    BY <1>3, GetMain, GetSound DEF CInv, IInv, DataOK, Key
  <2>2. /\ E.fetched = G.fetched /\ E.spent = G.spent \cup mains /\ E.made = TRUE
        /\ E.pending \subseteq G.pending \cup new
    <3>1. MaySpend(G, mains, new)
      BY <1>7, <2>1 DEF MaySpend
    <3> QED BY <1>4, <2>1, <3>1, SpentSound
  <2>3. Held(call) \subseteq mains
    BY <1>7 DEF Held, Alone
  <2>4. rest[c].pc = "idle"
    BY <1>5, <1>6 DEF IdleCall
  <2>5. Held(call') = {}
    BY <1>7, <1>9, <2>4, HeldNone
  <2>6. \A S : NotedSpent(G, Held(call), chain, S) => NotedSpent(E, {}, chain, S)
    BY <2>2, <2>3 DEF NotedSpent
  <2>7. Known(chain, new) /\ Unspent(chain, new)
    BY <1>2, <1>6, <1>7 DEF SendOK, Known
  <2>8. Known(chain, E.pending \cup Offered(E.fetched))
    BY <2>1, <2>2, <2>7 DEF MainOK, Known
  <2>9. NotedSpent(E, {}, chain, G.pending)
    BY <2>1, <2>6 DEF MainOK
  <2>10. NotedSpent(E, {}, chain, E.pending)
    BY <2>2, <2>7, <2>9 DEF NotedSpent, Unspent
  <2>11. past.forgotten \/ NotedSpent(E, {}, chain, Coin)
    BY <2>1, <2>6 DEF MainOK
  <2>12. past.outdated \/ NotedSpent(E, {}, chain, Offered(E.fetched))
    BY <2>1, <2>2, <2>6 DEF MainOK
  <2>13. MainOK(E, {}, chain, past)
    BY <2>2, <2>8, <2>10, <2>11, <2>12 DEF MainOK
  <2>14. \A d \in Call : CallOK(d, call'[d], chain, past)
    <3>1. \A d \in Call : CallOK(d, rest[d], chain, past)
      BY <1>5, <1>6, IdleOK, CallsUpdated DEF CInv, Later
    <3> QED BY <1>9, <3>1
  <2> QED BY <1>9, <2>5, <2>13, <2>14 DEF Kept
<1>10. \/ CleanAll(rest)
       \/ data'["main"] = E /\ call' = rest /\ UNCHANGED past
  BY <1>1, <1>2, <1>3, <1>4, <1>5 DEF Sent, CInv, IInv, DataOK, Key
<1> QED
  BY <1>8, <1>9, <1>10

LEMMA SendFailsKept ==
  ASSUME Alone, CInv, NEW c \in Call, SendFails(c)
  PROVE  Kept
<1>1. PICK rest : rest = [call EXCEPT ![c] = IdleCall]
  OBVIOUS
<1>2. CleanAll(rest) /\ call[c].pc \in {"accepted", "refused"}
  BY <1>1 DEF SendFails
<1>3. c \in Sender
  BY <1>2 DEF CInv, CallOK
<1> QED
  BY <1>1, <1>2, <1>3, CleanAllKept

\* MainOK and CallOK ask of a coin only whether it is there and whether it is spent.
SameCoins(coins, new) ==
  \A i \in Coin : /\ coins[i].at = "absent" <=> new[i].at = "absent"
                  /\ coins[i].spent = "no" <=> new[i].spent = "no"

LEMMA SameForMain ==
  ASSUME NEW D, Sound(D), NEW H, NEW p, NEW coins, NEW new, SameCoins(coins, new),
         MainOK(D, H, coins, p)
  PROVE  MainOK(D, H, new, p)
<1>1. D.pending \in SUBSET Coin /\ Offered(D.fetched) \in SUBSET Coin
  BY DEF Sound, AddressData, Answer, Offered
<1>2. \A S \in SUBSET Coin : /\ Known(coins, S) => Known(new, S)
                             /\ NotedSpent(D, H, coins, S) => NotedSpent(D, H, new, S)
  BY DEF SameCoins, Known, NotedSpent
<1>3. D.pending \cup Offered(D.fetched) \in SUBSET Coin
  BY <1>1
<1> QED
  BY <1>1, <1>2, <1>3 DEF MainOK

LEMMA SameForCall ==
  ASSUME NEW c, NEW r \in CallState, NEW p, NEW coins, NEW new, SameCoins(coins, new),
         CallOK(c, r, coins, p)
  PROVE  CallOK(c, r, new, p)
<1>1. /\ r.offered \in SUBSET Coin /\ r.chosen \cup r.offered \in SUBSET Coin
      /\ Offered(r.answer) \in SUBSET Coin
  BY DEF CallState, Answer, Offered
<1>2. \A S \in SUBSET Coin : /\ Known(coins, S) => Known(new, S)
                             /\ Unspent(coins, S) => Unspent(new, S)
  BY DEF SameCoins, Known, Unspent
<1> QED
  BY <1>1, <1>2 DEF CallOK, SendOK

LEMMA MinedKept ==
  ASSUME Alone, CInv, NEW i \in Coin, Mined(i)
  PROVE  CInv'
<1>1. /\ chain \in [Coin -> CoinState] /\ ChainOK(chain, index) /\ chain[i].at = "mempool"
      /\ chain' = [j \in Coin |->
           IF j = i THEN [chain[j] EXCEPT !.at = "confirmed"]
           ELSE IF j \in chain[i].from THEN [chain[j] EXCEPT !.spent = "block"] ELSE chain[j]]
      /\ UNCHANGED <<now, data, call, index, past>>
  BY DEF CInv, IInv, CoinsOK, Mined
<1>2. /\ chain'[i].at = "confirmed" /\ chain'[i].spent = chain[i].spent
      /\ chain'[i].from = chain[i].from
  BY <1>1 DEF CoinState
<1>3. ASSUME NEW j \in Coin, j # i
      PROVE  /\ chain'[j].at = chain[j].at /\ chain'[j].from = chain[j].from
             /\ j \in chain[i].from => chain'[j].spent = "block"
             /\ j \notin chain[i].from => chain'[j].spent = chain[j].spent
  BY <1>1, <1>3 DEF CoinState
<1>4. \A j \in chain[i].from : chain[j].spent # "no"
  BY <1>1 DEF ChainOK
<1>5. SameCoins(chain, chain')
  BY <1>1, <1>2, <1>3, <1>4 DEF SameCoins
<1>6. ChainOK(chain', index')
  <2>1. \A j \in Coin : chain'[j].at = "absent" =>
          chain'[j].spent = "no" /\ index'[j].at = "absent"
    BY <1>1, <1>5 DEF ChainOK, SameCoins
  <2>2. ASSUME NEW j \in Coin, chain'[j].at = "mempool", NEW k \in chain'[j].from
        PROVE  chain'[k].spent # "no"
    <3>1. j # i
      BY <1>2, <2>2
    <3>2. k \in Coin /\ chain[k].spent # "no"
      BY <1>1, <1>3, <2>2, <3>1 DEF ChainOK, CoinState
    <3> QED BY <1>5, <3>2 DEF SameCoins
  <2> QED BY <2>1, <2>2 DEF ChainOK
<1>7. MainOK(data'["main"], Held(call'), chain', past')
  BY <1>1, <1>5, SameForMain DEF CInv, IInv, DataOK, Key
<1>8. \A c \in Call : CallOK(c, call'[c], chain', past')
  BY <1>1, <1>5, SameForCall DEF CInv, IInv, CallsOK
<1>9. IInv'
  BY MinedOK DEF CInv
<1> QED
  BY <1>6, <1>7, <1>8, <1>9 DEF CInv

LEMMA CInitOK == Alone /\ Init => CInv
<1> SUFFICES ASSUME Alone, Init PROVE CInv
  OBVIOUS
<1>1. IInv
  BY InitOK
<1>2. ASSUME NEW i \in Coin
      PROVE  /\ chain[i].at \in {"absent", "confirmed"} /\ chain[i].spent = "no"
             /\ index[i].at = chain[i].at
  BY DEF Init
<1>3. ChainOK(chain, index)
  BY <1>2 DEF ChainOK
<1>4. MainOK(data["main"], Held(call), chain, past)
  <2>1. data["main"] = NoData
    BY DEF Init, Key
  <2>2. NoData.spent = {} /\ NoData.pending = {} /\ NoData.fetched = NoAnswer
    BY DEF NoData
  <2> QED BY <1>2, <2>1, <2>2, NothingOffered DEF MainOK, Known, NotedSpent
<1>5. \A c \in Call : CallOK(c, call[c], chain, past)
  BY IdleOK DEF Init
<1> QED
  BY <1>1, <1>3, <1>4, <1>5 DEF CInv

-----------------------------------------------------------------------------

\* ConflictNeedsBoth: of any number of sends one after the other, next to any
\* number of readers and without CSV coins, only one that comes after both a purge
\* or clean-up and an answer that was out of date can conflict with an earlier one
\* (maybeFetchUTXOs(), getUTXOs(), spentUTXO(), clean()).
THEOREM ConflictsNeedBoth == ASSUME Alone PROVE Spec => []ConflictNeedsBoth
<1>1. Init => CInv
  BY CInitOK
<1>2. CInv /\ [Next]_vars => CInv'
  <2> SUFFICES ASSUME CInv, [Next]_vars PROVE CInv'
    OBVIOUS
  <2>1. IInv'
    BY InvariantStep DEF CInv
  <2>2. ASSUME NEW c \in Call, NEW want \in 1..MaxWant, Start(c, want)
        PROVE  CInv'
    BY <2>1, <2>2, StartKept, KeptStep DEF Start
  <2>3. ASSUME NEW c \in Call, Read(c)
        PROVE  CInv'
    BY <2>1, <2>3, ReadKept, KeptStep DEF Read
  <2>4. ASSUME NEW c \in Call, NodeAnswers(c)
        PROVE  CInv'
    BY <2>1, <2>4, NodeAnswersKept, KeptStep DEF NodeAnswers
  <2>5. ASSUME NEW c \in Call, FetchDone(c)
        PROVE  CInv'
    <3>1. UNCHANGED <<chain, index>>
      BY <2>5 DEF FetchDone
    <3> QED BY <2>1, <2>5, <3>1, FetchDoneKept, KeptStep
  <2>6. ASSUME NEW c \in Call, BatchDone(c)
        PROVE  CInv'
    BY <2>1, <2>6, BatchDoneKept, KeptStep DEF BatchDone
  <2>7. ASSUME NEW c \in Call, FetchFails(c)
        PROVE  CInv'
    BY <2>1, <2>7, FetchFailsKept, KeptStep DEF FetchFails
  <2>8. ASSUME NEW c \in Call, Select(c)
        PROVE  CInv'
    BY <2>1, <2>8, SelectKept, KeptStep DEF Select
  <2>9. ASSUME NEW c \in Call, Broadcast(c)
        PROVE  CInv'
    BY <2>9, BroadcastKept
  <2>10. ASSUME NEW c \in Call, Sent(c)
         PROVE  CInv'
    <3>1. UNCHANGED <<chain, index>>
      BY <2>10 DEF Sent
    <3> QED BY <2>1, <2>10, <3>1, SentKept, KeptStep
  <2>11. ASSUME NEW c \in Call, SendFails(c)
         PROVE  CInv'
    BY <2>1, <2>11, SendFailsKept, KeptStep DEF SendFails
  <2>12. ASSUME NEW i \in Coin, Mined(i)
         PROVE  CInv'
    BY <2>12, MinedKept
  <2>13. CASE IndexerCatchesUp
    <3>1. ChainOK(chain', index')
      BY <2>13 DEF IndexerCatchesUp, CInv, ChainOK
    <3> QED BY <2>1, <2>13, <3>1 DEF IndexerCatchesUp, CInv
  <2>14. CASE Tick
    BY <2>1, <2>14 DEF Tick, CInv
  <2>15. CASE UNCHANGED vars
    BY <2>1, <2>15 DEF vars, CInv
  <2> QED
    BY <2>2, <2>3, <2>4, <2>5, <2>6, <2>7, <2>8, <2>9, <2>10, <2>11, <2>12, <2>13, <2>14,
       <2>15 DEF Next
<1>3. CInv => ConflictNeedsBoth
  <2> SUFFICES ASSUME CInv PROVE ConflictNeedsBoth
    OBVIOUS
  <2>1. ASSUME NEW c \in Sender, call[c].pc = "refused"
        PROVE  past.forgotten /\ past.outdated
    BY <2>1 DEF CInv, CallOK, SendOK, Both, Call
  <2> QED BY <2>1 DEF ConflictNeedsBoth, NoDoubleSpend
<1> QED
  BY <1>1, <1>2, <1>3, PTL DEF Spec

(***************************************************************************)
(* Depths: why no chain of unconfirmed transactions gets longer than it    *)
(* is noted to be, whatever sends and reads overlap, until something is    *)
(* forgotten or an answer overtakes a report.                              *)
(*                                                                         *)
(* The depth of a coin is a recursive function of the chain.  That it has  *)
(* a solution, and what the solution is (Deepens), is shown by least       *)
(* counterexamples; the invariant uses only that.                          *)
(***************************************************************************)

-----------------------------------------------------------------------------
(* Depths of chains                                                        *)

Depths(coins) ==
  LET d[i \in Coin] == IF coins[i].at # "mempool" THEN 0
                       ELSE 1 + Max({d[p] : p \in coins[i].from} \cup {0})
  IN d

\* One more than the deepest parent.
OwnDepth(coins, f, i) ==
  IF coins[i].at # "mempool" THEN 0 ELSE 1 + Max({f[p] : p \in coins[i].from} \cup {0})

\* A transaction in the mempool is made of coins there are, of older ones where they
\* are in the mempool too, and coins still to come are newer.
Grows(coins) ==
  /\ \A i \in CsvCoin : coins[i].at = "confirmed"
  /\ \A i \in Coin : coins[i].at = "absent" => coins[i].spent = "no"
  /\ \A i \in Coin : coins[i].at = "mempool" =>
       /\ \A p \in coins[i].from : /\ coins[p].at # "absent"
                                   /\ coins[p].at = "mempool" => p < i
       /\ \A j \in Coin : coins[j].at = "absent" => i < j

\* f has the depths of the coins up to n.
DepthsTo(coins, f, n) ==
  /\ f \in [Coin -> Nat]
  /\ \A i \in Coin : f[i] <= i /\ (coins[i].at # "mempool" => f[i] = 0)
  /\ \A i \in Coin : i <= n => f[i] = OwnDepth(coins, f, i)

LEMMA DeepestParent ==
  ASSUME NEW b \in Nat, NEW f, NEW P, \A p \in P : f[p] \in 0..b
  PROVE  LET m == Max({f[p] : p \in P} \cup {0}) IN
         /\ m \in 0..b /\ \A p \in P : f[p] <= m
         /\ m = 0 \/ \E p \in P : f[p] = m
<1> DEFINE S == {f[p] : p \in P} \cup {0}
<1>1. S \subseteq 0..b /\ S # {}
  OBVIOUS
<1>2. Max(S) \in S /\ \A y \in S : Max(S) >= y
  <2> HIDE DEF S
  <2> QED BY <1>1, MaxIsGreatest
<1>3. PICK m : m = Max(S)
  OBVIOUS
<1>4. m \in S /\ \A y \in S : m >= y
  BY <1>2, <1>3
<1>5. m \in 0..b /\ (m = 0 \/ \E p \in P : f[p] = m)
  BY <1>1, <1>4
<1>6. ASSUME NEW p \in P
      PROVE  f[p] <= m
  <2>1. f[p] \in S /\ f[p] \in Nat /\ m \in Nat
    BY <1>5
  <2> QED BY <1>4, <2>1
<1> QED
  BY <1>3, <1>5, <1>6

\* The depths of the parents are all that counts.
LEMMA SameParents ==
  ASSUME NEW coins, NEW f, NEW g, NEW i, \A p \in coins[i].from : f[p] = g[p]
  PROVE  OwnDepth(coins, f, i) = OwnDepth(coins, g, i)
<1>1. {f[p] : p \in coins[i].from} = {g[p] : p \in coins[i].from}
  OBVIOUS
<1> QED
  BY <1>1 DEF OwnDepth

LEMMA OneDeeper ==
  ASSUME NEW coins, CoinsOK(coins), Grows(coins), NEW n \in Nat, NEW f, DepthsTo(coins, f, n)
  PROVE  \E g : DepthsTo(coins, g, n + 1)
<1>1. f \in [Coin -> Nat] /\ MaxCoins \in Nat
  BY CoinAssumption DEF DepthsTo
<1>2. CASE n + 1 \notin Coin \/ (n + 1 \in Coin /\ coins[n + 1].at # "mempool")
  <2>1. ASSUME NEW i \in Coin, i <= n + 1
        PROVE  f[i] = OwnDepth(coins, f, i)
    <3>1. i <= n \/ i = n + 1
      BY <1>1, <2>1 DEF Coin
    <3>2. CASE i <= n
      BY <3>2 DEF DepthsTo
    <3>3. CASE i = n + 1
      BY <1>2, <3>3 DEF DepthsTo, OwnDepth
    <3> QED BY <3>1, <3>2, <3>3
  <2>2. DepthsTo(coins, f, n + 1)
    BY <2>1 DEF DepthsTo
  <2> QED BY <2>2
<1>3. CASE n + 1 \in Coin /\ coins[n + 1].at = "mempool"
  <2>1. PICK k : k = n + 1
    OBVIOUS
  <2>2. k \in Coin /\ k \in Nat /\ coins[k].at = "mempool" /\ coins[k].from \subseteq Coin
    BY <1>3, <2>1 DEF CoinsOK, CoinState
  <2>3. \A p \in coins[k].from : f[p] \in 0..n
    <3> SUFFICES ASSUME NEW p \in coins[k].from PROVE f[p] \in 0..n
      OBVIOUS
    <3>1. p \in Coin /\ p \in Nat /\ f[p] \in Nat /\ f[p] <= p
          /\ (coins[p].at # "mempool" => f[p] = 0)
      BY <1>1, <2>2 DEF DepthsTo, Coin
    <3>2. coins[p].at = "mempool" => p < k
      BY <2>2 DEF Grows
    <3> QED BY <2>1, <3>1, <3>2
  <2>4. PICK m : m = Max({f[p] : p \in coins[k].from} \cup {0})
    OBVIOUS
  <2>5. m \in 0..n
    BY <2>3, <2>4, DeepestParent
  <2>6. PICK g : g = [f EXCEPT ![k] = 1 + m]
    OBVIOUS
  <2>7. /\ g \in [Coin -> Nat] /\ g[k] = 1 + m
        /\ \A i \in Coin : i # k => g[i] = f[i]
    BY <1>1, <2>2, <2>5, <2>6
  <2>8. \A i \in Coin : g[i] <= i /\ (coins[i].at # "mempool" => g[i] = 0)
    <3> SUFFICES ASSUME NEW i \in Coin
                 PROVE  g[i] <= i /\ (coins[i].at # "mempool" => g[i] = 0)
      OBVIOUS
    <3>1. CASE i = k
      BY <2>1, <2>2, <2>5, <2>7, <3>1
    <3>2. CASE i # k
      BY <2>7, <3>2 DEF DepthsTo
    <3> QED BY <3>1, <3>2
  <2>9. ASSUME NEW i \in Coin, i <= k
        PROVE  g[i] = OwnDepth(coins, g, i)
    <3>1. CASE coins[i].at # "mempool"
      BY <2>8, <3>1 DEF OwnDepth
    <3>2. CASE coins[i].at = "mempool"
      <4>1. ASSUME NEW p \in coins[i].from
            PROVE  g[p] = f[p]
        <5>1. p \in Coin /\ p \in Nat /\ i \in Nat
          BY <1>1 DEF CoinsOK, CoinState, Coin
        <5>2. coins[p].at = "mempool" => p < i
          BY <3>2 DEF Grows
        <5>3. p # k
          BY <2>2, <2>9, <5>1, <5>2
        <5> QED BY <2>7, <5>1, <5>3
      <4>2. OwnDepth(coins, g, i) = OwnDepth(coins, f, i)
        BY <4>1, SameParents
      <4>3. CASE i = k
        BY <2>2, <2>4, <2>7, <4>2, <4>3 DEF OwnDepth
      <4>4. CASE i # k
        <5>1. i <= n
          BY <1>1, <2>1, <2>9, <4>4 DEF Coin
        <5> QED BY <2>7, <4>2, <4>4, <5>1 DEF DepthsTo
      <4> QED BY <4>3, <4>4
    <3> QED BY <3>1, <3>2
  <2>10. DepthsTo(coins, g, n + 1)
    BY <2>1, <2>7, <2>8, <2>9 DEF DepthsTo
  <2> QED BY <2>10
<1> QED
  BY <1>2, <1>3

\* The recursive definition has a solution.
LEMMA DepthsExist ==
  ASSUME NEW coins, CoinsOK(coins), Grows(coins), NEW n \in Nat
  PROVE  \E f : DepthsTo(coins, f, n)
<1> DEFINE Bad == {m \in Nat : ~ \E f : DepthsTo(coins, f, m)}
<1>1. SUFFICES Bad = {}
  OBVIOUS
<1>2. SUFFICES ASSUME Bad # {} PROVE FALSE
  OBVIOUS
<1>3. PICK m \in Bad : \A y \in Bad : m <= y
  <2>1. Bad \subseteq Nat
    OBVIOUS
  <2> HIDE DEF Bad
  <2> QED BY <1>2, <2>1, LeastNatural
<1>4. m \in Nat /\ ~ \E f : DepthsTo(coins, f, m)
  OBVIOUS
<1>5. m # 0
  <2>1. PICK f : f = [i \in Coin |-> 0]
    OBVIOUS
  <2>2. f \in [Coin -> Nat] /\ \A i \in Coin : f[i] = 0 /\ f[i] <= i /\ ~ (i <= 0)
    BY <2>1, CoinAssumption DEF Coin
  <2>3. DepthsTo(coins, f, 0)
    BY <2>2 DEF DepthsTo
  <2> QED BY <1>4, <2>3
<1>6. PICK k : k = m - 1
  OBVIOUS
<1>7. k \in Nat /\ k + 1 = m /\ ~ (m <= k)
  BY <1>4, <1>5, <1>6
<1>8. k \notin Bad
  <2> HIDE DEF Bad
  <2> QED BY <1>3, <1>7
<1>9. \E f : DepthsTo(coins, f, k)
  BY <1>7, <1>8
<1>10. \E g : DepthsTo(coins, g, k + 1)
  BY <1>7, <1>9, OneDeeper
<1> QED
  BY <1>4, <1>7, <1>10

LEMMA DepthsAre ==
  ASSUME NEW coins, CoinsOK(coins), Grows(coins)
  PROVE  /\ DOMAIN Depths(coins) = Coin
         /\ \A i \in Coin : Depths(coins)[i] = OwnDepth(coins, Depths(coins), i)
<1>1. MaxCoins \in Nat
  BY CoinAssumption
<1>2. PICK f : DepthsTo(coins, f, MaxCoins)
  BY <1>1, DepthsExist
<1>3. f \in [Coin -> Nat] /\ \A i \in Coin : f[i] = OwnDepth(coins, f, i)
  BY <1>1, <1>2 DEF DepthsTo, Coin
<1>4. f = [i \in Coin |-> OwnDepth(coins, f, i)]
  BY <1>3
<1>5. Depths(coins) = CHOOSE g : g = [i \in Coin |-> OwnDepth(coins, g, i)]
  BY DEF Depths, OwnDepth
<1>6. Depths(coins) = [i \in Coin |-> OwnDepth(coins, Depths(coins), i)]
  BY <1>4, <1>5
<1>7. PICK d : d = Depths(coins)
  OBVIOUS
<1>8. d = [i \in Coin |-> OwnDepth(coins, d, i)]
  BY <1>6, <1>7
<1>9. DOMAIN d = Coin /\ \A i \in Coin : d[i] = OwnDepth(coins, d, i)
  BY <1>8
<1> QED
  BY <1>7, <1>9

\* What the depths of a chain are, without Max and without recursion.
Deepens(coins, d) ==
  /\ \A i \in Coin : d[i] \in 0..MaxCoins
  /\ \A i \in Coin : coins[i].at # "mempool" => d[i] = 0
  /\ \A i \in Coin : coins[i].at = "mempool" =>
       /\ \A p \in coins[i].from : d[p] < d[i]
       /\ d[i] = 1 \/ \E p \in coins[i].from : d[i] = d[p] + 1

LEMMA DepthsDeepen ==
  ASSUME NEW coins, CoinsOK(coins), Grows(coins)
  PROVE  Deepens(coins, Depths(coins))
<1>1. PICK d : d = Depths(coins)
  OBVIOUS
<1>2. \A i \in Coin : d[i] = OwnDepth(coins, d, i)
  BY <1>1, DepthsAre
<1>3. \A i \in Coin : i \in Nat /\ i <= MaxCoins /\ i > 0 /\ MaxCoins \in Nat
  BY CoinAssumption DEF Coin
<1>4. ASSUME NEW i \in Coin, coins[i].at = "mempool",
             \A p \in coins[i].from : d[p] \in 0..(i - 1)
      PROVE  /\ d[i] \in 0..i
             /\ \A p \in coins[i].from : d[p] < d[i]
             /\ d[i] = 1 \/ \E p \in coins[i].from : d[i] = d[p] + 1
  <2>1. i - 1 \in Nat
    BY <1>3
  <2>2. PICK m : m = Max({d[p] : p \in coins[i].from} \cup {0})
    OBVIOUS
  <2>3. /\ m \in 0..(i - 1) /\ \A p \in coins[i].from : d[p] <= m
        /\ m = 0 \/ \E p \in coins[i].from : d[p] = m
    BY <1>4, <2>1, <2>2, DeepestParent
  <2>4. d[i] = 1 + m
    BY <1>2, <1>4, <2>2 DEF OwnDepth
  <2> QED BY <1>3, <1>4, <2>3, <2>4
<1>5. \A i \in Coin : coins[i].at # "mempool" => d[i] = 0
  BY <1>2 DEF OwnDepth
<1>6. \A i \in Coin : d[i] \in 0..i
  <2> DEFINE Bad == {i \in Coin : d[i] \notin 0..i}
  <2>1. SUFFICES ASSUME Bad # {} PROVE FALSE
    OBVIOUS
  <2>2. PICK i \in Bad : \A y \in Bad : i <= y
    <3>1. Bad \subseteq Nat
      BY <1>3
    <3> HIDE DEF Bad
    <3> QED BY <2>1, <3>1, LeastNatural
  <2>3. i \in Coin /\ d[i] \notin 0..i
    OBVIOUS
  <2>4. coins[i].at = "mempool"
    BY <1>3, <1>5, <2>3
  <2>5. ASSUME NEW p \in coins[i].from
        PROVE  d[p] \in 0..(i - 1)
    <3>1. p \in Coin /\ i \in Nat /\ p \in Nat /\ i > 0
      BY <1>3, <2>3 DEF CoinsOK, CoinState
    <3>2. CASE coins[p].at # "mempool"
      BY <1>5, <3>1, <3>2
    <3>3. CASE coins[p].at = "mempool"
      <4>1. p < i
        BY <2>3, <2>4, <3>3 DEF Grows
      <4>2. p \notin Bad
        <5> HIDE DEF Bad
        <5> QED BY <2>2, <3>1, <4>1
      <4>3. d[p] \in 0..p
        BY <3>1, <4>2
      <4> QED BY <3>1, <4>1, <4>3
    <3> QED BY <3>2, <3>3
  <2> QED BY <1>4, <2>3, <2>4, <2>5
<1>7. ASSUME NEW i \in Coin, coins[i].at = "mempool", NEW p \in coins[i].from
      PROVE  d[p] \in 0..(i - 1)
  <2>1. p \in Coin /\ i \in Nat /\ p \in Nat /\ i > 0
    BY <1>3 DEF CoinsOK, CoinState
  <2>2. coins[p].at = "mempool" => p < i
    BY <1>7 DEF Grows
  <2>3. d[p] \in 0..p
    BY <1>6, <2>1
  <2> QED BY <1>5, <2>1, <2>2, <2>3
<1>8. \A i \in Coin : coins[i].at = "mempool" =>
        /\ \A p \in coins[i].from : d[p] < d[i]
        /\ d[i] = 1 \/ \E p \in coins[i].from : d[i] = d[p] + 1
  BY <1>4, <1>7
<1>9. \A i \in Coin : d[i] \in 0..MaxCoins
  <2> SUFFICES ASSUME NEW i \in Coin PROVE d[i] \in 0..MaxCoins
    OBVIOUS
  <2>1. d[i] \in 0..i
    BY <1>6
  <2> QED BY <1>3, <2>1
<1> QED
  BY <1>1, <1>5, <1>8, <1>9 DEF Deepens

\* What the node does to coins: those there are stay, of what they were made, and
\* return neither to the mempool nor to those who spent them.
Ages(coins, new) ==
  \A i \in Coin :
    /\ coins[i].at # "absent" =>
         /\ new[i].at # "absent" /\ new[i].from = coins[i].from
         /\ new[i].at = "mempool" => coins[i].at = "mempool"
    /\ coins[i].at = "confirmed" => new[i].at = "confirmed"
    /\ coins[i].spent # "no" => new[i].spent # "no"

\* A coin does not get deeper.
LEMMA DepthsShrink ==
  ASSUME NEW coins, NEW new, CoinsOK(coins), CoinsOK(new), Grows(coins), Grows(new),
         Ages(coins, new)
  PROVE  \A i \in Coin : coins[i].at # "absent" => Depths(new)[i] <= Depths(coins)[i]
<1>1. PICK d : d = Depths(coins)
  OBVIOUS
<1>2. PICK e : e = Depths(new)
  OBVIOUS
<1>3. Deepens(coins, d) /\ Deepens(new, e)
  BY <1>1, <1>2, DepthsDeepen
<1>4. \A i \in Coin : i \in Nat /\ d[i] \in Nat /\ e[i] \in Nat
  BY <1>3, CoinAssumption DEF Deepens, Coin
<1> DEFINE Bad == {i \in Coin : coins[i].at # "absent" /\ ~ (e[i] <= d[i])}
<1>5. Bad = {}
  <2>1. SUFFICES ASSUME Bad # {} PROVE FALSE
    OBVIOUS
  <2>2. PICK i \in Bad : \A y \in Bad : i <= y
    <3>1. Bad \subseteq Nat
      BY <1>4
    <3> HIDE DEF Bad
    <3> QED BY <2>1, <3>1, LeastNatural
  <2>3. i \in Coin /\ coins[i].at # "absent" /\ ~ (e[i] <= d[i])
    OBVIOUS
  <2>4. new[i].at = "mempool"
    BY <1>3, <1>4, <2>3 DEF Deepens
  <2>5. coins[i].at = "mempool" /\ new[i].from = coins[i].from
    BY <2>3, <2>4 DEF Ages
  <2>6. CASE e[i] = 1
    <3>1. d[i] > 0
      <4>1. d[i] = 1 \/ \E p \in coins[i].from : d[i] = d[p] + 1
        BY <1>3, <2>3, <2>5 DEF Deepens
      <4>2. \A p \in coins[i].from : p \in Coin /\ d[p] \in Nat
        BY <1>4, <2>3 DEF CoinsOK, CoinState
      <4> QED BY <4>1, <4>2
    <3> QED BY <1>4, <2>3, <2>6, <3>1
  <2>7. CASE \E p \in new[i].from : e[i] = e[p] + 1
    <3>1. PICK p \in new[i].from : e[i] = e[p] + 1
      BY <2>7
    <3>2. p \in Coin /\ p \in coins[i].from
      BY <2>3, <2>5, <3>1 DEF CoinsOK, CoinState
    <3>3. coins[p].at # "absent" /\ d[p] < d[i]
      BY <1>3, <2>3, <2>5, <3>2 DEF Grows, Deepens
    <3>4. e[p] <= d[p]
      <4>1. CASE new[p].at # "mempool"
        BY <1>3, <1>4, <3>2, <4>1 DEF Deepens
      <4>2. CASE new[p].at = "mempool"
        <5>1. p < i
          BY <2>3, <2>4, <3>1, <4>2 DEF Grows
        <5>2. p \notin Bad
          <6>1. i \in Nat /\ p \in Nat
            BY <1>4, <2>3, <3>2
          <6> HIDE DEF Bad
          <6> QED BY <2>2, <5>1, <6>1
        <5> QED BY <3>2, <3>3, <5>2
      <4> QED BY <4>1, <4>2
    <3> QED BY <1>4, <2>3, <3>1, <3>2, <3>3, <3>4
  <2> QED BY <1>3, <2>3, <2>4, <2>6, <2>7 DEF Deepens
<1> QED
  BY <1>1, <1>2, <1>5

-----------------------------------------------------------------------------
(* The invariant                                                           *)

\* Coins made by sends that have been accepted and are yet to report.
Unreported(cs) ==
  {i \in Coin : \E s \in Sender : cs[s].pc = "accepted" /\ i \in cs[s].offered}

\* The coins S exist, and those who made them have reported; U are the unreported.
Clear(coins, U, S) == \A i \in S : coins[i].at # "absent" /\ i \notin U

Truthful(a, coins) ==
  /\ \A i \in a.confirmed : coins[i].at = "confirmed"
  /\ \A i \in a.pending : coins[i].at # "absent"
  /\ \A i \in a.spent : coins[i].spent # "no"

\* The index knows nothing that is not so.
Behind(idx, coins) ==
  \A i \in Coin : /\ idx[i].at = "confirmed" => coins[i].at = "confirmed"
                  /\ idx[i].at # "absent" => coins[i].at # "absent"
                  /\ idx[i].spent # "no" => coins[i].spent # "no"

DataClear(D, U, coins) ==
  /\ ~D.made => D.pending = {} /\ D.fetched = NoAnswer
  /\ Clear(coins, U, D.pending \cup D.fetched.confirmed \cup D.fetched.pending)

\* Of the wallet's address: what can be spent of the mempool is pending or about to be,
\* and what is pending is no deeper than noted.
Deep(D, U, coins) ==
  /\ \A i \in Coin : coins[i].at = "mempool" /\ coins[i].spent = "no" => i \in D.pending \cup U
  /\ \A i \in D.pending : D.depth[i] >= Depths(coins)[i]

\* What a send spends of the mempool is pending until it reports.
Spending(D, cs, coins) ==
  \A s \in Sender : cs[s].pc = "accepted" =>
    \A i \in cs[s].chosen : coins[i].at = "mempool" => i \in D.pending

CallClear(c, r, U, coins) ==
  /\ r.own = {}
  /\ c \notin Sender => r.pc \in {"idle", "asked", "answered"}
  /\ r.pc = "answered" => Truthful(r.answer, coins)
  /\ r.pc # "accepted" => Clear(coins, U, r.chosen \cup r.offered)
  /\ r.pc = "accepted" =>
       \E new \in Coin : /\ r.offered = {new} /\ coins[new].at # "absent"
                         /\ coins[new].from = r.chosen
                         /\ \A i \in r.chosen :
                              coins[i].at # "absent" /\ coins[i].spent # "no"

\* Two sends accepted spend and make different coins.
Apart(cs) ==
  \A s, t \in Sender : s # t /\ cs[s].pc = "accepted" /\ cs[t].pc = "accepted" =>
    cs[s].chosen \cap cs[t].chosen = {} /\ cs[s].offered \cap cs[t].offered = {}

Tracked(dt, cs, coins) ==
  /\ Deep(dt["main"], Unreported(cs), coins)
  /\ Spending(dt["main"], cs, coins)
  /\ \A k \in Key : DataClear(dt[k], Unreported(cs), coins)
  /\ \A c \in Call : CallClear(c, cs[c], Unreported(cs), coins)
  /\ Apart(cs)

Undisturbed(p) == ~p.forgotten /\ ~p.overtaken

DInv ==
  /\ IInv
  /\ Undisturbed(past) => /\ Grows(chain) /\ Behind(index, chain)
                          /\ Tracked(data, call, chain)

-----------------------------------------------------------------------------
(* What the wallet does                                                    *)

\* No send has been accepted or has reported.
SameSends(cs, ds) ==
  \A s \in Sender : /\ ds[s].pc = "accepted" <=> cs[s].pc = "accepted"
                    /\ cs[s].pc = "accepted" => ds[s] = cs[s]

LEMMA SendsKept ==
  ASSUME NEW cs, NEW ds, SameSends(cs, ds)
  PROVE  /\ Unreported(ds) = Unreported(cs)
         /\ \A D, coins : Spending(D, cs, coins) => Spending(D, ds, coins)
         /\ Apart(cs) => Apart(ds)
<1>1. Unreported(ds) = Unreported(cs)
  <2>1. \A s \in Sender, i \in Coin :
          (ds[s].pc = "accepted" /\ i \in ds[s].offered)
            <=> (cs[s].pc = "accepted" /\ i \in cs[s].offered)
    BY DEF SameSends
  <2> QED BY <2>1 DEF Unreported
<1>2. \A D, coins : Spending(D, cs, coins) => Spending(D, ds, coins)
  BY DEF SameSends, Spending
<1>3. Apart(cs) => Apart(ds)
  BY DEF SameSends, Apart
<1> QED
  BY <1>1, <1>2, <1>3

\* The present state, and what is left to show of a step that leaves the coins alone.
Present == IInv /\ Tracked(data, call, chain)
Followed == Tracked(data', call', chain)

\* A step of one call that neither is accepted nor has been, on one AddressData.
OneStep(c, v, k, E) ==
  /\ c \in Call /\ call[c].pc # "accepted" /\ v.pc # "accepted"
  /\ call' = [call EXCEPT ![c] = v] /\ CallClear(c, v, Unreported(call), chain)
  /\ k \in Key /\ data' = [data EXCEPT ![k] = E]
  /\ DataClear(E, Unreported(call), chain)
  /\ k = "main" => Deep(E, Unreported(call), chain) /\ Spending(E, call, chain)

LEMMA OneStepTracked ==
  ASSUME Present, NEW c, NEW v, NEW k, NEW E, OneStep(c, v, k, E)
  PROVE  Followed
<1>1. call \in [Call -> CallState] /\ data \in [Key -> AddressData] /\ Sender \subseteq Call
  BY DEF Present, IInv, CallsOK, DataOK, Call
<1>2. \A d \in Call : call'[d] = IF d = c THEN v ELSE call[d]
  BY <1>1 DEF OneStep
<1>3. SameSends(call, call')
  BY <1>1, <1>2 DEF OneStep, SameSends
<1>4. \A j \in Key : data'[j] = IF j = k THEN E ELSE data[j]
  BY <1>1 DEF OneStep
<1>5. \A d \in Call : CallClear(d, call'[d], Unreported(call), chain)
  BY <1>2 DEF OneStep, Present, Tracked
<1>6. \A j \in Key : DataClear(data'[j], Unreported(call), chain)
  BY <1>4 DEF OneStep, Present, Tracked
<1>7. "main" \in Key
  BY DEF Key
<1>8. Deep(data'["main"], Unreported(call), chain) /\ Spending(data'["main"], call, chain)
  BY <1>4, <1>7 DEF OneStep, Present, Tracked
<1>9. Apart(call)
  BY DEF Present, Tracked
<1> QED
  BY <1>3, <1>5, <1>6, <1>8, <1>9, SendsKept DEF Followed, Tracked

\* A step of one call that reads at most.
LEMMA OnlyCalls ==
  ASSUME Present, NEW c \in Call, call[c].pc # "accepted", NEW v, v.pc # "accepted",
         call' = [call EXCEPT ![c] = v], CallClear(c, v, Unreported(call), chain),
         UNCHANGED data
  PROVE  Followed
<1>1. data' = [data EXCEPT !["main"] = data["main"]] /\ "main" \in Key
  BY DEF Present, IInv, DataOK, Key
<1>2. OneStep(c, v, "main", data["main"])
  BY <1>1 DEF OneStep, Present, Tracked
<1> QED
  BY <1>2, OneStepTracked

LEMMA IdleClear ==
  ASSUME NEW c, NEW U, NEW coins
  PROVE  CallClear(c, IdleCall, U, coins)
<1>1. /\ IdleCall.pc = "idle" /\ IdleCall.own = {}
      /\ IdleCall.chosen = {} /\ IdleCall.offered = {}
  BY DEF IdleCall
<1> QED
  BY <1>1 DEF CallClear, Clear

LEMMA GetTracked ==
  ASSUME Present, NEW k \in Key
  PROVE  LET G == GetAddressData(k) IN
         /\ G.pending = data[k].pending /\ G.fetched = data[k].fetched /\ G.made = TRUE
         /\ Sound(G) /\ DataClear(G, Unreported(call), chain)
         /\ k = "main" => Deep(G, Unreported(call), chain) /\ Spending(G, call, chain)
<1>1. PICK G : G = GetAddressData(k)
  OBVIOUS
<1>2. Sound(data[k]) /\ now \in 1..MaxTime /\ DataClear(data[k], Unreported(call), chain)
  BY DEF Present, Tracked, IInv, DataOK
<1>3. Sound(G) /\ G.made = TRUE
  BY <1>1, <1>2, GetSound
<1>4. G.pending = data[k].pending /\ G.fetched = data[k].fetched
      /\ (G.pending # {} => G.depth = data[k].depth)
  <2>1. CASE data[k].made
    BY <1>1, <2>1 DEF GetAddressData
  <2>2. CASE ~data[k].made
    <3>1. G = [NoData EXCEPT !.made = TRUE, !.lastCleanup = now]
      BY <1>1, <2>2 DEF GetAddressData
    <3>2. G.pending = {} /\ G.fetched = NoAnswer
      BY <3>1 DEF NoData
    <3> QED BY <1>2, <2>2, <3>2 DEF DataClear
  <2> QED BY <2>1, <2>2
<1>5. DataClear(G, Unreported(call), chain)
  BY <1>2, <1>3, <1>4 DEF DataClear
<1>6. CASE k = "main"
  <2>1. Deep(data[k], Unreported(call), chain) /\ Spending(data[k], call, chain)
    BY <1>6 DEF Present, Tracked
  <2>2. Deep(G, Unreported(call), chain)
    BY <1>4, <2>1 DEF Deep
  <2>3. Spending(G, call, chain)
    BY <1>4, <2>1 DEF Spending
  <2> QED BY <1>1, <1>3, <1>4, <1>5, <2>2, <2>3
<1> QED
  BY <1>1, <1>3, <1>4, <1>5, <1>6

LEMMA NothingForgotten ==
  ASSUME Present, Undisturbed(past'), NEW p \in BOOLEAN,
         past' = [past EXCEPT !.forgotten = @ \/ p]
  PROVE  ~p
BY DEF Present, IInv, PastOK, Undisturbed

LEMMA AskTracked ==
  ASSUME Present, Undisturbed(past'), NEW c \in Call, call[c].pc # "accepted",
         NEW k \in Key, NEW r \in CallState, CallClear(c, r, Unreported(call), chain),
         r.pc # "accepted", Ask(c, k, r)
  PROVE  Followed
<1>1. PICK old : old = GetAddressData(k)
  OBVIOUS
<1>2. PICK purged : purged = (now - old.lastCleanup > AutoPurgeAfter)
  OBVIOUS
<1>3. PICK D : D = IF purged THEN Clean(old) ELSE old
  OBVIOUS
<1>4. PICK o : o = Offer(D.spent, D.pending, D.fetched, Merges(k))
  OBVIOUS
<1>5. PICK go : go = [r EXCEPT !.pc = "selecting", !.key = k, !.offered = o]
  OBVIOUS
<1>6. PICK ask : ask = [r EXCEPT !.pc = "asked", !.key = k, !.started = now]
  OBVIOUS
<1>7. /\ data' = [data EXCEPT ![k] = D]
      /\ \/ c \in Reader /\ call' = [call EXCEPT ![c] = IdleCall]
         \/ c \notin Reader /\ call' = [call EXCEPT ![c] = go]
         \/ call' = [call EXCEPT ![c] = ask]
      /\ past' = [past EXCEPT !.forgotten = @ \/ purged]
  BY <1>1, <1>2, <1>3, <1>4, <1>5, <1>6 DEF Ask
<1>8. ~purged
  <2>1. purged \in BOOLEAN
    BY <1>2
  <2> QED BY <1>7, <2>1, NothingForgotten
<1>9. D = old
  BY <1>3, <1>8
<1>10. /\ DataClear(D, Unreported(call), chain)
       /\ k = "main" => Deep(D, Unreported(call), chain) /\ Spending(D, call, chain)
  BY <1>1, <1>9, GetTracked
<1>11. Clear(chain, Unreported(call), o)
  <2>1. o \subseteq D.pending \cup D.fetched.confirmed \cup D.fetched.pending
    BY <1>4 DEF Offer
  <2> QED BY <1>10, <2>1 DEF DataClear, Clear
<1>12. /\ ask.pc = "asked" /\ ask.own = r.own /\ ask.chosen = r.chosen
       /\ ask.offered = r.offered
  BY <1>6 DEF CallState
<1>13. CallClear(c, ask, Unreported(call), chain)
  BY <1>12 DEF CallClear
<1>14. ASSUME c \notin Reader
       PROVE  CallClear(c, go, Unreported(call), chain)
  <2>1. c \in Sender
    BY <1>14 DEF Call
  <2>2. go.pc = "selecting" /\ go.own = r.own /\ go.chosen = r.chosen /\ go.offered = o
    BY <1>5 DEF CallState
  <2>3. r.own = {} /\ Clear(chain, Unreported(call), r.chosen)
    BY DEF CallClear, Clear
  <2>4. Clear(chain, Unreported(call), r.chosen \cup o)
    BY <1>11, <2>3 DEF Clear
  <2> QED BY <2>1, <2>2, <2>3, <2>4 DEF CallClear
<1>15. go.pc # "accepted" /\ IdleCall.pc # "accepted"
  BY <1>5 DEF IdleCall, CallState
<1>16. PICK v : call' = [call EXCEPT ![c] = v] /\ v.pc # "accepted"
                /\ CallClear(c, v, Unreported(call), chain)
  BY <1>7, <1>12, <1>13, <1>14, <1>15, IdleClear
<1>17. OneStep(c, v, k, D)
  BY <1>7, <1>10, <1>16 DEF OneStep
<1> QED
  BY <1>17, OneStepTracked

LEMMA StartTracked ==
  ASSUME Present, Undisturbed(past'), NEW c \in Call, NEW want \in 1..MaxWant, Start(c, want)
  PROVE  Followed
<1>1. PICK r : r = [IdleCall EXCEPT !.want = want]
  OBVIOUS
<1>2. want \in 0..MaxWant
  BY TimeAssumption
<1>3. r \in CallState
  BY <1>1, <1>2, IdleTyped DEF CallState
<1>4. /\ r.pc = "idle" /\ r.own = {} /\ r.chosen = {} /\ r.offered = {}
  BY <1>1 DEF IdleCall
<1>5. CallClear(c, r, Unreported(call), chain)
  BY <1>4 DEF CallClear, Clear
<1>6. Ask(c, "main", r) /\ call[c].pc = "idle" /\ "main" \in Key
  BY <1>1 DEF Start, Key
<1> QED
  BY <1>3, <1>4, <1>5, <1>6, AskTracked

LEMMA ReadTracked ==
  ASSUME Present, Undisturbed(past'), NEW c \in Call, Read(c)
  PROVE  Followed
<1>1. call[c].pc = "idle" /\ c \in Reader
  BY DEF Read
<1>2. CASE Ask(c, "main", IdleCall)
  <2>1. IdleCall \in CallState /\ IdleCall.pc = "idle" /\ "main" \in Key
    BY IdleTyped DEF IdleCall, Key
  <2> QED BY <1>1, <1>2, <2>1, IdleClear, AskTracked
<1>3. CASE call' = [call EXCEPT ![c].pc = "asked"] /\ UNCHANGED <<data, past>>
  <2>1. PICK r : r = [call[c] EXCEPT !.pc = "asked"]
    OBVIOUS
  <2>2. call \in [Call -> CallState] /\ CallClear(c, call[c], Unreported(call), chain)
    BY DEF Present, Tracked, IInv, CallsOK
  <2>3. /\ r.pc = "asked" /\ r.own = call[c].own /\ r.chosen = call[c].chosen
        /\ r.offered = call[c].offered
    BY <2>1, <2>2 DEF CallState
  <2>4. CallClear(c, r, Unreported(call), chain)
    BY <1>1, <2>2, <2>3 DEF CallClear
  <2>5. call' = [call EXCEPT ![c] = r]
    BY <1>3, <2>1, <2>2
  <2> QED BY <1>1, <1>3, <2>3, <2>4, <2>5, OnlyCalls
<1> QED
  BY <1>2, <1>3 DEF Read

LEMMA NodeAnswersTracked ==
  ASSUME Present, Behind(index, chain), Undisturbed(past'), NEW c \in Call, NodeAnswers(c)
  PROVE  Followed
<1>1. PICK coins : coins = IF NodeLags THEN index ELSE chain
  OBVIOUS
<1>2. PICK of : of = IF call[c].key = "main" THEN Coin \ CsvCoin ELSE CsvCoin
  OBVIOUS
<1>3. PICK v : v = View(coins)
  OBVIOUS
<1>4. PICK a : a = Only(v, of)
  OBVIOUS
<1>5. \A i \in Coin : /\ coins[i].at = "confirmed" => chain[i].at = "confirmed"
                      /\ coins[i].at # "absent" => chain[i].at # "absent"
                      /\ coins[i].spent # "no" => chain[i].spent # "no"
  BY <1>1 DEF Behind
<1>6. Truthful(a, chain)
  <2>1. /\ \A i \in v.confirmed : i \in Coin /\ coins[i].at = "confirmed"
        /\ \A i \in v.pending : i \in Coin /\ coins[i].at = "mempool"
        /\ \A i \in v.spent : i \in Coin /\ coins[i].spent = "mempool"
    BY <1>3 DEF View
  <2>2. a.confirmed \subseteq v.confirmed /\ a.pending \subseteq v.pending
        /\ a.spent \subseteq v.spent
    BY <1>3, <1>4 DEF Only, View
  <2> QED BY <1>5, <2>1, <2>2 DEF Truthful
<1>7. PICK r : r = [call[c] EXCEPT !.pc = "answered", !.answer = a]
  OBVIOUS
<1>8. /\ call \in [Call -> CallState] /\ CallClear(c, call[c], Unreported(call), chain)
      /\ call[c].pc = "asked"
  BY DEF Present, Tracked, IInv, CallsOK, NodeAnswers
<1>9. /\ r.pc = "answered" /\ r.answer = a /\ r.own = call[c].own
      /\ r.chosen = call[c].chosen /\ r.offered = call[c].offered
  BY <1>7, <1>8 DEF CallState
<1>10. CallClear(c, r, Unreported(call), chain)
  BY <1>6, <1>8, <1>9 DEF CallClear
<1>11. call' = [call EXCEPT ![c] = r]
  BY <1>1, <1>2, <1>3, <1>4, <1>7, <1>8 DEF NodeAnswers
<1>12. UNCHANGED data
  BY DEF NodeAnswers
<1> QED
  BY <1>8, <1>9, <1>10, <1>11, <1>12, OnlyCalls

\* An answer that overtakes no report is taken in when there is none to come.
LEMMA NothingOvertaken ==
  ASSUME Present, Undisturbed(past'), NEW c \in Call, past' = Noted(c)
  PROVE  (\A s \in Sender : call[s].pc # "accepted") /\ Unreported(call) = {}
<1>1. PICK late : late = \E i \in Offered(call[c].answer) : chain[i].spent # "no"
  OBVIOUS
<1>2. PICK over : over = \E s \in Sender : call[s].pc = "accepted"
  OBVIOUS
<1>3. past' = [past EXCEPT !.outdated = @ \/ late, !.overtaken = @ \/ over]
  BY <1>1, <1>2 DEF Noted
<1>4. late \in BOOLEAN /\ over \in BOOLEAN /\ PastOK(past)
  BY <1>1, <1>2 DEF Present, IInv
<1>5. ~over
  BY <1>3, <1>4 DEF PastOK, Undisturbed
<1>6. \A s \in Sender : call[s].pc # "accepted"
  BY <1>2, <1>5
<1> QED
  BY <1>6 DEF Unreported

\* F is D with the answer a in it.
Filled(F, D, a) ==
  /\ Sound(F) /\ F.made = TRUE /\ F.pending = D.pending /\ F.depth = D.depth
  /\ F.fetched = a /\ Truthful(a, chain)

\* What can be spent is not what an answer takes from the pending coins.
LEMMA SyncTracked ==
  ASSUME NEW D, NEW F, NEW a, Filled(F, D, a), DataClear(D, {}, chain)
  PROVE  /\ DataClear(F, {}, chain) /\ DataClear(Sync(F), {}, chain)
         /\ Deep(D, {}, chain) => Deep(Sync(F), {}, chain)
<1>1. PICK E : E = Sync(F)
  OBVIOUS
<1>2. PICK gone : gone = F.pending \cap (F.fetched.confirmed \cup F.fetched.spent)
  OBVIOUS
<1>3. PICK depth : depth = [i \in Coin |-> IF i \in gone THEN 0 ELSE F.depth[i]]
  OBVIOUS
<1>4. F \in AddressData /\ E = [F EXCEPT !.pending = @ \ gone, !.depth = depth]
  BY <1>1, <1>2, <1>3 DEF Sync, Filled, Sound
<1>5. /\ E.pending = F.pending \ gone /\ E.depth = depth /\ E.fetched = F.fetched
      /\ E.made = TRUE
  BY <1>4 DEF Filled, AddressData
<1>6. Clear(chain, {}, F.pending \cup a.confirmed \cup a.pending)
  BY DEF Filled, Truthful, DataClear, Clear
<1>7. DataClear(F, {}, chain)
  BY <1>6 DEF DataClear, Filled
<1>8. DataClear(E, {}, chain)
  <2>1. E.pending \cup a.confirmed \cup a.pending
          \subseteq F.pending \cup a.confirmed \cup a.pending
    BY <1>5
  <2>2. Clear(chain, {}, E.pending \cup a.confirmed \cup a.pending)
    BY <1>6, <2>1 DEF Clear
  <2> QED BY <1>5, <2>2 DEF DataClear, Filled
<1>9. ASSUME Deep(D, {}, chain)
      PROVE  Deep(E, {}, chain)
  <2>1. ASSUME NEW i \in Coin, chain[i].at = "mempool", chain[i].spent = "no"
        PROVE  i \in E.pending
    <3>1. i \in F.pending
      BY <1>9, <2>1 DEF Deep, Filled
    <3>2. i \notin gone
      BY <1>2, <2>1 DEF Filled, Truthful
    <3> QED BY <1>5, <3>1, <3>2
  <2>2. ASSUME NEW i \in E.pending
        PROVE  E.depth[i] >= Depths(chain)[i]
    <3>1. i \in F.pending /\ i \notin gone /\ i \in Coin
      BY <1>4, <1>5 DEF AddressData
    <3>2. E.depth[i] = D.depth[i]
      BY <1>3, <1>5, <3>1 DEF Filled
    <3> QED BY <1>9, <3>1, <3>2 DEF Deep, Filled
  <2> QED BY <2>1, <2>2 DEF Deep
<1> QED
  BY <1>1, <1>7, <1>8, <1>9

LEMMA FetchDoneTracked ==
  ASSUME Present, Undisturbed(past'), NEW c \in Call, FetchDone(c)
  PROVE  Followed
<1>1. PICK k : k = call[c].key
  OBVIOUS
<1>2. PICK live : live = GetAddressData(k)
  OBVIOUS
<1>3. PICK a : a = call[c].answer
  OBVIOUS
<1>4. PICK t : t = FetchedAt(c)
  OBVIOUS
<1>5. PICK fresh : fresh = [live EXCEPT !.fetched = a, !.lastFetch = t]
  OBVIOUS
<1>6. PICK filled : filled = IF call[c].own = {} THEN fresh ELSE live
  OBVIOUS
<1>7. PICK D : D = IF k # "csv_1" THEN Sync(filled)
                   ELSE IF call[c].own = {} THEN filled ELSE data[k]
  OBVIOUS
<1>8. PICK os : os = IF call[c].own = {} THEN {[spent |-> D.spent, pending |-> D.pending]}
                      ELSE call[c].own
  OBVIOUS
<1>9. /\ call \in [Call -> CallState] /\ CallClear(c, call[c], Unreported(call), chain)
      /\ Timely(call[c], now) /\ call[c].pc = "answered" /\ k \in Key
      /\ a \in Answer /\ t \in 0..MaxTime /\ t <= a.asOf
  BY <1>1, <1>3, <1>4
     DEF FetchDone, Present, Tracked, IInv, CallsOK, CallState, Timely, FetchedAt
<1>10. call[c].own = {} /\ Truthful(a, chain)
      /\ Clear(chain, Unreported(call), call[c].chosen \cup call[c].offered)
  BY <1>3, <1>9 DEF CallClear
<1>11. (\A s \in Sender : call[s].pc # "accepted") /\ Unreported(call) = {}
  <2>1. past' = Noted(c)
    BY DEF FetchDone
  <2> QED BY <2>1, NothingOvertaken
<1>12. /\ Sound(live) /\ live.made = TRUE /\ DataClear(live, {}, chain)
       /\ k = "main" => Deep(live, {}, chain)
  BY <1>2, <1>9, <1>11, GetTracked
<1>13. Filled(fresh, live, a)
  <2>1. Sound(fresh)
    BY <1>5, <1>9, <1>12, FilledSound
  <2>2. /\ fresh.made = TRUE /\ fresh.depth = live.depth /\ fresh.pending = live.pending
        /\ fresh.fetched = a
    BY <1>5, <1>12 DEF Sound, AddressData
  <2> QED BY <1>10, <2>1, <2>2 DEF Filled
<1>14. /\ DataClear(D, {}, chain)
       /\ k = "main" => Deep(D, {}, chain)
  BY <1>6, <1>7, <1>10, <1>12, <1>13, SyncTracked
<1>15. Spending(D, call, chain)
  BY <1>11 DEF Spending
<1>16. data' = [data EXCEPT ![k] = D]
  BY <1>1, <1>2, <1>3, <1>4, <1>5, <1>6, <1>7 DEF FetchDone
<1>17. PICK offered : offered = Offer(D.spent, D.pending, a, Merges(k))
  OBVIOUS
<1>18. call' = [call EXCEPT ![c] = Got(c, offered)]
  <2>1. \E o \in os :
          call' = [call EXCEPT ![c] = Got(c, Offer(o.spent, o.pending, a, Merges(k)))]
    BY <1>1, <1>2, <1>3, <1>4, <1>5, <1>6, <1>7, <1>8 DEF FetchDone
  <2>2. PICK o \in os :
          call' = [call EXCEPT ![c] = Got(c, Offer(o.spent, o.pending, a, Merges(k)))]
    BY <2>1
  <2>3. o.spent = D.spent /\ o.pending = D.pending
    BY <1>8, <1>10
  <2> QED BY <1>17, <2>2, <2>3
<1>19. Clear(chain, {}, offered)
  <2>1. offered \subseteq D.pending \cup a.confirmed \cup a.pending
    BY <1>17 DEF Offer
  <2> QED BY <1>10, <1>14, <2>1 DEF DataClear, Clear, Truthful
<1>20. PICK v : v = Got(c, offered)
  OBVIOUS
<1>21. v.pc # "accepted" /\ CallClear(c, v, {}, chain)
  <2>1. CASE c \in Sender
    <3>1. v = [call[c] EXCEPT !.pc = "selecting", !.offered = offered, !.own = {},
                              !.answer = NoAnswer, !.started = 0]
      BY <1>20, <2>1 DEF Got
    <3>2. /\ v.pc = "selecting" /\ v.own = {} /\ v.chosen = call[c].chosen
          /\ v.offered = offered
      BY <1>9, <3>1 DEF CallState
    <3>3. Clear(chain, {}, v.chosen \cup v.offered)
      BY <1>10, <1>11, <1>19, <3>2 DEF Clear
    <3> QED BY <2>1, <3>2, <3>3 DEF CallClear
  <2>2. CASE c \notin Sender
    <3>1. v = IdleCall
      BY <1>20, <2>2 DEF Got
    <3> QED BY <3>1, IdleClear DEF IdleCall
  <2> QED BY <2>1, <2>2
<1>22. OneStep(c, v, k, D)
  BY <1>9, <1>11, <1>14, <1>15, <1>16, <1>18, <1>20, <1>21 DEF OneStep
<1> QED
  BY <1>22, OneStepTracked

LEMMA BatchDoneTracked ==
  ASSUME Present, Undisturbed(past'), NEW c \in Call, BatchDone(c)
  PROVE  Followed
<1>1. PICK live : live = GetAddressData("main")
  OBVIOUS
<1>2. PICK a : a = call[c].answer
  OBVIOUS
<1>3. PICK fresh : fresh = [live EXCEPT !.fetched = a, !.lastFetch = now]
  OBVIOUS
<1>4. PICK D : D = Sync(fresh)
  OBVIOUS
<1>5. /\ call[c].pc = "answered" /\ a \in Answer /\ now \in 0..MaxTime /\ "main" \in Key
      /\ Truthful(a, chain)
  <2>1. call[c] \in CallState /\ CallClear(c, call[c], Unreported(call), chain)
        /\ call[c].pc = "answered" /\ now \in 1..MaxTime
    BY DEF BatchDone, Present, Tracked, IInv, CallsOK
  <2>2. now \in 0..MaxTime /\ "main" \in Key
    BY <2>1, TimeAssumption DEF Key
  <2> QED BY <1>2, <2>1, <2>2 DEF CallClear, CallState
<1>6. (\A s \in Sender : call[s].pc # "accepted") /\ Unreported(call) = {}
  <2>1. past' = Noted(c)
    BY DEF BatchDone
  <2> QED BY <2>1, NothingOvertaken
<1>7. /\ Sound(live) /\ live.made = TRUE /\ DataClear(live, {}, chain)
      /\ Deep(live, {}, chain)
  BY <1>1, <1>5, <1>6, GetTracked
<1>8. Filled(fresh, live, a)
  <2>1. ReadersBatch
    BY DEF BatchDone, IsBatch
  <2>2. Sound(fresh)
    BY <1>3, <1>5, <1>7, <2>1, FilledSound
  <2>3. /\ fresh.made = TRUE /\ fresh.depth = live.depth /\ fresh.pending = live.pending
        /\ fresh.fetched = a
    BY <1>3, <1>7 DEF Sound, AddressData
  <2> QED BY <1>5, <2>2, <2>3 DEF Filled
<1>9. DataClear(D, {}, chain) /\ Deep(D, {}, chain)
  BY <1>4, <1>7, <1>8, SyncTracked
<1>10. Spending(D, call, chain)
  BY <1>6 DEF Spending
<1>11. data' = [data EXCEPT !["main"] = D] /\ call' = [call EXCEPT ![c] = IdleCall]
  BY <1>1, <1>2, <1>3, <1>4 DEF BatchDone
<1>12. IdleCall.pc # "accepted"
  BY DEF IdleCall
<1>13. OneStep(c, IdleCall, "main", D)
  BY <1>5, <1>6, <1>9, <1>10, <1>11, <1>12, IdleClear DEF OneStep
<1> QED
  BY <1>13, OneStepTracked

LEMMA NothingCleaned ==
  ASSUME Present, Undisturbed(past'), NEW cs
  PROVE  ~CleanAll(cs)
BY DEF CleanAll, Undisturbed, Present, IInv, PastOK

LEMMA FetchFailsTracked ==
  ASSUME Present, Undisturbed(past'), NEW c \in Call, FetchFails(c)
  PROVE  Followed
<1>1. call' = [call EXCEPT ![c] = IdleCall] /\ UNCHANGED data
  <2>1. PICK rest : rest = [call EXCEPT ![c] = IdleCall]
    OBVIOUS
  <2>2. CleanAll(rest) \/ (call' = rest /\ UNCHANGED <<data, past>>)
    BY <2>1 DEF FetchFails
  <2> QED BY <2>1, <2>2, NothingCleaned
<1>2. call[c].pc = "asked" /\ IdleCall.pc = "idle"
  BY DEF FetchFails, IdleCall
<1> QED
  BY <1>1, <1>2, IdleClear, OnlyCalls

LEMMA SelectTracked ==
  ASSUME Present, Undisturbed(past'), NEW c \in Call, Select(c)
  PROVE  Followed
<1>1. /\ call \in [Call -> CallState] /\ CallClear(c, call[c], Unreported(call), chain)
      /\ call[c].pc = "selecting"
  BY DEF Select, Present, Tracked, IInv, CallsOK
<1>2. PICK picked \in SUBSET call[c].offered :
        LET r == [call[c] EXCEPT !.chosen = call[c].chosen \cup picked, !.offered = {}]
        IN \/ /\ call' = [call EXCEPT ![c] = [r EXCEPT !.pc = "ready"]]
              /\ UNCHANGED <<data, past>>
           \/ Ask(c, "csv_1", r)
           \/ CleanAll([call EXCEPT ![c] = IdleCall])
  BY DEF Select
<1>3. PICK r : r = [call[c] EXCEPT !.chosen = call[c].chosen \cup picked, !.offered = {}]
  OBVIOUS
<1>4. PICK go : go = [r EXCEPT !.pc = "ready"]
  OBVIOUS
<1>5. PICK rest : rest = [call EXCEPT ![c] = IdleCall]
  OBVIOUS
<1>6. /\ r \in CallState /\ r.own = {} /\ r.chosen = call[c].chosen \cup picked
      /\ r.offered = {} /\ r.pc = "selecting"
  BY <1>1, <1>2, <1>3 DEF CallState, CallClear
<1>7. go.pc = "ready" /\ go.own = {} /\ go.chosen = r.chosen /\ go.offered = {}
  BY <1>4, <1>6 DEF CallState
<1>8. c \in Sender
  BY <1>1 DEF CallClear
<1>9. Clear(chain, Unreported(call), r.chosen \cup {})
  BY <1>1, <1>2, <1>6 DEF CallClear, Clear
<1>10. CallClear(c, r, Unreported(call), chain) /\ CallClear(c, go, Unreported(call), chain)
  BY <1>6, <1>7, <1>8, <1>9 DEF CallClear
<1>11. \/ call' = [call EXCEPT ![c] = go] /\ UNCHANGED data
       \/ Ask(c, "csv_1", r)
       \/ CleanAll(rest)
  BY <1>2, <1>3, <1>4, <1>5
<1>12. CASE call' = [call EXCEPT ![c] = go] /\ UNCHANGED data
  BY <1>1, <1>7, <1>10, <1>12, OnlyCalls
<1>13. CASE Ask(c, "csv_1", r)
  <2>1. "csv_1" \in Key
    BY DEF Key
  <2> QED BY <1>1, <1>6, <1>10, <1>13, <2>1, AskTracked
<1> QED
  BY <1>11, <1>12, <1>13, NothingCleaned

\* What spentUTXO() makes of an AddressData.
LEMMA SpentIs ==
  ASSUME NEW D, NEW spent, NEW new, MaySpend(D, spent, new), ~TooLong(D, spent),
         NEW E, E = SpentUTXO(D, spent, new)
  PROVE  /\ E.pending = (D.pending \ spent) \cup new
         /\ E.fetched = D.fetched /\ E.made = D.made
         /\ \A i \in new : E.depth[i] = ParentDepth(D, spent) + 1
         /\ \A i \in Coin \ (new \cup spent) : E.depth[i] = D.depth[i]
<1>1. PICK p : p = ParentDepth(D, spent)
  OBVIOUS
<1>2. PICK depth : depth = [i \in Coin |-> IF i \in new THEN p + 1
                                           ELSE IF i \in spent THEN 0 ELSE D.depth[i]]
  OBVIOUS
<1>3. E = [D EXCEPT !.spent = @ \cup spent, !.pending = (@ \ spent) \cup new, !.depth = depth]
  BY <1>1, <1>2 DEF SpentUTXO
<1>4. D \in AddressData /\ new \subseteq Coin
  BY DEF MaySpend, Sound
<1>5. /\ E.pending = (D.pending \ spent) \cup new /\ E.fetched = D.fetched
      /\ E.made = D.made /\ E.depth = depth
  BY <1>3, <1>4 DEF AddressData
<1> QED
  BY <1>1, <1>2, <1>4, <1>5

LEMMA SentTracked ==
  ASSUME Present, Grows(chain), Undisturbed(past'), NEW c \in Call, Sent(c)
  PROVE  Followed
<1>1. PICK ins : ins = call[c].chosen
  OBVIOUS
<1>2. PICK mains : mains = ins \ CsvCoin
  OBVIOUS
<1>3. PICK csvs : csvs = ins \cap CsvCoin
  OBVIOUS
<1>4. PICK G : G = GetAddressData("main")
  OBVIOUS
<1>5. PICK K : K = GetAddressData("csv")
  OBVIOUS
<1>6. /\ call \in [Call -> CallState] /\ CallClear(c, call[c], Unreported(call), chain)
      /\ call[c].pc = "accepted" /\ data \in [Key -> AddressData] /\ CoinsOK(chain)
      /\ "main" \in Key /\ "csv" \in Key
  BY DEF Sent, Present, Tracked, IInv, CallsOK, DataOK, Key
<1>7. /\ c \in Sender /\ ins \in SUBSET Coin /\ mains \in SUBSET Coin /\ csvs \in SUBSET Coin
      /\ call[c].offered \in SUBSET Coin
  BY <1>1, <1>2, <1>3, <1>6 DEF CallClear, CallState
<1>8. PICK new \in Coin :
        /\ call[c].offered = {new} /\ chain[new].at # "absent" /\ chain[new].from = ins
        /\ \A i \in ins : chain[i].at # "absent" /\ chain[i].spent # "no"
  BY <1>1, <1>6 DEF CallClear
<1>9. PICK E : E = SpentUTXO(G, mains, {new})
  OBVIOUS
<1>10. PICK L : L = IF csvs = {} THEN data["csv"] ELSE SpentUTXO(K, csvs, {})
  OBVIOUS
<1>11. /\ ~TooLong(G, mains)
       /\ data' = [data EXCEPT !["csv"] = L, !["main"] = E]
       /\ call' = [call EXCEPT ![c] = IdleCall]
  <2>1. PICK rest : rest = [call EXCEPT ![c] = IdleCall]
    OBVIOUS
  <2>2. ~CleanAll(rest)
    BY NothingCleaned
  <2>3. /\ ~TooLong(G, mains)
        /\ data' = [data EXCEPT
             !["csv"] = IF csvs = {} THEN @ ELSE SpentUTXO(K, csvs, {}),
             !["main"] = SpentUTXO(G, mains, {new})]
        /\ call' = rest
    BY <1>1, <1>2, <1>3, <1>4, <1>5, <1>8, <2>1, <2>2 DEF Sent
  <2>4. data' = [data EXCEPT !["csv"] = L, !["main"] = E]
    BY <1>9, <1>10, <2>3
  <2> QED BY <2>1, <2>3, <2>4
<1>12. /\ Sound(G) /\ G.made = TRUE /\ DataClear(G, Unreported(call), chain)
       /\ Deep(G, Unreported(call), chain) /\ Spending(G, call, chain)
  BY <1>4, <1>6, GetTracked
<1>13. Sound(K) /\ K.made = TRUE /\ DataClear(K, Unreported(call), chain)
  BY <1>5, <1>6, GetTracked
<1>14. /\ E.pending = (G.pending \ mains) \cup {new} /\ E.fetched = G.fetched /\ E.made = TRUE
       /\ E.depth[new] = ParentDepth(G, mains) + 1
       /\ \A i \in Coin \ ({new} \cup mains) : E.depth[i] = G.depth[i]
  <2>1. PICK made : made = {new}
    OBVIOUS
  <2>2. MaySpend(G, mains, made) /\ E = SpentUTXO(G, mains, made) /\ ~TooLong(G, mains)
    BY <1>7, <1>8, <1>9, <1>11, <1>12, <2>1 DEF MaySpend
  <2>3. /\ E.pending = (G.pending \ mains) \cup made
        /\ E.fetched = G.fetched /\ E.made = G.made
        /\ \A i \in made : E.depth[i] = ParentDepth(G, mains) + 1
        /\ \A i \in Coin \ (made \cup mains) : E.depth[i] = G.depth[i]
    BY <2>2, SpentIs
  <2> QED BY <1>12, <2>1, <2>3
<1>15. /\ L.pending \subseteq K.pending \cup data["csv"].pending
       /\ L.made = TRUE \/ L = data["csv"]
       /\ L.fetched = K.fetched \/ L = data["csv"]
       /\ L = data["csv"] \/ L.pending \subseteq K.pending
  <2>1. MaySpend(K, csvs, {})
    BY <1>7, <1>13 DEF MaySpend
  <2>2. CASE csvs = {}
    BY <1>10, <2>2
  <2>3. CASE csvs # {}
    <3>1. L = SpentUTXO(K, csvs, {})
      BY <1>10, <2>3
    <3>2. L.pending \subseteq K.pending \cup {} /\ L.fetched = K.fetched /\ L.made = K.made
      BY <2>1, <3>1, SpentSound
    <3> QED BY <1>13, <3>2
  <2> QED BY <2>2, <2>3
<1>16. PICK U : U = Unreported(call')
  OBVIOUS
<1>17. \A s \in Sender : call'[s] = IF s = c THEN IdleCall ELSE call[s]
  BY <1>6, <1>7, <1>11 DEF Call
<1>18. IdleCall.pc = "idle"
  BY DEF IdleCall
<1>19. U \subseteq Unreported(call) /\ new \notin U
       /\ \A i \in Unreported(call) : i = new \/ i \in U
  <2>1. ASSUME NEW i \in U
        PROVE  i \in Unreported(call) /\ i # new
    <3>1. PICK s \in Sender : call'[s].pc = "accepted" /\ i \in call'[s].offered /\ i \in Coin
      BY <1>16 DEF Unreported
    <3>2. s # c /\ call[s].pc = "accepted" /\ i \in call[s].offered
      BY <1>17, <1>18, <3>1
    <3>3. call[s].offered \cap call[c].offered = {}
      BY <1>6, <1>7, <3>2 DEF Present, Tracked, Apart
    <3> QED BY <1>8, <3>1, <3>2, <3>3 DEF Unreported
  <2>2. ASSUME NEW i \in Unreported(call), i # new
        PROVE  i \in U
    <3>1. PICK s \in Sender : call[s].pc = "accepted" /\ i \in call[s].offered /\ i \in Coin
      BY DEF Unreported
    <3>2. s # c
      BY <1>8, <2>2, <3>1
    <3> QED BY <1>16, <1>17, <3>1, <3>2 DEF Unreported
  <2> QED BY <2>1, <2>2
<1>20. \A S : Clear(chain, Unreported(call), S) => Clear(chain, U, S)
  BY <1>19 DEF Clear
<1>21. DataClear(E, U, chain)
  <2>1. Clear(chain, U, G.pending \cup G.fetched.confirmed \cup G.fetched.pending)
    BY <1>12, <1>20 DEF DataClear
  <2>2. Clear(chain, U, E.pending \cup E.fetched.confirmed \cup E.fetched.pending)
    BY <1>8, <1>14, <1>19, <2>1 DEF Clear
  <2> QED BY <1>14, <2>2 DEF DataClear
<1>22. \A k \in Key : DataClear(data[k], U, chain)
  BY <1>20 DEF DataClear, Present, Tracked
<1>23. DataClear(L, U, chain)
  <2>1. CASE L = data["csv"]
    BY <1>6, <1>22, <2>1
  <2>2. CASE L # data["csv"]
    <3>1. L.made = TRUE /\ L.fetched = K.fetched /\ L.pending \subseteq K.pending
      BY <1>15, <2>2
    <3>2. Clear(chain, U, K.pending \cup K.fetched.confirmed \cup K.fetched.pending)
      BY <1>13, <1>20 DEF DataClear
    <3>3. Clear(chain, U, L.pending \cup L.fetched.confirmed \cup L.fetched.pending)
      BY <3>1, <3>2 DEF Clear
    <3> QED BY <3>1, <3>3 DEF DataClear
  <2> QED BY <2>1, <2>2
<1>24. Deep(E, U, chain)
  <2>1. ASSUME NEW i \in Coin, chain[i].at = "mempool", chain[i].spent = "no"
        PROVE  i \in E.pending \cup U
    <3>1. i \in G.pending \cup Unreported(call)
      BY <1>12, <2>1 DEF Deep
    <3>2. i \notin mains
      BY <1>2, <1>8, <2>1
    <3> QED BY <1>14, <1>19, <3>1, <3>2
  <2>2. PICK d : d = Depths(chain)
    OBVIOUS
  <2>3. Deepens(chain, d) /\ \A i \in Coin : d[i] \in Nat
    BY <1>6, <2>2, CoinAssumption, DepthsDeepen DEF Deepens
  <2>4. G \in AddressData /\ Limit \in Nat
    BY <1>12, TimeAssumption DEF Sound
  <2>5. PICK m : m = ParentDepth(G, mains)
    OBVIOUS
  <2>6. m \in Nat /\ \A p \in mains : G.depth[p] <= m
    <3>1. PICK f : f = G.depth
      OBVIOUS
    <3>2. \A p \in mains : f[p] \in 0..Limit
      BY <1>7, <2>4, <3>1 DEF AddressData
    <3>3. m = Max({f[p] : p \in mains} \cup {0})
      BY <2>5, <3>1 DEF ParentDepth
    <3>4. m \in 0..Limit /\ \A p \in mains : f[p] <= m
      BY <2>4, <3>2, <3>3, DeepestParent
    <3> QED BY <2>4, <3>1, <3>4
  <2>7. ASSUME NEW p \in ins
        PROVE  d[p] <= m
    <3>1. p \in Coin /\ d[p] \in Nat
      BY <1>7, <2>3
    <3>2. CASE chain[p].at # "mempool"
      BY <2>3, <2>6, <3>1, <3>2 DEF Deepens
    <3>3. CASE chain[p].at = "mempool"
      <4>1. p \in G.pending
        BY <1>1, <1>6, <1>7, <1>12, <3>3 DEF Spending
      <4>2. G.depth[p] >= d[p] /\ G.depth[p] \in Nat
        BY <1>12, <2>2, <2>4, <3>1, <4>1 DEF Deep, AddressData
      <4>3. p \in mains
        BY <1>2, <3>3 DEF Grows
      <4> QED BY <2>6, <3>1, <4>2, <4>3
    <3> QED BY <3>2, <3>3
  <2>8. E.depth[new] >= d[new]
    <3>1. E.depth[new] = m + 1 /\ d[new] \in Nat
      BY <1>14, <2>3, <2>5
    <3>2. CASE chain[new].at # "mempool"
      BY <2>3, <2>6, <3>1, <3>2 DEF Deepens
    <3>3. CASE d[new] = 1
      BY <2>6, <3>1, <3>3
    <3>4. CASE \E p \in ins : d[new] = d[p] + 1
      <4>1. PICK p \in ins : d[new] = d[p] + 1
        BY <3>4
      <4>2. d[p] <= m /\ d[p] \in Nat
        BY <1>7, <2>3, <2>7
      <4> QED BY <2>6, <3>1, <4>1, <4>2
    <3> QED BY <1>8, <2>3, <3>2, <3>3, <3>4 DEF Deepens
  <2>9. ASSUME NEW i \in E.pending
        PROVE  E.depth[i] >= d[i]
    <3>1. CASE i = new
      BY <2>8, <3>1
    <3>2. CASE i # new
      <4>1. i \in G.pending /\ i \notin mains /\ i \in Coin
        BY <1>14, <2>4, <3>2 DEF AddressData
      <4>2. E.depth[i] = G.depth[i]
        BY <1>14, <3>2, <4>1
      <4> QED BY <1>12, <2>2, <4>1, <4>2 DEF Deep
    <3> QED BY <3>1, <3>2
  <2> QED BY <2>1, <2>2, <2>9 DEF Deep
<1>25. Spending(E, call', chain)
  <2> SUFFICES ASSUME NEW s \in Sender, call'[s].pc = "accepted", NEW i \in call'[s].chosen,
                      chain[i].at = "mempool"
               PROVE  i \in E.pending
    BY DEF Spending
  <2>1. s # c /\ call'[s] = call[s]
    BY <1>17, <1>18
  <2>2. i \in G.pending
    BY <1>12, <2>1 DEF Spending
  <2>3. i \notin ins
    BY <1>1, <1>6, <1>7, <2>1 DEF Present, Tracked, Apart
  <2> QED BY <1>2, <1>14, <2>2, <2>3
<1>26. \A d \in Call : CallClear(d, call'[d], U, chain)
  <2>1. \A d \in Call : CallClear(d, call[d], U, chain)
    BY <1>20 DEF Present, Tracked, CallClear
  <2>2. \A d \in Call : call'[d] = IF d = c THEN IdleCall ELSE call[d]
    BY <1>6, <1>11
  <2> QED BY <2>1, <2>2, IdleClear
<1>27. Apart(call')
  BY <1>17, <1>18 DEF Present, Tracked, Apart
<1>28. \A k \in Key : DataClear(data'[k], U, chain)
  <2>1. \A k \in Key : data'[k] \in {E, L, data[k]}
    BY <1>6, <1>11
  <2> QED BY <1>21, <1>22, <1>23, <2>1
<1>29. data'["main"] = E
  BY <1>6, <1>11
<1> QED
  BY <1>16, <1>24, <1>25, <1>26, <1>27, <1>28, <1>29 DEF Followed, Tracked

-----------------------------------------------------------------------------
(* What the node does                                                      *)

LEMMA StaysTruthful ==
  ASSUME NEW a \in Answer, NEW coins, NEW new, Ages(coins, new), Truthful(a, coins)
  PROVE  Truthful(a, new)
BY DEF Truthful, Ages, Answer

LEMMA StaysBehind ==
  ASSUME NEW idx, NEW coins, NEW new, Ages(coins, new), Behind(idx, coins)
  PROVE  Behind(idx, new)
BY DEF Behind, Ages

LEMMA BroadcastTracked ==
  ASSUME DInv, Undisturbed(past), NEW c \in Call, Broadcast(c)
  PROVE  Grows(chain') /\ Behind(index', chain') /\ Tracked(data', call', chain')
<1>1. PICK ins : ins = call[c].chosen
  OBVIOUS
<1>2. PICK U : U = Unreported(call)
  OBVIOUS
<1>3. PICK D : D = data["main"]
  OBVIOUS
<1>4. /\ Present /\ Grows(chain) /\ Behind(index, chain)
      /\ call \in [Call -> CallState] /\ CallClear(c, call[c], U, chain)
      /\ call[c].pc = "ready" /\ data \in [Key -> AddressData] /\ CoinsOK(chain)
      /\ "main" \in Key /\ UNCHANGED <<data, index>>
  BY <1>2 DEF Broadcast, DInv, Present, Tracked, IInv, CallsOK, DataOK, Key
<1>5. c \in Sender /\ ins \in SUBSET Coin /\ call[c].own = {} /\ Clear(chain, U, ins)
  BY <1>1, <1>4 DEF CallClear, Clear, CallState
<1>6. /\ Deep(D, U, chain) /\ Spending(D, call, chain) /\ Apart(call)
      /\ \A k \in Key : DataClear(data[k], U, chain)
      /\ \A d \in Call : CallClear(d, call[d], U, chain)
  BY <1>2, <1>3, <1>4 DEF Present, Tracked
<1>7. CASE call' = [call EXCEPT ![c].pc = "refused"] /\ UNCHANGED chain
  <2>1. PICK r : r = [call[c] EXCEPT !.pc = "refused"]
    OBVIOUS
  <2>2. /\ r.pc = "refused" /\ r.own = {} /\ r.chosen = call[c].chosen
        /\ r.offered = call[c].offered
    BY <1>4, <1>5, <2>1 DEF CallState
  <2>3. CallClear(c, r, Unreported(call), chain)
    BY <1>2, <1>4, <1>5, <2>2 DEF CallClear
  <2>4. call' = [call EXCEPT ![c] = r]
    BY <1>4, <1>7, <2>1
  <2>5. Followed
    BY <1>4, <2>2, <2>3, <2>4, OnlyCalls
  <2> QED BY <1>4, <1>7, <2>5 DEF Followed
<1>8. CASE /\ \A i \in ins : chain[i].spent = "no"
           /\ \E new \in Coin :
                /\ chain[new].at = "absent"
                /\ \A i \in Coin : chain[i].at = "absent" => new <= i
                /\ chain' = [i \in Coin |->
                     IF i = new THEN [at |-> "mempool", spent |-> "no", from |-> ins]
                     ELSE IF i \in ins THEN [chain[i] EXCEPT !.spent = "mempool"] ELSE chain[i]]
                /\ call' = [call EXCEPT ![c].pc = "accepted", ![c].offered = {new}]
  <2>1. PICK new \in Coin :
                /\ chain[new].at = "absent"
                /\ \A i \in Coin : chain[i].at = "absent" => new <= i
                /\ chain' = [i \in Coin |->
                     IF i = new THEN [at |-> "mempool", spent |-> "no", from |-> ins]
                     ELSE IF i \in ins THEN [chain[i] EXCEPT !.spent = "mempool"] ELSE chain[i]]
                /\ call' = [call EXCEPT ![c].pc = "accepted", ![c].offered = {new}]
    BY <1>8
  <2>2. PICK coins : coins = chain'
    OBVIOUS
  <2>3. new \notin ins /\ \A i \in ins : i \in Coin /\ chain[i].at # "absent"
    BY <1>5, <2>1 DEF Clear
  <2>4. coins[new].at = "mempool" /\ coins[new].spent = "no" /\ coins[new].from = ins
    BY <2>1, <2>2
  <2>5. ASSUME NEW i \in Coin, i # new
        PROVE  /\ coins[i].at = chain[i].at /\ coins[i].from = chain[i].from
               /\ i \in ins => coins[i].spent = "mempool"
               /\ i \notin ins => coins[i].spent = chain[i].spent
    BY <1>4, <2>1, <2>2, <2>5 DEF CoinsOK, CoinState
  <2>6. Ages(chain, coins)
    <3> SUFFICES ASSUME NEW i \in Coin, chain[i].at # "absent" \/ chain[i].spent # "no"
                 PROVE  /\ chain[i].at # "absent" =>
                             /\ coins[i].at # "absent" /\ coins[i].from = chain[i].from
                             /\ coins[i].at = "mempool" => chain[i].at = "mempool"
                        /\ chain[i].at = "confirmed" => coins[i].at = "confirmed"
                        /\ chain[i].spent # "no" => coins[i].spent # "no"
      BY DEF Ages
    <3>1. i # new
      BY <1>4, <2>1 DEF Grows
    <3> QED BY <2>5, <3>1
  <2>7. CoinsOK(coins)
    BY <1>4, <1>5, <2>1, <2>2 DEF CoinsOK, CoinState
  <2>8. Grows(coins)
    <3>1. \A i \in CsvCoin : coins[i].at = "confirmed"
      BY <1>4, <2>6, CoinAssumption DEF Grows, Ages
    <3>2. \A i \in Coin : i \in Nat
      BY DEF Coin
    <3>3. ASSUME NEW i \in Coin, coins[i].at = "mempool", NEW p \in coins[i].from
          PROVE  coins[p].at # "absent" /\ (coins[p].at = "mempool" => p < i)
      <4>1. CASE i = new
        <5>1. p \in ins /\ p \in Coin /\ p # new /\ chain[p].at # "absent"
              /\ coins[p].at = chain[p].at
          BY <2>3, <2>4, <2>5, <3>3, <4>1
        <5>2. chain[p].at = "mempool" => p < new
          BY <1>4, <2>1, <5>1 DEF Grows
        <5> QED BY <4>1, <5>1, <5>2
      <4>2. CASE i # new
        <5>1. chain[i].at = "mempool" /\ p \in chain[i].from /\ p \in Coin
          BY <1>4, <2>5, <3>3, <4>2 DEF CoinsOK, CoinState
        <5>2. chain[p].at # "absent" /\ (chain[p].at = "mempool" => p < i)
          BY <1>4, <5>1 DEF Grows
        <5>3. p # new
          BY <2>1, <5>2
        <5> QED BY <2>5, <5>1, <5>2, <5>3
      <4> QED BY <4>1, <4>2
    <3>4. ASSUME NEW i \in Coin, coins[i].at = "mempool", NEW j \in Coin,
                 coins[j].at = "absent"
          PROVE  i < j
      <4>1. j # new /\ chain[j].at = "absent"
        BY <2>4, <2>5, <3>4
      <4>2. CASE i = new
        BY <2>1, <3>2, <4>1, <4>2
      <4>3. CASE i # new
        BY <1>4, <2>5, <3>4, <4>1, <4>3 DEF Grows
      <4> QED BY <4>2, <4>3
    <3>5. ASSUME NEW i \in Coin, coins[i].at = "absent"
          PROVE  coins[i].spent = "no"
      <4>1. i # new /\ chain[i].at = "absent" /\ i \notin ins
        BY <2>3, <2>4, <2>5, <3>5
      <4> QED BY <1>4, <2>5, <4>1 DEF Grows
    <3> QED BY <3>1, <3>3, <3>4, <3>5 DEF Grows
  <2>9. PICK r : r = [call[c] EXCEPT !.pc = "accepted", !.offered = {new}]
    OBVIOUS
  <2>10. r.pc = "accepted" /\ r.offered = {new} /\ r.chosen = ins /\ r.own = {}
    BY <1>1, <1>4, <1>5, <2>9 DEF CallState
  <2>11. \A d \in Call : call'[d] = IF d = c THEN r ELSE call[d]
    BY <1>4, <2>1, <2>9
  <2>12. Sender \subseteq Call /\ c \in Call
    BY DEF Call
  <2>13. PICK V : V = Unreported(call')
    OBVIOUS
  <2>14. V \subseteq U \cup {new} /\ new \in V /\ U \subseteq V
    <3>1. new \in V
      BY <1>5, <2>10, <2>11, <2>12, <2>13 DEF Unreported
    <3>2. ASSUME NEW i \in V
          PROVE  i \in U \cup {new}
      <4>1. PICK s \in Sender : call'[s].pc = "accepted" /\ i \in call'[s].offered /\ i \in Coin
        BY <2>13 DEF Unreported
      <4> QED BY <1>2, <2>10, <2>11, <2>12, <4>1 DEF Unreported
    <3>3. ASSUME NEW i \in U
          PROVE  i \in V
      <4>1. PICK s \in Sender : call[s].pc = "accepted" /\ i \in call[s].offered /\ i \in Coin
        BY <1>2 DEF Unreported
      <4>2. s # c
        BY <1>4, <4>1
      <4> QED BY <2>11, <2>12, <2>13, <4>1, <4>2 DEF Unreported
    <3> QED BY <3>1, <3>2, <3>3
  <2>15. ASSUME NEW S, S \subseteq Coin, Clear(chain, U, S)
         PROVE  Clear(coins, V, S)
    BY <2>1, <2>6, <2>14, <2>15 DEF Clear, Ages
  <2>16. ASSUME NEW k \in Key
         PROVE  DataClear(data[k], V, coins)
    <3>1. PICK S : S = data[k].pending \cup data[k].fetched.confirmed \cup data[k].fetched.pending
      OBVIOUS
    <3>2. S \subseteq Coin /\ Clear(chain, U, S)
      BY <1>4, <1>6, <3>1 DEF AddressData, Answer, DataClear
    <3> QED BY <1>6, <2>15, <3>1, <3>2 DEF DataClear
  <2>17. ASSUME NEW d \in Call
         PROVE  CallClear(d, call'[d], V, coins)
    <3>1. CASE d = c
      <4>1. \A i \in ins : coins[i].at # "absent" /\ coins[i].spent # "no"
        <5> SUFFICES ASSUME NEW i \in ins
                     PROVE  coins[i].at # "absent" /\ coins[i].spent # "no"
          OBVIOUS
        <5>1. i \in Coin /\ i # new /\ chain[i].at # "absent"
          BY <2>3
        <5> QED BY <2>5, <5>1
      <4> QED BY <1>5, <2>4, <2>10, <2>11, <3>1, <4>1 DEF CallClear
    <3>2. CASE d # c
      <4>1. call'[d] = call[d] /\ call[d] \in CallState /\ CallClear(d, call[d], U, chain)
        BY <1>4, <1>6, <2>11, <3>2
      <4>2. call[d].pc = "answered" => Truthful(call[d].answer, coins)
        BY <2>6, <4>1, StaysTruthful DEF CallClear, CallState
      <4>3. call[d].chosen \cup call[d].offered \subseteq Coin
        BY <4>1 DEF CallState
      <4>4. call[d].pc # "accepted" => Clear(coins, V, call[d].chosen \cup call[d].offered)
        BY <2>15, <4>1, <4>3 DEF CallClear
      <4>5. ASSUME call[d].pc = "accepted"
            PROVE  \E n \in Coin :
                     /\ call[d].offered = {n} /\ coins[n].at # "absent"
                     /\ coins[n].from = call[d].chosen
                     /\ \A i \in call[d].chosen : coins[i].at # "absent" /\ coins[i].spent # "no"
        <5>1. PICK n \in Coin :
                /\ call[d].offered = {n} /\ chain[n].at # "absent"
                /\ chain[n].from = call[d].chosen
                /\ \A i \in call[d].chosen : chain[i].at # "absent" /\ chain[i].spent # "no"
          BY <4>1, <4>5 DEF CallClear
        <5> QED BY <2>6, <4>3, <5>1 DEF Ages
      <4> QED BY <4>1, <4>2, <4>4, <4>5 DEF CallClear
    <3> QED BY <3>1, <3>2
  <2>18. Deep(D, V, coins)
    <3>1. D \in AddressData /\ Clear(chain, U, D.pending)
      BY <1>3, <1>4, <1>6 DEF DataClear, Clear
    <3>2. ASSUME NEW i \in Coin, coins[i].at = "mempool", coins[i].spent = "no"
          PROVE  i \in D.pending \cup V
      <4>1. CASE i = new
        BY <2>14, <4>1
      <4>2. CASE i # new
        <5>1. chain[i].at = "mempool" /\ i \notin ins /\ chain[i].spent = "no"
          BY <2>5, <3>2, <4>2
        <5> QED BY <1>6, <2>14, <5>1 DEF Deep
      <4> QED BY <4>1, <4>2
    <3>3. ASSUME NEW i \in D.pending
          PROVE  D.depth[i] >= Depths(coins)[i]
      <4>1. i \in Coin /\ chain[i].at # "absent" /\ D.depth[i] \in Nat
        BY <3>1, TimeAssumption DEF Clear, AddressData
      <4>2. PICK x : x = Depths(chain)[i]
        OBVIOUS
      <4>3. PICK y : y = Depths(coins)[i]
        OBVIOUS
      <4>4. x \in Nat /\ y \in Nat
        BY <1>4, <2>7, <2>8, <4>1, <4>2, <4>3, CoinAssumption, DepthsDeepen DEF Deepens
      <4>5. y <= x
        BY <1>4, <2>6, <2>7, <2>8, <4>1, <4>2, <4>3, DepthsShrink
      <4>6. D.depth[i] >= x
        BY <1>6, <4>2 DEF Deep
      <4> QED BY <4>1, <4>3, <4>4, <4>5, <4>6
    <3> QED BY <3>2, <3>3 DEF Deep
  <2>19. Spending(D, call', coins)
    <3> SUFFICES ASSUME NEW s \in Sender, call'[s].pc = "accepted", NEW i \in call'[s].chosen,
                        coins[i].at = "mempool"
                 PROVE  i \in D.pending
      BY DEF Spending
    <3>1. CASE s = c
      <4>1. i \in ins /\ i \in Coin /\ i # new /\ chain[i].at # "absent" /\ i \notin U
        BY <1>5, <2>3, <2>10, <2>11, <2>12, <3>1 DEF Clear
      <4>2. chain[i].at = "mempool" /\ chain[i].spent = "no"
        BY <1>8, <2>5, <4>1
      <4> QED BY <1>6, <4>1, <4>2 DEF Deep
    <3>2. CASE s # c
      <4>1. s \in Call /\ call[s].pc = "accepted" /\ i \in call[s].chosen
        BY <2>11, <2>12, <3>2
      <4>2. i \in Coin /\ chain[i].at # "absent"
        BY <1>4, <1>6, <4>1 DEF CallClear, CallState
      <4>3. chain[i].at = "mempool"
        BY <2>6, <4>2 DEF Ages
      <4> QED BY <1>6, <4>1, <4>3 DEF Spending
    <3> QED BY <3>1, <3>2
  <2>20. Apart(call')
    <3>1. ASSUME NEW s \in Sender, s # c, call[s].pc = "accepted"
          PROVE  call[s].chosen \cap ins = {} /\ call[s].offered \cap {new} = {}
      <4>1. CallClear(s, call[s], U, chain)
        BY <1>6, <2>12
      <4>2. PICK n \in Coin :
              /\ call[s].offered = {n} /\ chain[n].at # "absent"
              /\ \A i \in call[s].chosen : chain[i].at # "absent" /\ chain[i].spent # "no"
        BY <3>1, <4>1 DEF CallClear
      <4> QED BY <1>8, <2>1, <4>2
    <3> SUFFICES ASSUME NEW s \in Sender, NEW t \in Sender, s # t,
                        call'[s].pc = "accepted", call'[t].pc = "accepted"
                 PROVE  call'[s].chosen \cap call'[t].chosen = {}
                        /\ call'[s].offered \cap call'[t].offered = {}
      BY DEF Apart
    <3>2. CASE s = c
      BY <2>10, <2>11, <2>12, <3>1, <3>2
    <3>3. CASE t = c
      BY <2>10, <2>11, <2>12, <3>1, <3>3
    <3>4. CASE s # c /\ t # c
      BY <1>6, <2>11, <2>12, <3>4 DEF Apart
    <3> QED BY <3>2, <3>3, <3>4
  <2>21. Behind(index, coins)
    BY <1>4, <2>6, StaysBehind
  <2> QED BY <1>3, <1>4, <2>2, <2>8, <2>13, <2>16, <2>17, <2>18, <2>19, <2>20, <2>21 DEF Tracked
<1>9. \/ call' = [call EXCEPT ![c].pc = "refused"] /\ UNCHANGED chain
      \/ /\ \A i \in ins : chain[i].spent = "no"
         /\ \E new \in Coin :
              /\ chain[new].at = "absent"
              /\ \A i \in Coin : chain[i].at = "absent" => new <= i
              /\ chain' = [i \in Coin |->
                   IF i = new THEN [at |-> "mempool", spent |-> "no", from |-> ins]
                   ELSE IF i \in ins THEN [chain[i] EXCEPT !.spent = "mempool"] ELSE chain[i]]
              /\ call' = [call EXCEPT ![c].pc = "accepted", ![c].offered = {new}]
  BY <1>1 DEF Broadcast
<1> QED
  BY <1>7, <1>8, <1>9

LEMMA MinedTracked ==
  ASSUME DInv, Undisturbed(past), NEW i \in Coin, Mined(i)
  PROVE  Grows(chain') /\ Behind(index', chain') /\ Tracked(data', call', chain')
<1>1. PICK coins : coins = chain'
  OBVIOUS
<1>2. PICK U : U = Unreported(call)
  OBVIOUS
<1>3. /\ CoinsOK(chain) /\ Grows(chain) /\ Behind(index, chain) /\ Tracked(data, call, chain)
      /\ call \in [Call -> CallState] /\ data \in [Key -> AddressData] /\ "main" \in Key
      /\ chain[i].at = "mempool" /\ UNCHANGED <<data, call, index>>
      /\ coins = [j \in Coin |->
           IF j = i THEN [chain[j] EXCEPT !.at = "confirmed"]
           ELSE IF j \in chain[i].from THEN [chain[j] EXCEPT !.spent = "block"] ELSE chain[j]]
  BY <1>1 DEF Mined, DInv, IInv, CallsOK, DataOK, Key
<1>4. /\ coins[i].at = "confirmed" /\ coins[i].spent = chain[i].spent
      /\ coins[i].from = chain[i].from
  BY <1>3 DEF CoinsOK, CoinState
<1>5. ASSUME NEW j \in Coin, j # i
      PROVE  /\ coins[j].at = chain[j].at /\ coins[j].from = chain[j].from
             /\ coins[j].spent \in {"block", chain[j].spent}
  BY <1>3, <1>5 DEF CoinsOK, CoinState
<1>6. \A j \in Coin : /\ coins[j].at = chain[j].at \/ (j = i /\ coins[j].at = "confirmed")
                      /\ coins[j].from = chain[j].from
                      /\ coins[j].spent \in {"block", chain[j].spent}
  BY <1>4, <1>5
<1>7. Ages(chain, coins)
  BY <1>3, <1>6 DEF Ages
<1>8. CoinsOK(coins)
  BY <1>3 DEF CoinsOK, CoinState
<1>9. \A j \in Coin : /\ coins[j].at = "mempool" => chain[j].at = "mempool"
                      /\ coins[j].at = "absent" <=> chain[j].at = "absent"
                      /\ coins[j].spent = "no" => chain[j].spent = "no"
  BY <1>3, <1>6
<1>10. Grows(coins)
  <2>1. \A j \in CsvCoin : coins[j].at = "confirmed"
    BY <1>3, <1>7, CoinAssumption DEF Grows, Ages
  <2>2. ASSUME NEW j \in Coin, coins[j].at = "mempool"
        PROVE  /\ \A p \in coins[j].from : /\ coins[p].at # "absent"
                                           /\ coins[p].at = "mempool" => p < j
               /\ \A k \in Coin : coins[k].at = "absent" => j < k
    <3>1. chain[j].at = "mempool" /\ coins[j].from = chain[j].from /\ chain[j].from \subseteq Coin
      BY <1>3, <1>6, <1>9, <2>2 DEF CoinsOK, CoinState
    <3> QED BY <1>3, <1>9, <3>1 DEF Grows
  <2>3. ASSUME NEW j \in Coin, coins[j].at = "absent"
        PROVE  coins[j].spent = "no"
    <3>1. chain[j].at = "absent" /\ j # i
      BY <1>3, <1>4, <1>9, <2>3
    <3>2. j \notin chain[i].from /\ chain[j].spent = "no"
      BY <1>3, <3>1 DEF Grows
    <3> QED BY <1>3, <3>1, <3>2
  <2> QED BY <2>1, <2>2, <2>3 DEF Grows
<1>11. \A S \in SUBSET Coin : Clear(chain, U, S) => Clear(coins, U, S)
  BY <1>9 DEF Clear
<1>12. ASSUME NEW k \in Key
       PROVE  DataClear(data[k], U, coins)
  <2>1. PICK S : S = data[k].pending \cup data[k].fetched.confirmed \cup data[k].fetched.pending
    OBVIOUS
  <2>2. DataClear(data[k], U, chain)
    BY <1>2, <1>3 DEF Tracked
  <2>3. S \in SUBSET Coin /\ Clear(chain, U, S)
    BY <1>3, <2>1, <2>2 DEF AddressData, Answer, DataClear
  <2> QED BY <1>11, <2>1, <2>2, <2>3 DEF DataClear
<1>13. ASSUME NEW d \in Call
       PROVE  CallClear(d, call[d], U, coins)
  <2>1. call[d] \in CallState /\ CallClear(d, call[d], U, chain)
    BY <1>2, <1>3 DEF Tracked
  <2>2. call[d].pc = "answered" => Truthful(call[d].answer, coins)
    BY <1>7, <2>1, StaysTruthful DEF CallClear, CallState
  <2>3. call[d].chosen \cup call[d].offered \in SUBSET Coin
    BY <2>1 DEF CallState
  <2>4. call[d].pc # "accepted" => Clear(coins, U, call[d].chosen \cup call[d].offered)
    BY <1>11, <2>1, <2>3 DEF CallClear
  <2>5. ASSUME call[d].pc = "accepted"
        PROVE  \E n \in Coin :
                 /\ call[d].offered = {n} /\ coins[n].at # "absent"
                 /\ coins[n].from = call[d].chosen
                 /\ \A j \in call[d].chosen : coins[j].at # "absent" /\ coins[j].spent # "no"
    <3>1. PICK n \in Coin :
            /\ call[d].offered = {n} /\ chain[n].at # "absent"
            /\ chain[n].from = call[d].chosen
            /\ \A j \in call[d].chosen : chain[j].at # "absent" /\ chain[j].spent # "no"
      BY <2>1, <2>5 DEF CallClear
    <3> QED BY <1>7, <2>3, <3>1 DEF Ages
  <2> QED BY <2>1, <2>2, <2>4, <2>5 DEF CallClear
<1>14. PICK D : D = data["main"]
  OBVIOUS
<1>15. D \in AddressData /\ Deep(D, U, chain) /\ Spending(D, call, chain) /\ Apart(call)
       /\ DataClear(D, U, chain)
  BY <1>2, <1>3, <1>14 DEF Tracked
<1>16. Deep(D, U, coins)
  <2>1. \A j \in Coin : coins[j].at = "mempool" /\ coins[j].spent = "no" => j \in D.pending \cup U
    BY <1>9, <1>15 DEF Deep
  <2>2. ASSUME NEW j \in D.pending
        PROVE  D.depth[j] >= Depths(coins)[j]
    <3>1. j \in Coin /\ chain[j].at # "absent" /\ D.depth[j] \in Nat
      BY <1>15, TimeAssumption DEF DataClear, Clear, AddressData
    <3>2. PICK x : x = Depths(chain)[j]
      OBVIOUS
    <3>3. PICK y : y = Depths(coins)[j]
      OBVIOUS
    <3>4. x \in Nat /\ y \in Nat
      BY <1>3, <1>8, <1>10, <3>1, <3>2, <3>3, CoinAssumption, DepthsDeepen DEF Deepens
    <3>5. y <= x
      BY <1>3, <1>7, <1>8, <1>10, <3>1, <3>2, <3>3, DepthsShrink
    <3>6. D.depth[j] >= x
      BY <1>15, <3>2 DEF Deep
    <3> QED BY <3>1, <3>3, <3>4, <3>5, <3>6
  <2> QED BY <2>1, <2>2 DEF Deep
<1>17. Spending(D, call, coins)
  <2>1. \A s \in Sender : call[s].chosen \subseteq Coin
    BY <1>3 DEF CallState, Call
  <2> QED BY <1>9, <1>15, <2>1 DEF Spending
<1>18. Behind(index, coins)
  BY <1>3, <1>7, StaysBehind
<1> QED
  BY <1>1, <1>2, <1>3, <1>10, <1>12, <1>13, <1>14, <1>15, <1>16, <1>17, <1>18 DEF Tracked

-----------------------------------------------------------------------------

LEMMA DInitOK == Init => DInv
<1> SUFFICES ASSUME Init PROVE DInv
  OBVIOUS
<1>1. IInv
  BY InitOK
<1>2. /\ \A i \in Coin : /\ chain[i].at = IF i \in InitMain \cup CsvCoin
                                          THEN "confirmed" ELSE "absent"
                         /\ chain[i].spent = "no"
      /\ index = chain
  BY DEF Init
<1>3. Grows(chain) /\ Behind(index, chain)
  BY <1>2, CoinAssumption DEF Grows, Behind
<1>4. \A c \in Call : call[c] = IdleCall
  BY DEF Init
<1>5. \A k \in Key : data[k] = NoData
  BY DEF Init
<1>6. /\ NoData.pending = {} /\ NoData.fetched = NoAnswer
      /\ NoAnswer.confirmed = {} /\ NoAnswer.pending = {} /\ IdleCall.pc = "idle"
  BY DEF NoData, NoAnswer, IdleCall
<1>7. \A k \in Key : DataClear(data[k], Unreported(call), chain)
  BY <1>5, <1>6 DEF DataClear, Clear
<1>8. \A c \in Call : CallClear(c, call[c], Unreported(call), chain)
  BY <1>4, IdleClear
<1>9. \A s \in Sender : call[s].pc = "idle"
  BY <1>4, <1>6 DEF Call
<1>10. Spending(data["main"], call, chain) /\ Apart(call)
  BY <1>9 DEF Spending, Apart
<1>11. Deep(data["main"], Unreported(call), chain)
  <2>1. data["main"].pending = {}
    BY <1>5, <1>6 DEF Key
  <2>2. \A i \in Coin : chain[i].at # "mempool"
    BY <1>2
  <2> QED BY <2>1, <2>2 DEF Deep
<1> QED
  BY <1>1, <1>3, <1>7, <1>8, <1>10, <1>11 DEF DInv, Tracked

LEMMA Remembers ==
  ASSUME IInv, [Next]_vars, Undisturbed(past')
  PROVE  Undisturbed(past)
<1>1. PastOK(past)
  BY DEF IInv
<1>2. ASSUME NEW c \in Call, NEW k, NEW r, Ask(c, k, r)
      PROVE  Undisturbed(past)
  BY <1>1, <1>2 DEF Ask, PastOK, Undisturbed
<1>3. ASSUME NEW cs, CleanAll(cs)
      PROVE  FALSE
  BY <1>1, <1>3 DEF CleanAll, PastOK, Undisturbed
<1>4. ASSUME NEW c \in Call, past' = Noted(c)
      PROVE  Undisturbed(past)
  BY <1>1, <1>4 DEF Noted, PastOK, Undisturbed
<1>5. CASE past' = past
  BY <1>5
<1>6. ASSUME NEW c \in Call, NEW want \in 1..MaxWant, Start(c, want)
      PROVE  Undisturbed(past)
  BY <1>2, <1>6 DEF Start
<1>7. ASSUME NEW c \in Call, Read(c)
      PROVE  Undisturbed(past)
  BY <1>2, <1>5, <1>7 DEF Read
<1>8. ASSUME NEW c \in Call, FetchDone(c)
      PROVE  Undisturbed(past)
  BY <1>4, <1>8 DEF FetchDone
<1>9. ASSUME NEW c \in Call, BatchDone(c)
      PROVE  Undisturbed(past)
  BY <1>4, <1>9 DEF BatchDone
<1>10. ASSUME NEW c \in Call, FetchFails(c)
       PROVE  Undisturbed(past)
  BY <1>3, <1>5, <1>10 DEF FetchFails
<1>11. ASSUME NEW c \in Call, Select(c)
       PROVE  Undisturbed(past)
  BY <1>2, <1>3, <1>5, <1>11 DEF Select
<1>12. ASSUME NEW c \in Call, Sent(c)
       PROVE  Undisturbed(past)
  BY <1>3, <1>5, <1>12 DEF Sent
<1>13. ASSUME NEW c \in Call, SendFails(c)
       PROVE  Undisturbed(past)
  BY <1>3, <1>13 DEF SendFails
<1>14. ASSUME NEW c \in Call, NodeAnswers(c) \/ Broadcast(c)
       PROVE  Undisturbed(past)
  BY <1>5, <1>14 DEF NodeAnswers, Broadcast
<1>15. CASE (\E i \in Coin : Mined(i)) \/ IndexerCatchesUp \/ Tick \/ UNCHANGED vars
  BY <1>5, <1>15 DEF Mined, IndexerCatchesUp, Tick, vars
<1> QED
  BY <1>6, <1>7, <1>8, <1>9, <1>10, <1>11, <1>12, <1>13, <1>14, <1>15 DEF Next

\* What a step of the wallet leaves is tracked.
LEMMA WalletTracked ==
  ASSUME Grows(chain), Behind(index, chain), Followed, UNCHANGED <<chain, index>>
  PROVE  Grows(chain') /\ Behind(index', chain') /\ Tracked(data', call', chain')
BY DEF Followed

\* DepthKept: with any number of sends and reads at a time, with or without CSV
\* coins, the depth noted for a pending coin is at least the real one, so that the
\* limit stops a chain in time, until a purge or clean-up forgets depths or an answer
\* overtakes the report of a send (spentUTXO(), syncPendingDepthWithFetched(),
\* clean()).
THEOREM DepthsAreKept == Spec => []DepthKept
<1>1. Init => DInv
  BY DInitOK
<1>2. DInv /\ [Next]_vars => DInv'
  <2> SUFFICES ASSUME DInv, [Next]_vars PROVE DInv'
    OBVIOUS
  <2>1. IInv'
    BY InvariantStep DEF DInv
  <2> DEFINE Good == Grows(chain') /\ Behind(index', chain') /\ Tracked(data', call', chain')
  <2>2. SUFFICES ASSUME Undisturbed(past') PROVE Good
    BY <2>1 DEF DInv
  <2>3. Undisturbed(past)
    BY <2>2, Remembers DEF DInv
  <2>4. Present /\ Grows(chain) /\ Behind(index, chain)
    BY <2>3 DEF DInv, Present
  <2>5. ASSUME NEW c \in Call, NEW want \in 1..MaxWant, Start(c, want)
        PROVE  Good
    BY <2>2, <2>4, <2>5, StartTracked, WalletTracked DEF Start
  <2>6. ASSUME NEW c \in Call, Read(c)
        PROVE  Good
    BY <2>2, <2>4, <2>6, ReadTracked, WalletTracked DEF Read
  <2>7. ASSUME NEW c \in Call, NodeAnswers(c)
        PROVE  Good
    BY <2>2, <2>4, <2>7, NodeAnswersTracked, WalletTracked DEF NodeAnswers
  <2>8. ASSUME NEW c \in Call, FetchDone(c)
        PROVE  Good
    <3>1. UNCHANGED <<chain, index>>
      BY <2>8 DEF FetchDone
    <3> QED BY <2>2, <2>4, <2>8, <3>1, FetchDoneTracked, WalletTracked
  <2>9. ASSUME NEW c \in Call, BatchDone(c)
        PROVE  Good
    BY <2>2, <2>4, <2>9, BatchDoneTracked, WalletTracked DEF BatchDone
  <2>10. ASSUME NEW c \in Call, FetchFails(c)
         PROVE  Good
    BY <2>2, <2>4, <2>10, FetchFailsTracked, WalletTracked DEF FetchFails
  <2>11. ASSUME NEW c \in Call, Select(c)
         PROVE  Good
    BY <2>2, <2>4, <2>11, SelectTracked, WalletTracked DEF Select
  <2>12. ASSUME NEW c \in Call, Broadcast(c)
         PROVE  Good
    BY <2>3, <2>12, BroadcastTracked
  <2>13. ASSUME NEW c \in Call, Sent(c)
         PROVE  Good
    <3>1. UNCHANGED <<chain, index>>
      BY <2>13 DEF Sent
    <3> QED BY <2>2, <2>4, <2>13, <3>1, SentTracked, WalletTracked
  <2>14. ASSUME NEW c \in Call, SendFails(c)
         PROVE  Good
    BY <2>2, <2>4, <2>14, NothingCleaned DEF SendFails
  <2>15. ASSUME NEW i \in Coin, Mined(i)
         PROVE  Good
    BY <2>3, <2>15, MinedTracked
  <2>16. CASE IndexerCatchesUp
    <3>1. index' = chain' /\ UNCHANGED <<data, call, chain>>
      BY <2>16 DEF IndexerCatchesUp
    <3>2. Behind(index', chain')
      BY <3>1 DEF Behind
    <3> QED BY <2>4, <3>1, <3>2 DEF Present
  <2>17. CASE Tick
    BY <2>4, <2>17 DEF Tick, Present
  <2>18. CASE UNCHANGED vars
    BY <2>4, <2>18 DEF vars, Present
  <2> QED
    BY <2>5, <2>6, <2>7, <2>8, <2>9, <2>10, <2>11, <2>12, <2>13, <2>14, <2>15, <2>16, <2>17,
       <2>18 DEF Next
<1>3. DInv => DepthKept
  <2> SUFFICES ASSUME DInv PROVE DepthKept
    OBVIOUS
  <2>1. RealDepth = Depths(chain)
    BY DEF RealDepth, Depths
  <2> QED BY <2>1 DEF DInv, Undisturbed, Tracked, Deep, DepthKept
<1> QED
  BY <1>1, <1>2, <1>3, PTL DEF Spec

=============================================================================
