---------------------------- MODULE AnswersProofs ----------------------------
(***************************************************************************)
(* What a provider's methods return, however requests, answers and calls   *)
(* overlap: nothing stale of the caches that have a time                   *)
(* (AbstractRpcProvider.gasParameters(), getChallenge(),                   *)
(* Contract.currentGasParameters()), and an error where the node answered  *)
(* with one; and what they ask, over each way to travel.  Then the types   *)
(* of the application's state.                                             *)
(*                                                                         *)
(* The cache of gas parameters keeps the answer that came last, which need *)
(* not be the one that was asked for last, and the time of the last        *)
(* request, whose answer it need not be.  The invariant tells them apart.  *)
(***************************************************************************)
EXTENDS ContractCallsProofs

-----------------------------------------------------------------------------
(* What the provider hands out of its caches                               *)

\* Gas parameters were asked of the node in slot t.
SentIn(rs, t) ==
  rs[t].stage # "idle" /\ rs[t].api = "gasParameters" /\ rs[t].heard # "cached"

AnsweredIn(rs, t) == SentIn(rs, t) /\ rs[t].stage = "settled"

\* Parameters that were handed out in r have a newer request t, which is of no use.
Excused(rs, r, t) ==
  /\ SentIn(rs, t)
  /\ r.value < rs[t].since /\ rs[t].since <= r.since
  /\ \/ rs[t].end # "value" \/ rs[t].done >= r.since
     \/ \E old \in Slot : /\ AnsweredIn(rs, old)
                          /\ rs[old].since = r.value /\ rs[old].done >= rs[t].done

FreshIn(rs, r) ==
  r.stage = "settled" /\ r.heard = "cached" =>
    /\ r.api = "gasParameters" /\ r.since - r.value > Fresh => \E t \in Slot : Excused(rs, r, t)
    /\ r.api = "getChallenge" => r.since - r.value < Fresh

\* What a request says of itself.
Proper(r, n) ==
  /\ r.since \in 0..n /\ r.done \in 0..n
  /\ r.stage # "settled" => r.end = "" /\ r.heard = ""
  /\ r.end = "value" /\ r.heard # "cached" => r.value = r.since

\* The cache of gas parameters g notes when they were last asked for, and keeps the answer
\* that came last.
GasCache(rs, g, n) ==
  /\ g.last \in 0..n
  /\ \A t \in Slot : SentIn(rs, t) => rs[t].since <= g.last
  /\ (\E t \in Slot : SentIn(rs, t)) => \E t \in Slot : SentIn(rs, t) /\ rs[t].since = g.last
  /\ g.cached => \E old \in Slot : /\ AnsweredIn(rs, old)
                                   /\ rs[old].since = g.asked /\ rs[old].done = g.arrived
  /\ \A t \in Slot : AnsweredIn(rs, t) /\ rs[t].end = "value" =>
                       g.cached /\ rs[t].done <= g.arrived

ChallengeKeeps(ca, n) ==
  ca.challenge.cached =>
    ca.challenge.arrived <= n /\ ca.challenge.expireAt = ca.challenge.arrived + Fresh

\* What makes CachedAnswersFresh inductive.
Caching(rs, ca, n) ==
  /\ \A s \in Slot : Proper(rs[s], n) /\ FreshIn(rs, rs[s])
  /\ GasCache(rs, ca.gas, n)
  /\ ChallengeKeeps(ca, n)

\* A slot asks what it is there for, and gas parameters once.
SlotsUsed ==
  /\ \A c \in Caller : req[CallSlot(c)].api # "gasParameters"
  /\ \A c \in Caller : req[GasSlot(c)].stage # "idle" => req[GasSlot(c)].api = "gasParameters"
  /\ \A c \in Caller : call[c].stage \in {"idle", "address", "calling"} =>
                         req[GasSlot(c)].stage = "idle"

\* Gas parameters that were wanted at time w, and are of time v, are of age.
Aged(rs, w, v) ==
  \/ w - v < 2 * Fresh
  \/ \E t \in Slot : SentIn(rs, t) /\ v < rs[t].since /\ rs[t].since <= w

\* The promise of call c, at time w.
Promised(rs, c, w) ==
  /\ rs[GasSlot(c)].stage # "idle"
  /\ rs[GasSlot(c)].since <= w /\ w - rs[GasSlot(c)].since < Fresh

\* What makes GasAge inductive.
Promises ==
  /\ contract.gas.made => /\ req[GasSlot(contract.gas.by)].stage # "idle"
                          /\ req[GasSlot(contract.gas.by)].since = contract.gas.cachedAt
  /\ \A c \in Caller :
       /\ call[c].stage = "gas" => /\ call[c].wantedAt \in Time
                                   /\ Promised(req, call[c].promise, call[c].wantedAt)
       /\ call[c].stage = "ready" => Aged(req, call[c].wantedAt, call[c].gasAt)

AgeInv == Caching(req, cache, now) /\ SlotsUsed /\ Promises

\* From rs to rs2, at time n, requests for gas parameters stay and may be answered.
Grows(rs, rs2, n) ==
  \A t \in Slot : SentIn(rs, t) =>
    /\ SentIn(rs2, t) /\ rs2[t].since = rs[t].since
    /\ \/ rs2[t] = rs[t]
       \/ rs[t].stage # "settled" /\ (rs2[t].end # "value" \/ rs2[t].done = n)

\* rs2 is rs with new in slot s.
Puts(rs, s, new, rs2) == rs2[s] = new /\ \A t \in Slot \ {s} : rs2[t] = rs[t]

LEMMA FreshLasts ==
  ASSUME NEW rs, NEW rs2, NEW n \in Time, Grows(rs, rs2, n), NEW r, r.since \in 0..n,
         FreshIn(rs, r)
  PROVE  FreshIn(rs2, r)
<1>1. ASSUME NEW t \in Slot, Excused(rs, r, t)
      PROVE  Excused(rs2, r, t)
  <2>1. /\ SentIn(rs2, t) /\ rs2[t].since = rs[t].since
        /\ r.value < rs2[t].since /\ rs2[t].since <= r.since
    BY <1>1 DEF Excused, Grows
  <2>2. CASE rs2[t] # rs[t]
    BY <1>1, <2>1, <2>2 DEF Excused, Grows, Time
  <2>3. CASE rs2[t] = rs[t]
    <3>1. ASSUME NEW old \in Slot, AnsweredIn(rs, old), rs[old].since = r.value,
                 rs[old].done >= rs[t].done
          PROVE  /\ AnsweredIn(rs2, old) /\ rs2[old].since = r.value
                 /\ rs2[old].done >= rs2[t].done
      BY <2>3, <3>1 DEF Grows, AnsweredIn
    <3> QED
      BY <1>1, <2>1, <2>3, <3>1 DEF Excused
  <2> QED
    BY <2>2, <2>3
<1> QED
  BY <1>1 DEF FreshIn

\* What a slot holds is replaced by what is not a request for gas parameters.
LEMMA OtherSlotCaching ==
  ASSUME NEW rs, Timed(rs), NEW ca, NEW n \in Time, Caching(rs, ca, n), NEW s \in Slot,
         ~SentIn(rs, s), NEW new,
         new.stage = "idle" \/ new.api # "gasParameters" \/ new.heard = "cached",
         Proper(new, n), FreshIn(rs, new), NEW rs2, Puts(rs, s, new, rs2)
  PROVE  Caching(rs2, ca, n)
<1>1. rs2[s] = new /\ \A t \in Slot \ {s} : rs2[t] = rs[t]
  BY DEF Puts
<1>2. \A t \in Slot : SentIn(rs2, t) <=> SentIn(rs, t)
  BY <1>1 DEF SentIn
<1>3. \A t \in Slot : SentIn(rs, t) => rs2[t] = rs[t]
  BY <1>1
<1>4. Grows(rs, rs2, n)
  BY <1>2, <1>3 DEF Grows
<1>5. \A t \in Slot : Proper(rs2[t], n) /\ FreshIn(rs, rs2[t])
  BY <1>1 DEF Caching
<1>6. \A t \in Slot : FreshIn(rs2, rs2[t])
  BY <1>4, <1>5, FreshLasts DEF Proper
<1>7. GasCache(rs2, ca.gas, n)
  BY <1>2, <1>3 DEF Caching, GasCache, AnsweredIn
<1> QED
  BY <1>5, <1>6, <1>7 DEF Caching

LEMMA TimeSpan ==
  ASSUME NEW n \in Time
  PROVE  n \in Nat /\ 0 \in 0..n /\ n \in 0..n
  BY TimeAssumption DEF Time

\* A request that has been asked and not settled, and one that is asked now.
Underway == {"queued", "asked", "body", "lost"}
AtOnce == {"queued", "asked"}

LEMMA AskedProper ==
  ASSUME NEW n \in Time, NEW new, new.stage \in AtOnce, new.heard = "", new.end = "",
         new.since = n, new.done = 0
  PROVE  Proper(new, n)
<1>1. new.since \in 0..n /\ new.done \in 0..n
  BY TimeSpan
<1> QED
  BY <1>1 DEF Proper, AtOnce

LEMMA ProperSince ==
  ASSUME NEW n \in Time, NEW r, Proper(r, n)
  PROVE  r.since \in Nat /\ r.since <= n /\ r.done \in Nat /\ r.done <= n
<1>1. n \in Nat
  BY TimeSpan
<1>2. r.since \in 0..n /\ r.done \in 0..n
  BY DEF Proper
<1> QED
  BY <1>1, <1>2

\* The time of a request for gas parameters is noted when the request is made.
LEMMA GasSlotCaching ==
  ASSUME NEW rs, Timed(rs), NEW ca, NEW n \in Time, Caching(rs, ca, n), NEW s \in Slot,
         ~SentIn(rs, s), NEW new, new.stage \in AtOnce, new.api = "gasParameters",
         new.heard = "", new.end = "", new.since = n, new.done = 0,
         NEW rs2, Puts(rs, s, new, rs2),
         NEW ca2, ca2.challenge = ca.challenge, ca2.gas.cached = ca.gas.cached,
         ca2.gas.asked = ca.gas.asked, ca2.gas.arrived = ca.gas.arrived, ca2.gas.last = n
  PROVE  Caching(rs2, ca2, n)
<1>1. rs2[s] = new /\ \A t \in Slot \ {s} : rs2[t] = rs[t]
  BY DEF Puts
<1>2. \A t \in Slot : SentIn(rs2, t) <=> (SentIn(rs, t) \/ t = s)
  BY <1>1 DEF SentIn, AtOnce
<1>3. \A t \in Slot : SentIn(rs, t) => rs2[t] = rs[t]
  BY <1>1
<1>4. Grows(rs, rs2, n)
  BY <1>2, <1>3 DEF Grows
<1>5. \A t \in Slot : Proper(rs2[t], n)
  BY <1>1, AskedProper DEF Caching
<1>6. \A t \in Slot : FreshIn(rs2, rs2[t])
  <2>1. FreshIn(rs2, rs2[s])
    BY <1>1 DEF FreshIn, AtOnce
  <2>2. \A t \in Slot \ {s} : FreshIn(rs, rs2[t]) /\ rs2[t].since \in 0..n
    BY <1>1 DEF Caching, Proper
  <2>3. \A t \in Slot \ {s} : FreshIn(rs2, rs2[t])
    BY <1>4, <2>2, FreshLasts
  <2> QED
    BY <2>1, <2>3
<1>7. GasCache(rs2, ca2.gas, n)
  <2>1. n \in 0..n
    BY TimeSpan
  <2>2. \A t \in Slot : rs2[t].since <= n
    BY <1>5, ProperSince
  <2>3. SentIn(rs2, s) /\ rs2[s].since = n
    BY <1>1, <1>2
  <2>4. \A t \in Slot : AnsweredIn(rs2, t) <=> AnsweredIn(rs, t)
    BY <1>1, <1>2, <1>3 DEF AnsweredIn, AtOnce
  <2>5. \A t \in Slot : AnsweredIn(rs, t) => rs2[t] = rs[t]
    BY <1>3 DEF AnsweredIn
  <2> QED
    BY <2>1, <2>2, <2>3, <2>4, <2>5 DEF Caching, GasCache
<1> QED
  BY <1>5, <1>6, <1>7 DEF Caching, ChallengeKeeps

\* What is handed out of a cache is fresh, or excused.
LEMMA ServedFresh ==
  ASSUME RpcTimed, NEW rs, Caching(rs, cache, now), NEW api, Served(api),
         NEW r, r.api = api, r.since = now, r.value = ServedValue(api)
  PROVE  FreshIn(rs, r)
<1> USE TimeAssumption
<1>1. /\ cache.gas.asked \in Time /\ cache.gas.last \in Time /\ now \in Time
      /\ cache.challenge.arrived \in Time /\ cache.challenge.expireAt \in Nat
  BY DEF RpcTimed, TimedCache
<1>2. CASE api = "gasParameters"
  <2>1. cache.gas.cached /\ now - cache.gas.last <= Fresh /\ r.value = cache.gas.asked
    BY <1>1, <1>2 DEF Served, GasServed, ServedValue, Time
  <2>2. GasCache(rs, cache.gas, now)
    BY DEF Caching
  <2>3. PICK old \in Slot : /\ AnsweredIn(rs, old)
                            /\ rs[old].since = cache.gas.asked /\ rs[old].done = cache.gas.arrived
    BY <2>1, <2>2 DEF GasCache
  <2>4. PICK t \in Slot : SentIn(rs, t) /\ rs[t].since = cache.gas.last
    BY <2>2, <2>3 DEF GasCache, AnsweredIn
  <2>5. ASSUME now - r.value > Fresh
        PROVE  Excused(rs, r, t)
    <3>1. r.value < rs[t].since /\ rs[t].since <= r.since
      BY <1>1, <2>1, <2>2, <2>4, <2>5 DEF GasCache, Time
    <3>2. CASE rs[t].end = "value"
      <4>1. rs[t].stage = "settled"
        BY <3>2 DEF Caching, Proper
      <4>2. rs[t].done <= cache.gas.arrived
        BY <2>2, <2>4, <3>2, <4>1 DEF GasCache, AnsweredIn
      <4>3. rs[t].done \in 0..now /\ rs[old].done \in 0..now
        BY DEF Caching, Proper
      <4>4. rs[old].done >= rs[t].done
        BY <2>3, <4>2, <4>3
      <4> QED
        BY <2>1, <2>3, <2>4, <3>1, <4>4 DEF Excused
    <3> QED
      BY <2>4, <3>1, <3>2 DEF Excused
  <2> QED
    BY <1>2, <2>5 DEF FreshIn
<1>3. CASE api = "getChallenge"
  <2>1. cache.challenge.cached /\ now < cache.challenge.expireAt
        /\ r.value = cache.challenge.arrived
    BY <1>3 DEF Served, ChallengeServed, ServedValue
  <2>2. cache.challenge.expireAt = cache.challenge.arrived + Fresh
    BY <2>1 DEF Caching, ChallengeKeeps
  <2> QED
    BY <1>1, <1>3, <2>1, <2>2 DEF FreshIn, Time
<1> QED
  BY <1>2, <1>3 DEF FreshIn

LEMMA AskedCaching ==
  ASSUME RpcTimed, NEW rs, Timed(rs), Caching(rs, cache, now), NEW s \in Slot,
         ~SentIn(rs, s), NEW api
  PROVE  Caching(Asked(rs, s, api), NotedInCache(api), now)
<1> DEFINE seen == Carried(api, transport)
           params == Method[api].params
           value == ServedValue(api)
           stage == IF transport \in Pooled THEN "queued" ELSE "asked"
           asked == [Unused EXCEPT !.api = api, !.since = now, !.seen = seen, !.stage = stage]
           served == [Unused EXCEPT !.api = api, !.since = now, !.done = now,
                                    !.stage = "settled", !.seen = params, !.end = "value",
                                    !.heard = "cached", !.value = value]
<1>1. now \in Time
  BY DEF RpcTimed
<1>2. Puts(rs, s, IF Served(api) THEN served ELSE asked, Asked(rs, s, api))
  BY DEF Asked, seen, params, value, stage, Puts, Timed
<1>8. stage \in AtOnce
  BY DEF AtOnce
<1> HIDE DEF seen, params, value, stage
<1>3. /\ asked.stage = stage /\ asked.api = api /\ asked.heard = "" /\ asked.end = ""
      /\ asked.since = now /\ asked.done = 0
      /\ served.stage = "settled" /\ served.api = api /\ served.heard = "cached"
      /\ served.since = now /\ served.done = now /\ served.value = value
  BY DEF Unused
<1> HIDE DEF asked, served
<1>4. api # "gasParameters" \/ Served(api) => NotedInCache(api) = cache
  <2>1. cache = [cache EXCEPT !.gas = cache.gas]
    BY DEF RpcTimed, TimedCache
  <2>2. api # "gasParameters" \/ Served(api) => NotedFetchTime(cache.gas, api) = cache.gas
    BY DEF NotedFetchTime, Served, GasServed
  <2> QED
    BY <2>1, <2>2 DEF NotedInCache
<1>5. CASE Served(api)
  <2>1. FreshIn(rs, served)
    BY <1>3, <1>5, ServedFresh DEF value
  <2>2. Proper(served, now)
    <3>1. now \in 0..now
      BY <1>1, TimeSpan
    <3> QED
      BY <1>3, <3>1 DEF Proper
  <2> QED
    BY <1>1, <1>2, <1>3, <1>4, <1>5, <2>1, <2>2, OtherSlotCaching
<1>6. CASE ~Served(api) /\ api # "gasParameters"
  <2>0. asked.stage \in AtOnce
    BY <1>3, <1>8
  <2>1. Proper(asked, now)
    BY <1>1, <1>3, <2>0, AskedProper
  <2>2. FreshIn(rs, asked)
    BY <1>3 DEF FreshIn
  <2> QED
    BY <1>1, <1>2, <1>3, <1>4, <1>6, <2>1, <2>2, OtherSlotCaching
<1>7. CASE ~Served(api) /\ api = "gasParameters"
  <2>1. NotedFetchTime(cache.gas, api) = [cache.gas EXCEPT !.last = now]
    BY <1>7 DEF NotedFetchTime, Served, GasServed
  <2>2. NotedInCache(api) = [cache EXCEPT !.gas = [cache.gas EXCEPT !.last = now]]
    BY <2>1 DEF NotedInCache
  <2>3. PICK ca2 : ca2 = NotedInCache(api)
    OBVIOUS
  <2>4. /\ ca2.challenge = cache.challenge /\ ca2.gas.cached = cache.gas.cached
        /\ ca2.gas.asked = cache.gas.asked /\ ca2.gas.arrived = cache.gas.arrived
        /\ ca2.gas.last = now
    BY <2>2, <2>3 DEF RpcTimed, TimedCache
  <2>5. asked.stage \in AtOnce /\ asked.api = "gasParameters" /\ asked.heard = ""
        /\ asked.end = "" /\ asked.since = now /\ asked.done = 0
    BY <1>3, <1>7, <1>8
  <2>6. PICK rs2 : rs2 = Asked(rs, s, api)
    OBVIOUS
  <2>7. Puts(rs, s, asked, rs2)
    BY <1>2, <1>7, <2>6
  <2>8. Caching(rs2, ca2, now)
    BY <1>1, <2>4, <2>5, <2>7, GasSlotCaching
  <2> QED
    BY <2>3, <2>6, <2>8
<1> QED
  BY <1>5, <1>6, <1>7

\* A request that goes on, or is settled without an answer.
LEMMA GoesOnCaching ==
  ASSUME NEW rs, Timed(rs), NEW ca, NEW n \in Time, Caching(rs, ca, n), NEW s \in Slot,
         rs[s].stage \in Underway, NEW new,
         new.stage \in Underway \cup {"settled"}, new.api = rs[s].api, new.since = rs[s].since,
         new.heard # "cached", new.end # "value", Proper(new, n),
         NEW rs2, Puts(rs, s, new, rs2)
  PROVE  Caching(rs2, ca, n)
<1>1. rs2[s] = new /\ \A t \in Slot \ {s} : rs2[t] = rs[t]
  BY DEF Puts
<1>2. rs[s].heard # "cached"
  BY DEF Caching, Proper, Underway
<1>3. \A t \in Slot : SentIn(rs2, t) <=> SentIn(rs, t)
  BY <1>1, <1>2 DEF SentIn, Underway
<1>4. \A t \in Slot : rs2[t].since = rs[t].since
  BY <1>1
<1>5. Grows(rs, rs2, n)
  BY <1>1, <1>3, <1>4 DEF Grows, Underway
<1>6. \A t \in Slot : Proper(rs2[t], n) /\ FreshIn(rs, rs2[t])
  BY <1>1 DEF Caching, FreshIn
<1>7. \A t \in Slot : FreshIn(rs2, rs2[t])
  BY <1>5, <1>6, FreshLasts DEF Proper
<1>8. \A t \in Slot : AnsweredIn(rs, t) => AnsweredIn(rs2, t) /\ rs2[t] = rs[t]
  BY <1>1, <1>3 DEF AnsweredIn, Underway
<1>9. \A t \in Slot : AnsweredIn(rs2, t) /\ rs2[t].end = "value" =>
                        AnsweredIn(rs, t) /\ rs2[t] = rs[t]
  BY <1>1, <1>3 DEF AnsweredIn
<1>10. GasCache(rs2, ca.gas, n)
  <2>1. GasCache(rs, ca.gas, n)
    BY DEF Caching
  <2>2. \A t \in Slot : SentIn(rs2, t) => rs2[t].since <= ca.gas.last
    BY <1>3, <1>4, <2>1 DEF GasCache
  <2>3. (\E t \in Slot : SentIn(rs2, t)) =>
          \E t \in Slot : SentIn(rs2, t) /\ rs2[t].since = ca.gas.last
    BY <1>3, <1>4, <2>1 DEF GasCache
  <2>4. ca.gas.cached => \E old \in Slot : /\ AnsweredIn(rs2, old)
                           /\ rs2[old].since = ca.gas.asked /\ rs2[old].done = ca.gas.arrived
    BY <1>8, <2>1 DEF GasCache
  <2>5. \A t \in Slot : AnsweredIn(rs2, t) /\ rs2[t].end = "value" =>
                          ca.gas.cached /\ rs2[t].done <= ca.gas.arrived
    BY <1>9, <2>1 DEF GasCache
  <2> QED
    BY <2>1, <2>2, <2>3, <2>4, <2>5 DEF GasCache
<1> QED
  BY <1>6, <1>7, <1>10 DEF Caching

\* A request that is settled with a value; the caches keep it if it is theirs.
LEMMA ValueCaching ==
  ASSUME NEW rs, Timed(rs), NEW ca, NEW n \in Time, Caching(rs, ca, n), NEW s \in Slot,
         rs[s].stage \in {"asked", "body"}, NEW new,
         new.stage = "settled", new.api = rs[s].api, new.since = rs[s].since, new.done = n,
         new.heard # "cached", Proper(new, n),
         NEW rs2, Puts(rs, s, new, rs2), NEW ca2,
         ChallengeKeeps(ca2, n), ca2.gas.last = ca.gas.last,
         IF rs[s].api = "gasParameters"
         THEN ca2.gas.cached /\ ca2.gas.asked = rs[s].since /\ ca2.gas.arrived = n
         ELSE ca2.gas = ca.gas
  PROVE  Caching(rs2, ca2, n)
<1>1. rs2[s] = new /\ \A t \in Slot \ {s} : rs2[t] = rs[t]
  BY DEF Puts
<1>2. rs[s].heard # "cached"
  BY DEF Caching, Proper
<1>3. \A t \in Slot : SentIn(rs2, t) <=> SentIn(rs, t)
  BY <1>1, <1>2 DEF SentIn
<1>4. \A t \in Slot : rs2[t].since = rs[t].since
  BY <1>1
<1>5. Grows(rs, rs2, n)
  BY <1>1, <1>3, <1>4 DEF Grows
<1>6. \A t \in Slot : Proper(rs2[t], n) /\ FreshIn(rs, rs2[t])
  BY <1>1 DEF Caching, FreshIn
<1>7. \A t \in Slot : FreshIn(rs2, rs2[t])
  BY <1>5, <1>6, FreshLasts DEF Proper
<1>8. GasCache(rs2, ca2.gas, n)
  <2>1. GasCache(rs, ca.gas, n)
    BY DEF Caching
  <2>2. \A t \in Slot : SentIn(rs2, t) => rs2[t].since <= ca.gas.last
    BY <1>3, <1>4, <2>1 DEF GasCache
  <2>3. (\E t \in Slot : SentIn(rs2, t)) =>
          \E t \in Slot : SentIn(rs2, t) /\ rs2[t].since = ca.gas.last
    BY <1>3, <1>4, <2>1 DEF GasCache
  <2>4. CASE rs[s].api = "gasParameters"
    <3>1. AnsweredIn(rs2, s) /\ rs2[s].since = ca2.gas.asked /\ rs2[s].done = ca2.gas.arrived
      BY <1>1, <2>4 DEF AnsweredIn, SentIn
    <3>2. \A t \in Slot : rs2[t].done <= ca2.gas.arrived
      BY <1>6, <2>4, ProperSince
    <3> QED
      BY <2>1, <2>2, <2>3, <2>4, <3>1, <3>2 DEF GasCache
  <2>5. CASE rs[s].api # "gasParameters"
    <3>1. \A t \in Slot : AnsweredIn(rs2, t) <=> AnsweredIn(rs, t)
      BY <1>1, <1>3, <2>5 DEF AnsweredIn, SentIn
    <3>2. \A t \in Slot : AnsweredIn(rs, t) => rs2[t] = rs[t]
      BY <1>1, <2>5 DEF AnsweredIn, SentIn
    <3> QED
      BY <2>1, <2>2, <2>3, <2>5, <3>1, <3>2 DEF GasCache
  <2> QED
    BY <2>4, <2>5
<1> QED
  BY <1>6, <1>7, <1>8 DEF Caching

LEMMA CachedAnswerKeeps ==
  ASSUME RpcTimed, NEW s \in Slot, ChallengeKeeps(cache, now),
         NEW ca2, ca2 = CachedAnswer(s)
  PROVE  /\ ChallengeKeeps(ca2, now) /\ ca2.gas.last = cache.gas.last
         /\ IF req[s].api = "gasParameters"
            THEN ca2.gas.cached /\ ca2.gas.asked = req[s].since /\ ca2.gas.arrived = now
            ELSE ca2.gas = cache.gas
<1>0. now \in Nat
  BY TimeSpan DEF RpcTimed
<1>1. CASE req[s].api = "gasParameters"
  <2>1. ca2 = [cache EXCEPT !.gas.cached = TRUE, !.gas.asked = req[s].since,
                            !.gas.arrived = now]
    BY <1>1 DEF CachedAnswer
  <2>2. ca2.challenge = cache.challenge
    BY <2>1 DEF RpcTimed, TimedCache
  <2>3. PICK g : g = [cache.gas EXCEPT !.cached = TRUE, !.asked = req[s].since,
                                      !.arrived = now]
    OBVIOUS
  <2>4. DOMAIN cache.gas = {"cached", "asked", "arrived", "last"}
    BY DEF RpcTimed, TimedCache
  <2>5. g.last = cache.gas.last /\ g.asked = req[s].since /\ g.arrived = now
    BY <2>3, <2>4
  <2>6. g["cached"]
    BY <2>3, <2>4, Zenon
  <2>7. ca2.gas = g
    BY <2>1, <2>3 DEF RpcTimed, TimedCache
  <2> QED
    BY <1>1, <2>2, <2>5, <2>6, <2>7 DEF ChallengeKeeps
<1>2. CASE req[s].api = "getChallenge"
  <2>1. ca2 = [cache EXCEPT !.challenge = [cached |-> TRUE, asked |-> req[s].since,
                                           arrived |-> now, expireAt |-> now + Fresh]]
    BY <1>2 DEF CachedAnswer
  <2>2. /\ ca2.challenge.arrived = now /\ ca2.challenge.expireAt = now + Fresh
        /\ ca2.gas = cache.gas
    BY <2>1 DEF RpcTimed, TimedCache
  <2> QED
    BY <1>0, <1>2, <2>2 DEF ChallengeKeeps
<1>3. CASE req[s].api \notin {"gasParameters", "getChallenge"}
  <2>1. ca2 = cache \/ ca2 = [cache EXCEPT !.chain = TRUE]
    BY <1>3 DEF CachedAnswer
  <2>2. ca2.challenge = cache.challenge /\ ca2.gas = cache.gas
    BY <2>1 DEF RpcTimed, TimedCache
  <2> QED
    BY <1>3, <2>2 DEF ChallengeKeeps
<1> QED
  BY <1>1, <1>2, <1>3

-----------------------------------------------------------------------------
(* Whom the slots are for                                                  *)

LEMMA SlotsDiffer ==
  ASSUME NEW c \in Caller, NEW d \in Caller, NEW i
  PROVE  /\ CallSlot(c) # GasSlot(d) /\ AskSlot(i) # CallSlot(c) /\ AskSlot(i) # GasSlot(c)
         /\ Lookup # CallSlot(c) /\ Lookup # GasSlot(c)
         /\ GasSlot(c) = GasSlot(d) => c = d
  BY DEF CallSlot, GasSlot, AskSlot, Lookup

LEMMA AskedSlot ==
  ASSUME NEW rs, DOMAIN rs = Slot, NEW s \in Slot, NEW api, NEW rs2, rs2 = Asked(rs, s, api)
  PROVE  /\ \A t \in Slot \ {s} : rs2[t] = rs[t]
         /\ rs2[s].api = api /\ rs2[s].since = now /\ rs2[s].stage # "idle"
<1> DEFINE seen == Carried(api, transport)
           params == Method[api].params
           value == ServedValue(api)
           stage == IF transport \in Pooled THEN "queued" ELSE "asked"
           asked == [Unused EXCEPT !.api = api, !.since = now, !.seen = seen, !.stage = stage]
           served == [Unused EXCEPT !.api = api, !.since = now, !.done = now,
                                    !.stage = "settled", !.seen = params, !.end = "value",
                                    !.heard = "cached", !.value = value]
<1>1. rs2 = [rs EXCEPT ![s] = IF Served(api) THEN served ELSE asked]
  BY DEF Asked, seen, params, value, stage
<1>3. stage # "idle"
  OBVIOUS
<1> HIDE DEF seen, params, value, stage
<1>2. /\ asked.stage = stage /\ asked.api = api /\ asked.since = now
      /\ served.stage = "settled" /\ served.api = api /\ served.since = now
  BY DEF Unused
<1> HIDE DEF asked, served
<1> QED
  BY <1>1, <1>2, <1>3

LEMMA AnsweredSlot ==
  ASSUME DOMAIN req = Slot, NEW s \in Slot, NEW rs2, rs2 = Answered(s)
  PROVE  /\ \A t \in Slot \ {s} : rs2[t] = req[t]
         /\ rs2[s] = Unused
  BY DEF Answered

\* What was asked of the gas parameters stays.
Tame ==
  /\ \A t \in Slot : SentIn(req, t) => SentIn(req', t) /\ req'[t].since = req[t].since
  /\ \A c \in Caller : req[GasSlot(c)].stage # "idle" =>
       /\ req'[GasSlot(c)].stage # "idle"
       /\ req'[GasSlot(c)].since = req[GasSlot(c)].since
       /\ req'[GasSlot(c)].api = req[GasSlot(c)].api
  /\ \A c \in Caller : req'[CallSlot(c)].api # "gasParameters"

NoneAsks == \A c \in Caller : req[GasSlot(c)].stage = "idle" => req'[GasSlot(c)].stage = "idle"

Early == {"idle", "address", "calling"}

NoneRestarts == \A c \in Caller : call'[c].stage \in Early => call[c].stage \in Early

LEMMA AgedLasts ==
  ASSUME Tame, NEW w, NEW v, Aged(req, w, v)
  PROVE  Aged(req', w, v)
  BY DEF Tame, Aged

LEMMA PromisedLasts ==
  ASSUME Tame, NEW c \in Caller, NEW w, Promised(req, c, w)
  PROVE  Promised(req', c, w)
  BY DEF Tame, Promised

LEMMA TameKeeps ==
  ASSUME GasInv, SlotsUsed, Promises, Tame, NoneAsks, NoneRestarts, Quiet,
         contract'.gas = contract.gas
  PROVE  SlotsUsed' /\ Promises'
<1>1. SlotsUsed'
  BY DEF SlotsUsed, Tame, NoneAsks, NoneRestarts, Early
<1>2. contract'.gas.made => /\ req'[GasSlot(contract'.gas.by)].stage # "idle"
                            /\ req'[GasSlot(contract'.gas.by)].since = contract'.gas.cachedAt
  BY DEF Promises, Tame, GasInv, Estimating, ContractKeeps
<1>3. ASSUME NEW c \in Caller, call'[c].stage = "gas"
      PROVE  /\ call'[c].wantedAt \in Time
             /\ Promised(req', call'[c].promise, call'[c].wantedAt)
  <2>1. call'[c] = call[c]
    BY <1>3 DEF Quiet
  <2>2. call[c].promise \in Caller
    BY <1>3, <2>1 DEF GasInv, Estimating, AwaitsGas
  <2>3. call[c].wantedAt \in Time /\ Promised(req, call[c].promise, call[c].wantedAt)
    BY <1>3, <2>1 DEF Promises
  <2> QED
    BY <2>1, <2>2, <2>3, PromisedLasts
<1>4. ASSUME NEW c \in Caller, call'[c].stage = "ready"
      PROVE  Aged(req', call'[c].wantedAt, call'[c].gasAt)
  BY <1>4, AgedLasts DEF Quiet, Promises
<1> QED
  BY <1>1, <1>2, <1>3, <1>4 DEF Promises

\* One slot, that is none for the gas of a call, holds something else.
LEMMA OneSlotTame ==
  ASSUME RpcTimed, SlotsUsed, NEW s \in Slot, \A t \in Slot \ {s} : req'[t] = req[t],
         \A c \in Caller : s # GasSlot(c),
         \/ req'[s] = req[s]
         \/ /\ req[s].stage = "idle" /\ \A c \in Caller : s # CallSlot(c)
         \/ \E c \in Caller : s = CallSlot(c) /\ req'[s].api # "gasParameters"
  PROVE  Tame /\ NoneAsks
<1> USE SlotsThere
<1>1. \A c \in Caller : req'[GasSlot(c)] = req[GasSlot(c)]
  OBVIOUS
<1>2. \A c \in Caller : req'[CallSlot(c)].api # "gasParameters"
  BY DEF SlotsUsed
<1>3. \A t \in Slot : SentIn(req, t) => req'[t] = req[t]
  BY DEF SentIn, SlotsUsed
<1> QED
  BY <1>1, <1>2, <1>3 DEF Tame, NoneAsks, SentIn

LEMMA SameTame ==
  ASSUME SlotsUsed, req' = req
  PROVE  Tame /\ NoneAsks
  BY DEF SlotsUsed, Tame, NoneAsks

-----------------------------------------------------------------------------
(* The steps, as far as cached answers go                                  *)

\* What a call does to its own slot.
OwnSlot(c) ==
  \/ req' = req \/ req' = Answered(CallSlot(c))
  \/ \E api : api # "gasParameters" /\ req' = Asked(req, CallSlot(c), api)

LEMMA UnusedKeeps ==
  ASSUME NEW n \in Time, NEW rs
  PROVE  Proper(Unused, n) /\ FreshIn(rs, Unused) /\ Unused.stage = "idle"
<1>1. 0 \in 0..n
  BY TimeSpan
<1> QED
  BY <1>1 DEF Proper, FreshIn, Unused

LEMMA NotedOther ==
  ASSUME RpcTimed, NEW api, api # "gasParameters"
  PROVE  NotedInCache(api) = cache
<1>1. cache = [cache EXCEPT !.gas = cache.gas]
  BY DEF RpcTimed, TimedCache
<1> QED
  BY <1>1 DEF NotedInCache, NotedFetchTime

LEMMA AnsweredCaching ==
  ASSUME RpcTimed, Caching(req, cache, now), SlotsUsed, NEW c \in Caller
  PROVE  Caching(Answered(CallSlot(c)), cache, now)
<1>1. CallSlot(c) \in Slot /\ ~SentIn(req, CallSlot(c))
  BY SlotsThere DEF SlotsUsed, SentIn
<1>2. Proper(Unused, now) /\ FreshIn(req, Unused) /\ Unused.stage = "idle"
  BY UnusedKeeps DEF RpcTimed
<1>3. PICK rs2 : rs2 = Answered(CallSlot(c))
  OBVIOUS
<1>4. Puts(req, CallSlot(c), Unused, rs2)
  BY <1>3, SlotsThere DEF Answered, Puts, RpcTimed, Timed
<1>5. Timed(req) /\ now \in Time
  BY DEF RpcTimed
<1> QED
  BY <1>1, <1>2, <1>3, <1>4, <1>5, OtherSlotCaching

LEMMA OwnSlotKeeps ==
  ASSUME RpcTimed, Caching(req, cache, now), SlotsUsed, NEW c \in Caller, OwnSlot(c),
         cache' = cache, now' = now
  PROVE  Caching(req', cache', now') /\ Tame /\ NoneAsks
<1> DEFINE s == CallSlot(c)
<1>0. s \in Slot /\ ~SentIn(req, s) /\ (\A d \in Caller : s # GasSlot(d)) /\ DOMAIN req = Slot
  BY SlotsThere, SlotsDiffer DEF SlotsUsed, SentIn, RpcTimed, Timed
<1>1. CASE req' = req
  BY <1>1, SameTame
<1>2. CASE req' = Answered(s)
  <2>1. (\A t \in Slot \ {s} : req'[t] = req[t]) /\ req'[s] = Unused
    BY <1>0, <1>2, AnsweredSlot
  <2>2. Unused.api # "gasParameters"
    BY DEF Unused
  <2> QED
    BY <1>0, <1>2, <2>1, <2>2, AnsweredCaching, OneSlotTame
<1>3. ASSUME NEW api, api # "gasParameters", req' = Asked(req, s, api)
      PROVE  Caching(req', cache', now') /\ Tame /\ NoneAsks
  <2>1. Caching(req', cache', now')
    BY <1>0, <1>3, AskedCaching, NotedOther DEF RpcTimed
  <2>2. (\A t \in Slot \ {s} : req'[t] = req[t]) /\ req'[s].api = api
    BY <1>0, <1>3, AskedSlot
  <2>3. Tame /\ NoneAsks
    BY <1>0, <1>3, <2>2, OneSlotTame
  <2> QED
    BY <2>1, <2>3
<1> QED
  BY <1>1, <1>2, <1>3 DEF OwnSlot

LEMMA CallStepCaching ==
  ASSUME GasInv, AgeInv, NEW c \in Caller,
         \/ AddressKnown(c) \/ CoinsKnown(c) \/ MoreCoinsKnown(c) \/ ChallengeKnown(c)
         \/ Sign(c) \/ BroadcastReturns(c)
  PROVE  AgeInv'
<1>1. OwnSlot(c)
  <2>1. CASE AddressKnown(c)
    BY <2>1 DEF AddressKnown, CallNode, OwnSlot
  <2>2. CASE CoinsKnown(c) \/ MoreCoinsKnown(c)
    BY <2>2 DEF CoinsKnown, MoreCoinsKnown, AskChallenge, OwnSlot
  <2>3. CASE ChallengeKnown(c) \/ BroadcastReturns(c)
    BY <2>3 DEF ChallengeKnown, BroadcastReturns, OwnSlot
  <2>4. CASE Sign(c)
    BY <2>4 DEF Sign, OwnSlot
  <2> QED
    BY <2>1, <2>2, <2>3, <2>4
<1>2. now' = now /\ cache' = cache /\ contract'.gas = contract.gas
  BY DEF AddressKnown, CoinsKnown, MoreCoinsKnown, ChallengeKnown, Sign, BroadcastReturns,
         GasInv, Estimating, ContractKeeps
<1>3. NoneRestarts
  BY AddressKnownGoes, CoinsKnownGoes, MoreCoinsKnownGoes, ChallengeKnownGoes, SignGoes,
     BroadcastReturnsGoes
     DEF GasInv, TakesSettings, Goes, Others, NoneRestarts, Early
<1>4. Caching(req', cache', now') /\ Tame /\ NoneAsks
  BY <1>1, <1>2, OwnSlotKeeps DEF GasInv, AgeInv
<1>5. Quiet
  BY CallStepQuiet
<1> QED
  BY <1>2, <1>3, <1>4, <1>5, TameKeeps DEF AgeInv

LEMMA SameRpcKeeps ==
  ASSUME GasInv, AgeInv, now' = now, cache' = cache, req' = req,
         NoneRestarts, Quiet, contract'.gas = contract.gas
  PROVE  AgeInv'
<1>1. Caching(req', cache', now')
  BY DEF AgeInv
<1>2. Tame /\ NoneAsks
  BY SameTame DEF AgeInv
<1> QED
  BY <1>1, <1>2, TameKeeps DEF AgeInv

LEMMA StartCaching ==
  ASSUME GasInv, AgeInv, NEW c \in Caller, NEW fn, NEW args, Start(c, fn, args)
  PROVE  AgeInv'
<1>1. /\ contract'.gas = contract.gas /\ now' = now /\ cache' = cache
      /\ \/ req' = req
         \/ req[Lookup].stage = "idle" /\ req' = Asked(req, Lookup, LookupMethod)
  BY DEF Start, GasInv, Estimating, ContractKeeps
<1>2. NoneRestarts
  BY StartGoes DEF GasInv, Others, NoneRestarts, Early
<1>3. Quiet
  BY StartQuiet
<1>4. CASE req' = req
  BY <1>1, <1>2, <1>3, <1>4, SameRpcKeeps
<1>5. CASE req[Lookup].stage = "idle" /\ req' = Asked(req, Lookup, LookupMethod)
  <2>1. Lookup \in Slot /\ ~SentIn(req, Lookup) /\ DOMAIN req = Slot
    BY <1>5, SlotsThere DEF SentIn, GasInv, RpcTimed, Timed
  <2>2. \A d \in Caller : Lookup # GasSlot(d) /\ Lookup # CallSlot(d)
    BY SlotsDiffer
  <2>0. LookupMethod # "gasParameters"
    BY DEF LookupMethod
  <2>3. Caching(req', cache', now')
    BY <1>1, <1>5, <2>0, <2>1, AskedCaching, NotedOther DEF GasInv, RpcTimed, AgeInv
  <2>4. \A t \in Slot \ {Lookup} : req'[t] = req[t]
    BY <1>5, <2>1, AskedSlot
  <2>5. Tame /\ NoneAsks
    BY <1>5, <2>1, <2>2, <2>4, OneSlotTame DEF GasInv, AgeInv
  <2> QED
    BY <1>1, <1>2, <1>3, <2>3, <2>5, TameKeeps DEF AgeInv
<1> QED
  BY <1>1, <1>4, <1>5

LEMMA AskCaching ==
  ASSUME GasInv, AgeInv, NEW i \in 1..MaxAsks, NEW api, Ask(AskSlot(i), api),
         UNCHANGED callVars
  PROVE  AgeInv'
<1> DEFINE s == AskSlot(i)
<1>1. s \in Slot /\ ~SentIn(req, s) /\ DOMAIN req = Slot /\ req[s].stage = "idle"
  BY SlotsThere DEF Ask, SentIn, GasInv, RpcTimed, Timed
<1>2. \A d \in Caller : s # GasSlot(d) /\ s # CallSlot(d)
  BY SlotsDiffer
<1>3. req' = Asked(req, s, api) /\ cache' = NotedInCache(api) /\ now' = now
  BY DEF Ask
<1>4. Caching(req', cache', now')
  BY <1>1, <1>3, AskedCaching DEF GasInv, RpcTimed, AgeInv
<1>5. \A t \in Slot \ {s} : req'[t] = req[t]
  BY <1>1, <1>3, AskedSlot
<1>6. Tame /\ NoneAsks
  BY <1>1, <1>2, <1>5, OneSlotTame DEF GasInv, AgeInv
<1>7. NoneRestarts /\ Quiet /\ contract'.gas = contract.gas
  BY UnchangedQuiet DEF callVars, NoneRestarts
<1> QED
  BY <1>4, <1>6, <1>7, TameKeeps DEF AgeInv

LEMMA ApplicationStepCaching ==
  ASSUME GasInv, AgeInv, ApplicationStep
  PROVE  AgeInv'
<1>1. CASE Open
  <2>1. /\ now' = now /\ cache' = cache /\ req' = req /\ contract'.gas = contract.gas
        /\ NoneRestarts
    BY <1>1 DEF Open, rpcVars, GasInv, Estimating, ContractKeeps, NoneRestarts
  <2>2. Quiet
    <3>1. /\ \E yes : contract' = [contract EXCEPT !.open = yes]
          /\ use' = use /\ call' = call
      BY <1>1 DEF Open
    <3> QED
      BY <3>1 DEF GasInv, Estimating, ContractKeeps, Quiet
  <2> QED
    BY <2>1, <2>2, SameRpcKeeps
<1>2. ASSUME NEW x \in Setting, Set(x)
      PROVE  AgeInv'
  <2>1. /\ now' = now /\ cache' = cache /\ req' = req /\ contract'.gas = contract.gas
    BY <1>2 DEF Set, rpcVars
  <2>2. NoneRestarts
    BY <1>2, SetGoes DEF GasInv, NoneRestarts
  <2> QED
    BY <1>2, <2>1, <2>2, SetQuiet, SameRpcKeeps
<1>3. CASE \E c \in Caller : \E fn, args : Start(c, fn, args)
  BY <1>3, StartCaching
<1>4. ASSUME NEW c \in Caller, (\E p : Send(c, p)) \/ Export(c)
      PROVE  AgeInv'
  <2>1. Goes(c, "ready", {"failed", "coins"})
    BY <1>4, SendGoes, ExportGoes DEF GasInv
  <2>2. /\ now' = now /\ cache' = cache /\ req' = req /\ use' = use /\ contract' = contract
    BY <1>4 DEF Send, Export, rpcVars
  <2>3. ContractKeeps'
    BY <2>2 DEF GasInv, Estimating, ContractKeeps
  <2>4. NoneRestarts /\ Quiet
    BY <2>1, <2>2, <2>3 DEF Goes, Others, NoneRestarts, Early, Quiet
  <2> QED
    BY <2>2, <2>4, SameRpcKeeps
<1>5. ASSUME NEW i \in 1..MaxAsks, NEW api, Ask(AskSlot(i), api), UNCHANGED callVars
      PROVE  AgeInv'
  BY <1>5, AskCaching
<1> QED
  BY <1>1, <1>2, <1>3, <1>4, <1>5 DEF ApplicationStep

LEMMA SettledSlot ==
  ASSUME RpcTimed, NEW s \in Slot, NEW end, NEW heard, NEW value, NEW rs2,
         rs2 = Settle(s, end, heard, value)
  PROVE  \E new : /\ Puts(req, s, new, rs2)
                  /\ new.stage = "settled" /\ new.api = req[s].api
                  /\ new.since = req[s].since /\ new.done = now
                  /\ new.end = end /\ new.heard = heard /\ new.value = value
<1> DEFINE new == [req[s] EXCEPT !.stage = "settled", !.end = end, !.heard = heard,
                                 !.value = value, !.done = now]
<1>1. DOMAIN req = Slot /\ DOMAIN req[s] = ReqKey
  BY DEF RpcTimed, Timed
<1>2. /\ new.stage = "settled" /\ new.api = req[s].api
      /\ new.since = req[s].since /\ new.done = now
      /\ new.end = end /\ new.heard = heard /\ new.value = value
  BY <1>1 DEF ReqKey
<1>3. Puts(req, s, new, rs2)
  BY <1>1 DEF Settle, ReqKey, Puts
<1> HIDE DEF new
<1> QED
  BY <1>2, <1>3

\* What the provider does by itself, to one slot.
LEMMA RpcStepOneSlot ==
  ASSUME RpcTimed, NEW s \in Slot, SlotsUsed, req[s].stage \in Underway,
         Proper(req[s], now), NEW new, new.stage # "idle", new.api = req[s].api,
         new.since = req[s].since, new.heard # "cached",
         Puts(req, s, new, req')
  PROVE  Tame /\ NoneAsks
<1>1. req'[s] = new /\ \A t \in Slot \ {s} : req'[t] = req[t]
  BY DEF Puts
<1>2. \A c \in Caller : CallSlot(c) \in Slot /\ GasSlot(c) \in Slot
  BY SlotsThere
<1>3. \A t \in Slot : /\ req'[t].api = req[t].api /\ req'[t].since = req[t].since
                      /\ req[t].stage # "idle" => req'[t].stage # "idle"
                      /\ req[t].stage = "idle" => req'[t].stage = "idle"
                      /\ req[t].heard # "cached" => req'[t].heard # "cached"
  BY <1>1 DEF Underway
<1> QED
  BY <1>2, <1>3 DEF Tame, NoneAsks, SentIn, SlotsUsed

LEMMA RpcStepCaching ==
  ASSUME GasInv, AgeInv, NEW s \in Slot, RpcStep(s)
  PROVE  AgeInv'
<1>1. NoneRestarts /\ Quiet /\ contract'.gas = contract.gas
  BY UnchangedQuiet DEF RpcStep, callVars, NoneRestarts
<1>2. now \in Time /\ now \in 0..now
  BY TimeSpan DEF GasInv, RpcTimed
<1>3. Proper(req[s], now) /\ Timed(req) /\ Caching(req, cache, now) /\ RpcTimed /\ SlotsUsed
  BY DEF AgeInv, Caching, GasInv, RpcTimed
<1>4. ASSUME NEW new, new.stage \in Underway \cup {"settled"}, new.api = req[s].api,
             new.since = req[s].since, new.heard # "cached", new.end # "value",
             Proper(new, now), req[s].stage \in Underway,
             Puts(req, s, new, req'), cache' = cache, now' = now
      PROVE  AgeInv'
  <2>1. Caching(req', cache', now')
    BY <1>2, <1>3, <1>4, GoesOnCaching
  <2>2. Tame /\ NoneAsks
    BY <1>3, <1>4, RpcStepOneSlot DEF Underway
  <2> QED
    BY <1>1, <2>1, <2>2, TameKeeps DEF AgeInv
<1>5. CASE Dispatch(s) \/ Lost(s) \/ Headers(s)
  <2>1. PICK stage \in Underway : req' = [req EXCEPT ![s].stage = stage]
    BY <1>5 DEF Dispatch, Lost, Headers, Underway
  <2>2. cache' = cache /\ now' = now /\ req[s].stage \in Underway
    BY <1>5 DEF Dispatch, Lost, Headers, Underway
  <2>0. PICK new : new = [req[s] EXCEPT !.stage = stage]
    OBVIOUS
  <2>3. DOMAIN req = Slot /\ DOMAIN req[s] = ReqKey
    BY DEF GasInv, RpcTimed, Timed
  <2>4. /\ new.stage = stage /\ new.api = req[s].api /\ new.since = req[s].since
        /\ new.heard = req[s].heard /\ new.end = req[s].end /\ new.done = req[s].done
        /\ new.value = req[s].value
    BY <2>0, <2>3 DEF ReqKey
  <2>5. Puts(req, s, new, req')
    BY <2>0, <2>1, <2>3 DEF Puts, ReqKey
  <2>6. new.end = "" /\ new.heard = ""
    BY <1>3, <2>2, <2>4 DEF Proper, Underway
  <2>7. Proper(new, now)
    BY <1>3, <2>4, <2>6 DEF Proper
  <2> QED
    BY <1>4, <2>2, <2>4, <2>5, <2>6, <2>7
<1>6. CASE Fails(s) \/ Expire(s)
  <2>1. PICK end, heard, value :
          /\ req' = Settle(s, end, heard, value) /\ cache' = cache /\ now' = now
          /\ end # "value" /\ heard # "cached" /\ req[s].stage \in Underway
    BY <1>6 DEF Fails, Expire, Failure, Armed, Underway
  <2>2. PICK new : /\ Puts(req, s, new, req')
                   /\ new.stage = "settled" /\ new.api = req[s].api
                   /\ new.since = req[s].since /\ new.done = now
                   /\ new.end = end /\ new.heard = heard /\ new.value = value
    BY <1>3, <2>1, SettledSlot
  <2>3. Proper(new, now)
    BY <1>2, <1>3, <2>1, <2>2 DEF Proper
  <2>4. new.stage \in Underway \cup {"settled"} /\ new.heard # "cached" /\ new.end # "value"
    BY <2>1, <2>2
  <2> QED
    BY <1>4, <2>1, <2>2, <2>3, <2>4
<1>7. ASSUME NEW answer \in use.answers, Arrives(s, answer)
      PROVE  AgeInv'
  <2>0. answer # "cached"
    BY <1>7, UsesAssumption DEF GasInv, Estimating, Answer
  <2>1. PICK end : /\ req' = Settle(s, end, answer, req[s].since)
                   /\ cache' = IF end = "value" THEN CachedAnswer(s) ELSE cache
                   /\ now' = now /\ req[s].stage \in {"asked", "body"}
    BY <1>7 DEF Arrives
  <2>2. PICK new : /\ Puts(req, s, new, req')
                   /\ new.stage = "settled" /\ new.api = req[s].api
                   /\ new.since = req[s].since /\ new.done = now
                   /\ new.end = end /\ new.heard = answer /\ new.value = req[s].since
    BY <1>3, <2>1, SettledSlot
  <2>3. Proper(new, now)
    BY <1>2, <1>3, <2>2 DEF Proper
  <2>4. CASE end # "value"
    BY <1>4, <2>0, <2>1, <2>2, <2>3, <2>4 DEF Underway
  <2>5. CASE end = "value"
    <3>1. cache' = CachedAnswer(s)
      BY <2>1, <2>5
    <3>2. ChallengeKeeps(cache, now)
      BY <1>3 DEF Caching
    <3>3. /\ ChallengeKeeps(cache', now) /\ cache'.gas.last = cache.gas.last
          /\ IF req[s].api = "gasParameters"
             THEN cache'.gas.cached /\ cache'.gas.asked = req[s].since
                  /\ cache'.gas.arrived = now
             ELSE cache'.gas = cache.gas
      BY <1>3, <3>1, <3>2, CachedAnswerKeeps
    <3>4. Caching(req', cache', now)
      BY <1>2, <1>3, <2>0, <2>1, <2>2, <2>3, <3>3, ValueCaching
    <3>5. Tame /\ NoneAsks
      BY <1>3, <2>0, <2>1, <2>2, RpcStepOneSlot DEF Underway
    <3> QED
      BY <1>1, <2>1, <3>4, <3>5, TameKeeps DEF AgeInv
  <2> QED
    BY <2>4, <2>5
<1> QED
  BY <1>5, <1>6, <1>7 DEF RpcStep

LEMMA TickCaching ==
  ASSUME GasInv, AgeInv, Tick, UNCHANGED callVars
  PROVE  AgeInv'
<1>1. now' = now + 1 /\ cache' = cache /\ req' = req /\ now \in Time
  BY DEF Tick, GasInv, RpcTimed
<1>2. now \in Nat
  BY <1>1, TimeSpan
<1>3. ASSUME NEW r, Proper(r, now)
      PROVE  Proper(r, now')
  <2>1. r.since \in 0..now /\ r.done \in 0..now
    BY <1>3 DEF Proper
  <2>2. r.since \in 0..now' /\ r.done \in 0..now'
    BY <1>1, <1>2, <2>1
  <2> QED
    BY <1>3, <2>2 DEF Proper
<1>4. GasCache(req, cache.gas, now) => GasCache(req, cache.gas, now')
  BY <1>1, <1>2 DEF GasCache
<1>5. ChallengeKeeps(cache, now) => ChallengeKeeps(cache, now')
  <2>1. cache.challenge.arrived \in Nat
    <3>1. cache.challenge.arrived \in Time
      BY DEF GasInv, RpcTimed, TimedCache
    <3> QED
      BY <3>1, TimeSpan
  <2> QED
    BY <1>1, <1>2, <2>1 DEF ChallengeKeeps
<1>6. Caching(req', cache', now')
  BY <1>1, <1>3, <1>4, <1>5 DEF AgeInv, Caching
<1>7. NoneRestarts /\ Quiet /\ contract'.gas = contract.gas
  BY UnchangedQuiet DEF callVars, NoneRestarts
<1>8. Tame /\ NoneAsks
  BY <1>1, SameTame DEF AgeInv
<1> QED
  BY <1>6, <1>7, <1>8, TameKeeps DEF AgeInv

\* An answer: the call fails, or keeps to the promise there is, or makes a new one.
LEMMA CallReturnsCaching ==
  ASSUME GasInv, AgeInv, NEW c \in Caller, CallReturns(c)
  PROVE  AgeInv'
<1> DEFINE s == CallSlot(c)
           g == GasSlot(c)
<1>0. /\ call[c].stage = "calling" /\ now' = now /\ now \in Time
      /\ s \in Slot /\ g \in Slot /\ DOMAIN req = Slot
      /\ ~SentIn(req, s) /\ (\A d \in Caller : s # GasSlot(d)) /\ req[g].stage = "idle"
  BY SlotsThere, SlotsDiffer
     DEF CallReturns, SlotsUsed, SentIn, GasInv, RpcTimed, Timed, AgeInv
<1>1. CASE /\ call' = Failed(c) /\ req' = Answered(s) /\ UNCHANGED <<contract, cache>>
  <2>1. Caching(req', cache', now') /\ Tame /\ NoneAsks
    BY <1>0, <1>1, OwnSlotKeeps DEF GasInv, AgeInv, OwnSlot
  <2>2. Quiet /\ NoneRestarts
    <3>1. use' = use
      BY DEF CallReturns
    <3> QED
      BY <1>1, <3>1, FailedGoes
         DEF GasInv, Quiet, Estimating, ContractKeeps, NoneRestarts, Early
  <2> QED
    BY <1>1, <2>1, <2>2, TameKeeps DEF AgeInv
<1>2. ASSUME NEW sim, NEW events,
             AwaitGas(c, Answered(s),
                      [call[c] EXCEPT !.args = <<>>, !.events = events, !.sim = sim])
      PROVE  AgeInv'
  <2>1. PICK rs : rs = Answered(s)
    OBVIOUS
  <2>2. (\A t \in Slot \ {s} : rs[t] = req[t]) /\ rs[s] = Unused /\ DOMAIN rs = Slot
    <3>1. DOMAIN rs = Slot
      BY <1>0, <2>1 DEF Answered
    <3> QED
      BY <1>0, <2>1, <3>1, AnsweredSlot
  <2>3. PICK r : r = [call[c] EXCEPT !.args = <<>>, !.events = events, !.sim = sim]
    OBVIOUS
  <2>4. DOMAIN r = Key
    BY <2>3 DEF GasInv, Shape
  <2>5. AwaitGas(c, rs, r)
    BY <1>2, <2>1, <2>3
  <2>6. Caching(rs, cache, now)
    BY <2>1, AnsweredCaching DEF GasInv, AgeInv
  <2>7. Unused.api # "gasParameters" /\ Unused.stage = "idle"
    BY DEF Unused
  <2>8. CASE /\ PromiseKept /\ req' = rs /\ UNCHANGED <<contract, cache>>
             /\ call' = [call EXCEPT ![c] = [r EXCEPT !.stage = "gas", !.wantedAt = now,
                                                     !.promise = contract.gas.by]]
    <3>1. Tame /\ NoneAsks
      BY <1>0, <2>2, <2>7, <2>8, OneSlotTame DEF GasInv, AgeInv
    <3>2. /\ call'[c].stage = "gas" /\ call'[c].wantedAt = now
          /\ call'[c].promise = contract.gas.by
          /\ \A d \in Caller \ {c} : call'[d] = call[d]
      BY <2>4, <2>8 DEF GasInv, Shape, Key
    <3>3. SlotsUsed'
      BY <3>1, <3>2 DEF AgeInv, SlotsUsed, Tame, NoneAsks
    <3>4. contract.gas.by \in Caller /\ Promised(req, contract.gas.by, now)
      <4>1. contract.gas.by \in Caller /\ contract.gas.cachedAt + Fresh > now
        BY <2>8 DEF PromiseKept, GasInv, Estimating, ContractKeeps
      <4>2. /\ req[GasSlot(contract.gas.by)].stage # "idle"
            /\ req[GasSlot(contract.gas.by)].since = contract.gas.cachedAt
        BY <2>8 DEF PromiseKept, AgeInv, Promises
      <4>3. Proper(req[GasSlot(contract.gas.by)], now)
        BY <4>1, SlotsThere DEF AgeInv, Caching
      <4>4. /\ contract.gas.cachedAt \in Nat /\ contract.gas.cachedAt <= now /\ now \in Nat
        BY <1>0, <4>2, <4>3, ProperSince, TimeSpan
      <4>5. now - contract.gas.cachedAt < Fresh
        BY <4>1, <4>4, TimeAssumption
      <4> QED
        BY <4>1, <4>2, <4>4, <4>5 DEF Promised
    <3>5. Promises'
      <4>1. contract'.gas.made => /\ req'[GasSlot(contract'.gas.by)].stage # "idle"
                 /\ req'[GasSlot(contract'.gas.by)].since = contract'.gas.cachedAt
        BY <2>8, <3>1 DEF AgeInv, Promises, Tame, GasInv, Estimating, ContractKeeps
      <4>2. call'[c].wantedAt \in Time /\ Promised(req', call'[c].promise, call'[c].wantedAt)
        BY <1>0, <3>1, <3>2, <3>4, PromisedLasts
      <4>3. ASSUME NEW d \in Caller \ {c}, call'[d].stage = "gas"
            PROVE  /\ call'[d].wantedAt \in Time
                   /\ Promised(req', call'[d].promise, call'[d].wantedAt)
        BY <3>1, <3>2, <4>3, PromisedLasts DEF AgeInv, Promises, GasInv, Estimating, AwaitsGas
      <4>4. ASSUME NEW d \in Caller \ {c}, call'[d].stage = "ready"
            PROVE  Aged(req', call'[d].wantedAt, call'[d].gasAt)
        BY <3>1, <3>2, <4>4, AgedLasts DEF AgeInv, Promises
      <4> QED
        BY <3>2, <4>1, <4>2, <4>3, <4>4 DEF Promises
    <3>6. Caching(req', cache', now')
      BY <1>0, <2>6, <2>8
    <3> QED
      BY <3>3, <3>5, <3>6 DEF AgeInv
  <2>9. CASE /\ req' = Asked(rs, g, "gasParameters")
             /\ cache' = NotedInCache("gasParameters")
             /\ contract' = [contract EXCEPT
                               !.gas = [made |-> TRUE, cachedAt |-> now, by |-> c]]
             /\ call' = [call EXCEPT ![c] = [r EXCEPT !.stage = "gas", !.wantedAt = now,
                                                     !.promise = c]]
    <3>1. /\ \A t \in Slot \ {g} : req'[t] = rs[t]
          /\ req'[g].api = "gasParameters" /\ req'[g].since = now /\ req'[g].stage # "idle"
      BY <1>0, <2>2, <2>9, AskedSlot
    <3>2. s # g /\ \A d \in Caller \ {c} : GasSlot(d) # g
      BY SlotsDiffer
    <3>3. Tame
      <4>1. \A t \in Slot \ {s, g} : req'[t] = req[t]
        BY <2>2, <3>1
      <4>2. \A d \in Caller : req'[CallSlot(d)].api # "gasParameters"
        <5>1. \A d \in Caller : CallSlot(d) # g /\ CallSlot(d) \in Slot
          BY SlotsDiffer, SlotsThere
        <5>2. \A d \in Caller : CallSlot(d) # s => req'[CallSlot(d)] = req[CallSlot(d)]
          BY <4>1, <5>1
        <5>3. req'[s] = Unused
          BY <1>0, <2>2, <3>1, <3>2
        <5> QED
          BY <2>7, <5>2, <5>3 DEF AgeInv, SlotsUsed
      <4>3. \A d \in Caller : req[GasSlot(d)].stage # "idle" =>
                                req'[GasSlot(d)] = req[GasSlot(d)]
        BY <1>0, <4>1, SlotsThere
      <4>4. \A t \in Slot : SentIn(req, t) => req'[t] = req[t]
        BY <1>0, <4>1 DEF SentIn
      <4> QED
        BY <4>2, <4>3, <4>4 DEF Tame, SentIn
    <3>4. /\ call'[c].stage = "gas" /\ call'[c].wantedAt = now
          /\ call'[c].promise = c
          /\ \A d \in Caller \ {c} : call'[d] = call[d]
      BY <2>4, <2>9 DEF GasInv, Shape, Key
    <3>5. SlotsUsed'
      <4>1. \A d \in Caller \ {c} : req'[GasSlot(d)] = req[GasSlot(d)]
        BY <1>0, <2>2, <3>1, <3>2, SlotsThere
      <4> QED
        BY <3>1, <3>3, <3>4, <4>1 DEF AgeInv, SlotsUsed, Tame
    <3>6. Promised(req', c, now)
      BY <1>0, <3>1, TimeAssumption, TimeSpan DEF Promised
    <3>7. Promises'
      <4>1. contract'.gas.by = c /\ contract'.gas.cachedAt = now
        BY <2>9 DEF GasInv, Estimating, ContractKeeps
      <4>2. ASSUME NEW d \in Caller \ {c}, call'[d].stage = "gas"
            PROVE  /\ call'[d].wantedAt \in Time
                   /\ Promised(req', call'[d].promise, call'[d].wantedAt)
        BY <3>3, <3>4, <4>2, PromisedLasts DEF AgeInv, Promises, GasInv, Estimating, AwaitsGas
      <4>3. ASSUME NEW d \in Caller \ {c}, call'[d].stage = "ready"
            PROVE  Aged(req', call'[d].wantedAt, call'[d].gasAt)
        BY <3>3, <3>4, <4>3, AgedLasts DEF AgeInv, Promises
      <4> QED
        BY <1>0, <3>1, <3>4, <3>6, <4>1, <4>2, <4>3 DEF Promises
    <3>8. Caching(req', cache', now')
      <4>1. Timed(rs)
        BY <1>0, <2>1, AnsweredTimed DEF GasInv
      <4>2. ~SentIn(rs, g)
        BY <1>0, <2>2, <3>2 DEF SentIn
      <4> QED
        BY <1>0, <2>6, <2>9, <4>1, <4>2, AskedCaching DEF GasInv
    <3> QED
      BY <3>5, <3>7, <3>8 DEF AgeInv
  <2> QED
    BY <2>5, <2>8, <2>9 DEF AwaitGas
<1> QED
  BY <1>1, <1>2 DEF CallReturns

\* A promise kept for less than Fresh, of parameters that were fresh when it was made.
LEMMA PromiseAged ==
  ASSUME GasInv, AgeInv, NEW c \in Caller, call[c].stage = "gas",
         NEW p, p = req[GasSlot(call[c].promise)], p.stage = "settled", p.end = "value"
  PROVE  Aged(req, call[c].wantedAt, p.value)
<1> DEFINE w == call[c].wantedAt
<1>1. call[c].promise \in Caller
  BY DEF GasInv, Estimating, AwaitsGas
<1>2. w \in Time /\ Promised(req, call[c].promise, w) /\ p.api = "gasParameters"
  BY <1>1 DEF AgeInv, Promises, SlotsUsed, Promised
<1>3. GasSlot(call[c].promise) \in Slot
  BY <1>1, SlotsThere
<1>4. p.since <= w /\ w - p.since < Fresh
  BY <1>2 DEF Promised
<1>5. Proper(p, now) /\ FreshIn(req, p) /\ p.value \in Time /\ p.since \in Time
  BY <1>3 DEF AgeInv, Caching, GasInv, RpcTimed, Timed
<1>6. w \in Nat /\ p.value \in Nat /\ p.since \in Nat /\ Fresh \in Nat \ {0}
  BY <1>2, <1>5, TimeSpan, TimeAssumption
<1>7. CASE p.heard # "cached"
  <2>1. p.value = p.since
    BY <1>5, <1>7 DEF Proper
  <2>2. w - p.value < 2 * Fresh
    BY <1>4, <1>6, <2>1
  <2> QED
    BY <2>2 DEF Aged
<1>8. CASE p.heard = "cached" /\ p.since - p.value <= Fresh
  <2>1. w - p.value < 2 * Fresh
    BY <1>4, <1>6, <1>8
  <2> QED
    BY <2>1 DEF Aged
<1>9. CASE p.heard = "cached" /\ p.since - p.value > Fresh
  <2>1. PICK t \in Slot : SentIn(req, t) /\ p.value < req[t].since /\ req[t].since <= p.since
    BY <1>2, <1>5, <1>9 DEF FreshIn, Excused
  <2>2. req[t].since \in Nat
    BY TimeSpan DEF GasInv, RpcTimed, Timed
  <2>3. req[t].since <= w
    BY <1>4, <1>6, <2>1, <2>2
  <2> QED
    BY <2>1, <2>3 DEF Aged
<1> QED
  BY <1>6, <1>7, <1>8, <1>9

LEMMA GasKnownCaching ==
  ASSUME GasInv, AgeInv, NEW c \in Caller, GasKnown(c)
  PROVE  AgeInv'
<1>1. /\ call[c].stage = "gas" /\ use' = use /\ contract' = contract
      /\ now' = now /\ cache' = cache /\ req' = req
  BY DEF GasKnown, rpcVars
<1>2. Goes(c, "gas", {"failed", "ready"})
  BY GasKnownGoes DEF GasInv
<1>3. Caching(req', cache', now') /\ Tame /\ NoneAsks
  BY <1>1, SameTame DEF AgeInv
<1>4. SlotsUsed'
  BY <1>1, <1>2 DEF AgeInv, SlotsUsed, Goes, Others
<1>5. PICK p : p = req[GasSlot(call[c].promise)]
  OBVIOUS
<1>6. call'[c].stage = "ready" =>
        /\ p.stage = "settled" /\ p.end = "value"
        /\ call'[c].gasAt = p.value /\ call'[c].wantedAt = call[c].wantedAt
  <2>1. p.stage = "settled"
    BY <1>1, <1>5 DEF GasKnown, Resumes, Settled
  <2> DEFINE price == GasPerSat[p.value]
             decoded == DecodeEvents(use.abi, call[c].events)
             satGas == Estimate(Zero(call[c].sim.gas), price)
             satRefunded == Estimate(Zero(call[c].sim.refunded), price)
  <2>2. CASE call' = Failed(c)
    BY <2>2, FailedGoes DEF GasInv
  <2>3. CASE /\ p.end = "value"
             /\ call' = [call EXCEPT
                ![c].stage = "ready", ![c].gasAt = p.value,
                ![c].events = decoded, ![c].sim.fees = <<Fees>>,
                ![c].sim.satGas = satGas, ![c].sim.satRefunded = satRefunded]
    <3> HIDE DEF decoded, satGas, satRefunded
    <3> QED
      BY <2>1, <2>3 DEF GasInv, Shape, Key
  <2> QED
    BY <1>5, <2>2, <2>3 DEF GasKnown
<1>7. call'[c].stage = "ready" => Aged(req', call'[c].wantedAt, call'[c].gasAt)
  <2>1. ASSUME call'[c].stage = "ready"
        PROVE  Aged(req, call[c].wantedAt, p.value)
    BY <1>1, <1>5, <1>6, <2>1, PromiseAged
  <2> QED
    BY <1>1, <1>6, <2>1
<1>8. Promises'
  <2>1. \A d \in Caller \ {c} : call'[d] = call[d]
    BY <1>2 DEF Goes, Others
  <2>2. call'[c].stage # "gas"
    BY <1>2 DEF Goes
  <2> QED
    BY <1>1, <1>7, <2>1, <2>2 DEF AgeInv, Promises
<1> QED
  BY <1>3, <1>4, <1>8 DEF AgeInv

LEMMA AgeStep ==
  ASSUME GasInv, AgeInv, [Next]_vars
  PROVE  AgeInv'
<1>1. ASSUME NEW c \in Caller, CallStep(c)
      PROVE  AgeInv'
  BY <1>1, CallReturnsCaching, GasKnownCaching, CallStepCaching DEF CallStep
<1>2. CASE UNCHANGED vars
  <2>1. UNCHANGED callVars /\ now' = now /\ cache' = cache /\ req' = req
    BY <1>2 DEF vars, rpcVars
  <2>2. NoneRestarts /\ Quiet /\ contract'.gas = contract.gas
    BY <2>1, UnchangedQuiet DEF callVars, NoneRestarts
  <2> QED
    BY <2>1, <2>2, SameRpcKeeps
<1> QED
  BY <1>1, <1>2, ApplicationStepCaching, RpcStepCaching, TickCaching DEF Next

LEMMA AgeInit == Init => AgeInv
<1> SUFFICES ASSUME Init PROVE AgeInv
  OBVIOUS
<1>1. /\ now = 0 /\ req = [s \in Slot |-> Unused] /\ cache = EmptyCache
      /\ contract.gas = NoPromise
  BY DEF Init, RpcInit
<1>2. 0 \in Time /\ 0 \in 0..0
  BY TimeAssumption DEF Time
<1>3. \A s \in Slot : req[s] = Unused
  BY <1>1
<1>4. Unused.stage = "idle" /\ Unused.api # "gasParameters"
  BY DEF Unused
<1>5. \A s \in Slot : ~SentIn(req, s)
  BY <1>3, <1>4 DEF SentIn
<1>6. Caching(req, cache, now)
  BY <1>1, <1>2, <1>3, <1>5, UnusedKeeps
     DEF Caching, GasCache, ChallengeKeeps, AnsweredIn, EmptyCache
<1>7. SlotsUsed
  BY <1>3, <1>4, SlotsThere DEF SlotsUsed
<1>8. Promises
  BY <1>1, AtFirst DEF Promises, NoPromise
<1> QED
  BY <1>6, <1>7, <1>8 DEF AgeInv

\* What makes both of them true.
THEOREM CachesKept == Spec => [](GasInv /\ AgeInv)
<1>1. Init => GasInv /\ AgeInv
  BY GasInit, AgeInit
<1>2. GasInv /\ AgeInv /\ [Next]_vars => (GasInv /\ AgeInv)'
  BY GasStep, AgeStep
<1> QED
  BY <1>1, <1>2, PTL DEF Spec

\* Gas parameters that are handed out of the cache were asked for no more than 10 s ago,
\* unless a newer request for them was of no use yet, and a challenge arrived less than 10 s
\* ago, however requests and answers overlap.
\* (AbstractRpcProvider.gasParameters(), getChallenge())
THEOREM CachedAnswersAreFresh == Spec => []CachedAnswersFresh
<1>1. AgeInv => CachedAnswersFresh
  <2> SUFFICES ASSUME AgeInv, NEW s \in Slot, Settled(s), req[s].heard = "cached"
               PROVE  /\ req[s].api = "gasParameters" /\ req[s].since - req[s].value > Fresh =>
                           \E t \in Slot : Excused(req, req[s], t)
                      /\ req[s].api = "getChallenge" => req[s].since - req[s].value < Fresh
    BY DEF CachedAnswersFresh, Excused, SentIn, AnsweredIn, Asking, Settled
  <2> QED
    BY DEF AgeInv, Caching, FreshIn, Settled
<1> QED
  BY <1>1, CachesKept, PTL

\* A result is estimated with parameters asked for less than 20 s before the call wanted them,
\* unless newer ones had been asked for by then: the contract keeps a promise for 10 s of what
\* the provider's cache has kept for 10 s.  (Contract.currentGasParameters())
THEOREM GasIsOfAge == Spec => []GasAge
<1>1. AgeInv => GasAge
  BY DEF AgeInv, Promises, Aged, GasAge, SentIn, Asking
<1> QED
  BY <1>1, CachesKept, PTL

-----------------------------------------------------------------------------
(* What the methods ask, and what they make of answers                     *)

Readings ==
  {"checked", "unguarded", "loose", "pending", "blind", "handed", "raw", "keys", "itself"}

\* The readings that may find nothing.
Lenient == {"loose", "pending", "blind", "raw", "keys", "itself"}

\* A method m, called api, reads what it hears and loses only the parameters it may lose.
MethodSound(api, m) ==
  /\ m.reads \in Readings
  /\ m.reads \in Lenient => MayFindNothing(api)
  /\ m.reads = "itself" => api = "getPublicKeyInfoOfKey"
  /\ \/ m.params \subseteq Fields[m.wire] \/ m.wire \in LosesParameters
     \/ api = "getLatestEpoch"

GroupSound(group) == \A api \in DOMAIN group : MethodSound(api, group[api])

LEMMA ChainFieldsAre ==
  ASSUME NEW wire \in DOMAIN ChainFields
  PROVE  Fields[wire] = ChainFields[wire]
  BY DEF Fields

LEMMA StateFieldsAre ==
  ASSUME NEW wire \in DOMAIN StateFields, wire \notin DOMAIN ChainFields
  PROVE  Fields[wire] = StateFields[wire]
  BY DEF Fields

LEMMA InfoMethodsSound == GroupSound(InfoMethods)
<1>1. /\ Fields["PUBLIC_KEY_INFO"] = {"addresses"}
  BY ChainFieldsAre DEF ChainFields
<1> QED
  BY <1>1 DEF GroupSound, MethodSound, InfoMethods, Asks, Readings, Lenient,
              MayFindNothing, Broadcasts, LosesParameters

LEMMA BlockMethodsSound == GroupSound(BlockMethods)
<1>1. /\ Fields["BLOCK_BY_NUMBER"] = {}
      /\ Fields["GET_BLOCK_BY_CHECKSUM"] = {"block", "prefetchTxs"}
      /\ Fields["TRANSACTION_PREIMAGE"] = {}
      /\ Fields["GET_BLOCK_BY_NUMBER"] = {"block", "prefetchTxs"}
  BY ChainFieldsAre DEF ChainFields
<1> QED
  BY <1>1 DEF GroupSound, MethodSound, BlockMethods, Asks, Readings, Lenient,
              MayFindNothing, Broadcasts, LosesParameters

LEMMA BlocksMethodsSound == GroupSound(BlocksMethods)
<1>1. /\ Fields["GET_BLOCK_BY_NUMBER"] = {"block", "prefetchTxs"}
      /\ Fields["GET_BLOCK_BY_HASH"] = {"block", "prefetchTxs"}
      /\ Fields["GET_BALANCE"] = {"address", "filterOrdinals"}
      /\ Fields["GET_TRANSACTION_BY_HASH"] = {"hash"}
  BY ChainFieldsAre DEF ChainFields
<1> QED
  BY <1>1 DEF GroupSound, MethodSound, BlocksMethods, Asks, Readings, Lenient,
              MayFindNothing, Broadcasts, LosesParameters

LEMMA StateMethodsSound == GroupSound(StateMethods)
<1>1. /\ Fields["GET_TRANSACTION_RECEIPT"] = {"hash"}
      /\ Fields["CHAIN_ID"] = {}
  BY ChainFieldsAre DEF ChainFields
<1> QED
  BY <1>1 DEF GroupSound, MethodSound, StateMethods, Asks, Readings, Lenient,
              MayFindNothing, Broadcasts, LosesParameters

LEMMA CallMethodsSound == GroupSound(CallMethods)
  BY DEF GroupSound, MethodSound, CallMethods, Asks, Readings, Lenient,
              MayFindNothing, Broadcasts, LosesParameters

LEMMA BroadcastMethodsSound == GroupSound(BroadcastMethods)
<1>1. /\ Fields["GAS"] = {}
      /\ Fields["BROADCAST_TRANSACTION"] = {"tx", "psbt"}
      /\ Fields["BROADCAST_TRANSACTION_PACKAGE"] = {"txs", "isPackage"}
  BY ChainFieldsAre DEF ChainFields
<1> QED
  BY <1>1 DEF GroupSound, MethodSound, BroadcastMethods, Asks, Readings, Lenient,
              MayFindNothing, Broadcasts, LosesParameters

LEMMA WitnessMethodsSound == GroupSound(WitnessMethods)
<1>1. /\ Fields["BLOCK_WITNESS"] = {"height", "limit", "page"}
  BY ChainFieldsAre DEF ChainFields
<1> QED
  BY <1>1 DEF GroupSound, MethodSound, WitnessMethods, Asks, Readings, Lenient,
              MayFindNothing, Broadcasts, LosesParameters

LEMMA KeyMethodsSound == GroupSound(KeyMethods)
<1>1. /\ Fields["PUBLIC_KEY_INFO"] = {"addresses"}
  BY ChainFieldsAre DEF ChainFields
<1> QED
  BY <1>1 DEF GroupSound, MethodSound, KeyMethods, Asks, Readings, Lenient,
              MayFindNothing, Broadcasts, LosesParameters

LEMMA EpochMethodsSound == GroupSound(EpochMethods)
<1>1. Fields["GET_EPOCH_TEMPLATE"] = {}
  BY StateFieldsAre DEF ChainFields, StateFields
<1> QED
  BY <1>1 DEF GroupSound, MethodSound, EpochMethods, Asks, Readings, Lenient,
              MayFindNothing, Broadcasts, LosesParameters

LEMMA MempoolMethodsSound == GroupSound(MempoolMethods)
<1>1. /\ Fields["GET_MEMPOOL_INFO"] = {}
      /\ Fields["GET_PENDING_TRANSACTION"] = {"hash"}
      /\ Fields["GET_LATEST_PENDING_TRANSACTIONS"] = {"address", "addresses", "limit"}
  BY StateFieldsAre DEF ChainFields, StateFields
<1> QED
  BY <1>1 DEF GroupSound, MethodSound, MempoolMethods, Asks, Readings, Lenient,
              MayFindNothing, Broadcasts, LosesParameters

LEMMA CoinMethodsSound == GroupSound(CoinMethods)
  BY DEF GroupSound, MethodSound, CoinMethods, Asks, Readings, Lenient,
              MayFindNothing, Broadcasts, LosesParameters

\* A method is that of a group.
LEMMA MethodsSound ==
  ASSUME NEW api \in DOMAIN Method
  PROVE  MethodSound(api, Method[api])
<1>1. PICK group \in MethodGroups : api \in DOMAIN group /\ Method[api] = group[api]
  <2>1. api \in UNION {DOMAIN group : group \in MethodGroups}
    BY DEF Method
  <2>2. \E group \in MethodGroups : api \in DOMAIN group
    BY <2>1
  <2>3. PICK group : group = CHOOSE g \in MethodGroups : api \in DOMAIN g
    OBVIOUS
  <2>4. group \in MethodGroups /\ api \in DOMAIN group
    BY <2>2, <2>3
  <2>5. Method[api] = group[api]
    BY <2>1, <2>3 DEF Method
  <2> QED
    BY <2>4, <2>5
<1>2. GroupSound(group)
  BY InfoMethodsSound, BlockMethodsSound, BlocksMethodsSound, StateMethodsSound,
     CallMethodsSound, BroadcastMethodsSound, WitnessMethodsSound, KeyMethodsSound,
     EpochMethodsSound, MempoolMethodsSound, CoinMethodsSound
     DEF MethodGroups
<1> QED
  BY <1>1, <1>2 DEF GroupSound

LEMMA MethodsThere ==
  {"getPublicKeyInfo", "getPublicKeyInfoOfKey", "call", "getChallenge", "gasParameters",
   "sendRawTransaction", "sendRawTransactionPackage"} \subseteq DOMAIN Method
<1>1. \A group \in MethodGroups : \A api \in DOMAIN group : api \in DOMAIN Method
  BY DEF Method
<1>2. /\ "getPublicKeyInfo" \in DOMAIN InfoMethods
      /\ "getPublicKeyInfoOfKey" \in DOMAIN InfoMethods /\ "call" \in DOMAIN CallMethods
      /\ "getChallenge" \in DOMAIN BlockMethods /\ "gasParameters" \in DOMAIN BroadcastMethods
      /\ "sendRawTransaction" \in DOMAIN BroadcastMethods
      /\ "sendRawTransactionPackage" \in DOMAIN BroadcastMethods
  BY DEF InfoMethods, CallMethods, BlockMethods, BroadcastMethods
<1>3. /\ InfoMethods \in MethodGroups /\ CallMethods \in MethodGroups
      /\ BlockMethods \in MethodGroups /\ BroadcastMethods \in MethodGroups
  BY DEF MethodGroups
<1> QED
  BY <1>1, <1>2, <1>3

\* Over HTTP: a value is made of a result only, and nothing of what may mean that.
LEMMA ReadsSound ==
  ASSUME NEW api \in DOMAIN Method, NEW answer \in Answer
  PROVE  /\ Reads(api, answer) \in Outcome
         /\ Reads(api, answer) = "value" => answer = "result"
         /\ Reads(api, answer) = "nothing" => MayFindNothing(api)
         /\ Reads(api, answer) = "itself" => api = "getPublicKeyInfoOfKey"
<1>1. PICK how \in Readings : how = Method[api].reads
  BY MethodsSound DEF MethodSound
<1>2. /\ how \in Lenient => MayFindNothing(api)
      /\ how = "itself" => api = "getPublicKeyInfoOfKey"
  BY <1>1, MethodsSound DEF MethodSound
<1>3. Reads(api, answer) = Reading[how][answer]
  BY <1>1 DEF Reads
<1>4. /\ Reading["checked"] = Ends("crashed", "thrown", "thrown", "crashed")
      /\ Reading["unguarded"] = Ends("crashed", "crashed", "crashed", "crashed")
      /\ Reading["loose"] = Ends("nothing", "thrown", "thrown", "crashed")
      /\ Reading["pending"] = Ends("nothing", "thrown", "nothing", "crashed")
      /\ Reading["blind"] = Ends("nothing", "nothing", "nothing", "crashed")
      /\ Reading["handed"] = Ends("crashed", "handed", "handed", "crashed")
      /\ Reading["raw"] = Ends("nothing", "thrown", "thrown", "handed")
      /\ Reading["keys"] = Ends("crashed", "thrown", "thrown", "nothing")
      /\ Reading["itself"] = Ends("itself", "itself", "itself", "nothing")
  BY DEF Reading, Unheard
<1>5. /\ Reading[how][answer] \in Outcome
      /\ Reading[how][answer] = "value" => answer = "result"
      /\ Reading[how][answer] = "nothing" => how \in Lenient
      /\ Reading[how][answer] = "itself" => how = "itself"
  <2>1. CASE how = "checked"
    <3>1. /\ answer = "result" => Reading[how][answer] = "value"
          /\ answer = "empty" => Reading[how][answer] = "crashed"
          /\ answer = "error" => Reading[how][answer] = "thrown"
          /\ answer = "notFound" => Reading[how][answer] = "thrown"
          /\ answer = "refusedEntry" => Reading[how][answer] = "crashed"
      BY <1>4, <2>1 DEF Ends
    <3> QED
      BY <2>1, <3>1 DEF Answer, Outcome, Lenient
  <2>2. CASE how = "unguarded"
    <3>1. /\ answer = "result" => Reading[how][answer] = "value"
          /\ answer = "empty" => Reading[how][answer] = "crashed"
          /\ answer = "error" => Reading[how][answer] = "crashed"
          /\ answer = "notFound" => Reading[how][answer] = "crashed"
          /\ answer = "refusedEntry" => Reading[how][answer] = "crashed"
      BY <1>4, <2>2 DEF Ends
    <3> QED
      BY <2>2, <3>1 DEF Answer, Outcome, Lenient
  <2>3. CASE how = "loose"
    <3>1. /\ answer = "result" => Reading[how][answer] = "value"
          /\ answer = "empty" => Reading[how][answer] = "nothing"
          /\ answer = "error" => Reading[how][answer] = "thrown"
          /\ answer = "notFound" => Reading[how][answer] = "thrown"
          /\ answer = "refusedEntry" => Reading[how][answer] = "crashed"
      BY <1>4, <2>3 DEF Ends
    <3> QED
      BY <2>3, <3>1 DEF Answer, Outcome, Lenient
  <2>4. CASE how = "pending"
    <3>1. /\ answer = "result" => Reading[how][answer] = "value"
          /\ answer = "empty" => Reading[how][answer] = "nothing"
          /\ answer = "error" => Reading[how][answer] = "thrown"
          /\ answer = "notFound" => Reading[how][answer] = "nothing"
          /\ answer = "refusedEntry" => Reading[how][answer] = "crashed"
      BY <1>4, <2>4 DEF Ends
    <3> QED
      BY <2>4, <3>1 DEF Answer, Outcome, Lenient
  <2>5. CASE how = "blind"
    <3>1. /\ answer = "result" => Reading[how][answer] = "value"
          /\ answer = "empty" => Reading[how][answer] = "nothing"
          /\ answer = "error" => Reading[how][answer] = "nothing"
          /\ answer = "notFound" => Reading[how][answer] = "nothing"
          /\ answer = "refusedEntry" => Reading[how][answer] = "crashed"
      BY <1>4, <2>5 DEF Ends
    <3> QED
      BY <2>5, <3>1 DEF Answer, Outcome, Lenient
  <2>6. CASE how = "handed"
    <3>1. /\ answer = "result" => Reading[how][answer] = "value"
          /\ answer = "empty" => Reading[how][answer] = "crashed"
          /\ answer = "error" => Reading[how][answer] = "handed"
          /\ answer = "notFound" => Reading[how][answer] = "handed"
          /\ answer = "refusedEntry" => Reading[how][answer] = "crashed"
      BY <1>4, <2>6 DEF Ends
    <3> QED
      BY <2>6, <3>1 DEF Answer, Outcome, Lenient
  <2>7. CASE how = "raw"
    <3>1. /\ answer = "result" => Reading[how][answer] = "value"
          /\ answer = "empty" => Reading[how][answer] = "nothing"
          /\ answer = "error" => Reading[how][answer] = "thrown"
          /\ answer = "notFound" => Reading[how][answer] = "thrown"
          /\ answer = "refusedEntry" => Reading[how][answer] = "handed"
      BY <1>4, <2>7 DEF Ends
    <3> QED
      BY <2>7, <3>1 DEF Answer, Outcome, Lenient
  <2>8. CASE how = "keys"
    <3>1. /\ answer = "result" => Reading[how][answer] = "value"
          /\ answer = "empty" => Reading[how][answer] = "crashed"
          /\ answer = "error" => Reading[how][answer] = "thrown"
          /\ answer = "notFound" => Reading[how][answer] = "thrown"
          /\ answer = "refusedEntry" => Reading[how][answer] = "nothing"
      BY <1>4, <2>8 DEF Ends
    <3> QED
      BY <2>8, <3>1 DEF Answer, Outcome, Lenient
  <2>9. CASE how = "itself"
    <3>1. /\ answer = "result" => Reading[how][answer] = "value"
          /\ answer = "empty" => Reading[how][answer] = "itself"
          /\ answer = "error" => Reading[how][answer] = "itself"
          /\ answer = "notFound" => Reading[how][answer] = "itself"
          /\ answer = "refusedEntry" => Reading[how][answer] = "nothing"
      BY <1>4, <2>9 DEF Ends
    <3> QED
      BY <2>9, <3>1 DEF Answer, Outcome, Lenient
  <2> QED
    BY <2>1, <2>2, <2>3, <2>4, <2>5, <2>6, <2>7, <2>8, <2>9 DEF Readings
<1> QED
  BY <1>2, <1>3, <1>5

LEMMA FailureSound ==
  ASSUME NEW api \in DOMAIN Method
  PROVE  /\ Failure(api) \in {"thrown", "itself"}
         /\ Failure(api) = "itself" => api = "getPublicKeyInfoOfKey"
<1>1. Method[api].reads = "itself" => api = "getPublicKeyInfoOfKey"
  BY MethodsSound DEF MethodSound
<1> QED
  BY <1>1 DEF Failure

\* Over a WebSocket an empty answer may be taken for a result.
LEMMA WsReadsSound ==
  ASSUME NEW api \in DOMAIN Method, NEW answer \in Answer
  PROVE  /\ WsReads(api, answer) \in Outcome
         /\ WsReads(api, answer) = "value" => answer \in {"result", "empty"}
         /\ WsReads(api, answer) = "nothing" => MayFindNothing(api)
         /\ WsReads(api, answer) = "itself" => api = "getPublicKeyInfoOfKey"
<1>1. PICK decoded : decoded = IF answer = "empty" THEN "result" ELSE answer
  OBVIOUS
<1>2. decoded \in Answer /\ "empty" \in Answer
  BY <1>1 DEF Answer
<1>3. /\ Reads(api, decoded) \in Outcome
      /\ Reads(api, decoded) = "value" => answer \in {"result", "empty"}
      /\ Reads(api, decoded) = "nothing" => MayFindNothing(api)
      /\ Reads(api, decoded) = "itself" => api = "getPublicKeyInfoOfKey"
  BY <1>1, <1>2, ReadsSound
<1>4. /\ Reads(api, "empty") \in Outcome /\ Reads(api, "empty") # "value"
      /\ Reads(api, "empty") = "nothing" => MayFindNothing(api)
      /\ Reads(api, "empty") = "itself" => api = "getPublicKeyInfoOfKey"
  BY <1>2, ReadsSound
<1>5. MayFindNothing("getReorg")
  BY DEF MayFindNothing
<1>6. \/ WsReads(api, answer) = Failure(api) \/ WsReads(api, answer) = Reads(api, decoded)
      \/ api = "getReorg" /\ WsReads(api, answer) = "nothing"
      \/ WsReads(api, answer) = Reads(api, "empty")
  BY <1>1 DEF WsReads
<1> QED
  BY <1>3, <1>4, <1>5, <1>6, FailureSound DEF Outcome

-----------------------------------------------------------------------------
(* Errors surface, and questions arrive                                    *)

\* A request that was asked of the node, or not at all, and was heard rightly.
Heard(r) ==
  r.stage = "settled" =>
    /\ r.end = "value" => \/ r.heard \in {"result", "cached"}
                          \/ transport = "ws" /\ r.heard = "empty"
    /\ r.end = "nothing" => MayFindNothing(r.api)
    /\ r.end = "itself" => r.api = "getPublicKeyInfoOfKey"

Question(r) ==
  r.stage # "idle" =>
    /\ r.api \in DOMAIN Method
    /\ \/ r.seen = Method[r.api].params
       \/ transport = "ws" /\ Method[r.api].wire \in LosesParameters
       \/ r.api = "getLatestEpoch"

Sound(r) ==
  /\ r.stage \in Stage /\ r.end \in Outcome
  /\ Heard(r) /\ Question(r)

\* What makes ErrorsSurface and QuestionsArrive inductive.
SoundReqs(rs) == \A s \in Slot : Sound(rs[s])

LEMMA UnusedSound == Sound(Unused)
<1>1. Unused.stage = "idle" /\ Unused.end = ""
  BY DEF Unused
<1> QED
  BY <1>1 DEF Sound, Heard, Question, Outcome, Stage

LEMMA PutsSound ==
  ASSUME NEW rs, SoundReqs(rs), NEW s \in Slot, NEW new, Sound(new), NEW rs2,
         Puts(rs, s, new, rs2)
  PROVE  SoundReqs(rs2)
  BY DEF SoundReqs, Puts

LEMMA AskedSound ==
  ASSUME NEW rs, DOMAIN rs = Slot, SoundReqs(rs), NEW s \in Slot, NEW api \in DOMAIN Method
  PROVE  SoundReqs(Asked(rs, s, api))
<1> DEFINE seen == Carried(api, transport)
           params == Method[api].params
           value == ServedValue(api)
           stage == IF transport \in Pooled THEN "queued" ELSE "asked"
           asked == [Unused EXCEPT !.api = api, !.since = now, !.seen = seen, !.stage = stage]
           served == [Unused EXCEPT !.api = api, !.since = now, !.done = now,
                                    !.stage = "settled", !.seen = params, !.end = "value",
                                    !.heard = "cached", !.value = value]
<1>1. Puts(rs, s, IF Served(api) THEN served ELSE asked, Asked(rs, s, api))
  BY DEF Asked, seen, params, value, stage, Puts
<1>2. \/ seen = params \/ (transport = "ws" /\ Method[api].wire \in LosesParameters)
      \/ api = "getLatestEpoch"
  BY MethodsSound DEF MethodSound, Carried, Unsent
<1>6. stage \in AtOnce
  BY DEF AtOnce
<1> HIDE DEF seen, value, stage
<1>3. /\ asked.stage = stage /\ asked.api = api /\ asked.end = "" /\ asked.seen = seen
      /\ served.stage = "settled" /\ served.api = api /\ served.seen = Method[api].params
      /\ served.end = "value" /\ served.heard = "cached"
  BY DEF Unused
<1> HIDE DEF asked, served
<1>4. Sound(asked)
  BY <1>2, <1>3, <1>6 DEF Sound, Heard, Question, Outcome, AtOnce, Stage
<1>5. Sound(served)
  BY <1>3 DEF Sound, Heard, Question, Outcome, Stage
<1> QED
  BY <1>1, <1>4, <1>5, PutsSound

LEMMA AnsweredSound ==
  ASSUME DOMAIN req = Slot, SoundReqs(req), NEW s \in Slot
  PROVE  SoundReqs(Answered(s))
<1>1. Puts(req, s, Unused, Answered(s))
  BY DEF Answered, Puts
<1> QED
  BY <1>1, UnusedSound, PutsSound

LEMMA RpcStepSound ==
  ASSUME GasInv, SoundReqs(req), NEW s \in Slot, RpcStep(s)
  PROVE  SoundReqs(req') /\ transport' = transport
<1>0. transport' = transport /\ RpcTimed /\ Sound(req[s])
  BY DEF RpcStep, Dispatch, Lost, Headers, Fails, Expire, Arrives, GasInv, SoundReqs
<1>1. CASE Dispatch(s) \/ Lost(s) \/ Headers(s)
  <2>1. PICK stage \in Underway : req' = [req EXCEPT ![s].stage = stage]
    BY <1>1 DEF Dispatch, Lost, Headers, Underway
  <2>2. req[s].stage \in Underway
    BY <1>1 DEF Dispatch, Lost, Headers, Underway
  <2>0. PICK new : new = [req[s] EXCEPT !.stage = stage]
    OBVIOUS
  <2>3. DOMAIN req[s] = ReqKey /\ DOMAIN req = Slot
    BY DEF GasInv, RpcTimed, Timed
  <2>4. /\ new.stage = stage /\ new.api = req[s].api /\ new.end = req[s].end
        /\ new.seen = req[s].seen
    BY <2>0, <2>3 DEF ReqKey
  <2>5. Puts(req, s, new, req')
    BY <2>0, <2>1, <2>3 DEF Puts, ReqKey
  <2>6. Sound(new)
    BY <1>0, <2>2, <2>4 DEF Sound, Heard, Question, Underway, Stage
  <2> QED
    BY <1>0, <2>5, <2>6, PutsSound
<1>2. ASSUME NEW end \in Outcome, NEW heard, NEW value, req' = Settle(s, end, heard, value),
             req[s].stage \in {"asked", "body"},
             end = "value" => heard \in {"result", "cached"} \/ (transport = "ws" /\ heard = "empty"),
             end = "nothing" => MayFindNothing(req[s].api),
             end = "itself" => req[s].api = "getPublicKeyInfoOfKey"
      PROVE  SoundReqs(req')
  <2> DEFINE new == [req[s] EXCEPT !.stage = "settled", !.end = end, !.heard = heard,
                                   !.value = value, !.done = now]
  <2>1. DOMAIN req[s] = ReqKey /\ DOMAIN req = Slot
    BY DEF GasInv, RpcTimed, Timed
  <2>2. /\ new.stage = "settled" /\ new.api = req[s].api /\ new.end = end
        /\ new.heard = heard /\ new.seen = req[s].seen
    BY <2>1 DEF ReqKey
  <2>3. Puts(req, s, new, req')
    BY <1>2, <2>1 DEF Settle, Puts, ReqKey
  <2> HIDE DEF new
  <2>4. Sound(new)
    BY <1>0, <1>2, <2>2 DEF Sound, Heard, Question, Stage
  <2> QED
    BY <2>3, <2>4, PutsSound
<1>3. CASE Fails(s) \/ Expire(s)
  <2>1. /\ req' = Settle(s, Failure(req[s].api), "", 0)
        /\ req[s].stage \in {"asked", "body"}
    BY <1>3 DEF Fails, Expire, Armed
  <2>2. req[s].api \in DOMAIN Method
    BY <1>0, <2>1 DEF Sound, Question
  <2>3. /\ Failure(req[s].api) \in Outcome
        /\ Failure(req[s].api) \notin {"value", "nothing"}
        /\ Failure(req[s].api) = "itself" => req[s].api = "getPublicKeyInfoOfKey"
    BY <2>2, FailureSound DEF Outcome
  <2> QED
    BY <1>0, <1>2, <2>1, <2>3
<1>4. ASSUME NEW answer \in use.answers, Arrives(s, answer)
      PROVE  SoundReqs(req')
  <2>1. answer \in Answer
    BY <1>4, UsesAssumption DEF GasInv, Estimating
  <2>2. PICK end : /\ end = IF transport = "ws" THEN WsReads(req[s].api, answer)
                            ELSE Reads(req[s].api, answer)
                   /\ req' = Settle(s, end, answer, req[s].since)
                   /\ req[s].stage \in {"asked", "body"}
    BY <1>4 DEF Arrives
  <2>3. req[s].api \in DOMAIN Method
    BY <1>0, <2>2 DEF Sound, Question
  <2>4. /\ end \in Outcome
        /\ end = "value" => answer \in {"result", "cached"} \/ (transport = "ws" /\ answer = "empty")
        /\ end = "nothing" => MayFindNothing(req[s].api)
        /\ end = "itself" => req[s].api = "getPublicKeyInfoOfKey"
    BY <2>1, <2>2, <2>3, ReadsSound, WsReadsSound
  <2> QED
    BY <1>2, <2>2, <2>4
<1> QED
  BY <1>0, <1>1, <1>3, <1>4 DEF RpcStep

\* What a step may do to the requests.
Requests ==
  \/ req' = req
  \/ \E c \in Caller : req' = Answered(CallSlot(c))
  \/ \E s \in Slot, api \in DOMAIN Method : req' = Asked(req, s, api)
  \/ \E c \in Caller : req' = Asked(Answered(CallSlot(c)), GasSlot(c), "gasParameters")

LEMMA RequestsSound ==
  ASSUME GasInv, SoundReqs(req), Requests, transport' = transport
  PROVE  SoundReqs(req')
<1>1. DOMAIN req = Slot
  BY DEF GasInv, RpcTimed, Timed
<1>2. ASSUME NEW c \in Caller
      PROVE  /\ SoundReqs(Answered(CallSlot(c)))
             /\ SoundReqs(Asked(Answered(CallSlot(c)), GasSlot(c), "gasParameters"))
  <2>1. SoundReqs(Answered(CallSlot(c)))
    BY <1>1, SlotsThere, AnsweredSound
  <2>2. DOMAIN Answered(CallSlot(c)) = Slot
    BY <1>1 DEF Answered
  <2> QED
    BY <2>1, <2>2, SlotsThere, MethodsThere, AskedSound
<1> QED
  BY <1>1, <1>2, AskedSound DEF Requests

LEMMA CallStepRequests ==
  ASSUME NEW c \in Caller, CallStep(c)
  PROVE  Requests /\ transport' = transport
<1>0. /\ CallSlot(c) \in Slot
      /\ \A api \in {"call", "getChallenge", "sendRawTransaction", "sendRawTransactionPackage"} :
           api \in DOMAIN Method
  BY SlotsThere, MethodsThere
<1>1. CASE AddressKnown(c)
  BY <1>0, <1>1 DEF AddressKnown, CallNode, Requests
<1>2. CASE CallReturns(c)
  BY <1>2 DEF CallReturns, AwaitGas, Requests
<1>3. CASE GasKnown(c)
  BY <1>3 DEF GasKnown, rpcVars, Requests
<1>4. CASE CoinsKnown(c) \/ MoreCoinsKnown(c)
  BY <1>0, <1>4 DEF CoinsKnown, MoreCoinsKnown, AskChallenge, Requests
<1>5. CASE ChallengeKnown(c) \/ BroadcastReturns(c)
  BY <1>5 DEF ChallengeKnown, BroadcastReturns, Requests
<1>6. CASE Sign(c)
  BY <1>0, <1>6 DEF Sign, Requests
<1> QED
  BY <1>1, <1>2, <1>3, <1>4, <1>5, <1>6 DEF CallStep

LEMMA ApplicationStepRequests ==
  ASSUME GasInv, ApplicationStep
  PROVE  Requests /\ transport' = transport
<1>1. CASE Open \/ (\E x \in Setting : Set(x))
           \/ (\E c \in Caller, p \in use.options : Send(c, p)) \/ (\E c \in Caller : Export(c))
  BY <1>1 DEF Open, Set, Send, Export, rpcVars, Requests
<1>2. CASE \E c \in Caller : \E fn, args : Start(c, fn, args)
  BY <1>2, SlotsThere, MethodsThere DEF Start, LookupMethod, Requests
<1>3. ASSUME NEW i \in 1..MaxAsks, NEW api \in use.queries, Ask(AskSlot(i), api)
      PROVE  Requests /\ transport' = transport
  <2>1. api \in DOMAIN Method
    BY <1>3, UsesAssumption DEF GasInv, Estimating
  <2> QED
    BY <1>3, <2>1, SlotsThere DEF Ask, Requests
<1> QED
  BY <1>1, <1>2, <1>3 DEF ApplicationStep

LEMMA SoundStep ==
  ASSUME GasInv, SoundReqs(req), [Next]_vars
  PROVE  SoundReqs(req)' /\ transport' = transport
<1>1. CASE Requests /\ transport' = transport
  BY <1>1, RequestsSound DEF SoundReqs, Sound, Heard, Question
<1>2. ASSUME NEW s \in Slot, RpcStep(s)
      PROVE  SoundReqs(req)' /\ transport' = transport
  BY <1>2, RpcStepSound DEF SoundReqs, Sound, Heard, Question
<1>3. CASE Tick \/ UNCHANGED vars
  BY <1>1, <1>3 DEF Tick, vars, rpcVars, Requests
<1> QED
  BY <1>1, <1>2, <1>3, CallStepRequests, ApplicationStepRequests DEF Next

THEOREM RequestsAreSound == Spec => []SoundReqs(req)
<1>1. Init => SoundReqs(req)
  BY UnusedSound DEF Init, RpcInit, SoundReqs
<1>2. GasInv /\ SoundReqs(req) /\ [Next]_vars => SoundReqs(req)'
  BY SoundStep
<1> QED
  BY <1>1, <1>2, CachesKept, PTL DEF Spec

\* What a node refuses is thrown: no method takes a refusal, or a broken answer, for what was
\* asked for or, but for those that may find nothing, for there being nothing; and none but
\* getPublicKeyInfo() of a public key makes something of what it was called with.  That is for
\* any number of requests, over each way to travel.
\* (The methods of AbstractRpcProvider; WebsocketRpcProvider.translateProtoResponse())
THEOREM ErrorsDoSurface == Spec => []ErrorsSurface
<1>1. SoundReqs(req) => ErrorsSurface
  BY DEF SoundReqs, Sound, Heard, ErrorsSurface, Settled
<1> QED
  BY <1>1, RequestsAreSound, PTL

\* A node sees every parameter an application gave, as what it was given as, however the
\* request travels, but for the methods of which the protobuf messages leave some out, or give
\* one another meaning, and for getLatestEpoch().
\* (The methods of AbstractRpcProvider;
\* WebsocketRpcProvider.translateJsonRpcParamsToFieldIds())
THEOREM QuestionsDoArrive == Spec => []QuestionsArrive
<1>1. SoundReqs(req) => QuestionsArrive
  BY DEF SoundReqs, Sound, Question, QuestionsArrive
<1> QED
  BY <1>1, RequestsAreSound, PTL

-----------------------------------------------------------------------------
(* Types, and the line of the calls that wait for the address              *)

Typed ==
  /\ transport \in Transports /\ sets \in 0..use.sets
  /\ contract.open \in {"", "yes", "threw"} /\ contract.known \in {"", "yes", "no"}
  /\ contract.gas.cachedAt \in 0..now

\* Who is in line is so once, and waits.
OnceInLine ==
  /\ \A i, j \in DOMAIN contract.waiting :
       contract.waiting[i] = contract.waiting[j] => i = j
  /\ \A i \in DOMAIN contract.waiting : call[contract.waiting[i]].stage = "address"

\* What makes TypeOK inductive, with what is known of calls, caches and settings.
LineInv == Typed /\ OnceInLine

\* The line stays, and so do those in it.
LineStays ==
  /\ contract'.waiting = contract.waiting
  /\ \A c \in Caller : call[c].stage = "address" => call'[c].stage = "address"

LEMMA StaysOnce ==
  ASSUME CallsInv, OnceInLine, LineStays
  PROVE  OnceInLine'
<1>1. \A i \in DOMAIN contract.waiting : contract.waiting[i] \in Caller
  BY DEF CallsInv, Queue
<1> QED
  BY <1>1 DEF OnceInLine, LineStays

\* The contract stays as it is but for what a step is about.
ContractStays ==
  /\ contract'.open = contract.open \/ contract'.open \in {"", "yes", "threw"}
  /\ contract'.known = contract.known \/ contract'.known \in {"", "yes", "no"}
  /\ contract'.gas.cachedAt \in {contract.gas.cachedAt, now}
  /\ now' = now /\ transport' = transport /\ use' = use

LEMMA StaysTyped ==
  ASSUME RpcTimed, Typed, ContractStays, sets' = sets
  PROVE  Typed'
<1>1. now \in Nat
  BY TimeAssumption DEF RpcTimed, Time
<1>2. sets' \in 0..use'.sets
  <2>1. sets \in 0..use.sets /\ use' = use
    BY DEF Typed, ContractStays
  <2> QED
    BY <2>1, Zenon
<1>3. contract'.gas.cachedAt \in 0..now'
  <2>1. PICK at : at = contract'.gas.cachedAt
    OBVIOUS
  <2>2. at \in {contract.gas.cachedAt, now} /\ contract.gas.cachedAt \in 0..now /\ now' = now
    BY <2>1 DEF Typed, ContractStays
  <2> QED
    BY <1>1, <2>1, <2>2
<1> QED
  BY <1>2, <1>3 DEF Typed, ContractStays

LEMMA CallStepStays ==
  ASSUME CallsInv, NEW c \in Caller,
         \/ (\E p : Send(c, p)) \/ Export(c) \/ GasKnown(c) \/ CoinsKnown(c)
         \/ MoreCoinsKnown(c) \/ ChallengeKnown(c) \/ Sign(c) \/ BroadcastReturns(c)
  PROVE  LineStays /\ ContractStays /\ sets' = sets
<1>1. /\ now' = now /\ transport' = transport /\ use' = use /\ sets' = sets
      /\ contract' = contract
  BY DEF Send, Export, GasKnown, CoinsKnown, MoreCoinsKnown, ChallengeKnown, Sign,
         BroadcastReturns, rpcVars
<1>2. call[c].stage # "address"
  BY DEF Send, Export, GasKnown, CoinsKnown, MoreCoinsKnown, ChallengeKnown, Sign,
         BroadcastReturns
<1>3. Others(c)
  BY SendGoes, ExportGoes, GasKnownGoes, CoinsKnownGoes, MoreCoinsKnownGoes,
     ChallengeKnownGoes, SignGoes, BroadcastReturnsGoes DEF CallsInv, Goes
<1> QED
  BY <1>1, <1>2, <1>3 DEF LineStays, ContractStays, Others

LEMMA CallReturnsStays ==
  ASSUME CallsInv, NEW c \in Caller, CallReturns(c)
  PROVE  LineStays /\ ContractStays /\ sets' = sets
<1>1. /\ now' = now /\ transport' = transport /\ use' = use /\ sets' = sets
      /\ call[c].stage # "address"
  BY DEF CallReturns
<1>2. Others(c)
  BY CallReturnsGoes DEF CallsInv, Goes
<1>3. \/ contract' = contract
      \/ contract' = [contract EXCEPT !.gas = [made |-> TRUE, cachedAt |-> now, by |-> c]]
  BY DEF CallReturns, AwaitGas
<1>4. /\ contract'.waiting = contract.waiting /\ contract'.open = contract.open
      /\ contract'.known = contract.known
      /\ contract'.gas.cachedAt \in {contract.gas.cachedAt, now}
  BY <1>3 DEF CallsInv, Queue
<1> QED
  BY <1>1, <1>2, <1>4 DEF LineStays, ContractStays, Others

\* A call that starts joins the line at its end.
LEMMA StartLine ==
  ASSUME CallsInv, OnceInLine, NEW c \in Caller, NEW fn, NEW args, Start(c, fn, args)
  PROVE  OnceInLine' /\ ContractStays /\ sets' = sets
<1> DEFINE w == contract.waiting
           w2 == contract'.waiting
<1>1. /\ contract' = [contract EXCEPT !.waiting = Append(@, c)] /\ call[c].stage = "idle"
      /\ now' = now /\ transport' = transport /\ use' = use /\ sets' = sets
  BY DEF Start
<1>2. /\ contract'.waiting = Append(contract.waiting, c) /\ contract'.open = contract.open
      /\ contract'.known = contract.known /\ contract'.gas = contract.gas
      /\ contract.waiting \in Seq(Caller)
  BY <1>1 DEF CallsInv, Queue
<1>3. Others(c) /\ call'[c].stage = "address"
  BY StartGoes DEF CallsInv
<1>4. /\ DOMAIN w = 1..Len(w) /\ DOMAIN w2 = 1..Len(w) + 1 /\ Len(w) \in Nat
      /\ w2[Len(w) + 1] = c /\ \A i \in 1..Len(w) : w2[i] = w[i] /\ w[i] \in Caller
  BY <1>2, AppendKeepsHead
<1> HIDE DEF w, w2
<1>5. \A i \in 1..Len(w) : call[w[i]].stage = "address" /\ w[i] # c
  BY <1>1, <1>4 DEF OnceInLine, w
<1>6. \A i, j \in DOMAIN w2 : w2[i] = w2[j] => i = j
  BY <1>4, <1>5 DEF OnceInLine, w
<1>7. \A i \in DOMAIN w2 : call'[w2[i]].stage = "address"
  BY <1>3, <1>4, <1>5 DEF Others
<1> QED
  BY <1>1, <1>2, <1>6, <1>7 DEF OnceInLine, ContractStays, w2

\* The call that goes on leaves the line, of which it was the first.
LEMMA AddressKnownLine ==
  ASSUME CallsInv, Typed, OnceInLine, NEW c \in Caller, AddressKnown(c)
  PROVE  OnceInLine' /\ ContractStays /\ sets' = sets
<1> DEFINE w == contract.waiting
           w2 == contract'.waiting
<1>1. PICK known : /\ known = AddressOutcome
                    /\ contract' = [contract EXCEPT !.waiting = Tail(@), !.known = known]
  BY DEF AddressKnown
<1>2. known \in {"", "yes", "no"}
  BY <1>1 DEF AddressOutcome, Typed
<1>3. /\ now' = now /\ transport' = transport /\ use' = use /\ sets' = sets
      /\ call[c].stage = "address" /\ Head(w) = c
  BY DEF AddressKnown, Resumes
<1>4. /\ w2 = Tail(w) /\ contract'.open = contract.open
      /\ contract'.known = known /\ contract'.gas = contract.gas
      /\ w \in Seq(Caller)
  BY <1>1 DEF CallsInv, Queue
<1>5. Others(c)
  BY AddressKnownGoes DEF CallsInv, TakesSettings
<1>6. w # <<>>
  BY <1>3, <1>4 DEF CallsInv, InLine
<1>7. /\ DOMAIN w = 1..Len(w) /\ DOMAIN w2 = 1..Len(w) - 1 /\ Len(w) \in Nat /\ w[1] = c
      /\ Len(w) > 0
      /\ \A i \in 1..Len(w) - 1 : w2[i] = w[i + 1]
      /\ \A i \in 1..Len(w) : w[i] \in Caller
  BY <1>3, <1>4, <1>6
<1> HIDE DEF w, w2
<1>8. \A i, j \in 1..Len(w) : w[i] = w[j] => i = j
  BY <1>7 DEF OnceInLine, w
<1>9. \A i, j \in DOMAIN w2 : w2[i] = w2[j] => i = j
  BY <1>7, <1>8
<1>10. \A i \in DOMAIN w2 : call'[w2[i]].stage = "address"
  <2>1. ASSUME NEW i \in DOMAIN w2
        PROVE  call'[w2[i]].stage = "address"
    <3>1. i + 1 \in 1..Len(w) /\ i + 1 # 1 /\ w2[i] = w[i + 1] /\ 1 \in 1..Len(w)
      BY <1>7
    <3>2. w[i + 1] # c /\ w[i + 1] \in Caller
      BY <1>7, <1>8, <3>1
    <3>3. call[w[i + 1]].stage = "address"
      BY <1>7, <3>1 DEF OnceInLine, w
    <3> QED
      BY <1>5, <3>1, <3>2, <3>3 DEF Others
  <2> QED
    BY <2>1
<1> QED
  BY <1>2, <1>3, <1>4, <1>9, <1>10 DEF OnceInLine, ContractStays, w2

LEMMA LineStep ==
  ASSUME CallsInv, GasInv, LineInv, [Next]_vars
  PROVE  LineInv'
<1>0. RpcTimed /\ Typed /\ OnceInLine
  BY DEF GasInv, LineInv
<1>1. CASE LineStays /\ ContractStays /\ sets' = sets
  BY <1>0, <1>1, StaysOnce, StaysTyped DEF LineInv
<1>2. CASE OnceInLine' /\ ContractStays /\ sets' = sets
  BY <1>0, <1>2, StaysTyped DEF LineInv
<1>3. CASE UNCHANGED callVars /\ transport' = transport /\ now' \in {now, now + 1}
  <2>1. now \in Nat
    BY <1>0, TimeAssumption DEF RpcTimed, Time
  <2>2. OnceInLine'
    BY <1>0, <1>3 DEF callVars, OnceInLine
  <2>3. contract'.gas.cachedAt \in 0..now'
    <3>1. contract.gas.cachedAt \in 0..now /\ contract' = contract
      BY <1>0, <1>3 DEF callVars, Typed
    <3>2. contract.gas.cachedAt \in 0..now'
      BY <1>3, <2>1, <3>1
    <3> QED
      BY <3>1, <3>2, Zenon
  <2>4. Typed'
    BY <1>0, <1>3, <2>3, Zenon DEF callVars, Typed
  <2> QED
    BY <2>2, <2>4 DEF LineInv
<1>4. ASSUME NEW x \in Setting, Set(x)
      PROVE  LineInv'
  <2>1. /\ contract' = contract /\ use' = use /\ now' = now /\ transport' = transport
        /\ sets' = sets + 1 /\ sets < use.sets
    BY <1>4 DEF Set, rpcVars
  <2>2. \A c \in Caller : call'[c].stage = call[c].stage
    BY <1>4, SetGoes DEF CallsInv
  <2>3. OnceInLine'
    BY <1>0, <2>1, <2>2, StaysOnce DEF LineStays
  <2>4. use.sets \in Nat
    BY UsesAssumption DEF GasInv, Estimating
  <2>5. sets' \in 0..use'.sets
    <3>1. PICK most \in Nat : most = use.sets
      BY <2>4
    <3>2. sets \in 0..most /\ sets < most
      BY <1>0, <2>1, <3>1, Zenon DEF Typed
    <3>3. sets + 1 \in 0..most
      BY <3>2
    <3> QED
      BY <2>1, <3>1, <3>3, Zenon
  <2>6. Typed'
    BY <1>0, <2>1, <2>5, Zenon DEF Typed
  <2> QED
    BY <2>3, <2>6 DEF LineInv
<1>5. CASE Open
  <2>1. /\ \E yes \in {"yes", "threw"} : contract' = [contract EXCEPT !.open = yes]
        /\ now' = now /\ transport' = transport /\ use' = use /\ sets' = sets /\ call' = call
    BY <1>5 DEF Open, rpcVars
  <2>2. /\ contract'.open \in {"yes", "threw"} /\ contract'.known = contract.known
        /\ contract'.gas = contract.gas /\ contract'.waiting = contract.waiting
    BY <2>1 DEF CallsInv, Queue
  <2> QED
    BY <1>1, <2>1, <2>2 DEF LineStays, ContractStays
<1>6. CASE ApplicationStep
  <2>1. CASE \E c \in Caller : \E fn, args : Start(c, fn, args)
    BY <1>0, <1>2, <2>1, StartLine
  <2>2. CASE \E c \in Caller : (\E p : Send(c, p)) \/ Export(c)
    BY <1>1, <2>2, CallStepStays
  <2>3. CASE UNCHANGED callVars /\ transport' = transport /\ now' = now
    BY <1>3, <2>3
  <2> QED
    BY <1>4, <1>5, <1>6, <2>1, <2>2, <2>3 DEF ApplicationStep, Ask
<1>7. ASSUME NEW c \in Caller, CallStep(c)
      PROVE  LineInv'
  <2>1. CASE AddressKnown(c)
    BY <1>0, <1>2, <2>1, AddressKnownLine
  <2>2. CASE CallReturns(c)
    BY <1>1, <2>2, CallReturnsStays
  <2> QED
    BY <1>1, <1>7, <2>1, <2>2, CallStepStays DEF CallStep
<1>8. ASSUME NEW s \in Slot, RpcStep(s)
      PROVE  LineInv'
  BY <1>3, <1>8 DEF RpcStep, Dispatch, Lost, Headers, Fails, Expire, Arrives
<1>9. CASE Tick /\ UNCHANGED callVars
  BY <1>3, <1>9 DEF Tick
<1>10. CASE UNCHANGED vars
  BY <1>3, <1>10 DEF vars, rpcVars
<1> QED
  BY <1>6, <1>7, <1>8, <1>9, <1>10 DEF Next

LEMMA LineInit == Init => LineInv
<1> SUFFICES ASSUME Init PROVE LineInv
  OBVIOUS
<1>1. /\ now = 0 /\ sets = 0 /\ transport \in Transports /\ use.sets \in Nat
      /\ contract.open = "" /\ contract.known \in {"", "yes"} /\ contract.gas = NoPromise
      /\ contract.waiting = <<>>
  BY UsesAssumption DEF Init, RpcInit
<1>2. NoPromise.cachedAt = 0 /\ 0 \in 0..0 /\ 0 \in 0..use.sets
  <2>1. \A most \in Nat : 0 \in 0..most
    OBVIOUS
  <2>2. 0 \in 0..0 /\ 0 \in 0..use.sets
    BY <1>1, <2>1, Zenon
  <2> QED
    BY <2>2 DEF NoPromise
<1>3. Typed
  BY <1>1, <1>2, Zenon DEF Typed
<1>4. OnceInLine
  <2>1. DOMAIN contract.waiting = {}
    <3>1. DOMAIN <<>> = {}
      OBVIOUS
    <3> QED
      BY <1>1, <3>1, Zenon
  <2> QED
    BY <2>1, Zenon DEF OnceInLine
<1> QED
  BY <1>3, <1>4 DEF LineInv

\* The calls that wait for the address are those in the queue, once each; a call that waits for
\* gas parameters waits for a request that was made; and all is of its type.
\* (Contract.callFunction(), Contract.currentGasParameters())
THEOREM CallTypes == Spec => []TypeOK
<1>1. ASSUME CallsInv, GasInv, AgeInv, LineInv, OnceInv, SoundReqs(req)
      PROVE  TypeOK
  <2>1. /\ now \in 0..MaxTime /\ transport \in Transports /\ sets \in 0..use.sets
        /\ contract.open \in {"", "yes", "threw"} /\ contract.known \in {"", "yes", "no"}
        /\ contract.gas.cachedAt \in 0..now
    BY <1>1 DEF GasInv, RpcTimed, Time, LineInv, Typed
  <2>2. \A s \in Slot : req[s].stage \in Stage /\ req[s].end \in Outcome
    BY <1>1 DEF SoundReqs, Sound
  <2>3. settings \in [Setting -> 0..sets]
    BY <1>1 DEF OnceInv, Numbered
  <2>4. IsInjective(contract.waiting)
    BY <1>1 DEF LineInv, OnceInLine, IsInjective
  <2>5. ToSet(contract.waiting) = {c \in Caller : call[c].stage = "address"}
    <3>1. contract.waiting \in Seq(Caller)
      BY <1>1 DEF CallsInv, Queue
    <3>2. \A i \in DOMAIN contract.waiting :
            /\ contract.waiting[i] \in Caller
            /\ call[contract.waiting[i]].stage = "address"
      BY <1>1, <3>1 DEF LineInv, OnceInLine
    <3>3. \A c \in Caller : call[c].stage = "address" =>
            \E i \in DOMAIN contract.waiting : contract.waiting[i] = c
      BY <1>1, <3>1 DEF CallsInv, InLine
    <3> QED
      BY <3>2, <3>3 DEF ToSet
  <2>6. \A c \in Caller : call[c].stage = "gas" => req[GasSlot(call[c].promise)].stage # "idle"
    BY <1>1 DEF AgeInv, Promises, Promised
  <2> QED
    BY <2>1, <2>2, <2>3, <2>4, <2>5, <2>6 DEF TypeOK
<1>2. Spec => [](CallsInv /\ OnceInv)
  <2>1. Init => CallsInv /\ OnceInv
    BY CallsInit, AtFirst DEF OnceInv, Numbered, Untaken, UsedOnce, NoSettings, Setting
  <2>2. CallsInv /\ OnceInv /\ [Next]_vars => (CallsInv /\ OnceInv)'
    BY CallsStep, NextIsStep, OnceStep DEF CallsInv
  <2> QED
    BY <2>1, <2>2, PTL DEF Spec
<1>3. CallsInv /\ GasInv /\ LineInv /\ [Next]_vars => LineInv'
  BY LineStep
<1> QED
  BY <1>1, <1>2, <1>3, LineInit, CachesKept, RequestsAreSound, PTL DEF Spec

=============================================================================
