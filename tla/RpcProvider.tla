----------------------------- MODULE RpcProvider -----------------------------
(***************************************************************************)
(* A provider answering its application: AbstractRpcProvider with its      *)
(* caches, over one of the ways a request can travel: JSONRpcProvider on   *)
(* the main thread ("http"), in a worker of the JSON threader              *)
(* ("threaded"), or of one whose pool could not be created ("poolless"),   *)
(* in a service worker ("serviceWorker"), or WebsocketRpcProvider ("ws").  *)
(* The pool and the connection have modules of their own; of the pool      *)
(* there is here what a request sees of it while nobody closes it.         *)
(*                                                                         *)
(* An action is the code between two awaits.  A method that needs no       *)
(* request ends in the step that calls it.                                 *)
(*                                                                         *)
(* Bounds of the model: each slot holds one call, time stops at MaxTime.   *)
(* A timer may fire at any time while it is armed: the timeout is an       *)
(* option, and no property depends on its length.                          *)
(***************************************************************************)
EXTENDS RpcMethods, FiniteSets

CONSTANTS
  Slot,      \* calls of provider methods
  Workers,   \* how many workers the JSON threader has
  Fresh,     \* 10 000 ms, in ticks
  MaxTime

ASSUME TimeAssumption == Fresh \in Nat \ {0} /\ MaxTime \in Nat
ASSUME WorkersAssumption == Workers \in Nat \ {0}
ASSUME SlotsAssumption == IsFiniteSet(Slot)

Transports == {"http", "threaded", "poolless", "serviceWorker", "ws"}
Pooled == {"threaded", "poolless"}

VARIABLES
  now,         \* Date.now()
  transport,   \* which provider this is, and how it travels
  cache,       \* gasCache with lastFetchedGas, challengeCache, chainId
  req          \* the calls made, with what was asked, heard and returned

rpcVars == <<now, transport, cache, req>>

Unused == [stage |-> "idle", api |-> "", seen |-> {}, since |-> 0, done |-> 0,
           heard |-> "", value |-> 0, end |-> ""]

EmptyCache == [
  gas |-> [cached |-> FALSE, asked |-> 0, arrived |-> 0, last |-> 0],
  challenge |-> [cached |-> FALSE, asked |-> 0, arrived |-> 0, expireAt |-> 0],
  chain |-> FALSE]

RpcInit ==
  /\ now = 0
  /\ transport \in Transports
  /\ cache = EmptyCache
  /\ req = [s \in Slot |-> Unused]

(***************************************************************************)
(* Caches                                                                  *)
(***************************************************************************)

\* Mutant: a call that finds the parameters cached moves their time on.
SlidingFetchTime(g, api) == IF api = "gasParameters" THEN [g EXCEPT !.last = now] ELSE g

\* gasParameters() notes when it asked before it asks.
NotedFetchTime(g, api) ==
  IF api = "gasParameters" /\ (~g.cached \/ now - g.last > Fresh) THEN [g EXCEPT !.last = now]
  ELSE g

\* What the method returns without asking: the time its value was asked for, or, of a
\* challenge, arrived.
GasServed == cache.gas.cached /\ ~(now - cache.gas.last > Fresh)
ChallengeServed == cache.challenge.cached /\ now < cache.challenge.expireAt

Served(api) ==
  CASE api = "gasParameters" -> GasServed
    [] api = "getChallenge" -> ChallengeServed
    [] api = "getChainId" -> cache.chain
    [] OTHER -> FALSE

ServedValue(api) ==
  CASE api = "gasParameters" -> cache.gas.asked
    [] api = "getChallenge" -> cache.challenge.arrived
    [] OTHER -> 0

\* What the answer to slot s leaves in the caches.
CachedAnswer(s) ==
  CASE req[s].api = "gasParameters" ->
         [cache EXCEPT !.gas.cached = TRUE, !.gas.asked = req[s].since, !.gas.arrived = now]
    [] req[s].api = "getChallenge" ->
         [cache EXCEPT !.challenge = [cached |-> TRUE, asked |-> req[s].since, arrived |-> now,
                                      expireAt |-> now + Fresh]]
    [] req[s].api = "getChainId" -> [cache EXCEPT !.chain = TRUE]
    [] OTHER -> cache

(***************************************************************************)
(* Requests                                                                *)
(***************************************************************************)

\* A request is "queued" for a worker until one is free, and "lost" when its worker dies.
Stage == {"idle", "queued", "asked", "body", "lost", "settled"}

Waiting(s) == req[s].stage \in {"queued", "asked", "body", "lost"}
Settled(s) == req[s].stage = "settled"

Settle(s, end, heard, value) ==
  [req EXCEPT ![s].stage = "settled", ![s].end = end, ![s].heard = heard, ![s].value = value,
              ![s].done = now]

\* The calls rs, when method api is called in slot s: it returns what is cached, or asks the
\* node, which sees those of its parameters that are carried.
Asked(rs, s, api) ==
  LET call == [Unused EXCEPT !.api = api, !.since = now, !.seen = Carried(api, transport),
                             !.stage = IF transport \in Pooled THEN "queued" ELSE "asked"]
      served == [Unused EXCEPT !.api = api, !.since = now, !.done = now, !.stage = "settled",
                               !.seen = Method[api].params, !.end = "value",
                               !.heard = "cached", !.value = ServedValue(api)]
  IN [rs EXCEPT ![s] = IF Served(api) THEN served ELSE call]

NotedInCache(api) == [cache EXCEPT !.gas = NotedFetchTime(@, api)]

Ask(s, api) ==
  /\ req[s].stage = "idle"
  /\ req' = Asked(req, s, api)
  /\ cache' = NotedInCache(api)
  /\ UNCHANGED <<now, transport>>

\* The requests that have a worker.  One that dies with its request is not made available
\* again.
Held(stages) == {s \in Slot : req[s].stage \in stages}

\* A worker is free and takes up a request.  (The oldest one; here, any.)
Dispatch(s) ==
  /\ req[s].stage = "queued" /\ transport = "threaded"
  /\ Cardinality(Held({"asked", "body", "lost"})) < Workers
  /\ req' = [req EXCEPT ![s].stage = "asked"]
  /\ UNCHANGED <<now, transport, cache>>

\* A worker dies; nobody looks after what it was doing.
Lost(s) ==
  /\ transport = "threaded" /\ req[s].stage \in {"asked", "body"}
  /\ req' = [req EXCEPT ![s].stage = "lost"]
  /\ UNCHANGED <<now, transport, cache>>

\* HTTP: the head of the answer is there, with a status that is ok.
Headers(s) ==
  /\ req[s].stage = "asked" /\ transport # "ws"
  /\ req' = [req EXCEPT ![s].stage = "body"]
  /\ UNCHANGED <<now, transport, cache>>

\* The whole answer is there; the method reads it and returns or throws.
Arrives(s, answer) ==
  /\ req[s].stage = IF transport = "ws" THEN "asked" ELSE "body"
  /\ LET api == req[s].api
         end == IF transport = "ws" THEN WsReads(api, answer) ELSE Reads(api, answer)
     IN /\ Hears(api, answer)
        /\ req' = Settle(s, end, answer, req[s].since)
        /\ cache' = IF end = "value" THEN CachedAnswer(s) ELSE cache
  /\ UNCHANGED <<now, transport>>

\* The request fails: no connection, another status, an answer that cannot be parsed, or a
\* challenge without a solution.
Fails(s) ==
  /\ req[s].stage \in {"asked", "body"}
  /\ req' = Settle(s, Failure(req[s].api), "", 0)
  /\ UNCHANGED <<now, transport, cache>>

\* Mutant: as if every way to fetch cleared its timer once it has the head of the answer.
ArmedUntilHeaders(s) == req[s].stage = "asked"

\* The timer that aborts the request.  _send() clears it when all is done; the threader's
\* fetch(), in its worker or in a service worker, as soon as the head of the answer is there.
\* A worker sets it when it takes up the request: one that is queued, or lost, has none.
Armed(s) ==
  \/ req[s].stage = "asked"
  \/ req[s].stage = "body" /\ transport = "http"

Expire(s) ==
  /\ Armed(s)
  /\ req' = Settle(s, Failure(req[s].api), "", 0)
  /\ UNCHANGED <<now, transport, cache>>

\* Nothing will end a request when the node, or its worker, does not: no timer watches the
\* rest of the answer, or its worker is dead, or there is none for it and all there are are
\* held by such requests.
Abandoned(s) ==
  \/ req[s].stage = "body" /\ transport \in {"threaded", "serviceWorker"}
  \/ req[s].stage = "lost"
  \/ req[s].stage = "queued" /\ transport = "poolless"
  \/ req[s].stage = "queued" /\ Cardinality(Held({"body", "lost"})) >= Workers

Tick ==
  /\ now < MaxTime
  /\ now' = now + 1
  /\ UNCHANGED <<transport, cache, req>>

=============================================================================
