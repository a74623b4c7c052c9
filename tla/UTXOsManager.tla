---------------------------- MODULE UTXOsManager ----------------------------
(***************************************************************************)
(* The coin bookkeeping of src/utxos/UTXOsManager.ts, one wallet using it  *)
(* the way sendTransaction() of src/contracts/CallResult.ts does, and the  *)
(* node it asks.                                                           *)
(*                                                                         *)
(* A send acquires coins of the wallet's address, then of its CSV address  *)
(* when these do not do, broadcasts a transaction that spends them into    *)
(* one new coin of the wallet's address, and reports it to spentUTXO().    *)
(* Sends and reads interleave at their awaits.  Coins are worth the same;  *)
(* `want` is how many a send needs.                                        *)
(*                                                                         *)
(* Bounds of the model, not of the code: MaxCoins coins exist and the      *)
(* clock stops at MaxTime.                                                 *)
(***************************************************************************)
EXTENDS Naturals, FiniteSets, FiniteSetsExt

CONSTANTS
  Sender,            \* calls of sendTransaction() at a time
  Reader,            \* calls of getUTXOs() and getMultipleUTXOs() by others
  MaxCoins,
  InitMain,          \* confirmed coins of the wallet's address to begin with
  CsvCoin,           \* confirmed coins of its CSV address
  MaxWant,           \* coins a send may need
  Limit,             \* MEMPOOL_CHAIN_LIMIT
  FetchCooldown,     \* FETCH_COOLDOWN
  AutoPurgeAfter,    \* AUTO_PURGE_AFTER
  MaxTime,
  NodeLags,          \* the indexer that answers is behind the node
  ReadersBatch,      \* readers call getMultipleUTXOs()
  NetworkMayFail     \* a fetch, or the answer to a broadcast, may be lost

Coin == 1..MaxCoins
Call == Sender \cup Reader

ASSUME CoinAssumption ==
  /\ MaxCoins \in Nat /\ InitMain \subseteq Coin /\ CsvCoin \subseteq Coin
  /\ InitMain \cap CsvCoin = {} /\ Sender \cap Reader = {}
ASSUME TimeAssumption ==
  /\ FetchCooldown \in Nat /\ AutoPurgeAfter \in Nat /\ MaxTime \in Nat \ {0}
  /\ Limit \in Nat /\ MaxWant \in Nat
ASSUME SwitchAssumption ==
  NodeLags \in BOOLEAN /\ ReadersBatch \in BOOLEAN /\ NetworkMayFail \in BOOLEAN

(* The keys of dataByAddress: an address, or an address and a threshold.   *)
(* CSV coins are read with olderThan = 1n and reported without it.         *)
Key == {"main", "csv", "csv_1"}

VARIABLES
  now,     \* Date.now()
  data,    \* dataByAddress
  call,    \* where each call stands
  chain,   \* the coins as the node knows them, its mempool included
  index,   \* the coins as the indexer that answers getUTXOs knows them
  past     \* history: whether a purge or a clean-up has emptied an AddressData, an
           \*   answer was taken in that offers a coin spent by then, and one was
           \*   taken in between a broadcast and its report

vars == <<now, data, call, chain, index, past>>

\* IUTXOsData; asOf is when the node looked.  NoAnswer is null.
Answer == [confirmed : SUBSET Coin, pending : SUBSET Coin, spent : SUBSET Coin,
           asOf : 0..MaxTime]
NoAnswer == [confirmed |-> {}, pending |-> {}, spent |-> {}, asOf |-> 0]

\* AddressData, made when it is first asked for; depth 0 is no entry.
AddressData ==
  [made : BOOLEAN, spent : SUBSET Coin, pending : SUBSET Coin, depth : [Coin -> 0..Limit],
   lastCleanup : 0..MaxTime, lastFetch : 0..MaxTime, fetched : Answer]

NoDepth == [i \in Coin |-> 0]
NoData == [made |-> FALSE, spent |-> {}, pending |-> {}, depth |-> NoDepth,
           lastCleanup |-> 0, lastFetch |-> 0, fetched |-> NoAnswer]

\* A coin: where its transaction is, what has spent it, and what it was made of.
CoinState == [at : {"absent", "mempool", "confirmed"}, spent : {"no", "mempool", "block"},
              from : SUBSET Coin]

\* own: what an AddressData held that clean() took away from a getUTXOs() in
\* progress, which keeps it.
CallState ==
  [pc : {"idle", "asked", "answered", "selecting", "ready", "accepted", "refused"},
   key : Key, want : 0..MaxWant, chosen : SUBSET Coin, offered : SUBSET Coin,
   started : 0..MaxTime, answer : Answer,
   own : SUBSET [spent : SUBSET Coin, pending : SUBSET Coin]]
IdleCall == [pc |-> "idle", key |-> "main", want |-> 0, chosen |-> {}, offered |-> {},
             started |-> 0, answer |-> NoAnswer, own |-> {}]

TypeOK ==
  /\ now \in 1..MaxTime
  /\ data \in [Key -> AddressData]
  /\ call \in [Call -> CallState]
  /\ chain \in [Coin -> CoinState] /\ index \in [Coin -> CoinState]
  /\ past \in [forgotten : BOOLEAN, outdated : BOOLEAN, overtaken : BOOLEAN]

Init ==
  /\ now = 1
  /\ data = [k \in Key |-> NoData]
  /\ call = [c \in Call |-> IdleCall]
  /\ chain = [i \in Coin |-> [at |-> IF i \in InitMain \cup CsvCoin THEN "confirmed" ELSE "absent",
                              spent |-> "no", from |-> {}]]
  /\ index = chain
  /\ past = [forgotten |-> FALSE, outdated |-> FALSE, overtaken |-> FALSE]
-----------------------------------------------------------------------------
(* AddressData                                                             *)

\* getAddressData()
GetAddressData(k) ==
  IF data[k].made THEN data[k] ELSE [NoData EXCEPT !.made = TRUE, !.lastCleanup = now]

\* clean() of one address: the object stays, its contents go.
Clean(D) ==
  [D EXCEPT !.spent = {}, !.pending = {}, !.depth = NoDepth, !.lastCleanup = now,
            !.lastFetch = 0, !.fetched = NoAnswer]

\* clean() of all addresses, calls in progress being cs: those that wait for the
\* node keep the objects they have.
Orphaned(cs) ==
  [c \in Call |->
     IF cs[c].pc \in {"asked", "answered"} /\ cs[c].own = {}
     THEN [cs[c] EXCEPT !.own = {[spent |-> GetAddressData(cs[c].key).spent,
                                  pending |-> GetAddressData(cs[c].key).pending]}]
     ELSE cs[c]]

CleanAll(cs) ==
  /\ data' = [k \in Key |-> NoData]
  /\ call' = Orphaned(cs)
  /\ past' = [past EXCEPT !.forgotten = TRUE]

\* Mutant: a coin of the mempool the node knows of is dropped from the map only.
SyncKeepsPending(D) ==
  LET gone == D.pending \cap (D.fetched.confirmed \cup D.fetched.spent)
  IN [D EXCEPT !.depth = [i \in Coin |-> IF i \in gone THEN 0 ELSE D.depth[i]]]

\* syncPendingDepthWithFetched()
Sync(D) ==
  LET gone == D.pending \cap (D.fetched.confirmed \cup D.fetched.spent)
  IN [D EXCEPT !.pending = @ \ gone,
               !.depth = [i \in Coin |-> IF i \in gone THEN 0 ELSE D.depth[i]]]

\* Mutant: only the shallowest parent counts.
ParentDepthShallow(D, spent) == Min({D.depth[i] : i \in spent} \cup {Limit})

\* maxParentDepth of spentUTXO()
ParentDepth(D, spent) == Max({D.depth[i] : i \in spent} \cup {0})

\* Mutant: one transaction too many.
TooLongByOne(D, spent) == ParentDepth(D, spent) > Limit

TooLong(D, spent) == ParentDepth(D, spent) + 1 > Limit

\* spentUTXO() but for its throw, which comes when the coins spent are noted.
SpentUTXO(D, spent, new) ==
  LET made == IF TooLong(D, spent) THEN {} ELSE new
  IN [D EXCEPT !.spent = @ \cup spent,
               !.pending = (@ \ spent) \cup made,
               !.depth = [i \in Coin |-> IF i \in made THEN ParentDepth(D, spent) + 1
                                         ELSE IF i \in spent THEN 0 ELSE D.depth[i]]]

\* Mutant: what was spent locally is not filtered out.
OfferWithSpent(spent, pending, fetched, merge) ==
  (fetched.confirmed \cup (IF merge THEN pending \cup fetched.pending ELSE {})) \ fetched.spent

\* getUTXOs() after its await: what it returns.
Offer(spent, pending, fetched, merge) ==
  (fetched.confirmed \cup (IF merge THEN pending \cup fetched.pending ELSE {}))
    \ (spent \cup fetched.spent)

Merges(k) == k = "main"     \* CSV coins are asked for without pending ones
-----------------------------------------------------------------------------
(* getUTXOs(), getUTXOsForAmount() and getMultipleUTXOs()                  *)

\* A sender goes on to choose among what it is offered; a reader is done.
Got(c, offered) ==
  IF c \in Sender THEN [call[c] EXCEPT !.pc = "selecting", !.offered = offered, !.own = {},
                                       !.answer = NoAnswer, !.started = 0]
  ELSE IdleCall

\* getUTXOs() by key k up to its await, r being the call: purge, then the cache
\* or the node.  The age is that of before the purge, which leaves no cache.
Ask(c, k, r) ==
  LET old == GetAddressData(k)
      purged == now - old.lastCleanup > AutoPurgeAfter
      D == IF purged THEN Clean(old) ELSE old
      cached == D.fetched # NoAnswer /\ now - old.lastFetch < FetchCooldown
  IN /\ data' = [data EXCEPT ![k] = D]
     /\ call' = [call EXCEPT ![c] =
          IF cached
          THEN IF c \in Reader THEN IdleCall
               ELSE [r EXCEPT !.pc = "selecting", !.key = k,
                              !.offered = Offer(D.spent, D.pending, D.fetched, Merges(k))]
          ELSE [r EXCEPT !.pc = "asked", !.key = k, !.started = now]]
     /\ past' = [past EXCEPT !.forgotten = @ \/ purged]

Start(c, want) ==
  /\ c \in Sender /\ call[c].pc = "idle"
  /\ Ask(c, "main", [IdleCall EXCEPT !.want = want])
  /\ UNCHANGED <<now, chain, index>>

Read(c) ==
  /\ c \in Reader /\ call[c].pc = "idle"
  /\ \/ ~ReadersBatch /\ Ask(c, "main", IdleCall)
     \/ /\ ReadersBatch
        /\ call' = [call EXCEPT ![c].pc = "asked"]
        /\ UNCHANGED <<data, past>>
  /\ UNCHANGED <<now, chain, index>>

IsBatch(c) == c \in Reader /\ ReadersBatch

Offered(a) == (a.confirmed \cup a.pending) \ a.spent

\* The answer of c is taken in.
Noted(c) ==
  [past EXCEPT !.outdated = @ \/ \E i \in Offered(call[c].answer) : chain[i].spent # "no",
               !.overtaken = @ \/ \E s \in Sender : call[s].pc = "accepted"]

\* Mutant: the timestamp is taken when the answer is there.
FetchedAtArrival(c) == now

\* maybeFetchUTXOs() reads the clock before it asks.
FetchedAt(c) == call[c].started

\* maybeFetchUTXOs() and getUTXOs() after the await.  When clean() has replaced
\* the object, the answer is stored in the one it replaced, and the present one
\* is synchronised with whatever it has.
FetchDone(c) ==
  LET k == call[c].key
      live == GetAddressData(k)
      filled == IF call[c].own = {}
                THEN [live EXCEPT !.fetched = call[c].answer, !.lastFetch = FetchedAt(c)]
                ELSE live
      D == IF k # "csv_1" THEN Sync(filled) ELSE IF call[c].own = {} THEN filled ELSE data[k]
  IN /\ call[c].pc = "answered" /\ ~IsBatch(c)
     /\ data' = [data EXCEPT ![k] = D]
     /\ \E o \in IF call[c].own = {} THEN {[spent |-> D.spent, pending |-> D.pending]}
               ELSE call[c].own :
          call' = [call EXCEPT ![c] =
                     Got(c, Offer(o.spent, o.pending, call[c].answer, Merges(k)))]
     /\ past' = Noted(c)
     /\ UNCHANGED <<now, chain, index>>

\* getMultipleUTXOs() after its await: never purges, reads the clock only now.
BatchDone(c) ==
  /\ call[c].pc = "answered" /\ IsBatch(c)
  /\ data' = [data EXCEPT !["main"] =
       Sync([GetAddressData("main") EXCEPT !.fetched = call[c].answer, !.lastFetch = now])]
  /\ call' = [call EXCEPT ![c] = IdleCall]
  /\ past' = Noted(c)
  /\ UNCHANGED <<now, chain, index>>

\* The fetch throws: sendTransaction() cleans everything.
FetchFails(c) ==
  /\ NetworkMayFail /\ call[c].pc = "asked"
  /\ LET rest == [call EXCEPT ![c] = IdleCall]
     IN \/ c \in Sender /\ CleanAll(rest)
        \/ c \in Reader /\ call' = rest /\ UNCHANGED <<data, past>>
  /\ UNCHANGED <<now, chain, index>>

\* selectUTXOsGreedily(); then the CSV address, or an error, when that does not do.
Select(c) ==
  /\ call[c].pc = "selecting"
  /\ \E picked \in SUBSET call[c].offered :
       LET chosen == call[c].chosen \cup picked
           r == [call[c] EXCEPT !.chosen = chosen, !.offered = {}]
       IN /\ Cardinality(picked) =
               Min({Cardinality(call[c].offered), call[c].want - Cardinality(call[c].chosen)})
          /\ \/ /\ Cardinality(chosen) = call[c].want
                /\ call' = [call EXCEPT ![c] = [r EXCEPT !.pc = "ready"]]
                /\ UNCHANGED <<data, past>>
             \/ /\ Cardinality(chosen) < call[c].want
                /\ IF call[c].key = "main" /\ CsvCoin # {}
                   THEN Ask(c, "csv_1", r)
                   ELSE CleanAll([call EXCEPT ![c] = IdleCall])
  /\ UNCHANGED <<now, chain, index>>
-----------------------------------------------------------------------------
(* The transaction                                                         *)

\* The node accepts the transaction, or refuses it as a conflict.
Broadcast(c) ==
  LET ins == call[c].chosen
      fresh == {i \in Coin : chain[i].at = "absent"}
  IN /\ call[c].pc = "ready"
     /\ \/ /\ \A i \in ins : chain[i].spent = "no"
           /\ \E new \in fresh :
                /\ \A i \in fresh : new <= i
                /\ chain' = [i \in Coin |->
                     IF i = new THEN [at |-> "mempool", spent |-> "no", from |-> ins]
                     ELSE IF i \in ins THEN [chain[i] EXCEPT !.spent = "mempool"] ELSE chain[i]]
                /\ call' = [call EXCEPT ![c].pc = "accepted", ![c].offered = {new}]
        \/ /\ \E i \in ins : chain[i].spent # "no"
           /\ call' = [call EXCEPT ![c].pc = "refused"]
           /\ UNCHANGED chain
     /\ UNCHANGED <<now, data, index, past>>

\* The answer is there: #processUTXOTracking() reports the coins address by
\* address; when spentUTXO() throws, sendTransaction() cleans everything.
Sent(c) ==
  LET mains == call[c].chosen \ CsvCoin
      csvs == call[c].chosen \cap CsvCoin
      main == GetAddressData("main")
      csv == GetAddressData("csv")
      rest == [call EXCEPT ![c] = IdleCall]
  IN /\ call[c].pc = "accepted"
     /\ \/ TooLong(main, mains) /\ CleanAll(rest)
        \/ /\ ~TooLong(main, mains)
           /\ data' = [data EXCEPT
                !["csv"] = IF csvs = {} THEN @ ELSE SpentUTXO(csv, csvs, {}),
                !["main"] = SpentUTXO(main, mains, call[c].offered)]
           /\ call' = rest
           /\ UNCHANGED past
     /\ UNCHANGED <<now, chain, index>>

\* The answer is an error, or lost.
SendFails(c) ==
  /\ call[c].pc = "refused" \/ (call[c].pc = "accepted" /\ NetworkMayFail)
  /\ CleanAll([call EXCEPT ![c] = IdleCall])
  /\ UNCHANGED <<now, chain, index>>
-----------------------------------------------------------------------------
(* The node, and the clock                                                 *)

View(coins) ==
  [confirmed |-> {i \in Coin : coins[i].at = "confirmed" /\ coins[i].spent # "block"},
   pending |-> {i \in Coin : coins[i].at = "mempool"},
   spent |-> {i \in Coin : coins[i].spent = "mempool"},
   asOf |-> now]

Only(view, coins) ==
  [view EXCEPT !.confirmed = @ \cap coins, !.pending = @ \cap coins, !.spent = @ \cap coins]

NodeAnswers(c) ==
  /\ call[c].pc = "asked"
  /\ call' = [call EXCEPT ![c].pc = "answered",
       ![c].answer = Only(View(IF NodeLags THEN index ELSE chain),
                          IF call[c].key = "main" THEN Coin \ CsvCoin ELSE CsvCoin)]
  /\ UNCHANGED <<now, data, chain, index, past>>

\* A transaction whose inputs are confirmed is mined.
Mined(i) ==
  /\ chain[i].at = "mempool"
  /\ \A p \in chain[i].from : chain[p].at = "confirmed"
  /\ chain' = [j \in Coin |->
       IF j = i THEN [chain[j] EXCEPT !.at = "confirmed"]
       ELSE IF j \in chain[i].from THEN [chain[j] EXCEPT !.spent = "block"] ELSE chain[j]]
  /\ UNCHANGED <<now, data, call, index, past>>

IndexerCatchesUp ==
  /\ NodeLags /\ index # chain
  /\ index' = chain
  /\ UNCHANGED <<now, data, call, chain, past>>

Tick ==
  /\ now < MaxTime
  /\ now' = now + 1
  /\ UNCHANGED <<data, call, chain, index, past>>
-----------------------------------------------------------------------------
Next ==
  \/ \E c \in Call :
       \/ \E want \in 1..MaxWant : Start(c, want)
       \/ Read(c) \/ NodeAnswers(c) \/ FetchDone(c) \/ BatchDone(c) \/ FetchFails(c)
       \/ Select(c) \/ Broadcast(c) \/ Sent(c) \/ SendFails(c)
  \/ \E i \in Coin : Mined(i)
  \/ IndexerCatchesUp \/ Tick

Spec == Init /\ [][Next]_vars
-----------------------------------------------------------------------------
(* What a wallet relies on.                                                *)

\* No transaction of the wallet conflicts with one it has sent before: "Track
\* UTXOs: Use `UTXOsManager` to avoid double-spending" (docs/getting-started).
NoDoubleSpend == \A c \in Sender : call[c].pc # "refused"

\* With one send at a time and no CSV coins, a transaction conflicts with an
\* earlier one only when what was noted as spent has been forgotten and an answer
\* that offers it was out of date as well (maybeFetchUTXOs(), getUTXOs(),
\* spentUTXO()).
ConflictNeedsBoth == NoDoubleSpend \/ (past.forgotten /\ past.outdated)

\* pendingUTXOs and pendingUtxoDepth name the same coins, whatever the order in
\* which answers, reports and purges arrive.
DepthOfEachPending ==
  \A k \in Key : \A i \in Coin : i \in data[k].pending <=> data[k].depth[i] > 0

\* How many unconfirmed transactions a coin rests on, its own included.
RealDepth ==
  LET d[i \in Coin] == IF chain[i].at # "mempool" THEN 0
                       ELSE 1 + Max({d[p] : p \in chain[i].from} \cup {0})
  IN d

\* The depth noted for a pending coin is at least the real one, as "Enforces a
\* mempool chain limit of 25 unconfirmed transaction descendants." needs
\* (spentUTXO()), until something is forgotten or an answer overtakes a report,
\* however many sends overlap.
DepthKept ==
  \/ past.forgotten \/ past.overtaken
  \/ \A i \in data["main"].pending : data["main"].depth[i] >= RealDepth[i]

\* What the cache may still serve is no older than the clock it is judged by.
CacheNotOlderThanStamp ==
  \A k \in Key : data[k].fetched # NoAnswer => data[k].lastFetch <= data[k].fetched.asOf
=============================================================================
