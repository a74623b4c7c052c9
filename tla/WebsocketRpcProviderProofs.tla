--------------------- MODULE WebsocketRpcProviderProofs ---------------------
(***************************************************************************)
(* The request table of the WebSocket client, for any number of            *)
(* connections, subscription types and requests, any limit on pending      *)
(* requests, and every switch of the environment on or off.                *)
(*                                                                         *)
(* Everything that touches the table does so by four operators, which are  *)
(* functions of a table: it suffices that each of them keeps TableInv, and *)
(* that what each of them does is what RequestLedger allows.               *)
(***************************************************************************)
EXTENDS WebsocketRpcProvider, FunctionTheorems, FiniteSetTheorems, SequenceTheorems, TLAPS

-----------------------------------------------------------------------------
(* The inductive invariant, said of a table T.                             *)

Entries(T) == 1..Len(T.log)

TableTyped(T) ==
  /\ T = [log |-> T.log, filed |-> T.filed, timers |-> T.timers, lastId |-> T.lastId]
  /\ T.log \in Seq(Request)
  /\ T.lastId \in Nat
  /\ T.timers \subseteq Entries(T)
  /\ DOMAIN T.filed \subseteq 1..T.lastId
  /\ \A id \in DOMAIN T.filed : T.filed[id] \in Entries(T)

SubscriptionKind == {"subscribe", "resubscribe", "unsubscribe"}

\* Requests about subscriptions name one.
NamesType(T) ==
  \A n \in Entries(T) : T.log[n].kind \in SubscriptionKind => T.log[n].what \in SubType

\* No id is given twice, and a request is filed under its own.
IdsOwn(T) ==
  /\ \A n \in Entries(T) : T.log[n].id \in 1..T.lastId
  /\ \A n, m \in Entries(T) : T.log[n].id = T.log[m].id => n = m
  /\ \A id \in DOMAIN T.filed : T.log[T.filed[id]].id = id

\* UnsettledIsGuarded, RightAnswer and PendingBounded of a table.
Guarded(T) ==
  \A n \in Entries(T) : T.log[n].status = "unsettled" =>
    n \in T.timers /\ T.log[n].id \in DOMAIN T.filed /\ T.filed[T.log[n].id] = n

AnsweredRight(T) ==
  \A n \in Entries(T) : T.log[n].status = "resolved" => T.log[n].by = n

Bounded(T) ==
  IsFiniteSet(DOMAIN T.filed) /\ Cardinality(DOMAIN T.filed) <= MaxPending

TableInv(T) ==
  /\ TableTyped(T) /\ NamesType(T) /\ IdsOwn(T)
  /\ Guarded(T) /\ AnsweredRight(T) /\ Bounded(T)

IInv == TypeOK /\ TableInv(Table)
-----------------------------------------------------------------------------
(* What the operators on tables do to one that has TableInv.               *)

\* Requests are settled by the answer that is theirs, or rejected.
MaySettle(ns, status, by) ==
  /\ status \in {"resolved", "rejected"} /\ by \in 0..MaxRequests
  /\ status = "resolved" => ns \subseteq {by}

\* S is T but for the requests ns, which are settled if they were not.
Settles(T, S, ns, status, by) ==
  /\ Len(S.log) = Len(T.log)
  /\ \A n \in Entries(T) :
       LET now == n \in ns /\ T.log[n].status = "unsettled"
       IN /\ S.log[n].status = IF now THEN status ELSE T.log[n].status
          /\ S.log[n].by = IF now THEN by ELSE T.log[n].by

LEMMA SettleKeeps ==
  ASSUME NEW T, TableInv(T), NEW ns, NEW status, NEW by, MaySettle(ns, status, by),
         NEW S, S = Settle(T, ns, status, by)
  PROVE  /\ TableInv(S)
         /\ S.filed = T.filed /\ S.timers = T.timers /\ S.lastId = T.lastId
         /\ Len(S.log) = Len(T.log) /\ Settles(T, S, ns, status, by)
         /\ \A n \in Entries(T) : n \in ns => S.log[n].status # "unsettled"
         /\ \A n \in Entries(T) : S.log[n].id = T.log[n].id
<1> DEFINE entry(n) == IF n \in ns /\ T.log[n].status = "unsettled"
                       THEN [T.log[n] EXCEPT !.status = status, !.by = by]
                       ELSE T.log[n]
           log == [n \in 1..Len(T.log) |-> entry(n)]
<1>1. S = [log |-> log, filed |-> T.filed, timers |-> T.timers, lastId |-> T.lastId]
  <2>1. PICK l, f, ts, last : T = [log |-> l, filed |-> f, timers |-> ts, lastId |-> last]
    BY DEF TableInv, TableTyped
  <2>2. S = [T EXCEPT !.log = log]
    BY Zenon DEF Settle
  <2> HIDE DEF log
  <2> QED BY <2>1, <2>2
<1>2. \A n \in Entries(T) : T.log[n] \in Request
  BY ElementOfSeq DEF TableInv, TableTyped, Entries
<1>3. \A n \in Entries(T) :
        /\ entry(n) \in Request /\ entry(n).id = T.log[n].id
        /\ entry(n).kind = T.log[n].kind /\ entry(n).what = T.log[n].what
        /\ entry(n).status = "unsettled" => T.log[n].status = "unsettled" /\ n \notin ns
        /\ entry(n).status = "resolved" => entry(n).by = n
  <2> SUFFICES ASSUME NEW n \in Entries(T)
               PROVE  /\ entry(n) \in Request /\ entry(n).id = T.log[n].id
                      /\ entry(n).kind = T.log[n].kind /\ entry(n).what = T.log[n].what
                      /\ entry(n).status = "unsettled" =>
                           T.log[n].status = "unsettled" /\ n \notin ns
                      /\ entry(n).status = "resolved" => entry(n).by = n
    OBVIOUS
  <2>1. T.log[n] \in Request
    BY <1>2
  <2>2. T.log[n].status = "resolved" => T.log[n].by = n
    BY DEF TableInv, AnsweredRight
  <2>3. CASE n \in ns /\ T.log[n].status = "unsettled"
    BY <2>1, <2>3 DEF Request, MaySettle
  <2>4. CASE ~(n \in ns /\ T.log[n].status = "unsettled")
    BY <2>1, <2>2, <2>4 DEF Request
  <2> QED BY <2>3, <2>4
<1>4. log \in Seq(Request) /\ Len(log) = Len(T.log)
  <2>1. Len(T.log) \in Nat
    BY LenProperties DEF TableInv, TableTyped
  <2>2. log \in [1..Len(T.log) -> Request]
    BY <1>3 DEF Entries
  <2> HIDE DEF log, entry
  <2> QED BY <2>1, <2>2
<1>5. \A n \in Entries(T) : log[n] = entry(n)
  BY DEF Entries
<1> HIDE DEF log, entry
<1>6. S.log = log /\ S.filed = T.filed /\ S.timers = T.timers /\ S.lastId = T.lastId
  BY <1>1
<1>7. Entries(S) = Entries(T) /\ \A n \in Entries(T) : S.log[n] = entry(n)
  BY <1>4, <1>5, <1>6 DEF Entries
<1>8. \A n \in Entries(T) : n \in ns => S.log[n].status # "unsettled"
  BY <1>3, <1>7
<1>9. Settles(T, S, ns, status, by)
  <2>1. ASSUME NEW n \in Entries(T)
        PROVE  LET now == n \in ns /\ T.log[n].status = "unsettled"
               IN /\ entry(n).status = IF now THEN status ELSE T.log[n].status
                  /\ entry(n).by = IF now THEN by ELSE T.log[n].by
    <3>1. T.log[n] \in Request
      BY <1>2
    <3> QED BY <3>1 DEF entry, Request
  <2> QED BY <2>1, <1>4, <1>6, <1>7 DEF Settles
<1>10. TableTyped(S) /\ Bounded(S)
  BY <1>1, <1>4, <1>6, <1>7 DEF TableInv, TableTyped, Bounded
<1>11. NamesType(S) /\ AnsweredRight(S)
  BY <1>3, <1>7 DEF TableInv, NamesType, AnsweredRight
<1>12. IdsOwn(S)
  <2>1. \A id \in DOMAIN T.filed : T.filed[id] \in Entries(T)
    BY DEF TableInv, TableTyped
  <2> QED BY <2>1, <1>6, <1>3, <1>7 DEF TableInv, IdsOwn
<1>13. Guarded(S)
  BY <1>3, <1>6, <1>7 DEF TableInv, Guarded
<1>14. TableInv(S)
  BY <1>10, <1>11, <1>12, <1>13 DEF TableInv
<1> QED
  BY <1>3, <1>4, <1>6, <1>7, <1>8, <1>14, <1>9

LEMMA RejectionKeeps ==
  ASSUME NEW T, TableInv(T), NEW ns, NEW S, S = Settle(T, ns, "rejected", 0)
  PROVE  /\ TableInv(S)
         /\ S.filed = T.filed /\ S.timers = T.timers /\ S.lastId = T.lastId
         /\ Len(S.log) = Len(T.log) /\ Settles(T, S, ns, "rejected", 0)
         /\ \A n \in Entries(T) : n \in ns => S.log[n].status # "unsettled"
         /\ \A n \in Entries(T) : S.log[n].id = T.log[n].id
<1>1. MaySettle(ns, "rejected", 0)
  BY BoundsAssumption DEF MaySettle
<1> QED
  BY <1>1, SettleKeeps

\* An entry and timers of requests that are settled go, and the wire is done
\* with some request.
LEMMA RemovalKeeps ==
  ASSUME NEW S, TableInv(S), NEW id, NEW ns,
         id \in DOMAIN S.filed => S.log[S.filed[id]].status # "unsettled",
         \A n \in Entries(S) : n \in ns => S.log[n].status # "unsettled",
         NEW T, T = [log |-> S.log, filed |-> Unfile(S.filed, id),
                     timers |-> S.timers \ ns, lastId |-> S.lastId]
  PROVE  TableInv(T)
<1>1. /\ T.log = S.log /\ T.timers = S.timers \ ns /\ T.lastId = S.lastId
      /\ DOMAIN T.filed = DOMAIN S.filed \ {id}
      /\ \A i \in DOMAIN T.filed : T.filed[i] = S.filed[i]
  <2>1. /\ T.log = S.log /\ T.timers = S.timers \ ns /\ T.lastId = S.lastId
        /\ T.filed = Unfile(S.filed, id)
    <3> HIDE DEF Unfile
    <3> QED OBVIOUS
  <2> QED BY <2>1 DEF Unfile
<1>2. Entries(T) = Entries(S)
  BY <1>1 DEF Entries
<1>3. TableTyped(T)
  <2>1. T = [log |-> T.log, filed |-> T.filed, timers |-> T.timers, lastId |-> T.lastId]
    BY <1>1
  <2> QED BY <2>1, <1>1, <1>2 DEF TableInv, TableTyped
<1>4. NamesType(T) /\ AnsweredRight(T)
  BY <1>1, <1>2 DEF TableInv, NamesType, AnsweredRight
<1>5. IdsOwn(T)
  BY <1>1, <1>2 DEF TableInv, IdsOwn
<1>6. Guarded(T)
  BY <1>1, <1>2 DEF TableInv, Guarded
<1>7. Bounded(T)
  <2>1. DOMAIN T.filed \in SUBSET DOMAIN S.filed
    BY <1>1
  <2>2. IsFiniteSet(DOMAIN S.filed) /\ Cardinality(DOMAIN S.filed) <= MaxPending
    BY DEF TableInv, Bounded
  <2>3. /\ IsFiniteSet(DOMAIN T.filed)
        /\ Cardinality(DOMAIN T.filed) <= Cardinality(DOMAIN S.filed)
    BY <2>1, <2>2, FS_Subset
  <2>4. Cardinality(DOMAIN T.filed) \in Nat /\ Cardinality(DOMAIN S.filed) \in Nat
    BY <2>2, <2>3, FS_CardinalityType
  <2> QED BY <2>2, <2>3, <2>4, BoundsAssumption DEF Bounded
<1> QED
  BY <1>3, <1>4, <1>5, <1>6, <1>7 DEF TableInv

\* The timer of request n.
LEMMA TimeoutKeeps ==
  ASSUME NEW T, TableInv(T), NEW n \in Entries(T),
         NEW U, U = [Settle(T, {n}, "rejected", 0) EXCEPT
                       !.filed = Unfile(@, T.log[n].id), !.timers = @ \ {n}]
  PROVE  TableInv(U) /\ Settles(T, U, {n}, "rejected", 0)
<1>1. PICK S : S = Settle(T, {n}, "rejected", 0)
  OBVIOUS
<1>2. /\ TableInv(S) /\ S.filed = T.filed /\ Len(S.log) = Len(T.log)
      /\ S.log[n].status # "unsettled" /\ S.log[n].id = T.log[n].id
      /\ Settles(T, S, {n}, "rejected", 0)
  BY <1>1, RejectionKeeps
<1>3. ASSUME T.log[n].id \in DOMAIN S.filed
      PROVE  S.log[S.filed[T.log[n].id]].status # "unsettled"
  <2>1. T.filed[T.log[n].id] = n
    BY <1>2, <1>3 DEF TableInv, TableTyped, IdsOwn
  <2> QED BY <1>2, <2>1
<1>4. \A m \in Entries(S) : m \in {n} => S.log[m].status # "unsettled"
  BY <1>2
<1>5. U = [log |-> S.log, filed |-> Unfile(S.filed, T.log[n].id),
           timers |-> S.timers \ {n}, lastId |-> S.lastId]
  BY <1>1, <1>2 DEF TableInv, TableTyped
<1> QED
  <2>1. TableInv(U)
    BY <1>2, <1>3, <1>4, <1>5, RemovalKeeps
  <2>2. U.log = S.log
    <3>1. \A V : V = [log |-> S.log, filed |-> Unfile(S.filed, T.log[n].id),
                      timers |-> S.timers \ {n}, lastId |-> S.lastId] => V.log = S.log
      OBVIOUS
    <3> QED BY <1>5, <3>1
  <2>3. Settles(T, U, {n}, "rejected", 0)
    BY <2>2, <1>2 DEF Settles
  <2> QED BY <2>1, <2>3

\* cleanupPendingRequests()
LEMMA CleanupKeeps ==
  ASSUME NEW T, TableInv(T)
  PROVE  /\ TableInv(CleanupPendingRequests(T))
         /\ \E ns : Settles(T, CleanupPendingRequests(T), ns, "rejected", 0)
<1> DEFINE ns == {T.filed[id] : id \in DOMAIN T.filed}
<1>1. PICK S : S = Settle(T, ns, "rejected", 0)
  OBVIOUS
<1>2. /\ TableInv(S) /\ S.filed = T.filed
      /\ \A n \in Entries(T) : n \in ns => S.log[n].status # "unsettled"
      /\ Len(S.log) = Len(T.log) /\ Settles(T, S, ns, "rejected", 0)
  <2> HIDE DEF ns
  <2> QED BY <1>1, RejectionKeeps
<1>3. \A n \in Entries(S) : S.log[n].status # "unsettled"
  <2> SUFFICES ASSUME NEW n \in Entries(S), S.log[n].status = "unsettled"
               PROVE  FALSE
    OBVIOUS
  <2>1. S.log[n].id \in DOMAIN S.filed /\ S.filed[S.log[n].id] = n
    BY <1>2 DEF TableInv, Guarded
  <2>2. n \in ns
    BY <2>1, <1>2
  <2> HIDE DEF ns
  <2> QED BY <2>2, <1>2 DEF Entries
<1>4. PICK l, f, ts, last : S = [log |-> l, filed |-> f, timers |-> ts, lastId |-> last]
  BY <1>2 DEF TableInv, TableTyped
<1> DEFINE none == [id \in {} |-> 0]
<1> HIDE DEF none, ns
<1>5. PICK U : U = [S EXCEPT !.filed = none, !.timers = @ \ ns]
  OBVIOUS
<1>6. U = [log |-> l, filed |-> none, timers |-> ts \ ns, lastId |-> last]
  BY <1>4, <1>5
<1>7. /\ U.log = S.log /\ U.timers \subseteq S.timers /\ U.lastId = S.lastId
      /\ DOMAIN U.filed = {}
      /\ U = [log |-> U.log, filed |-> U.filed, timers |-> U.timers, lastId |-> U.lastId]
  BY <1>4, <1>6 DEF none
<1>8. Entries(U) = Entries(S)
  BY <1>7 DEF Entries
<1>9. TableTyped(U) /\ NamesType(U) /\ AnsweredRight(U)
  BY <1>2, <1>7, <1>8 DEF TableInv, TableTyped, NamesType, AnsweredRight
<1>10. IdsOwn(U) /\ Guarded(U)
  BY <1>2, <1>3, <1>7, <1>8 DEF TableInv, IdsOwn, Guarded
<1>11. Bounded(U)
  BY <1>7, FS_EmptySet, BoundsAssumption DEF Bounded
<1>12. CleanupPendingRequests(T) = U
  BY <1>1, <1>5 DEF CleanupPendingRequests, ns, none
<1>13. Settles(T, U, ns, "rejected", 0)
  BY <1>2, <1>7 DEF Settles
<1> QED
  BY <1>9, <1>10, <1>11, <1>12, <1>13 DEF TableInv

\* What is on the wire is no concern of the table.
LEMMA OffTheWireKeeps ==
  ASSUME NEW S, TableInv(S), NEW n \in Entries(S),
         NEW T, T = [log |-> [S.log EXCEPT ![n].sock = 0], filed |-> S.filed,
                     timers |-> S.timers, lastId |-> S.lastId]
  PROVE  /\ TableInv(T) /\ T.filed = S.filed /\ T.timers = S.timers /\ T.lastId = S.lastId
         /\ Len(T.log) = Len(S.log)
         /\ \A m \in Entries(S) : /\ T.log[m].status = S.log[m].status
                                  /\ T.log[m].by = S.log[m].by
                                  /\ T.log[m].id = S.log[m].id
<1>1. S.log \in Seq(Request) /\ n \in 1..Len(S.log)
  BY DEF TableInv, TableTyped, Entries
<1>2. PICK e : e = [S.log[n] EXCEPT !.sock = 0]
  OBVIOUS
<1>3. S.log[n] \in Request
  BY <1>1
<1>4. /\ e \in Request /\ e.id = S.log[n].id /\ e.kind = S.log[n].kind
      /\ e.what = S.log[n].what /\ e.status = S.log[n].status /\ e.by = S.log[n].by
  BY <1>2, <1>3, BoundsAssumption DEF Request
<1>5. PICK log : log = [S.log EXCEPT ![n] = e]
  OBVIOUS
<1>6. /\ T.log = log /\ T.filed = S.filed /\ T.timers = S.timers /\ T.lastId = S.lastId
      /\ T = [log |-> T.log, filed |-> T.filed, timers |-> T.timers, lastId |-> T.lastId]
  BY <1>2, <1>5
<1>7. log \in Seq(Request) /\ Len(log) = Len(S.log)
  BY <1>1, <1>4, <1>5
<1>8. \A m \in 1..Len(S.log) : log[m] = IF m = n THEN e ELSE S.log[m]
  BY <1>1, <1>5
<1>9. Entries(T) = Entries(S)
  BY <1>6, <1>7 DEF Entries
<1>10. \A m \in Entries(S) :
         /\ T.log[m].id = S.log[m].id /\ T.log[m].kind = S.log[m].kind
         /\ T.log[m].what = S.log[m].what /\ T.log[m].status = S.log[m].status
         /\ T.log[m].by = S.log[m].by
  BY <1>4, <1>6, <1>8 DEF Entries
<1>11. TableTyped(T) /\ Bounded(T)
  BY <1>6, <1>7, <1>9 DEF TableInv, TableTyped, Bounded
<1>12. NamesType(T) /\ AnsweredRight(T) /\ Guarded(T)
  BY <1>6, <1>9, <1>10 DEF TableInv, NamesType, AnsweredRight, Guarded
<1>13. IdsOwn(T)
  <2>1. \A id \in DOMAIN S.filed : S.filed[id] \in Entries(S)
    BY DEF TableInv, TableTyped
  <2> QED BY <2>1, <1>6, <1>9, <1>10 DEF TableInv, IdsOwn
<1> QED
  BY <1>6, <1>7, <1>10, <1>11, <1>12, <1>13 DEF TableInv

\* handleResponse() and handleErrorResponse(): the request that is filed under
\* the id of an answer is the one that was answered.
LEMMA AddresseeIsAsked ==
  ASSUME TableInv(Table), NEW n \in 1..Len(req)
  PROVE  Addressee(n) \subseteq {n}
<1>1. Table.log = req /\ Table.filed = pendingRequests
  BY DEF Table
<1>2. ASSUME req[n].id \in DOMAIN pendingRequests
      PROVE  pendingRequests[req[n].id] = n
  BY <1>1, <1>2 DEF TableInv, TableTyped, IdsOwn, Entries
<1> QED
  BY <1>2 DEF Addressee

LEMMA AnsweredKeeps ==
  ASSUME TableInv(Table), NEW n \in 1..Len(req), n \in RequestNo,
         NEW status \in {"resolved", "rejected"}
  PROVE  /\ TableInv(Answered(n, status))
         /\ Settles(Table, Answered(n, status), Addressee(n), status, n)
<1>1. MaySettle(Addressee(n), status, n)
  BY AddresseeIsAsked, BoundsAssumption DEF MaySettle, RequestNo
<1>2. PICK S : S = Settle(Table, Addressee(n), status, n)
  OBVIOUS
<1>3. /\ TableInv(S) /\ S.filed = pendingRequests /\ S.timers = timers
      /\ S.lastId = requestId /\ Len(S.log) = Len(req)
      /\ Settles(Table, S, Addressee(n), status, n)
      /\ \A m \in 1..Len(req) : m \in Addressee(n) => S.log[m].status # "unsettled"
      /\ \A m \in 1..Len(req) : S.log[m].id = req[m].id
  <2>1. /\ Table.log = req /\ Table.filed = pendingRequests
        /\ Table.timers = timers /\ Table.lastId = requestId
    BY DEF Table
  <2>2. Entries(Table) = 1..Len(req)
    BY <2>1 DEF Entries
  <2>3. /\ TableInv(S) /\ S.filed = Table.filed /\ S.timers = Table.timers
        /\ S.lastId = Table.lastId /\ Len(S.log) = Len(Table.log)
        /\ Settles(Table, S, Addressee(n), status, n)
        /\ \A m \in Entries(Table) : m \in Addressee(n) => S.log[m].status # "unsettled"
        /\ \A m \in Entries(Table) : S.log[m].id = Table.log[m].id
    BY <1>1, <1>2, SettleKeeps
  <2> QED BY <2>1, <2>2, <2>3
<1>4. PICK W : W = [log |-> [S.log EXCEPT ![n].sock = 0], filed |-> S.filed,
                    timers |-> S.timers, lastId |-> S.lastId]
  OBVIOUS
<1>5. n \in Entries(S) /\ Entries(S) = 1..Len(req)
  BY <1>3 DEF Entries
<1>6. /\ TableInv(W) /\ W.filed = S.filed /\ W.timers = S.timers /\ W.lastId = S.lastId
      /\ Len(W.log) = Len(S.log)
      /\ \A m \in Entries(S) : /\ W.log[m].status = S.log[m].status
                               /\ W.log[m].by = S.log[m].by
                               /\ W.log[m].id = S.log[m].id
  BY <1>3, <1>4, <1>5, OffTheWireKeeps
<1>7. Entries(W) = 1..Len(req)
  BY <1>3, <1>6 DEF Entries
<1>8. PICK U : U = [log |-> W.log, filed |-> Unfile(W.filed, req[n].id),
                    timers |-> W.timers \ Addressee(n), lastId |-> W.lastId]
  OBVIOUS
<1>9. ASSUME req[n].id \in DOMAIN W.filed
      PROVE  W.log[W.filed[req[n].id]].status # "unsettled"
  <2>1. pendingRequests[req[n].id] \in Addressee(n)
    BY <1>3, <1>6, <1>9 DEF Addressee
  <2>2. pendingRequests[req[n].id] = n
    BY <2>1, AddresseeIsAsked
  <2> QED BY <1>3, <1>5, <1>6, <2>1, <2>2
<1>10. \A m \in Entries(W) : m \in Addressee(n) => W.log[m].status # "unsettled"
  BY <1>3, <1>5, <1>6, <1>7
<1>11. TableInv(U) /\ U.log = W.log
  BY <1>6, <1>8, <1>9, <1>10, RemovalKeeps
<1>12. Answered(n, status) = U
  <2>1. PICK l, f, ts, last : S = [log |-> l, filed |-> f, timers |-> ts, lastId |-> last]
    BY <1>3 DEF TableInv, TableTyped
  <2>2. U = [log |-> [l EXCEPT ![n].sock = 0], filed |-> Unfile(f, req[n].id),
             timers |-> ts \ Addressee(n), lastId |-> last]
    BY <1>4, <1>8, <2>1
  <2>3. PICK V : V = [S EXCEPT !.log[n].sock = 0, !.filed = Unfile(@, req[n].id),
                              !.timers = @ \ Addressee(n)]
    OBVIOUS
  <2>4. PICK L, F, M : /\ L = [l EXCEPT ![n].sock = 0] /\ F = Unfile(f, req[n].id)
                       /\ M = ts \ Addressee(n)
    OBVIOUS
  <2>5. V = [S EXCEPT !.log = L, !.filed = F, !.timers = M]
    BY <2>1, <2>3, <2>4
  <2>6. V = [log |-> L, filed |-> F, timers |-> M, lastId |-> last]
    BY <2>1, <2>5
  <2>7. V = U
    BY <2>2, <2>4, <2>6
  <2> QED BY <1>2, <2>3, <2>7 DEF Answered
<1>13. Entries(Table) = 1..Len(req)
  BY DEF Entries, Table
<1>14. Settles(Table, U, Addressee(n), status, n)
  BY <1>3, <1>5, <1>6, <1>11, <1>13 DEF Settles
<1> QED
  BY <1>11, <1>12, <1>14

\* Requests as the callers of sendRequest() make them.
WellAsked(kind, what, waiter) ==
  /\ kind \in RequestKind /\ what \in SubType \cup {0, 1} /\ waiter \in SUBSET Flow
  /\ kind \in SubscriptionKind => what \in SubType

\* nextRequestId() and sendRequest()
LEMMA SendKeeps ==
  ASSUME NEW T, TableInv(T), NEW sk, socket \in 0..MaxSockets,
         NEW kind, NEW what, NEW waiter, WellAsked(kind, what, waiter),
         NEW U, U = SendRequest(T, sk, kind, what, waiter)
  PROVE  /\ TableInv(U) /\ Len(U.log) = Len(T.log) + 1
         /\ \A n \in Entries(T) : U.log[n] = T.log[n]
         /\ U.log[Len(U.log)].by = 0
         /\ \/ U.log[Len(U.log)].status = "rejected"
            \/ U.log[Len(U.log)].status = "unsettled" /\ HasRoom(T)
<1> DEFINE room == HasRoom(T)
           sent == room /\ CanSend(sk)
<1>1. PICK id, n : id = T.lastId + 1 /\ n = Len(T.log) + 1
  OBVIOUS
<1>2. PICK e : e = [id |-> id, kind |-> kind, what |-> what, waiter |-> waiter,
                    sock |-> IF sent THEN socket ELSE 0,
                    status |-> IF sent THEN "unsettled" ELSE "rejected", by |-> 0]
  OBVIOUS
<1>3. PICK filed : filed = IF room THEN [i \in DOMAIN T.filed \cup {id} |->
                                           IF i = id THEN n ELSE T.filed[i]]
                           ELSE T.filed
  OBVIOUS
<1>4. PICK ts : ts = IF room THEN T.timers \cup {n} ELSE T.timers
  OBVIOUS
<1>5. U = [log |-> Append(T.log, e), filed |-> filed, timers |-> ts, lastId |-> id]
  BY <1>1, <1>2, <1>3, <1>4, Zenon DEF SendRequest, NextRequestId
<1>6. /\ T.log \in Seq(Request) /\ Len(T.log) \in Nat /\ T.lastId \in Nat
      /\ DOMAIN T.filed \subseteq 1..T.lastId
  BY DEF TableInv, TableTyped
<1>7. /\ id \in 1..id /\ id = T.lastId + 1 /\ id \notin DOMAIN T.filed /\ id \in Nat
      /\ n \in 1..n /\ n = Len(T.log) + 1 /\ n \notin Entries(T)
  BY <1>1, <1>6 DEF Entries
<1>8. room \in BOOLEAN /\ sent \in BOOLEAN /\ (sent => room)
  BY DEF HasRoom, CanSend
<1> HIDE DEF room, sent
<1>9. /\ e \in Request /\ e.id = id /\ e.kind = kind /\ e.what = what /\ e.by = 0
      /\ e.status = IF sent THEN "unsettled" ELSE "rejected"
  BY <1>2, <1>7, BoundsAssumption DEF Request, WellAsked
<1>10. /\ U.filed = filed /\ U.timers = ts /\ U.lastId = id
       /\ U.log \in Seq(Request) /\ Len(U.log) = n /\ U.log[n] = e
       /\ \A m \in Entries(T) : U.log[m] = T.log[m]
       /\ U = [log |-> U.log, filed |-> U.filed, timers |-> U.timers, lastId |-> U.lastId]
  BY <1>5, <1>6, <1>7, <1>9 DEF Entries
<1>11. Entries(U) = Entries(T) \cup {n}
  BY <1>6, <1>7, <1>10 DEF Entries
<1>12. /\ DOMAIN U.filed = DOMAIN T.filed \cup (IF room THEN {id} ELSE {})
       /\ \A i \in DOMAIN T.filed : U.filed[i] = T.filed[i]
       /\ room => U.filed[id] = n
  BY <1>3, <1>7, <1>10
<1>13. TableTyped(U)
  <2>1. \A i \in DOMAIN U.filed : U.filed[i] \in Entries(U)
    BY <1>11, <1>12 DEF TableInv, TableTyped
  <2>2. U.timers \subseteq Entries(U)
    BY <1>4, <1>10, <1>11 DEF TableInv, TableTyped
  <2>3. DOMAIN U.filed \subseteq 1..U.lastId
    BY <1>6, <1>7, <1>10, <1>12
  <2>4. U.lastId \in Nat
    BY <1>7, <1>10
  <2> QED BY <2>1, <2>2, <2>3, <2>4, <1>10 DEF TableTyped
<1>14. NamesType(U) /\ AnsweredRight(U)
  BY <1>8, <1>9, <1>10, <1>11 DEF TableInv, NamesType, AnsweredRight, WellAsked
<1>15. IdsOwn(U)
  <2>1. \A m \in Entries(T) : T.log[m].id \in 1..T.lastId /\ T.log[m].id # id
    BY <1>6, <1>7 DEF TableInv, IdsOwn
  <2>2. \A m \in Entries(U) : U.log[m].id \in 1..U.lastId
    BY <2>1, <1>6, <1>7, <1>9, <1>10, <1>11
  <2>3. \A m, k \in Entries(U) : U.log[m].id = U.log[k].id => m = k
    BY <2>1, <1>9, <1>10, <1>11 DEF TableInv, IdsOwn
  <2>4. \A i \in DOMAIN U.filed : U.log[U.filed[i]].id = i
    <3>1. \A i \in DOMAIN T.filed : T.filed[i] \in Entries(T) /\ T.log[T.filed[i]].id = i
      BY DEF TableInv, TableTyped, IdsOwn
    <3> QED BY <3>1, <1>9, <1>10, <1>12
  <2> QED BY <2>2, <2>3, <2>4 DEF IdsOwn
<1>16. Guarded(U)
  <2>1. ASSUME NEW m \in Entries(T), U.log[m].status = "unsettled"
        PROVE  /\ m \in U.timers /\ U.log[m].id \in DOMAIN U.filed
               /\ U.filed[U.log[m].id] = m
    BY <2>1, <1>4, <1>10, <1>12 DEF TableInv, Guarded
  <2>2. ASSUME U.log[n].status = "unsettled"
        PROVE  /\ n \in U.timers /\ U.log[n].id \in DOMAIN U.filed
               /\ U.filed[U.log[n].id] = n
    <3>1. room
      BY <2>2, <1>8, <1>9, <1>10
    <3> QED BY <3>1, <1>4, <1>9, <1>10, <1>12
  <2> QED BY <2>1, <2>2, <1>11 DEF Guarded
<1>17. Bounded(U)
  <2>1. IsFiniteSet(DOMAIN T.filed) /\ Cardinality(DOMAIN T.filed) <= MaxPending
    BY DEF TableInv, Bounded
  <2>2. CASE room
    <3>1. DOMAIN U.filed = DOMAIN T.filed \cup {id}
      BY <2>2, <1>12
    <3>2. /\ IsFiniteSet(DOMAIN U.filed)
          /\ Cardinality(DOMAIN U.filed) = Cardinality(DOMAIN T.filed) + 1
      <4>1. /\ IsFiniteSet(DOMAIN T.filed \cup {id})
            /\ Cardinality(DOMAIN T.filed \cup {id}) =
                 IF id \in DOMAIN T.filed THEN Cardinality(DOMAIN T.filed)
                 ELSE Cardinality(DOMAIN T.filed) + 1
        BY <2>1, FS_AddElement, Zenon
      <4> QED BY <3>1, <4>1, <1>7
    <3>3. Cardinality(DOMAIN T.filed) \in Nat
      BY <2>1, FS_CardinalityType
    <3>4. Cardinality(DOMAIN T.filed) < MaxPending
      BY <2>2 DEF room, HasRoom
    <3> QED BY <3>2, <3>3, <3>4, BoundsAssumption DEF Bounded
  <2>3. CASE ~room
    BY <2>1, <2>3, <1>12 DEF Bounded
  <2> QED BY <2>2, <2>3
<1>18. e.status = "rejected" \/ (e.status = "unsettled" /\ HasRoom(T))
  BY <1>8, <1>9 DEF room
<1> QED
  BY <1>7, <1>9, <1>10, <1>13, <1>14, <1>15, <1>16, <1>17, <1>18 DEF TableInv

-----------------------------------------------------------------------------
(* The steps                                                               *)

FlowRecord == [pc : FlowPC, again : BOOLEAN, sock : 0..MaxSockets, todo : SUBSET SubType]

\* TypeOK but for the table, whose type is part of TableInv.
Others ==
  /\ state \in ConnectionState /\ userRequestedDisconnect \in BOOLEAN
  /\ reconnectAttempt \in 0..MaxReconnectAttempts /\ ping \in BOOLEAN
  /\ socket \in 0..MaxSockets
  /\ sock \in [SocketId -> [status : SockStatus, subs : SUBSET SubType]]
  /\ subscriptions \subseteq SubType
  /\ schema \in BOOLEAN /\ cachedRoot \in BOOLEAN
  /\ flow \in [Flow -> FlowRecord]

LEMMA InvParts == IInv <=> Others /\ TableInv(Table)
<1>1. TypeOK => Others
  BY DEF TypeOK, Others, FlowRecord
<1>2. Others /\ TableInv(Table) => TypeOK
  BY DEF TypeOK, Others, FlowRecord, TableInv, TableTyped, Entries, Table
<1> QED
  BY <1>1, <1>2 DEF IInv

LEMMA TableFields ==
  /\ Table.log = req /\ Table.filed = pendingRequests
  /\ Table.timers = timers /\ Table.lastId = requestId
  /\ Entries(Table) = 1..Len(req)
  BY DEF Table, Entries

LEMMA BecomeKeeps ==
  ASSUME NEW T, TableInv(T), Become(T)
  PROVE  TableInv(Table)'
<1>1. PICK U : U = [log |-> req', filed |-> pendingRequests', timers |-> timers',
                    lastId |-> requestId']
  OBVIOUS
<1>2. U = T
  BY <1>1 DEF Become, TableInv, TableTyped
<1>3. TableInv(U)
  BY <1>2
<1> QED
  BY <1>1, <1>3 DEF TableInv, TableTyped, NamesType, IdsOwn, Guarded, AnsweredRight, Bounded,
                    Entries, Table

LEMMA SameTableKeeps ==
  ASSUME TableInv(Table), UNCHANGED reqVars
  PROVE  TableInv(Table)'
  BY DEF reqVars, TableInv, TableTyped, NamesType, IdsOwn, Guarded, AnsweredRight, Bounded,
         Entries, Table

LEMMA FlowMoves ==
  ASSUME flow \in [Flow -> FlowRecord], NEW f \in Flow, NEW p \in FlowPC
  PROVE  [flow EXCEPT ![f].pc = p] \in [Flow -> FlowRecord]
  BY DEF FlowRecord

LEMMA IdleTyped == IdleFlow \in FlowRecord
  BY BoundsAssumption DEF IdleFlow, FlowRecord, FlowPC

LEMMA RejectingTyped ==
  ASSUME flow \in [Flow -> FlowRecord], NEW ns
  PROVE  FlowsAfterRejecting(ns) \in [Flow -> FlowRecord]
  BY DEF FlowsAfterRejecting, FlowRecord, FlowPC

LEMMA StartConnectTyped ==
  ASSUME Others, NEW f \in Flow, NEW again \in BOOLEAN, StartConnect(f, again)
  PROVE  /\ state' \in ConnectionState /\ userRequestedDisconnect' \in BOOLEAN
         /\ flow' \in [Flow -> FlowRecord]
<1>1. PICK r : r = [IdleFlow EXCEPT !.pc = IF cachedRoot THEN "loaded" ELSE "schema",
                                    !.again = again]
  OBVIOUS
<1>2. r \in FlowRecord
  BY <1>1, IdleTyped DEF FlowRecord, FlowPC
<1>3. flow' = [flow EXCEPT ![f] = r]
  BY <1>1 DEF StartConnect
<1> QED
  BY <1>2, <1>3 DEF Others, StartConnect, ConnectionState

LEMMA ReconnectTyped ==
  ASSUME Others, NEW f \in Flow, Reconnect(f, flow)
  PROVE  /\ state' \in ConnectionState /\ reconnectAttempt' \in 0..MaxReconnectAttempts
         /\ schema' \in BOOLEAN /\ cachedRoot' \in BOOLEAN
         /\ flow' \in [Flow -> FlowRecord]
<1>1. CASE ~AttemptsLeft
  BY <1>1, IdleTyped DEF Reconnect, Others, ConnectionState, schemaVars
<1>2. CASE AttemptsLeft
  <2>1. PICK r : r = [IdleFlow EXCEPT !.pc = "sleeping", !.again = TRUE]
    OBVIOUS
  <2>2. r \in FlowRecord
    BY <2>1, IdleTyped DEF FlowRecord, FlowPC
  <2>3. /\ flow' = [flow EXCEPT ![f] = r] /\ state' = "RECONNECTING"
        /\ reconnectAttempt' = reconnectAttempt + 1 /\ schema' = FALSE /\ cachedRoot' = FALSE
    BY <1>2, <2>1 DEF Reconnect, NextAttempt
  <2>4. reconnectAttempt + 1 \in 0..MaxReconnectAttempts
    BY <1>2, BoundsAssumption DEF AttemptsLeft, Others
  <2> QED BY <2>2, <2>3, <2>4 DEF Others, ConnectionState
<1> QED
  BY <1>1, <1>2

Keeps == Others' /\ TableInv(Table)'

LEMMA ConnectKeeps ==
  ASSUME Others, TableInv(Table), NEW f \in Flow, Connect(f) \/ WakeUp(f)
  PROVE  Keeps
<1>1. \E again \in BOOLEAN : StartConnect(f, again)
  BY DEF Connect, WakeUp
<1>2. UNCHANGED <<reconnectAttempt, ping, sockVars, reqVars, subscriptions, schemaVars>>
  BY DEF Connect, WakeUp
<1>3. TableInv(Table)'
  BY <1>2, SameTableKeeps
<1> QED
  BY <1>1, <1>2, <1>3, StartConnectTyped DEF Keeps, Others, sockVars, schemaVars

LEMMA SchemaLoadedKeeps ==
  ASSUME Others, TableInv(Table), NEW f \in Flow, NEW ok \in BOOLEAN, SchemaLoaded(f, ok)
  PROVE  Keeps
<1>1. UNCHANGED <<connVars, sockVars, reqVars, subscriptions, schema>>
  BY DEF SchemaLoaded
<1>2. TableInv(Table)'
  BY <1>1, SameTableKeeps
<1>3. cachedRoot' \in BOOLEAN
  BY DEF SchemaLoaded, Others
<1>4. flow' \in [Flow -> FlowRecord]
  <2>1. PICK p \in FlowPC : flow' = [flow EXCEPT ![f].pc = p]
    BY DEF SchemaLoaded, FlowPC
  <2> QED BY <2>1, FlowMoves DEF Others
<1> QED
  BY <1>1, <1>2, <1>3, <1>4 DEF Keeps, Others, connVars, sockVars

LEMMA OpenSocketKeeps ==
  ASSUME Others, TableInv(Table), NEW f \in Flow, OpenSocket(f)
  PROVE  Keeps
<1>1. UNCHANGED <<connVars, reqVars, subscriptions, cachedRoot>> /\ schema' = TRUE
  BY DEF OpenSocket
<1>2. TableInv(Table)'
  BY <1>1, SameTableKeeps
<1>3. CASE UNCHANGED sockVars /\ flow' = [flow EXCEPT ![f].pc = "failing"]
  <2>1. flow' \in [Flow -> FlowRecord]
    BY <1>3, FlowMoves DEF Others, FlowPC
  <2> QED BY <1>1, <1>2, <1>3, <2>1 DEF Keeps, Others, connVars, sockVars
<1>4. CASE \E s \in SocketId :
             /\ socket' = s
             /\ sock' = [sock EXCEPT ![s].status = "connecting"]
             /\ flow' = [flow EXCEPT ![f].pc = "opening", ![f].sock = s]
  <2>1. PICK s \in SocketId :
             /\ socket' = s
             /\ sock' = [sock EXCEPT ![s].status = "connecting"]
             /\ flow' = [flow EXCEPT ![f].pc = "opening", ![f].sock = s]
    BY <1>4
  <2>2. s \in 0..MaxSockets
    BY BoundsAssumption DEF SocketId
  <2>3. flow' \in [Flow -> FlowRecord]
    BY <2>1, <2>2 DEF Others, FlowRecord, FlowPC
  <2>4. sock' \in [SocketId -> [status : SockStatus, subs : SUBSET SubType]]
    BY <2>1 DEF Others, SockStatus
  <2> QED BY <1>1, <1>2, <2>1, <2>2, <2>3, <2>4 DEF Keeps, Others, connVars
<1> QED
  BY <1>3, <1>4 DEF OpenSocket

LEMMA SocketOpensKeeps ==
  ASSUME Others, TableInv(Table), NEW s \in SocketId, SocketOpens(s)
  PROVE  Keeps
<1>1. PICK sk : sk = [sock EXCEPT ![s].status = "open"]
  OBVIOUS
<1>2. sock' = sk /\ sk \in [SocketId -> [status : SockStatus, subs : SUBSET SubType]]
  BY <1>1 DEF SocketOpens, Others, SockStatus
<1>3. UNCHANGED <<userRequestedDisconnect, reconnectAttempt, ping, socket, subscriptions,
                  schemaVars>>
  BY DEF SocketOpens
<1>4. ASSUME state' \in ConnectionState, TableInv(Table)', flow' \in [Flow -> FlowRecord]
      PROVE  Keeps
  BY <1>2, <1>3, <1>4 DEF Keeps, Others, schemaVars
<1>5. CASE state' = "CONNECTED" /\ UNCHANGED <<reqVars, flow>>
  BY <1>4, <1>5, SameTableKeeps DEF Others, ConnectionState
<1>6. ASSUME NEW f \in Flow, state' = "HANDSHAKING",
             IF schema
             THEN LET T == SendRequest(Table, sk, "handshake", 0, {f})
                  IN /\ MayIssue
                     /\ Become(T)
                     /\ flow' = [flow EXCEPT ![f].pc =
                          IF Outstanding(T) THEN "handshaking" ELSE "failing"]
             ELSE flow' = [flow EXCEPT ![f].pc = "failing"] /\ UNCHANGED reqVars
      PROVE  Keeps
  <2>1. flow' \in [Flow -> FlowRecord]
    <3>1. PICK p \in FlowPC : flow' = [flow EXCEPT ![f].pc = p]
      BY <1>6 DEF FlowPC
    <3> QED BY <3>1, FlowMoves DEF Others
  <2>2. TableInv(Table)'
    <3>1. CASE schema
      <4>1. PICK T : T = SendRequest(Table, sk, "handshake", 0, {f})
        OBVIOUS
      <4>2. Become(T)
        BY <1>6, <3>1, <4>1
      <4>3. TableInv(T)
        <5>1. WellAsked("handshake", 0, {f}) /\ socket \in 0..MaxSockets
          BY DEF WellAsked, Others, RequestKind, SubscriptionKind
        <5> QED BY <4>1, <5>1, SendKeeps
      <4> QED BY <4>2, <4>3, BecomeKeeps
    <3>2. CASE ~schema
      BY <1>6, <3>2, SameTableKeeps
    <3> QED BY <3>1, <3>2
  <2> QED BY <1>4, <1>6, <2>1, <2>2 DEF ConnectionState
<1> QED
  BY <1>1, <1>5, <1>6 DEF SocketOpens

LEMMA TimeoutsKeep ==
  ASSUME Others, TableInv(Table), NEW f \in Flow, ConnectTimeout(f)
  PROVE  Keeps
<1>1. UNCHANGED <<connVars, sockVars, reqVars, subscriptions, schemaVars>>
  BY DEF ConnectTimeout
<1>2. flow' \in [Flow -> FlowRecord]
  BY FlowMoves DEF ConnectTimeout, Others, FlowPC
<1> QED
  BY <1>1, <1>2, SameTableKeeps DEF Keeps, Others, connVars, sockVars, schemaVars

LEMMA SocketFailsKeeps ==
  ASSUME Others, TableInv(Table), NEW s \in SocketId, SocketFails(s)
  PROVE  Keeps
<1>1. UNCHANGED <<connVars, socket, reqVars, subscriptions, schemaVars>>
  BY DEF SocketFails
<1>2. sock' \in [SocketId -> [status : SockStatus, subs : SUBSET SubType]]
  BY DEF SocketFails, Others, SockStatus
<1>3. flow' \in [Flow -> FlowRecord]
  BY DEF SocketFails, Others, FlowRecord, FlowPC
<1> QED
  BY <1>1, <1>2, <1>3, SameTableKeeps DEF Keeps, Others, connVars, schemaVars

LEMMA FlowFailsKeeps ==
  ASSUME Others, TableInv(Table), NEW f \in Flow, FlowFails(f)
  PROVE  Keeps
<1>1. UNCHANGED <<userRequestedDisconnect, ping, sockVars, reqVars, subscriptions>>
  BY DEF FlowFails
<1>2. TableInv(Table)'
  BY <1>1, SameTableKeeps
<1>3. CASE /\ state' = "DISCONNECTED" /\ flow' = [flow EXCEPT ![f] = IdleFlow]
           /\ UNCHANGED <<reconnectAttempt, schemaVars>>
  <2>1. flow' \in [Flow -> FlowRecord]
    BY <1>3, IdleTyped DEF Others
  <2> QED BY <1>1, <1>2, <1>3, <2>1 DEF Keeps, Others, sockVars, schemaVars, ConnectionState
<1>4. CASE Reconnect(f, flow)
  BY <1>1, <1>2, <1>4, ReconnectTyped DEF Keeps, Others, sockVars
<1> QED
  BY <1>3, <1>4 DEF FlowFails

LEMMA DisconnectKeeps ==
  ASSUME Others, TableInv(Table), Disconnect
  PROVE  Keeps
<1>1. UNCHANGED <<reconnectAttempt, subscriptions, schemaVars>>
  BY DEF Disconnect
<1>2. TableInv(Table)'
  <2>1. PICK T : T = CleanupPendingRequests(Table)
    OBVIOUS
  <2>2. TableInv(T) /\ Become(T)
    BY <2>1, CleanupKeeps DEF Disconnect
  <2> QED BY <2>2, BecomeKeeps
<1>3. flow' \in [Flow -> FlowRecord]
  BY RejectingTyped DEF Disconnect, Others
<1>4. sock' \in [SocketId -> [status : SockStatus, subs : SUBSET SubType]]
  <2> DEFINE gone(s) == [sock[s] EXCEPT !.status = CASE @ = "connecting" -> "aborted"
                                                     [] @ = "open" -> "closing"
                                                     [] OTHER -> @]
  <2>1. ASSUME NEW s \in SocketId
        PROVE  gone(s) \in [status : SockStatus, subs : SUBSET SubType]
    BY DEF Others, SockStatus
  <2>2. sock' = [s \in SocketId |-> IF s = socket THEN gone(s) ELSE sock[s]]
    BY DEF Disconnect
  <2> HIDE DEF gone
  <2> QED BY <2>1, <2>2 DEF Others
<1>5. /\ userRequestedDisconnect' = TRUE /\ state' = "DISCONNECTED" /\ ping' = FALSE
      /\ socket' = 0
  BY DEF Disconnect
<1>6. socket' \in 0..MaxSockets /\ state' \in ConnectionState
  BY <1>5, BoundsAssumption DEF ConnectionState
<1> QED
  BY <1>1, <1>2, <1>3, <1>4, <1>5, <1>6 DEF Keeps, Others, schemaVars

LEMMA HandleCloseKeeps ==
  ASSUME Others, TableInv(Table), NEW s \in SocketId, HandleClose(s)
  PROVE  Keeps
<1>1. UNCHANGED <<userRequestedDisconnect, socket, subscriptions>> /\ ping' = FALSE
  BY DEF HandleClose
<1>2. sock' \in [SocketId -> [status : SockStatus, subs : SUBSET SubType]]
  BY DEF HandleClose, Others, SockStatus
<1>3. CASE (\E f \in Flow : Reconnect(f, flow)) /\ UNCHANGED reqVars
  BY <1>1, <1>2, <1>3, ReconnectTyped, SameTableKeeps DEF Keeps, Others
<1>4. CASE /\ state' = "DISCONNECTED"
           /\ Become(CleanupPendingRequests(Table))
           /\ flow' = FlowsAfterRejecting(FiledRequests)
           /\ UNCHANGED <<reconnectAttempt, schemaVars>>
  <2>1. PICK T : T = CleanupPendingRequests(Table)
    OBVIOUS
  <2>2. TableInv(T) /\ Become(T)
    BY <1>4, <2>1, CleanupKeeps
  <2>3. TableInv(Table)'
    BY <2>2, BecomeKeeps
  <2>4. flow' \in [Flow -> FlowRecord]
    BY <1>4, RejectingTyped DEF Others
  <2> QED BY <1>1, <1>2, <1>4, <2>3, <2>4 DEF Keeps, Others, schemaVars, ConnectionState
<1> QED
  BY <1>3, <1>4 DEF HandleClose

LEMMA ResubscribeKeeps ==
  ASSUME Others, TableInv(Table), NEW f \in Flow, Resubscribe(f)
  PROVE  Keeps
<1>1. PICK todo : todo = IF flow[f].pc = "connected" THEN subscriptions ELSE flow[f].todo
  OBVIOUS
<1>2. todo \subseteq SubType
  BY <1>1 DEF Others, FlowRecord
<1>3. UNCHANGED <<connVars, sockVars, schemaVars>> /\ subscriptions' \subseteq SubType
  BY DEF Resubscribe, Others
<1>4. ASSUME TableInv(Table)', flow' \in [Flow -> FlowRecord]
      PROVE  Keeps
  BY <1>3, <1>4 DEF Keeps, Others, connVars, sockVars, schemaVars
<1>5. CASE flow' = [flow EXCEPT ![f] = IdleFlow] /\ UNCHANGED reqVars
  <2>1. flow' \in [Flow -> FlowRecord]
    BY <1>5, IdleTyped DEF Others
  <2> QED BY <1>4, <1>5, <2>1, SameTableKeeps
<1>6. ASSUME NEW t \in todo,
             LET T == SendRequest(Table, sock, "resubscribe", t, {f})
                 asks == state = "READY" /\ schema /\ MayIssue
             IN /\ flow' = [flow EXCEPT ![f].todo = todo \ {t},
                     ![f].pc = IF asks /\ Outstanding(T) THEN "resubscribing"
                               ELSE "nextSubscription"]
                /\ IF asks THEN Become(T) ELSE UNCHANGED reqVars
      PROVE  Keeps
  <2>1. PICK T : T = SendRequest(Table, sock, "resubscribe", t, {f})
    OBVIOUS
  <2>2. TableInv(T)
    <3>1. WellAsked("resubscribe", t, {f}) /\ socket \in 0..MaxSockets
      BY <1>2, <1>6 DEF WellAsked, Others, RequestKind, SubscriptionKind
    <3> QED BY <2>1, <3>1, SendKeeps
  <2>3. Become(T) \/ UNCHANGED reqVars
    BY <1>6, <2>1
  <2>4. TableInv(Table)'
    BY <2>2, <2>3, BecomeKeeps, SameTableKeeps
  <2>5. flow' \in [Flow -> FlowRecord]
    <3>1. PICK p \in FlowPC : flow' = [flow EXCEPT ![f].todo = todo \ {t}, ![f].pc = p]
      BY <1>6 DEF FlowPC
    <3>2. todo \ {t} \in SUBSET SubType
      BY <1>2
    <3> QED BY <3>1, <3>2 DEF Others, FlowRecord
  <2> QED BY <1>4, <2>4, <2>5
<1> QED
  BY <1>1, <1>5, <1>6 DEF Resubscribe

LEMMA UserRequestKeeps ==
  ASSUME Others, TableInv(Table),
         \/ \E t \in SubType : Subscribe(t) \/ Unsubscribe(t)
         \/ \E more \in {0, 1} : Send(more)
  PROVE  Keeps
<1>1. PICK kind, what : WellAsked(kind, what, {}) /\ UserRequest(kind, what)
  <2>1. \A t \in SubType : WellAsked("subscribe", t, {}) /\ WellAsked("unsubscribe", t, {})
    BY DEF WellAsked, RequestKind
  <2>2. \A more \in {0, 1} : WellAsked("call", more, {})
    BY DEF WellAsked, RequestKind, SubscriptionKind
  <2> QED BY <2>1, <2>2 DEF Subscribe, Unsubscribe, Send
<1>2. PICK T : T = SendRequest(Table, sock, kind, what, {})
  OBVIOUS
<1>3. TableInv(T) /\ Become(T)
  BY <1>1, <1>2, SendKeeps DEF UserRequest, Others
<1>4. UNCHANGED <<connVars, sockVars, subscriptions, schemaVars, flow>>
  BY <1>1 DEF UserRequest
<1> QED
  BY <1>3, <1>4, BecomeKeeps DEF Keeps, Others, connVars, sockVars, schemaVars

LEMMA RequestTimeoutKeeps ==
  ASSUME Others, TableInv(Table), NEW n \in RequestNo, RequestTimeout(n)
  PROVE  Keeps
<1>1. UNCHANGED <<connVars, sockVars, subscriptions, schemaVars>>
  BY DEF RequestTimeout
<1>2. flow' \in [Flow -> FlowRecord]
  BY RejectingTyped DEF RequestTimeout, Others
<1>3. n \in Entries(Table)
  BY TableFields DEF RequestTimeout, TableInv, TableTyped
<1>4. PICK T : T = [Settle(Table, {n}, "rejected", 0) EXCEPT
                      !.filed = Unfile(@, req[n].id), !.timers = @ \ {n}]
  OBVIOUS
<1>5. TableInv(T)
  BY <1>3, <1>4, TimeoutKeeps, TableFields
<1>6. Become(T)
  BY <1>4 DEF RequestTimeout
<1> QED
  BY <1>1, <1>2, <1>5, <1>6, BecomeKeeps DEF Keeps, Others, connVars, sockVars, schemaVars

LEMMA PingKeeps ==
  ASSUME Others, TableInv(Table), PingFires
  PROVE  Keeps
<1>1. UNCHANGED <<state, userRequestedDisconnect, reconnectAttempt, sockVars,
                  pendingRequests, timers, req, subscriptions, schemaVars, flow>>
  BY DEF PingFires
<1>2. requestId' \in Nat /\ requestId' >= requestId /\ requestId \in Nat
  BY DEF PingFires, NextRequestId, Table, TableInv, TableTyped
<1>3. TableInv(Table)'
  <2>1. TableTyped(Table)' /\ NamesType(Table)' /\ AnsweredRight(Table)' /\ Guarded(Table)'
        /\ Bounded(Table)'
    BY <1>1, <1>2 DEF TableInv, TableTyped, NamesType, AnsweredRight, Guarded, Bounded,
                      Entries, Table
  <2>2. IdsOwn(Table)'
    BY <1>1, <1>2 DEF TableInv, IdsOwn, Entries, Table
  <2> QED BY <2>1, <2>2 DEF TableInv
<1>4. ping' \in BOOLEAN
  BY DEF PingFires, PingGoesOn
<1> QED
  BY <1>1, <1>3, <1>4 DEF Keeps, Others, sockVars, schemaVars

\* An answer that settles its request and does nothing else to the table.
LEMMA AnswerKeeps ==
  ASSUME Others, TableInv(Table), NEW n \in RequestNo, n \in 1..Len(req),
         NEW status \in {"resolved", "rejected"}, Become(Answered(n, status))
  PROVE  TableInv(Table)'
<1>1. PICK T : T = Answered(n, status)
  OBVIOUS
<1>2. TableInv(T)
  BY <1>1, AnsweredKeeps
<1> QED
  BY <1>1, <1>2, BecomeKeeps

\* What _send() does to the table when there is more to send.
LEMMA NextPayloadKeeps ==
  ASSUME Others, TableInv(Table), NEW n \in RequestNo, n \in 1..Len(req),
         Become(SendRequest(Answered(n, "resolved"), sock, "call", 0, {}))
  PROVE  TableInv(Table)'
<1>1. PICK T : T = Answered(n, "resolved")
  OBVIOUS
<1>2. TableInv(T)
  BY <1>1, AnsweredKeeps
<1>3. PICK U : U = SendRequest(T, sock, "call", 0, {})
  OBVIOUS
<1>4. WellAsked("call", 0, {}) /\ socket \in 0..MaxSockets
  BY DEF WellAsked, Others, RequestKind, SubscriptionKind
<1>5. TableInv(U)
  BY <1>2, <1>3, <1>4, SendKeeps
<1> QED
  BY <1>1, <1>3, <1>5, BecomeKeeps

LEMMA WireTyped ==
  ASSUME TableInv(Table), NEW n, OnTheWire(n)
  PROVE  /\ n \in 1..Len(req) /\ req[n] \in Request /\ req[n].sock \in SocketId
         /\ req[n].kind \in SubscriptionKind => req[n].what \in SubType
<1>1. n \in 1..Len(req) /\ req[n].sock # 0
  BY DEF OnTheWire
<1>2. req[n] \in Request
  BY <1>1, TableFields, ElementOfSeq DEF TableInv, TableTyped
<1>3. req[n].kind \in SubscriptionKind => req[n].what \in SubType
  BY <1>1, TableFields DEF TableInv, NamesType
<1> QED
  BY <1>1, <1>2, <1>3, BoundsAssumption DEF Request, SocketId

LEMMA ServedTyped ==
  ASSUME Others, TableInv(Table), NEW n, OnTheWire(n)
  PROVE  Served(n) \in [SocketId -> [status : SockStatus, subs : SUBSET SubType]]
<1>1. PICK s \in SocketId : s = req[n].sock
  BY WireTyped
<1>2. PICK subs : subs = CASE req[n].kind \in {"subscribe", "resubscribe"} ->
                                sock[s].subs \cup {req[n].what}
                           [] req[n].kind = "unsubscribe" -> sock[s].subs \ {req[n].what}
                           [] OTHER -> sock[s].subs
  OBVIOUS
<1>3. subs \in SUBSET SubType
  BY <1>2, WireTyped DEF Others, SubscriptionKind
<1>4. Served(n) = [sock EXCEPT ![s].subs = subs]
  BY <1>1, <1>2 DEF Served
<1> QED
  BY <1>3, <1>4 DEF Others

LEMMA HandleResponseKeeps ==
  ASSUME Others, TableInv(Table), NEW n \in RequestNo, HandleResponse(n)
  PROVE  Keeps
<1>1. /\ UNCHANGED <<userRequestedDisconnect, socket, schemaVars>>
      /\ sock' \in [SocketId -> [status : SockStatus, subs : SUBSET SubType]]
  BY ServedTyped DEF HandleResponse
<1>2. n \in 1..Len(req) /\ Addressee(n) \subseteq {n}
  BY WireTyped, AddresseeIsAsked DEF HandleResponse
<1>3. ASSUME Become(Answered(n, "resolved"))
      PROVE  TableInv(Table)'
  BY <1>2, <1>3, AnswerKeeps
<1>4. ASSUME UNCHANGED <<state, ping, reconnectAttempt>>, TableInv(Table)',
             flow' \in [Flow -> FlowRecord], subscriptions' \subseteq SubType
      PROVE  Keeps
  BY <1>1, <1>4 DEF Keeps, Others, schemaVars
<1>5. CASE HandshakeDone(n)
  <2>1. TableInv(Table)' /\ subscriptions' = subscriptions
    BY <1>3, <1>5 DEF HandshakeDone
  <2>2. PICK f \in Flow :
          \/ /\ state' = "READY" /\ ping' = TRUE /\ reconnectAttempt' = 0
             /\ flow' = [flow EXCEPT ![f] = AfterConnect(f)]
          \/ /\ flow' = [flow EXCEPT ![f].pc = "failing"]
             /\ UNCHANGED <<state, ping, reconnectAttempt>>
    BY <1>5 DEF HandshakeDone
  <2>3. CASE flow' = [flow EXCEPT ![f].pc = "failing"]
             /\ UNCHANGED <<state, ping, reconnectAttempt>>
    <3>1. flow' \in [Flow -> FlowRecord]
      BY <2>3, FlowMoves DEF Others, FlowPC
    <3> QED BY <1>4, <2>1, <2>3, <3>1 DEF Others
  <2>4. CASE /\ state' = "READY" /\ ping' = TRUE /\ reconnectAttempt' = 0
             /\ flow' = [flow EXCEPT ![f] = AfterConnect(f)]
    <3>1. AfterConnect(f) \in FlowRecord
      BY IdleTyped DEF AfterConnect, Others, FlowRecord, FlowPC
    <3>2. flow' \in [Flow -> FlowRecord]
      BY <2>4, <3>1 DEF Others
    <3> QED
      BY <1>1, <2>1, <2>4, <3>2, BoundsAssumption DEF Keeps, Others, schemaVars, ConnectionState
  <2> QED BY <2>2, <2>3, <2>4
<1>6. CASE SubscribeDone(n)
  <2>1. TableInv(Table)' /\ UNCHANGED <<state, ping, reconnectAttempt>>
    BY <1>3, <1>6 DEF SubscribeDone
  <2>2. PICK m \in Addressee(n) :
          /\ req[m].kind \in {"subscribe", "resubscribe"}
          /\ subscriptions' = subscriptions \cup {req[m].what}
          /\ flow' = [f \in Flow |-> IF req[m].waiter = {f}
                                     THEN [flow[f] EXCEPT !.pc = "nextSubscription"]
                                     ELSE flow[f]]
    BY <1>6 DEF SubscribeDone
  <2>3. subscriptions' \subseteq SubType
    BY <1>2, <2>2, WireTyped DEF HandleResponse, SubscriptionKind, Others
  <2>4. flow' \in [Flow -> FlowRecord]
    BY <2>2 DEF Others, FlowRecord, FlowPC
  <2> QED BY <1>4, <2>1, <2>3, <2>4
<1>7. CASE UnsubscribeDone(n)
  <2>1. /\ TableInv(Table)' /\ UNCHANGED <<state, ping, reconnectAttempt, flow>>
        /\ subscriptions' \subseteq subscriptions
    BY <1>3, <1>7 DEF UnsubscribeDone
  <2> QED BY <1>4, <2>1 DEF Others
<1>8. CASE SendDone(n)
  <2>1. UNCHANGED <<state, ping, reconnectAttempt, subscriptions, flow>>
    BY <1>8 DEF SendDone
  <2>2. TableInv(Table)'
    BY <1>2, <1>3, <1>8, NextPayloadKeeps DEF SendDone
  <2> QED BY <1>4, <2>1, <2>2 DEF Others
<1>9. CASE LateAnswer(n)
  <2>1. /\ TableInv(Table)'
        /\ UNCHANGED <<state, ping, reconnectAttempt, subscriptions, flow>>
    BY <1>3, <1>9 DEF LateAnswer
  <2> QED BY <1>4, <2>1 DEF Others
<1> QED
  BY <1>5, <1>6, <1>7, <1>8, <1>9 DEF HandleResponse

LEMMA HandleErrorResponseKeeps ==
  ASSUME Others, TableInv(Table), NEW n \in RequestNo, HandleErrorResponse(n)
  PROVE  Keeps
<1>1. UNCHANGED <<connVars, sockVars, subscriptions, schemaVars>>
  BY DEF HandleErrorResponse
<1>2. flow' \in [Flow -> FlowRecord]
  BY RejectingTyped DEF HandleErrorResponse, Others
<1>3. n \in 1..Len(req) /\ Become(Answered(n, "rejected"))
  BY DEF HandleErrorResponse, OnTheWire
<1>4. TableInv(Table)'
  BY <1>3, AnswerKeeps
<1> QED
  BY <1>1, <1>2, <1>4 DEF Keeps, Others, connVars, sockVars, schemaVars

LEMMA InitHolds == Init => IInv
<1> SUFFICES ASSUME Init PROVE Others /\ TableInv(Table)
  BY InvParts
<1>1. Others
  <2>1. flow \in [Flow -> FlowRecord]
    BY IdleTyped DEF Init
  <2>2. sock \in [SocketId -> [status : SockStatus, subs : SUBSET SubType]]
    BY DEF Init, SockStatus
  <2>3. reconnectAttempt \in 0..MaxReconnectAttempts /\ socket \in 0..MaxSockets
    BY BoundsAssumption DEF Init
  <2> QED BY <2>1, <2>2, <2>3 DEF Init, Others, ConnectionState
<1>2. /\ Table.log = <<>> /\ Table.lastId = 0 /\ Table.timers = {}
      /\ DOMAIN Table.filed = {} /\ Entries(Table) = {}
  BY DEF Init, Table, Entries
<1>3. TableTyped(Table)
  BY <1>2 DEF TableTyped, Table
<1>4. NamesType(Table) /\ IdsOwn(Table) /\ Guarded(Table) /\ AnsweredRight(Table)
  BY <1>2 DEF NamesType, IdsOwn, Guarded, AnsweredRight
<1>5. Bounded(Table)
  BY <1>2, FS_EmptySet, BoundsAssumption DEF Bounded
<1> QED
  BY <1>1, <1>3, <1>4, <1>5 DEF TableInv

LEMMA NextParts == Keeps => IInv'
  BY InvParts, PTL DEF Keeps

LEMMA StepKeeps == IInv /\ [Next]_vars => IInv'
<1> SUFFICES ASSUME Others, TableInv(Table), [Next]_vars PROVE Keeps
  BY InvParts, NextParts
<1>1. ASSUME NEW f \in Flow,
             \/ Connect(f) \/ (\E ok \in BOOLEAN : SchemaLoaded(f, ok)) \/ OpenSocket(f)
             \/ ConnectTimeout(f) \/ FlowFails(f) \/ WakeUp(f) \/ Resubscribe(f)
      PROVE  Keeps
  BY <1>1, ConnectKeeps, SchemaLoadedKeeps, OpenSocketKeeps, TimeoutsKeep, FlowFailsKeeps,
     ResubscribeKeeps
<1>2. CASE ClearCache
  BY <1>2, SameTableKeeps DEF ClearCache, Keeps, Others, connVars, sockVars
<1>3. CASE Disconnect \/ PingFires
  BY <1>3, DisconnectKeeps, PingKeeps
<1>4. ASSUME NEW s \in SocketId, SocketOpens(s) \/ SocketFails(s) \/ HandleClose(s)
      PROVE  Keeps
  BY <1>4, SocketOpensKeeps, SocketFailsKeeps, HandleCloseKeeps
<1>5. CASE \/ \E t \in SubType : Subscribe(t) \/ Unsubscribe(t)
           \/ \E more \in {0, 1} : Send(more)
  BY <1>5, UserRequestKeeps
<1>6. ASSUME NEW n \in RequestNo,
             RequestTimeout(n) \/ HandleResponse(n) \/ HandleErrorResponse(n)
      PROVE  Keeps
  BY <1>6, RequestTimeoutKeeps, HandleResponseKeeps, HandleErrorResponseKeeps
<1>7. CASE UNCHANGED vars
  BY <1>7, SameTableKeeps DEF vars, Keeps, Others, connVars, sockVars, schemaVars
<1> QED
  BY <1>1, <1>2, <1>3, <1>4, <1>5, <1>6, <1>7 DEF Next

THEOREM Invariance == Spec => []IInv
<1> QED
  BY InitHolds, StepKeeps, PTL DEF Spec

\* The state of the WebSocket client has its type: attempts stay within their
\* limit, and what is filed has been issued.
THEOREM TypeCorrect == Spec => []TypeOK
<1>1. IInv => TypeOK
  BY DEF IInv
<1> QED
  BY <1>1, Invariance, PTL

\* A request that is open is filed under its own id and its timer runs, through
\* any number of drops, late answers, clean-ups and reconnections.
THEOREM NoRequestHangs == Spec => []UnsettledIsGuarded
<1>1. IInv => UnsettledIsGuarded
  BY TableFields DEF IInv, TableInv, Guarded, UnsettledIsGuarded
<1> QED
  BY <1>1, Invariance, PTL

\* maxPendingRequests holds whoever issues requests, batches and resubscribe()
\* from within answers included.
THEOREM PendingIsBounded == Spec => []PendingBounded
<1>1. IInv => PendingBounded
  BY TableFields DEF IInv, TableInv, Bounded, PendingBounded
<1> QED
  BY <1>1, Invariance, PTL

\* An answer settles the request it was given to, and no other.
THEOREM AnswersOwn == Spec => []RightAnswer
<1>1. IInv => RightAnswer
  BY TableFields DEF IInv, TableInv, AnsweredRight, RightAnswer
<1> QED
  BY <1>1, Invariance, PTL

-----------------------------------------------------------------------------
(* The client implements RequestLedger: what senders see of a table is its *)
(* view; each operator on tables does to the view what an action of the    *)
(* ledger does, or nothing.                                                *)

View(T) == [n \in 1..Len(T.log) |-> [status |-> T.log[n].status, by |-> T.log[n].by]]

LedgerEntry == [status : {"unsettled", "resolved", "rejected"}, by : 0..MaxRequests]

LEMMA ViewTyped ==
  ASSUME NEW T, TableInv(T)
  PROVE  /\ View(T) \in Seq(LedgerEntry) /\ Len(View(T)) = Len(T.log)
         /\ \A n \in Entries(T) : /\ View(T)[n].status = T.log[n].status
                                  /\ View(T)[n].by = T.log[n].by
                                  /\ View(T)[n] = [status |-> T.log[n].status,
                                                   by |-> T.log[n].by]
<1>1. Len(T.log) \in Nat /\ T.log \in Seq(Request)
  BY DEF TableInv, TableTyped
<1>2. \A n \in 1..Len(T.log) :
        [status |-> T.log[n].status, by |-> T.log[n].by] \in LedgerEntry
  <2> SUFFICES ASSUME NEW n \in 1..Len(T.log)
               PROVE  [status |-> T.log[n].status, by |-> T.log[n].by] \in LedgerEntry
    OBVIOUS
  <2>1. T.log[n] \in Request
    BY <1>1, ElementOfSeq
  <2> QED BY <2>1 DEF LedgerEntry, Request
<1>3. View(T) \in [1..Len(T.log) -> LedgerEntry]
  BY <1>2 DEF View
<1>4. View(T) \in Seq(LedgerEntry) /\ Len(View(T)) = Len(T.log)
  <2> HIDE DEF View
  <2> QED BY <1>1, <1>3
<1> QED
  BY <1>4 DEF View, Entries

\* The requests that wait are filed under different ids.
LEMMA WaitingFit ==
  ASSUME NEW T, TableInv(T), HasRoom(T)
  PROVE  Cardinality(Ledger!WaitingIn(View(T))) < MaxPending
<1> DEFINE waiting == Ledger!WaitingIn(View(T))
           id == [n \in waiting |-> T.log[n].id]
<1>1. \A n \in waiting : n \in Entries(T) /\ T.log[n].status = "unsettled"
  BY ViewTyped DEF Ledger!WaitingIn, Entries
<1> HIDE DEF waiting
<1>2. id \in [waiting -> DOMAIN T.filed]
  BY <1>1 DEF TableInv, Guarded
<1>3. \A n, m \in waiting : id[n] = id[m] => n = m
  BY <1>1 DEF TableInv, IdsOwn
<1>4. id \in Injection(waiting, DOMAIN T.filed)
  <2> HIDE DEF id
  <2> QED BY <1>2, <1>3 DEF Injection, IsInjective
<1>5. IsFiniteSet(DOMAIN T.filed)
  BY DEF TableInv, Bounded
<1>6. IsFiniteSet(waiting) /\ Cardinality(waiting) <= Cardinality(DOMAIN T.filed)
  <2> HIDE DEF id
  <2> QED BY <1>4, <1>5, FS_Injection
<1>7. Cardinality(waiting) \in Nat /\ Cardinality(DOMAIN T.filed) \in Nat
  BY <1>5, <1>6, FS_CardinalityType
<1> QED
  BY <1>6, <1>7, BoundsAssumption DEF waiting, HasRoom

\* The ledger counts as this module does.
LEMMA SameCardinality ==
  ASSUME NEW S
  PROVE  Ledger!Cardinality(S) = Cardinality(S)
  BY DEF Ledger!Cardinality, Cardinality

\* nextRequestId() and sendRequest() issue a request.
LEMMA SendIssues ==
  ASSUME NEW T, TableInv(T), NEW sk, socket \in 0..MaxSockets,
         NEW kind, NEW what, NEW waiter, WellAsked(kind, what, waiter),
         NEW U, U = SendRequest(T, sk, kind, what, waiter)
  PROVE  Ledger!Issued(View(T), View(U))
<1>1. /\ TableInv(U) /\ Len(U.log) = Len(T.log) + 1
      /\ \A n \in Entries(T) : U.log[n] = T.log[n]
      /\ U.log[Len(U.log)].by = 0
      /\ \/ U.log[Len(U.log)].status = "rejected"
         \/ U.log[Len(U.log)].status = "unsettled" /\ HasRoom(T)
  BY SendKeeps
<1>2. PICK v, w : v = View(T) /\ w = View(U)
  OBVIOUS
<1>3. PICK e : e = [status |-> U.log[Len(U.log)].status, by |-> 0]
  OBVIOUS
<1>4. /\ v \in Seq(LedgerEntry) /\ w \in Seq(LedgerEntry)
      /\ Len(v) = Len(T.log) /\ Len(w) = Len(v) + 1
  BY <1>1, <1>2, ViewTyped
<1>5. \A n \in 1..Len(v) : w[n] = v[n]
  <2>1. \A n \in Entries(T) : n \in Entries(U) /\ U.log[n] = T.log[n]
    BY <1>1, <1>4 DEF Entries
  <2>2. \A n \in Entries(T) : v[n] = [status |-> T.log[n].status, by |-> T.log[n].by]
    BY <1>2, ViewTyped
  <2>3. \A n \in Entries(U) : w[n] = [status |-> U.log[n].status, by |-> U.log[n].by]
    BY <1>1, <1>2, ViewTyped
  <2> QED BY <2>1, <2>2, <2>3, <1>4 DEF Entries
<1>6. w[Len(v) + 1] = e /\ e \in LedgerEntry
  <2>1. Len(v) + 1 \in Entries(U) /\ Len(v) + 1 = Len(U.log)
    BY <1>1, <1>4 DEF Entries
  <2>2. w[Len(v) + 1] = e
    BY <2>1, <1>1, <1>2, <1>3, ViewTyped
  <2> QED BY <2>1, <2>2, <1>4
<1>7. w = Append(v, e)
  BY <1>4, <1>5, <1>6
<1>8. CASE U.log[Len(U.log)].status = "rejected"
  <2>1. e = Ledger!Refused
    BY <1>3, <1>8 DEF Ledger!Refused
  <2> QED BY <1>2, <1>7, <2>1 DEF Ledger!Issued
<1>9. CASE U.log[Len(U.log)].status = "unsettled" /\ HasRoom(T)
  <2>1. e = Ledger!Waiting
    BY <1>3, <1>9 DEF Ledger!Waiting
  <2>2. Cardinality(Ledger!WaitingIn(View(T))) < MaxPending
    BY <1>9, WaitingFit
  <2>3. Cardinality(Ledger!WaitingIn(v)) < MaxPending
    BY <1>2, <2>2
  <2>4. w = Append(v, Ledger!Waiting)
    BY <1>7, <2>1
  <2>5. Ledger!Issued(v, w)
    BY <2>3, <2>4, SameCardinality, Zenon DEF Ledger!Issued
  <2> QED BY <1>2, <2>5
<1> QED
  BY <1>1, <1>8, <1>9

\* Requests are given up.
LEMMA RejectionGivesUp ==
  ASSUME NEW T, TableInv(T), NEW S, TableInv(S), NEW ns, Settles(T, S, ns, "rejected", 0)
  PROVE  \E given \in SUBSET Ledger!WaitingIn(View(T)) :
           View(S) = [n \in 1..Len(View(T)) |->
                        IF n \in given THEN Ledger!Refused ELSE View(T)[n]]
<1> DEFINE given == {n \in ns : n \in Entries(T) /\ T.log[n].status = "unsettled"}
<1>1. Len(View(T)) = Len(T.log) /\ Len(S.log) = Len(T.log)
  BY ViewTyped DEF Settles
<1>2. given \in SUBSET Ledger!WaitingIn(View(T))
  BY <1>1, ViewTyped DEF Ledger!WaitingIn, Entries
<1>3. ASSUME NEW n \in 1..Len(T.log)
      PROVE  [status |-> S.log[n].status, by |-> S.log[n].by] =
             IF n \in given THEN Ledger!Refused ELSE View(T)[n]
  <2>1. n \in Entries(T)
    BY DEF Entries
  <2>2. View(T)[n] = [status |-> T.log[n].status, by |-> T.log[n].by]
    BY <2>1, ViewTyped
  <2> QED BY <2>1, <2>2 DEF Settles, Ledger!Refused
<1> HIDE DEF given
<1>4. View(S) = [n \in 1..Len(View(T)) |->
                   IF n \in given THEN Ledger!Refused ELSE View(T)[n]]
  BY <1>1, <1>3 DEF View
<1> QED
  BY <1>2, <1>4

\* Request n is answered, or has been given up before.
LEMMA AnswerAnswers ==
  ASSUME NEW T, TableInv(T), NEW S, TableInv(S), NEW n \in Entries(T), NEW ns,
         ns \subseteq {n}, NEW status \in {"resolved", "rejected"},
         Settles(T, S, ns, status, n)
  PROVE  \/ View(S) = View(T)
         \/ /\ n \in Ledger!WaitingIn(View(T))
            /\ \E entry \in {Ledger!ResolvedBy(n), [Ledger!Refused EXCEPT !.by = n]} :
                 View(S) = [View(T) EXCEPT ![n] = entry]
<1>1. Len(View(T)) = Len(T.log) /\ Len(S.log) = Len(T.log)
  BY ViewTyped DEF Settles
<1>2. \A m \in 1..Len(T.log) :
        m \in Entries(T) /\ View(T)[m] = [status |-> T.log[m].status, by |-> T.log[m].by]
  BY ViewTyped DEF Entries
<1>3. CASE n \in ns /\ T.log[n].status = "unsettled"
  <2>1. n \in Ledger!WaitingIn(View(T))
    <3>1. n \in 1..Len(View(T))
      BY <1>1 DEF Entries
    <3>2. View(T)[n].status = "unsettled"
      BY <1>3, ViewTyped
    <3> QED BY <3>1, <3>2 DEF Ledger!WaitingIn
  <2>2. PICK entry : entry = [status |-> status, by |-> n]
    OBVIOUS
  <2>3. entry \in {Ledger!ResolvedBy(n), [Ledger!Refused EXCEPT !.by = n]}
    BY <2>2 DEF Ledger!ResolvedBy, Ledger!Refused
  <2>4. \A m \in 1..Len(T.log) : [status |-> S.log[m].status, by |-> S.log[m].by] =
                                 IF m = n THEN entry ELSE View(T)[m]
    BY <1>2, <1>3, <2>2 DEF Settles
  <2>5. View(S) = [m \in 1..Len(T.log) |-> IF m = n THEN entry ELSE View(T)[m]]
    BY <1>1, <2>4 DEF View
  <2>6. View(S) = [View(T) EXCEPT ![n] = entry]
    <3>1. View(T) = [m \in 1..Len(T.log) |-> View(T)[m]]
      BY DEF View
    <3>2. PICK v : v = View(T)
      OBVIOUS
    <3>3. [v EXCEPT ![n] = entry] = [m \in 1..Len(T.log) |-> IF m = n THEN entry ELSE v[m]]
      BY <3>1, <3>2
    <3> QED BY <2>5, <3>2, <3>3
  <2> QED BY <2>1, <2>3, <2>6
<1>4. CASE ~(n \in ns /\ T.log[n].status = "unsettled")
  <2>1. \A m \in 1..Len(T.log) : /\ S.log[m].status = T.log[m].status
                                 /\ S.log[m].by = T.log[m].by
    BY <1>2, <1>4 DEF Settles
  <2> QED BY <2>1, <1>1 DEF View
<1> QED
  BY <1>3, <1>4

-----------------------------------------------------------------------------
(* The steps                                                               *)

LEMMA LedgerIsView ==
  /\ [n \in 1..Len(req) |-> [status |-> req[n].status, by |-> req[n].by]] = View(Table)
  /\ [n \in 1..Len(req') |-> [status |-> req'[n].status, by |-> req'[n].by]] = View(Table')
  BY DEF View, Table

\* A step of the client, as a step from one view to another.
Moves(v, w) ==
  \/ w = v
  \/ Ledger!Issued(v, w)
  \/ \E n \in Ledger!WaitingIn(v) :
       \E entry \in {Ledger!ResolvedBy(n), [Ledger!Refused EXCEPT !.by = n]} :
         LET answered == [v EXCEPT ![n] = entry]
         IN w = answered \/ Ledger!Issued(answered, w)
  \/ \E given \in SUBSET Ledger!WaitingIn(v) :
       w = [n \in 1..Len(v) |-> IF n \in given THEN Ledger!Refused ELSE v[n]]

LEMMA BecomeView ==
  ASSUME NEW T, TableInv(T), Become(T)
  PROVE  View(Table') = View(T)
  BY DEF Become, View, Table

LEMMA SameView ==
  ASSUME req' = req
  PROVE  Moves(View(Table), View(Table'))
  BY DEF View, Table, Moves

LEMMA SendMoves ==
  ASSUME Others, TableInv(Table), NEW sk, NEW kind, NEW what, NEW waiter,
         WellAsked(kind, what, waiter), Become(SendRequest(Table, sk, kind, what, waiter))
  PROVE  Moves(View(Table), View(Table'))
<1>1. PICK U : U = SendRequest(Table, sk, kind, what, waiter)
  OBVIOUS
<1>2. socket \in 0..MaxSockets
  BY DEF Others
<1>3. TableInv(U) /\ Ledger!Issued(View(Table), View(U))
  BY <1>1, <1>2, SendKeeps, SendIssues
<1>4. View(Table') = View(U)
  BY <1>1, <1>3, BecomeView
<1> QED
  BY <1>3, <1>4 DEF Moves

LEMMA RejectionMoves ==
  ASSUME TableInv(Table), NEW T, TableInv(T), Become(T), NEW ns,
         Settles(Table, T, ns, "rejected", 0)
  PROVE  Moves(View(Table), View(Table'))
<1>1. View(Table') = View(T)
  BY BecomeView
<1>2. PICK v, w : v = View(Table) /\ w = View(T)
  OBVIOUS
<1>3. \E given \in SUBSET Ledger!WaitingIn(v) :
        w = [n \in 1..Len(v) |-> IF n \in given THEN Ledger!Refused ELSE v[n]]
  <2>1. \E given \in SUBSET Ledger!WaitingIn(View(Table)) :
          View(T) = [n \in 1..Len(View(Table)) |->
                       IF n \in given THEN Ledger!Refused ELSE View(Table)[n]]
    BY RejectionGivesUp, Zenon
  <2> QED BY <1>2, <2>1, Zenon
<1>4. Moves(v, w)
  BY <1>3, Zenon DEF Moves
<1> QED
  BY <1>1, <1>2, <1>4

LEMMA CleanupMoves ==
  ASSUME TableInv(Table), Become(CleanupPendingRequests(Table))
  PROVE  Moves(View(Table), View(Table'))
<1>1. PICK T : T = CleanupPendingRequests(Table)
  OBVIOUS
<1>2. TableInv(T) /\ \E ns : Settles(Table, T, ns, "rejected", 0)
  BY <1>1, CleanupKeeps
<1> QED
  BY <1>1, <1>2, RejectionMoves

LEMMA AnswerMoves ==
  ASSUME TableInv(Table), NEW n \in RequestNo, n \in 1..Len(req),
         NEW status \in {"resolved", "rejected"}, Become(Answered(n, status))
  PROVE  Moves(View(Table), View(Table'))
<1>1. PICK T : T = Answered(n, status)
  OBVIOUS
<1>2. TableInv(T) /\ Settles(Table, T, Addressee(n), status, n)
  BY <1>1, AnsweredKeeps
<1>3. n \in Entries(Table) /\ Addressee(n) \subseteq {n}
  BY TableFields, AddresseeIsAsked
<1>4. \/ View(T) = View(Table)
      \/ /\ n \in Ledger!WaitingIn(View(Table))
         /\ \E entry \in {Ledger!ResolvedBy(n), [Ledger!Refused EXCEPT !.by = n]} :
              View(T) = [View(Table) EXCEPT ![n] = entry]
  BY <1>2, <1>3, AnswerAnswers
<1>5. View(Table') = View(T)
  BY <1>1, <1>2, BecomeView
<1> QED
  BY <1>4, <1>5 DEF Moves

LEMMA NextPayloadMoves ==
  ASSUME Others, TableInv(Table), NEW n \in RequestNo, n \in 1..Len(req),
         Become(SendRequest(Answered(n, "resolved"), sock, "call", 0, {}))
  PROVE  Moves(View(Table), View(Table'))
<1>1. PICK T : T = Answered(n, "resolved")
  OBVIOUS
<1>2. TableInv(T) /\ Settles(Table, T, Addressee(n), "resolved", n)
  BY <1>1, AnsweredKeeps
<1>3. n \in Entries(Table) /\ Addressee(n) \subseteq {n}
  BY TableFields, AddresseeIsAsked
<1>4. \/ View(T) = View(Table)
      \/ /\ n \in Ledger!WaitingIn(View(Table))
         /\ \E entry \in {Ledger!ResolvedBy(n), [Ledger!Refused EXCEPT !.by = n]} :
              View(T) = [View(Table) EXCEPT ![n] = entry]
  <2>1. PICK status \in {"resolved", "rejected"} : status = "resolved"
    OBVIOUS
  <2>2. Settles(Table, T, Addressee(n), status, n)
    BY <1>2, <2>1
  <2> QED BY <1>2, <1>3, <2>2, AnswerAnswers
<1>5. PICK U : U = SendRequest(T, sock, "call", 0, {})
  OBVIOUS
<1>6. WellAsked("call", 0, {}) /\ socket \in 0..MaxSockets
  BY DEF WellAsked, Others, RequestKind, SubscriptionKind
<1>7. TableInv(U) /\ Ledger!Issued(View(T), View(U))
  BY <1>2, <1>5, <1>6, SendKeeps, SendIssues
<1>8. View(Table') = View(U)
  BY <1>1, <1>5, <1>7, BecomeView
<1> QED
  BY <1>4, <1>7, <1>8 DEF Moves

\* Every step moves the view as the ledger may move, or not at all.
LEMMA StepMoves ==
  ASSUME Others, TableInv(Table), [Next]_vars
  PROVE  Moves(View(Table), View(Table'))
<1>1. ASSUME NEW f \in Flow,
             \/ Connect(f) \/ (\E ok \in BOOLEAN : SchemaLoaded(f, ok)) \/ OpenSocket(f)
             \/ ConnectTimeout(f) \/ FlowFails(f) \/ WakeUp(f)
      PROVE  Moves(View(Table), View(Table'))
  BY <1>1, SameView DEF Connect, SchemaLoaded, OpenSocket, ConnectTimeout, FlowFails, WakeUp,
                        reqVars
<1>2. ASSUME NEW f \in Flow, Resubscribe(f)
      PROVE  Moves(View(Table), View(Table'))
  <2>1. CASE UNCHANGED reqVars
    BY <2>1, SameView DEF reqVars
  <2>2. CASE ~UNCHANGED reqVars
    <3>1. PICK todo : todo = IF flow[f].pc = "connected" THEN subscriptions ELSE flow[f].todo
      OBVIOUS
    <3>2. PICK t \in todo : Become(SendRequest(Table, sock, "resubscribe", t, {f}))
      BY <1>2, <2>2, <3>1 DEF Resubscribe
    <3>3. todo \subseteq SubType
      BY <3>1 DEF Others, FlowRecord
    <3>4. WellAsked("resubscribe", t, {f})
      BY <3>3 DEF WellAsked, RequestKind
    <3> QED BY <3>2, <3>4, SendMoves
  <2> QED BY <2>1, <2>2
<1>3. CASE Disconnect
  BY <1>3, CleanupMoves DEF Disconnect
<1>4. CASE ClearCache \/ PingFires \/ UNCHANGED vars
  BY <1>4, SameView DEF ClearCache, PingFires, vars, reqVars
<1>5. ASSUME NEW s \in SocketId, SocketOpens(s)
      PROVE  Moves(View(Table), View(Table'))
  <2>1. CASE UNCHANGED reqVars
    BY <2>1, SameView DEF reqVars
  <2>2. CASE ~UNCHANGED reqVars
    <3>0. PICK sk : sk = [sock EXCEPT ![s].status = "open"]
      OBVIOUS
    <3>1. PICK f \in Flow : Become(SendRequest(Table, sk, "handshake", 0, {f}))
      BY <1>5, <2>2, <3>0 DEF SocketOpens
    <3>2. WellAsked("handshake", 0, {f})
      BY DEF WellAsked, RequestKind, SubscriptionKind
    <3> QED BY <3>1, <3>2, SendMoves
  <2> QED BY <2>1, <2>2
<1>6. ASSUME NEW s \in SocketId, SocketFails(s) \/ HandleClose(s)
      PROVE  Moves(View(Table), View(Table'))
  BY <1>6, SameView, CleanupMoves DEF SocketFails, HandleClose, reqVars
<1>7. ASSUME NEW kind, NEW what, WellAsked(kind, what, {}), UserRequest(kind, what)
      PROVE  Moves(View(Table), View(Table'))
  BY <1>7, SendMoves DEF UserRequest
<1>8. ASSUME \/ \E t \in SubType : Subscribe(t) \/ Unsubscribe(t)
             \/ \E more \in {0, 1} : Send(more)
      PROVE  Moves(View(Table), View(Table'))
  <2>1. \A t \in SubType : WellAsked("subscribe", t, {}) /\ WellAsked("unsubscribe", t, {})
    BY DEF WellAsked, RequestKind
  <2>2. \A more \in {0, 1} : WellAsked("call", more, {})
    BY DEF WellAsked, RequestKind, SubscriptionKind
  <2> QED BY <1>7, <1>8, <2>1, <2>2 DEF Subscribe, Unsubscribe, Send
<1>9. ASSUME NEW n \in RequestNo, RequestTimeout(n)
      PROVE  Moves(View(Table), View(Table'))
  <2>1. n \in Entries(Table)
    BY <1>9, TableFields DEF RequestTimeout, TableInv, TableTyped
  <2>2. PICK T : T = [Settle(Table, {n}, "rejected", 0) EXCEPT
                        !.filed = Unfile(@, req[n].id), !.timers = @ \ {n}]
    OBVIOUS
  <2>3. TableInv(T) /\ Settles(Table, T, {n}, "rejected", 0)
    BY <2>1, <2>2, TimeoutKeeps, TableFields
  <2>4. Become(T)
    BY <1>9, <2>2 DEF RequestTimeout
  <2> QED BY <2>3, <2>4, RejectionMoves
<1>10. ASSUME NEW n \in RequestNo, HandleResponse(n)
       PROVE  Moves(View(Table), View(Table'))
  <2>1. n \in 1..Len(req)
    BY <1>10 DEF HandleResponse, OnTheWire
  <2>2. \/ Become(Answered(n, "resolved"))
        \/ Become(SendRequest(Answered(n, "resolved"), sock, "call", 0, {}))
    BY <1>10 DEF HandleResponse, HandshakeDone, SubscribeDone, UnsubscribeDone, SendDone,
                 LateAnswer
  <2> QED BY <2>1, <2>2, AnswerMoves, NextPayloadMoves
<1>11. ASSUME NEW n \in RequestNo, HandleErrorResponse(n)
       PROVE  Moves(View(Table), View(Table'))
  <2>1. n \in 1..Len(req) /\ Become(Answered(n, "rejected"))
    BY <1>11 DEF HandleErrorResponse, OnTheWire
  <2> QED BY <2>1, AnswerMoves
<1> QED
  BY <1>1, <1>2, <1>3, <1>4, <1>5, <1>6, <1>8, <1>9, <1>10, <1>11 DEF Next

LEMMA StepRefines ==
  ASSUME IInv, [Next]_vars
  PROVE  [Ledger!Next]_([n \in 1..Len(req) |->
                           [status |-> req[n].status, by |-> req[n].by]])
<1>1. Moves(View(Table), View(Table'))
  BY InvParts, StepMoves
<1>2. PICK v, w : v = View(Table) /\ w = View(Table')
  OBVIOUS
<1> DEFINE ledger == [n \in 1..Len(req) |-> [status |-> req[n].status, by |-> req[n].by]]
<1>3. ledger = v /\ ledger' = w
  BY <1>2, LedgerIsView, Zenon
<1>4. CASE w = v
  BY <1>3, <1>4
<1>5. CASE Ledger!Issued(v, w)
  <2>1. Ledger!Issue
    BY <1>3, <1>5, Zenon DEF Ledger!Issue
  <2> QED BY <2>1 DEF Ledger!Next
<1>6. ASSUME NEW n \in Ledger!WaitingIn(v),
             NEW entry \in {Ledger!ResolvedBy(n), [Ledger!Refused EXCEPT !.by = n]},
             w = [v EXCEPT ![n] = entry] \/ Ledger!Issued([v EXCEPT ![n] = entry], w)
      PROVE  Ledger!Next
  <2>1. Ledger!Answer(n)
    BY <1>3, <1>6, Zenon DEF Ledger!Answer
  <2>2. n \in Ledger!WaitingIn(ledger)
    BY <1>3, Zenon
  <2> QED BY <2>1, <2>2, Zenon DEF Ledger!Next
<1>7. ASSUME NEW given \in SUBSET Ledger!WaitingIn(v),
             w = [n \in 1..Len(v) |-> IF n \in given THEN Ledger!Refused ELSE v[n]]
      PROVE  Ledger!Next
  <2>1. Ledger!GiveUp(given)
    BY <1>3, <1>7, Zenon DEF Ledger!GiveUp
  <2>2. given \in SUBSET Ledger!WaitingIn(ledger)
    BY <1>3, Zenon
  <2> QED BY <2>1, <2>2, Zenon DEF Ledger!Next
<1>8. Moves(v, w)
  BY <1>1, <1>2
<1> QED
  BY <1>4, <1>5, <1>6, <1>7, <1>8, Zenon DEF Moves

\* Those who send requests through the WebSocket client see what RequestLedger
\* promises: a request settles once, by its own answer or with an error, and no
\* more than maxPendingRequests wait at a time.
THEOREM ClientImplementsLedger == Spec => ImplementsLedger
<1>1. Init => Ledger!Init
  BY DEF Init, Ledger!Init
<1>2. IInv /\ [Next]_vars =>
        [Ledger!Next]_([n \in 1..Len(req) |-> [status |-> req[n].status, by |-> req[n].by]])
  BY StepRefines
<1> QED
  BY <1>1, <1>2, Invariance, PTL DEF Spec, ImplementsLedger, Ledger!Spec

(***************************************************************************)
(* The connection: what the client keeps when nothing but the network's    *)
(* drops and the server's refusals disturbs it, for any number of          *)
(* connections, connect() and reconnect() activities, subscription types   *)
(* and requests.  It has one connection, READY means that it can be used,  *)
(* and the handlers it keeps are fed.  The assumption Calm says what this  *)
(* takes.                                                                  *)
(***************************************************************************)

\* No timer fires early, no socket fails to open, no handshake is refused, the table of
\* requests is never full, and the user neither disconnects nor clears the cache, nor calls
\* connect() from within the client's own callbacks.
Calm ==
  /\ ~SocketsMayFail /\ ~NetworkMayStall /\ "handshake" \notin Refusable
  /\ MaxRequests <= MaxPending
  /\ ~UserMayDisconnect /\ ~UserMayClearCache /\ UserConnects # "anytime"

-----------------------------------------------------------------------------
(* The invariant                                                           *)

Dead == \A s \in SocketId : ~Live(s)

\* A flow that is on its way to a connection; there is one at most.
OnItsWay(f) ==
  flow[f].pc \in {"sleeping", "schema", "loaded", "opening", "handshaking", "failing"}

\* Request n is one that flow f awaits.
AwaitedBy(rq, n, f) == rq[n].status = "unsettled" /\ rq[n].waiter = {f}

\* Where flow f stands tells the state of the client, and of its sockets.
Stands(f) ==
  /\ flow[f].pc = "sleeping" => state = "RECONNECTING" /\ Dead
  /\ flow[f].pc \in {"schema", "loaded"} => state = "CONNECTING" /\ Dead
  /\ flow[f].pc = "opening" => /\ state = "CONNECTING" /\ schema
                               /\ flow[f].sock = socket /\ socket \in SocketId
                               /\ sock[socket].status = "connecting"
  /\ flow[f].pc = "handshaking" => /\ state = "HANDSHAKING" /\ schema /\ CanSend(sock)
                                   /\ \E n \in 1..Len(req) : AwaitedBy(req, n, f)
  /\ flow[f].pc = "failing" => state \in {"CONNECTING", "DISCONNECTED"} /\ Dead

Standing ==
  /\ \A f \in Flow : Stands(f)
  /\ \A f, g \in Flow : OnItsWay(f) /\ OnItsWay(g) => f = g

\* What is open is what this.socket refers to, and somebody waits for it to open.
Sockets ==
  /\ \A s \in SocketId :
       /\ sock[s].status \in {"unused", "connecting", "open", "closed"}
       /\ Live(s) => s = socket
       /\ sock[s].status = "connecting" =>
            \E f \in Flow : flow[f].pc = "opening" /\ flow[f].sock = s
  /\ state # "CONNECTED"
  /\ state \in {"DISCONNECTED", "RECONNECTING"} => Dead
  /\ state = "READY" => CanSend(sock) /\ schema /\ ping

\* Request n can still be answered.
Reachable(rq, sk, n) == rq[n].sock # 0 /\ sk[rq[n].sock].status = "open"

\* The flow that awaits a request, and how.
Awaiting(kind) == IF kind = "handshake" THEN "handshaking" ELSE "resubscribing"

\* Nothing that can be answered was given up; before the client is READY there is only the
\* handshake, and calls of batches begun earlier; and who awaits a request does so of one.
Asking(rq, sk, st, fl) ==
  /\ \A n \in 1..Len(rq) :
       /\ rq[n].sock # 0 => rq[n].sock \in SocketId /\ sk[rq[n].sock].status \in {"open", "closed"}
       /\ Reachable(rq, sk, n) =>
            rq[n].status = "unsettled" /\ (st = "READY" \/ rq[n].kind \in {"handshake", "call"})
       /\ \A f \in Flow : AwaitedBy(rq, n, f) => fl[f].pc = Awaiting(rq[n].kind)
  /\ \A n, m \in 1..Len(rq) : \A f \in Flow : AwaitedBy(rq, n, f) /\ AwaitedBy(rq, m, f) => n = m

CalmInv == Standing /\ Sockets /\ Asking(req, sock, state, flow)

-----------------------------------------------------------------------------
(* What becomes of the requests                                            *)

\* Waiting flows go on waiting.
WaitsOn(fl, fl2) ==
  \A f \in Flow : fl[f].pc \in {"handshaking", "resubscribing"} => fl2[f].pc = fl[f].pc

\* A socket that was open stays so or closes, and one that closed stays closed.
Closes(sk, sk2) ==
  \A s \in SocketId : /\ sk[s].status = "open" => sk2[s].status \in {"open", "closed"}
                      /\ sk[s].status = "closed" => sk2[s].status = "closed"

LEMMA SameAsking ==
  ASSUME NEW rq, NEW sk, NEW st, NEW fl, Asking(rq, sk, st, fl),
         NEW sk2, NEW st2, NEW fl2, Closes(sk, sk2), WaitsOn(fl, fl2),
         st = "READY" => st2 = "READY" \/ \A s \in SocketId : sk2[s].status # "open"
  PROVE  Asking(rq, sk2, st2, fl2)
  BY DEF Asking, Reachable, AwaitedBy, Closes, WaitsOn, Awaiting

\* A request is added: rq2 and fl2 are what comes of it.
Adds(rq, sk, st, fl, rq2, fl2) ==
  LET r == rq2[Len(rq) + 1]
  IN /\ Len(rq) \in Nat /\ Len(rq2) = Len(rq) + 1
     /\ \A n \in 1..Len(rq) : rq2[n] = rq[n]
     /\ r.sock # 0 => /\ r.sock \in SocketId /\ sk[r.sock].status = "open"
                      /\ r.status = "unsettled"
                      /\ st = "READY" \/ r.kind \in {"handshake", "call"}
     /\ WaitsOn(fl, fl2)
     /\ \A f \in Flow : r.status = "unsettled" /\ r.waiter = {f} =>
          /\ fl2[f].pc = Awaiting(r.kind)
          /\ fl[f].pc \notin {"handshaking", "resubscribing"}

LEMMA MoreAsking ==
  ASSUME NEW rq, NEW sk, NEW st, NEW fl, Asking(rq, sk, st, fl),
         NEW rq2, NEW fl2, Adds(rq, sk, st, fl, rq2, fl2)
  PROVE  Asking(rq2, sk, st, fl2)
<1>0. PICK r : r = rq2[Len(rq) + 1]
  OBVIOUS
<1>1. \A n \in 1..Len(rq2) : \/ n \in 1..Len(rq) /\ rq2[n] = rq[n]
                             \/ n = Len(rq) + 1 /\ rq2[n] = r
  BY <1>0 DEF Adds
<1>2. \A f \in Flow : \A n \in 1..Len(rq) : AwaitedBy(rq, n, f) =>
        /\ fl2[f].pc = Awaiting(rq[n].kind)
        /\ ~(r.status = "unsettled" /\ r.waiter = {f})
  BY <1>0 DEF Asking, Adds, WaitsOn, Awaiting
<1>3. ASSUME NEW n \in 1..Len(rq2)
      PROVE  /\ rq2[n].sock # 0 => /\ rq2[n].sock \in SocketId
                                   /\ sk[rq2[n].sock].status \in {"open", "closed"}
             /\ Reachable(rq2, sk, n) =>
                  /\ rq2[n].status = "unsettled"
                  /\ st = "READY" \/ rq2[n].kind \in {"handshake", "call"}
             /\ \A f \in Flow : AwaitedBy(rq2, n, f) => fl2[f].pc = Awaiting(rq2[n].kind)
  BY <1>0, <1>1, <1>2 DEF Asking, Adds, Reachable, AwaitedBy
<1>4. ASSUME NEW n \in 1..Len(rq2), NEW m \in 1..Len(rq2), NEW f \in Flow,
             AwaitedBy(rq2, n, f), AwaitedBy(rq2, m, f)
      PROVE  n = m
  BY <1>1, <1>2, <1>4 DEF Asking, AwaitedBy
<1> QED
  BY <1>3, <1>4 DEF Asking

\* Request n is answered, and nobody waits for it any more.
Answers(rq, sk, st, fl, n, rq2, sk2, st2, fl2) ==
  /\ n \in 1..Len(rq) /\ Len(rq2) = Len(rq)
  /\ \A m \in 1..Len(rq) \ {n} : rq2[m] = rq[m]
  /\ rq2[n].sock = 0 /\ rq2[n].status # "unsettled"
  /\ Closes(sk, sk2)
  /\ st = "READY" => st2 = "READY"
  /\ \A f \in Flow : fl[f].pc \in {"handshaking", "resubscribing"} =>
       fl2[f].pc = fl[f].pc \/ AwaitedBy(rq, n, f)

LEMMA OneAnswered ==
  ASSUME NEW rq, NEW sk, NEW st, NEW fl, Asking(rq, sk, st, fl),
         NEW n, NEW rq2, NEW sk2, NEW st2, NEW fl2,
         Answers(rq, sk, st, fl, n, rq2, sk2, st2, fl2)
  PROVE  Asking(rq2, sk2, st2, fl2)
<1> USE DEF Answers
<1>1. \A m \in 1..Len(rq) : \A f \in Flow : AwaitedBy(rq2, m, f) =>
        /\ m # n /\ AwaitedBy(rq, m, f) /\ ~AwaitedBy(rq, n, f)
        /\ fl2[f].pc = fl[f].pc
  BY DEF Asking, AwaitedBy, Awaiting
<1>2. ASSUME NEW m \in 1..Len(rq)
      PROVE  /\ rq2[m].sock # 0 => /\ rq2[m].sock \in SocketId
                                   /\ sk2[rq2[m].sock].status \in {"open", "closed"}
             /\ Reachable(rq2, sk2, m) =>
                  /\ rq2[m].status = "unsettled"
                  /\ st2 = "READY" \/ rq2[m].kind \in {"handshake", "call"}
             /\ \A f \in Flow : AwaitedBy(rq2, m, f) => fl2[f].pc = Awaiting(rq2[m].kind)
  BY <1>1 DEF Asking, Reachable, AwaitedBy, Closes
<1>3. \A m, k \in 1..Len(rq) : \A f \in Flow : AwaitedBy(rq2, m, f) /\ AwaitedBy(rq2, k, f) => m = k
  BY <1>1 DEF Asking
<1> QED
  BY <1>2, <1>3 DEF Asking

\* Every request is settled, and no socket is left.
LEMMA NoneAsked ==
  ASSUME NEW rq, NEW sk, NEW st, NEW fl, Asking(rq, sk, st, fl),
         NEW rq2, Len(rq2) = Len(rq),
         \A n \in 1..Len(rq) : rq2[n].status # "unsettled" /\ rq2[n].sock = rq[n].sock,
         NEW sk2, Closes(sk, sk2), \A s \in SocketId : sk2[s].status # "open", NEW st2, NEW fl2
  PROVE  Asking(rq2, sk2, st2, fl2)
  BY DEF Asking, Reachable, AwaitedBy, Closes

-----------------------------------------------------------------------------
(* What the operators on tables do to the requests                         *)

LEMMA SentLog ==
  ASSUME NEW T, TableInv(T), NEW sk, NEW kind, NEW what, NEW waiter,
         NEW U, U = SendRequest(T, sk, kind, what, waiter),
         NEW r, r = U.log[Len(T.log) + 1]
  PROVE  /\ Len(T.log) \in Nat /\ Len(U.log) = Len(T.log) + 1
         /\ \A n \in 1..Len(T.log) : U.log[n] = T.log[n]
         /\ r.kind = kind /\ r.what = what /\ r.waiter = waiter
         /\ r.sock # 0 => r.sock = socket /\ CanSend(sk) /\ r.status = "unsettled"
         /\ r.status = "unsettled" => r.sock = socket /\ CanSend(sk)
         /\ HasRoom(T) /\ CanSend(sk) => r.status = "unsettled"
<1> DEFINE sent == HasRoom(T) /\ CanSend(sk)
<1>1. PICK e : e = [id |-> NextRequestId(T), kind |-> kind, what |-> what, waiter |-> waiter,
                    sock |-> IF sent THEN socket ELSE 0,
                    status |-> IF sent THEN "unsettled" ELSE "rejected", by |-> 0]
  OBVIOUS
<1>2. U.log = Append(T.log, e)
  BY <1>1, Zenon DEF SendRequest
<1>3. T.log \in Seq(Request)
  BY DEF TableInv, TableTyped
<1>4. /\ Len(T.log) \in Nat /\ Len(U.log) = Len(T.log) + 1 /\ r = e
      /\ \A n \in 1..Len(T.log) : U.log[n] = T.log[n]
  BY <1>2, <1>3
<1>5. /\ e.kind = kind /\ e.what = what /\ e.waiter = waiter
      /\ e.sock = IF sent THEN socket ELSE 0
      /\ e.status = IF sent THEN "unsettled" ELSE "rejected"
  BY <1>1
<1>6. CASE sent
  BY <1>4, <1>5, <1>6
<1>7. CASE ~sent
  BY <1>4, <1>5, <1>7
<1> QED
  BY <1>6, <1>7

LEMMA SettledLog ==
  ASSUME NEW T, TableInv(T), NEW ns, NEW status, NEW by, NEW S, S = Settle(T, ns, status, by)
  PROVE  /\ Len(T.log) \in Nat /\ Len(S.log) = Len(T.log) /\ DOMAIN S.log = 1..Len(T.log)
         /\ \A n \in 1..Len(T.log) :
              /\ n \notin ns => S.log[n] = T.log[n]
              /\ T.log[n].status # "unsettled" => S.log[n] = T.log[n]
              /\ T.log[n].status = "unsettled" /\ n \in ns => S.log[n].status = status
              /\ S.log[n].sock = T.log[n].sock /\ DOMAIN S.log[n] = DOMAIN T.log[n]
<1>1. /\ T.log \in Seq(Request) /\ Len(T.log) \in Nat
      /\ T = [log |-> T.log, filed |-> T.filed, timers |-> T.timers, lastId |-> T.lastId]
  BY DEF TableInv, TableTyped
<1>2. S.log = [n \in 1..Len(T.log) |->
                 IF n \in ns /\ T.log[n].status = "unsettled"
                 THEN [T.log[n] EXCEPT !.status = status, !.by = by] ELSE T.log[n]]
  BY <1>1, Zenon DEF Settle
<1>3. Len(S.log) = Len(T.log) /\ DOMAIN S.log = 1..Len(T.log)
  <2>1. PICK k \in Nat : k = Len(T.log)
    BY <1>1
  <2>2. PICK g : g = S.log
    OBVIOUS
  <2>3. DOMAIN g = 1..k /\ g = [n \in 1..k |-> g[n]]
    BY <1>2, <2>1, <2>2
  <2>4. PICK R : \A n \in 1..k : g[n] \in R
    <3>1. \A n \in 1..k : g[n] \in {g[m] : m \in 1..k}
      OBVIOUS
    <3> QED
      BY <3>1
  <2>5. g \in Seq(R)
    BY <2>3, <2>4, SeqDef
  <2>6. Len(g) = k
    BY <2>1, <2>3, <2>5, LenProperties
  <2> QED
    BY <2>1, <2>2, <2>3, <2>6
<1>4. ASSUME NEW n \in 1..Len(T.log)
      PROVE  /\ n \notin ns => S.log[n] = T.log[n]
             /\ T.log[n].status # "unsettled" => S.log[n] = T.log[n]
             /\ T.log[n].status = "unsettled" /\ n \in ns => S.log[n].status = status
             /\ S.log[n].sock = T.log[n].sock /\ DOMAIN S.log[n] = DOMAIN T.log[n]
  <2>1. T.log[n] \in Request
    BY <1>1, ElementOfSeq
  <2>2. CASE n \in ns /\ T.log[n].status = "unsettled"
    <3>1. S.log[n] = [T.log[n] EXCEPT !.status = status, !.by = by]
      BY <1>2, <2>2
    <3>2. DOMAIN T.log[n] = {"id", "kind", "what", "waiter", "sock", "status", "by"}
      BY <2>1 DEF Request
    <3> QED
      BY <2>2, <3>1, <3>2
  <2>3. CASE ~(n \in ns /\ T.log[n].status = "unsettled")
    BY <1>2, <2>3
  <2> QED
    BY <2>2, <2>3
<1> QED
  BY <1>1, <1>3, <1>4

LEMMA AnsweredLog ==
  ASSUME TableInv(Table), NEW n \in 1..Len(req), NEW status \in {"resolved", "rejected"},
         req[n].status = "unsettled", NEW U, U = Answered(n, status)
  PROVE  /\ Len(U.log) = Len(req) /\ \A m \in 1..Len(req) \ {n} : U.log[m] = req[m]
         /\ U.log[n].sock = 0 /\ U.log[n].status = status
         /\ Addressee(n) = {n} /\ Len(req) \in Nat
<1>1. /\ Addressee(n) = {n}
  <2>1. req[n].id \in DOMAIN pendingRequests /\ pendingRequests[req[n].id] = n
    BY TableFields DEF TableInv, Guarded
  <2> QED
    BY <2>1 DEF Addressee
<1>2. PICK S : S = Settle(Table, Addressee(n), status, n)
  OBVIOUS
<1>3. /\ Len(req) \in Nat /\ Len(S.log) = Len(req) /\ DOMAIN S.log = 1..Len(req)
      /\ \A m \in 1..Len(req) \ {n} : S.log[m] = req[m]
      /\ S.log[n].status = status /\ DOMAIN S.log[n] = DOMAIN req[n]
  BY <1>1, <1>2, SettledLog, TableFields
<1>4. "sock" \in DOMAIN req[n] /\ "status" \in DOMAIN req[n]
  <2>1. req[n] \in Request
    BY TableFields, ElementOfSeq DEF TableInv, TableTyped
  <2> QED
    BY <2>1 DEF Request
<1>5. U.log = [S.log EXCEPT ![n].sock = 0]
  <2>1. PICK l, f, ts, last : S = [log |-> l, filed |-> f, timers |-> ts, lastId |-> last]
    BY <1>2, Zenon DEF Settle, Table
  <2>2. PICK L, F, M : /\ L = [l EXCEPT ![n].sock = 0] /\ F = Unfile(f, req[n].id)
                       /\ M = ts \ Addressee(n)
    OBVIOUS
  <2>3. U = [S EXCEPT !.log[n].sock = 0, !.filed = Unfile(@, req[n].id),
                      !.timers = @ \ Addressee(n)]
    BY <1>2 DEF Answered
  <2>4. U = [S EXCEPT !.log = L, !.filed = F, !.timers = M]
    BY <2>1, <2>2, <2>3
  <2> QED
    BY <2>1, <2>2, <2>4
<1>6. Len(U.log) = Len(req)
  BY <1>3, <1>5, AnsweredKeeps
<1> QED
  BY <1>1, <1>3, <1>4, <1>5, <1>6

LEMMA CleanedLog ==
  ASSUME NEW T, TableInv(T), NEW U, U = CleanupPendingRequests(T)
  PROVE  /\ Len(U.log) = Len(T.log)
         /\ \A n \in 1..Len(T.log) : U.log[n].status # "unsettled" /\ U.log[n].sock = T.log[n].sock
<1> DEFINE ns == {T.filed[id] : id \in DOMAIN T.filed}
<1>1. PICK S : S = Settle(T, ns, "rejected", 0)
  OBVIOUS
<1>2. U.log = S.log
  <2>1. PICK l, f, ts, last : S = [log |-> l, filed |-> f, timers |-> ts, lastId |-> last]
    BY <1>1, Zenon DEF Settle, TableInv, TableTyped
  <2>2. U = [S EXCEPT !.filed = [id \in {} |-> 0], !.timers = @ \ ns]
    BY <1>1 DEF CleanupPendingRequests
  <2> QED
    BY <2>1, <2>2
<1>3. \A n \in 1..Len(T.log) : T.log[n].status = "unsettled" => n \in ns
  BY DEF TableInv, Guarded, Entries
<1> HIDE DEF ns
<1> QED
  BY <1>1, <1>2, <1>3, SettledLog

\* The table is not full while requests may be issued, and few are.
LEMMA RoomLeft ==
  ASSUME TableInv(Table), MaxRequests <= MaxPending, MayIssue
  PROVE  HasRoom(Table)
<1> DEFINE D == DOMAIN pendingRequests
           N == 1..Len(req)
<1>1. Len(req) \in Nat
  BY TableFields DEF TableInv, TableTyped
<1>2. \A id \in D : pendingRequests[id] \in N
  BY TableFields DEF TableInv, TableTyped
<1>3. \A id, jd \in D : pendingRequests[id] = pendingRequests[jd] => id = jd
  BY TableFields DEF TableInv, IdsOwn
<1>4. PICK file : file = [id \in D |-> pendingRequests[id]]
  OBVIOUS
<1>5. file \in Injection(D, N)
  BY <1>2, <1>3, <1>4 DEF Injection, IsInjective
<1>6. IsFiniteSet(N) /\ Cardinality(N) = Len(req)
  BY <1>1, FS_Interval
<1>7. IsFiniteSet(D) /\ Cardinality(D) <= Len(req)
  <2> HIDE DEF D, N
  <2>1. IsFiniteSet(D) /\ Cardinality(D) <= Cardinality(N)
    BY <1>5, <1>6, FS_Injection, Zenon
  <2> QED
    BY <1>6, <2>1
<1>8. Cardinality(D) \in Nat
  BY <1>7, FS_CardinalityType
<1>9. Cardinality(D) < MaxPending
  BY <1>1, <1>7, <1>8, BoundsAssumption DEF MayIssue
<1> QED
  BY <1>9, TableFields DEF HasRoom
-----------------------------------------------------------------------------
(* The steps of connections                                                *)

StaysCalm == Standing' /\ Sockets' /\ Asking(req', sock', state', flow')

\* At most f is on its way, and it stands where it should.
LEMMA AloneOnItsWay ==
  ASSUME NEW f \in Flow, Stands(f)', \A g \in Flow \ {f} : ~OnItsWay(g)'
  PROVE  Standing'
  BY DEF Standing, Stands, OnItsWay

\* Only f moves, and it is on its way or nobody is.
LEMMA OthersStay ==
  ASSUME Standing, NEW f \in Flow, OnItsWay(f) \/ \A g \in Flow : ~OnItsWay(g),
         \A g \in Flow \ {f} : flow'[g] = flow[g]
  PROVE  \A g \in Flow \ {f} : ~OnItsWay(g)'
  BY DEF Standing, OnItsWay

\* When the client is READY nobody is on its way.
LEMMA ReadyOrOnItsWay ==
  ASSUME Standing, state = "READY"
  PROVE  \A f \in Flow : ~OnItsWay(f)
  BY DEF Standing, Stands, OnItsWay

LEMMA ConnectCalm ==
  ASSUME Calm, Others, CalmInv, NEW f \in Flow, Connect(f) \/ WakeUp(f)
  PROVE  StaysCalm
<1>1. /\ flow'[f].pc \in {"schema", "loaded"} /\ state' = "CONNECTING"
      /\ \A g \in Flow \ {f} : flow'[g] = flow[g]
      /\ flow[f].pc \in {"idle", "sleeping"}
      /\ sock' = sock /\ socket' = socket /\ req' = req /\ ping' = ping /\ schema' = schema
  <2>1. PICK again, r : /\ r = [IdleFlow EXCEPT !.pc = IF cachedRoot THEN "loaded" ELSE "schema",
                                                !.again = again]
                        /\ StartConnect(f, again)
    BY DEF Connect, WakeUp
  <2>2. r.pc \in {"schema", "loaded"}
    BY <2>1 DEF IdleFlow
  <2>3. flow' = [flow EXCEPT ![f] = r] /\ state' = "CONNECTING"
    BY <2>1 DEF StartConnect
  <2>4. flow'[f] = r /\ \A g \in Flow \ {f} : flow'[g] = flow[g]
    BY <2>3 DEF Others
  <2> QED
    BY <2>2, <2>3, <2>4 DEF Connect, WakeUp, sockVars, reqVars, schemaVars
<1>2. /\ OnItsWay(f) \/ \A g \in Flow : ~OnItsWay(g)
      /\ Dead
  <2>1. CASE Connect(f)
    <3>1. state = "DISCONNECTED" /\ Quiet
      BY <2>1 DEF Connect, MayConnect, Calm
    <3> QED
      BY <3>1 DEF CalmInv, Standing, Sockets, Stands, OnItsWay, Quiet
  <2>2. CASE WakeUp(f)
    BY <2>2 DEF WakeUp, CalmInv, Standing, Stands, OnItsWay
  <2> QED
    BY <2>1, <2>2
<1>3. Standing'
  <2>1. \A g \in Flow \ {f} : ~OnItsWay(g)'
    BY <1>1, <1>2, OthersStay DEF CalmInv
  <2>2. Stands(f)'
    BY <1>1, <1>2 DEF Stands, Dead, Live
  <2> QED
    BY <2>1, <2>2, AloneOnItsWay
<1>4. Sockets'
  BY <1>1, <1>2 DEF CalmInv, Sockets, Dead, Live
<1>5. Asking(req', sock', state', flow')
  <2>1. Closes(sock, sock') /\ WaitsOn(flow, flow')
    BY <1>1 DEF Closes, WaitsOn
  <2>2. \A s \in SocketId : sock'[s].status # "open"
    BY <1>1, <1>2 DEF Dead, Live
  <2> QED
    BY <1>1, <2>1, <2>2, SameAsking DEF CalmInv
<1> QED
  BY <1>3, <1>4, <1>5 DEF StaysCalm

LEMMA SchemaLoadedCalm ==
  ASSUME Calm, Others, CalmInv, NEW f \in Flow, NEW ok \in BOOLEAN, SchemaLoaded(f, ok)
  PROVE  StaysCalm
<1>1. /\ flow'[f].pc \in {"loaded", "failing"} /\ flow[f].pc = "schema"
      /\ \A g \in Flow \ {f} : flow'[g] = flow[g]
      /\ sock' = sock /\ socket' = socket /\ req' = req /\ ping' = ping /\ schema' = schema
      /\ state' = state
  BY DEF SchemaLoaded, Others, FlowRecord, connVars, sockVars, reqVars
<1>2. OnItsWay(f) /\ Dead /\ state = "CONNECTING"
  BY <1>1 DEF CalmInv, Standing, Stands, OnItsWay
<1>3. Standing'
  <2>1. \A g \in Flow \ {f} : ~OnItsWay(g)'
    BY <1>1, <1>2, OthersStay DEF CalmInv
  <2>2. Stands(f)'
    BY <1>1, <1>2 DEF Stands, Dead, Live
  <2> QED
    BY <2>1, <2>2, AloneOnItsWay
<1>4. Sockets'
  BY <1>1, <1>2 DEF CalmInv, Sockets, Dead, Live
<1>5. Asking(req', sock', state', flow')
  <2>1. Closes(sock, sock') /\ WaitsOn(flow, flow')
    BY <1>1 DEF Closes, WaitsOn
  <2> QED
    BY <1>1, <2>1, SameAsking DEF CalmInv
<1> QED
  BY <1>3, <1>4, <1>5 DEF StaysCalm

LEMMA OpenSocketCalm ==
  ASSUME Calm, Others, CalmInv, NEW f \in Flow, OpenSocket(f)
  PROVE  StaysCalm
<1>1. /\ flow[f].pc = "loaded" /\ state' = state /\ ping' = ping /\ req' = req
      /\ schema' = TRUE
  BY DEF OpenSocket, connVars, reqVars
<1>2. OnItsWay(f) /\ Dead /\ state = "CONNECTING"
  BY <1>1 DEF CalmInv, Standing, Stands, OnItsWay
<1>3. ASSUME Closes(sock, sock'), \A g \in Flow \ {f} : flow'[g] = flow[g], Stands(f)', Sockets'
      PROVE  StaysCalm
  <2>1. \A g \in Flow \ {f} : ~OnItsWay(g)'
    BY <1>2, <1>3, OthersStay DEF CalmInv
  <2>2. WaitsOn(flow, flow')
    BY <1>1, <1>3 DEF WaitsOn
  <2>3. Asking(req', sock', state', flow')
    BY <1>1, <1>3, <2>2, SameAsking DEF CalmInv
  <2> QED
    BY <1>3, <2>1, <2>3, AloneOnItsWay DEF StaysCalm
<1>4. CASE UNCHANGED sockVars /\ flow' = [flow EXCEPT ![f].pc = "failing"]
  <2>1. /\ \A g \in Flow \ {f} : flow'[g] = flow[g]
        /\ flow'[f].pc = "failing" /\ sock' = sock /\ socket' = socket
    BY <1>4 DEF Others, FlowRecord, sockVars
  <2>2. Closes(sock, sock')
    BY <2>1 DEF Closes
  <2>3. Stands(f)'
    BY <1>1, <1>2, <2>1 DEF Stands, Dead, Live
  <2>4. Sockets'
    BY <1>1, <1>2, <2>1 DEF CalmInv, Sockets, Dead, Live
  <2> QED
    BY <1>3, <2>1, <2>2, <2>3, <2>4
<1>5. ASSUME NEW s \in SocketId, sock[s].status = "unused", socket' = s,
             sock' = [sock EXCEPT ![s].status = "connecting"],
             flow' = [flow EXCEPT ![f].pc = "opening", ![f].sock = s]
      PROVE  StaysCalm
  <2>1. /\ \A g \in Flow \ {f} : flow'[g] = flow[g]
        /\ flow'[f].pc = "opening" /\ flow'[f].sock = s
    BY <1>5 DEF Others, FlowRecord
  <2>2. /\ sock'[s].status = "connecting"
        /\ \A r \in SocketId \ {s} : sock'[r] = sock[r]
    BY <1>5 DEF Others
  <2>3. Closes(sock, sock')
    BY <1>5, <2>2 DEF Closes
  <2>4. Stands(f)'
    BY <1>1, <1>2, <1>5, <2>1, <2>2 DEF Stands
  <2>5. Sockets'
    BY <1>1, <1>2, <1>5, <2>1, <2>2 DEF CalmInv, Sockets, Dead, Live
  <2> QED
    BY <1>3, <2>1, <2>3, <2>4, <2>5
<1> QED
  BY <1>4, <1>5 DEF OpenSocket

LEMMA FlowFailsCalm ==
  ASSUME Calm, Others, CalmInv, NEW f \in Flow, FlowFails(f)
  PROVE  StaysCalm
<1>1. /\ flow[f].pc = "failing" /\ ping' = ping /\ req' = req /\ sock' = sock
      /\ socket' = socket
  BY DEF FlowFails, sockVars, reqVars
<1>2. OnItsWay(f) /\ Dead
  BY <1>1 DEF CalmInv, Standing, Stands, OnItsWay
<1>3. /\ \A g \in Flow \ {f} : flow'[g] = flow[g]
      /\ \/ state' = "DISCONNECTED" /\ flow'[f].pc = "idle"
         \/ state' = "RECONNECTING" /\ flow'[f].pc = "sleeping"
  <2>1. PICK asleep : asleep = [IdleFlow EXCEPT !.pc = "sleeping", !.again = TRUE]
    OBVIOUS
  <2>2. asleep.pc = "sleeping" /\ IdleFlow.pc = "idle"
    BY <2>1 DEF IdleFlow
  <2>3. \/ state' = "DISCONNECTED" /\ flow' = [flow EXCEPT ![f] = IdleFlow]
        \/ state' = "RECONNECTING" /\ flow' = [flow EXCEPT ![f] = asleep]
    BY <2>1 DEF FlowFails, Reconnect
  <2> QED
    BY <2>2, <2>3 DEF Others
<1>4. Standing'
  <2>1. \A g \in Flow \ {f} : ~OnItsWay(g)'
    BY <1>2, <1>3, OthersStay DEF CalmInv
  <2>2. Stands(f)'
    BY <1>1, <1>2, <1>3 DEF Stands, Dead, Live
  <2> QED
    BY <2>1, <2>2, AloneOnItsWay
<1>5. Sockets'
  BY <1>1, <1>2, <1>3 DEF CalmInv, Sockets, Dead, Live
<1>6. Asking(req', sock', state', flow')
  <2>1. Closes(sock, sock') /\ WaitsOn(flow, flow')
    BY <1>1, <1>3 DEF Closes, WaitsOn
  <2>2. \A s \in SocketId : sock'[s].status # "open"
    BY <1>1, <1>2 DEF Dead, Live
  <2> QED
    BY <1>1, <2>1, <2>2, SameAsking DEF CalmInv
<1> QED
  BY <1>4, <1>5, <1>6 DEF StaysCalm
LEMMA SocketOpensCalm ==
  ASSUME Calm, Others, TableInv(Table), CalmInv, NEW s \in SocketId, SocketOpens(s)
  PROVE  StaysCalm
<1>1. PICK sk : sk = [sock EXCEPT ![s].status = "open"]
  OBVIOUS
<1>2. /\ sock' = sk /\ sock[s].status = "connecting" /\ socket' = socket /\ ping' = ping
      /\ schema' = schema
  BY <1>1 DEF SocketOpens, schemaVars
<1>3. sk[s].status = "open" /\ \A r \in SocketId \ {s} : sk[r] = sock[r]
  BY <1>1 DEF Others
<1>4. PICK f \in Flow :
        /\ flow[f].pc = "opening" /\ flow[f].sock = s /\ state' = "HANDSHAKING"
        /\ IF schema
           THEN LET T == SendRequest(Table, sk, "handshake", 0, {f})
                IN /\ MayIssue
                   /\ Become(T)
                   /\ flow' = [flow EXCEPT ![f].pc =
                        IF Outstanding(T) THEN "handshaking" ELSE "failing"]
           ELSE flow' = [flow EXCEPT ![f].pc = "failing"] /\ UNCHANGED reqVars
  <2>1. \E f \in Flow : flow[f].pc = "opening" /\ flow[f].sock = s
    BY <1>2 DEF CalmInv, Sockets
  <2> QED
    BY <1>1, <2>1 DEF SocketOpens
<1>5. socket = s /\ schema /\ state = "CONNECTING" /\ OnItsWay(f)
  BY <1>4 DEF CalmInv, Standing, Stands, OnItsWay
<1>6. CanSend(sk) /\ s # 0
  BY <1>3, <1>5 DEF CanSend, SocketId
<1>7. PICK T : T = SendRequest(Table, sk, "handshake", 0, {f})
  OBVIOUS
<1>8. req' = T.log /\ MayIssue /\ HasRoom(Table)
  BY <1>4, <1>5, <1>7, RoomLeft DEF Become, Calm
<1>9. PICK r : r = req'[Len(req) + 1]
  OBVIOUS
<1>10. /\ Len(req) \in Nat /\ Len(req') = Len(req) + 1
       /\ \A n \in 1..Len(req) : req'[n] = req[n]
       /\ r.kind = "handshake" /\ r.waiter = {f} /\ r.status = "unsettled" /\ r.sock = s
  BY <1>5, <1>6, <1>7, <1>8, <1>9, SentLog, TableFields
<1>11. /\ flow'[f].pc = "handshaking"
       /\ \A g \in Flow \ {f} : flow'[g] = flow[g]
  <2>1. Outstanding(T)
    BY <1>8, <1>9, <1>10 DEF Outstanding
  <2>2. flow' = [flow EXCEPT ![f].pc = "handshaking"]
    BY <1>4, <1>5, <1>7, <2>1
  <2> QED
    BY <2>2 DEF Others, FlowRecord
<1>12. Standing'
  <2>1. \A g \in Flow \ {f} : ~OnItsWay(g)'
    BY <1>5, <1>11, OthersStay DEF CalmInv
  <2>2. CanSend(sock)'
    BY <1>2, <1>5, <1>6 DEF CanSend
  <2>3. \E n \in 1..Len(req') : AwaitedBy(req', n, f)
    BY <1>9, <1>10 DEF AwaitedBy
  <2>4. Stands(f)'
    BY <1>2, <1>4, <1>5, <1>11, <2>2, <2>3 DEF Stands
  <2> QED
    BY <2>1, <2>4, AloneOnItsWay
<1>13. Sockets'
  <2>1. \A q \in SocketId : /\ sk[q].status \in {"unused", "connecting", "open", "closed"}
                            /\ sk[q].status \in {"connecting", "open"} => q = s
                            /\ sk[q].status # "connecting"
    BY <1>3, <1>5 DEF CalmInv, Sockets, Live
  <2> QED
    BY <1>2, <1>4, <1>5, <2>1 DEF Sockets, Live
<1>14. Asking(req', sock', state', flow')
  <2>1. Closes(sock, sock') /\ WaitsOn(flow, flow') /\ WaitsOn(flow, flow)
    BY <1>2, <1>3, <1>4, <1>11 DEF Closes, WaitsOn
  <2>2. Asking(req, sock', state', flow)
    BY <1>5, <2>1, SameAsking DEF CalmInv
  <2>3. r.sock # 0 => /\ r.sock \in SocketId /\ sock'[r.sock].status = "open"
                      /\ r.status = "unsettled"
                      /\ state' = "READY" \/ r.kind \in {"handshake", "call"}
    BY <1>2, <1>3, <1>10
  <2>4. \A g \in Flow : r.status = "unsettled" /\ r.waiter = {g} =>
          /\ flow'[g].pc = Awaiting(r.kind)
          /\ flow[g].pc \notin {"handshaking", "resubscribing"}
    BY <1>4, <1>10, <1>11 DEF Awaiting
  <2>5. Adds(req, sock', state', flow, req', flow')
    BY <1>9, <1>10, <2>1, <2>3, <2>4 DEF Adds
  <2> QED
    BY <2>2, <2>5, MoreAsking
<1> QED
  BY <1>12, <1>13, <1>14 DEF StaysCalm

\* onclose: what the client had open is gone.
LEMMA HandleCloseCalm ==
  ASSUME Calm, Others, TableInv(Table), CalmInv, NEW s \in SocketId, HandleClose(s)
  PROVE  StaysCalm
<1>1. /\ socket' = socket /\ ping' = FALSE
      /\ sock' = [sock EXCEPT ![s] = [status |-> "closed", subs |-> {}]]
      /\ sock[s].status \in {"failed", "closing", "open"}
  BY DEF HandleClose
<1>2. sock[s].status = "open" /\ socket = s
  BY <1>1 DEF CalmInv, Sockets, Live
<1>3. sock'[s].status = "closed" /\ \A r \in SocketId \ {s} : sock'[r] = sock[r]
  BY <1>1 DEF Others
<1>4. /\ \A r \in SocketId : sock'[r].status \in {"unused", "closed"}
      /\ Closes(sock, sock')
  BY <1>2, <1>3 DEF CalmInv, Sockets, Live, Closes
<1>5. ~Dead
  BY <1>2 DEF Dead, Live
<1>6. ASSUME state' \in {"DISCONNECTED", "RECONNECTING"}
      PROVE  Sockets'
  BY <1>4, <1>6 DEF Sockets, Live, Dead
<1>7. CASE (\E f \in Flow : flow[f].pc = "idle" /\ Reconnect(f, flow)) /\ UNCHANGED reqVars
           /\ state = "READY"
  <2>1. PICK f \in Flow : flow[f].pc = "idle" /\ Reconnect(f, flow)
    BY <1>7
  <2>2. PICK asleep : asleep = [IdleFlow EXCEPT !.pc = "sleeping", !.again = TRUE]
    OBVIOUS
  <2>3. asleep.pc = "sleeping" /\ IdleFlow.pc = "idle"
    BY <2>2 DEF IdleFlow
  <2>4. \/ state' = "DISCONNECTED" /\ flow' = [flow EXCEPT ![f] = IdleFlow]
        \/ state' = "RECONNECTING" /\ flow' = [flow EXCEPT ![f] = asleep]
    BY <2>1, <2>2 DEF Reconnect
  <2>5. /\ \A g \in Flow \ {f} : flow'[g] = flow[g]
        /\ \/ state' = "DISCONNECTED" /\ flow'[f].pc = "idle"
           \/ state' = "RECONNECTING" /\ flow'[f].pc = "sleeping"
    BY <2>3, <2>4 DEF Others
  <2>6. Standing'
    <3>1. \A g \in Flow \ {f} : ~OnItsWay(g)'
      BY <1>7, <2>5, OthersStay, ReadyOrOnItsWay DEF CalmInv
    <3>2. Stands(f)'
      BY <1>4, <2>5 DEF Stands, Dead, Live
    <3> QED
      BY <3>1, <3>2, AloneOnItsWay
  <2>7. req' = req /\ WaitsOn(flow, flow')
    BY <1>7, <2>1, <2>5 DEF WaitsOn, reqVars
  <2>8. \A r \in SocketId : sock'[r].status # "open"
    BY <1>4
  <2>9. Asking(req', sock', state', flow')
    BY <1>4, <2>7, <2>8, SameAsking DEF CalmInv
  <2> QED
    BY <1>6, <2>5, <2>6, <2>9 DEF StaysCalm
<1>8. CASE /\ state' = "DISCONNECTED"
           /\ Become(CleanupPendingRequests(Table))
           /\ flow' = FlowsAfterRejecting(FiledRequests)
  <2>1. PICK T : T = CleanupPendingRequests(Table)
    OBVIOUS
  <2>2. /\ req' = T.log /\ Len(req') = Len(req)
        /\ \A n \in 1..Len(req) : req'[n].status # "unsettled" /\ req'[n].sock = req[n].sock
    BY <1>8, <2>1, CleanedLog, TableFields DEF Become
  <2>3. \A n \in 1..Len(req) : req[n].status = "unsettled" => n \in FiledRequests
    BY TableFields DEF TableInv, Guarded, FiledRequests
  <2>4. \A f \in Flow :
          \/ flow'[f].pc = flow[f].pc /\ \A n \in 1..Len(req) : ~AwaitedBy(req, n, f)
          \/ flow[f].pc = "handshaking" /\ flow'[f].pc = "failing"
          \/ flow'[f].pc = "nextSubscription"
    <3> SUFFICES ASSUME NEW f \in Flow
                 PROVE  \/ /\ flow'[f].pc = flow[f].pc
                           /\ \A n \in 1..Len(req) : ~AwaitedBy(req, n, f)
                        \/ flow[f].pc = "handshaking" /\ flow'[f].pc = "failing"
                        \/ flow'[f].pc = "nextSubscription"
      OBVIOUS
    <3>1. CASE \E n \in FiledRequests : req[n].waiter = {f} /\ req[n].status = "unsettled"
      <4>1. flow'[f] = [flow[f] EXCEPT !.pc = IF @ = "handshaking" THEN "failing"
                                              ELSE "nextSubscription"]
        BY <1>8, <3>1 DEF FlowsAfterRejecting
      <4>2. flow'[f].pc = IF flow[f].pc = "handshaking" THEN "failing" ELSE "nextSubscription"
        BY <4>1 DEF Others, FlowRecord
      <4> QED
        BY <4>2
    <3>2. CASE ~\E n \in FiledRequests : req[n].waiter = {f} /\ req[n].status = "unsettled"
      <4>1. flow'[f] = flow[f]
        BY <1>8, <3>2 DEF FlowsAfterRejecting
      <4> QED
        BY <2>3, <3>2, <4>1 DEF AwaitedBy
    <3> QED
      BY <3>1, <3>2
  <2>5. Standing'
    <3>1. \A f \in Flow : OnItsWay(f) => flow[f].pc \in {"opening", "handshaking", "failing"}
      BY <1>5 DEF CalmInv, Standing, Stands, OnItsWay
    <3>2. \A f \in Flow : flow[f].pc \notin {"opening", "failing"}
      BY <1>2, <1>5 DEF CalmInv, Standing, Stands
    <3>3. \A f \in Flow : OnItsWay(f)' => OnItsWay(f) /\ flow'[f].pc = "failing"
      BY <2>4, <3>1, <3>2 DEF OnItsWay, CalmInv, Standing, Stands
    <3>4. \A f \in Flow : Stands(f)'
      BY <1>4, <1>8, <3>3 DEF Stands, OnItsWay, Dead, Live
    <3> QED
      BY <3>3, <3>4 DEF CalmInv, Standing
  <2>6. Asking(req', sock', state', flow')
    <3>1. \A r \in SocketId : sock'[r].status # "open"
      BY <1>4
    <3> QED
      BY <1>4, <2>2, <3>1, NoneAsked DEF CalmInv
  <2> QED
    BY <1>6, <1>8, <2>5, <2>6 DEF StaysCalm
<1> QED
  BY <1>7, <1>8 DEF HandleClose
-----------------------------------------------------------------------------
(* The steps of requests                                                   *)

\* Nobody comes to be on its way, and those that were stay where they were.
LEMMA NobodyMoves ==
  ASSUME Standing, \A f \in Flow : OnItsWay(f)' => OnItsWay(f) /\ flow'[f] = flow[f],
         state' = state, socket' = socket, schema' = schema,
         \A s \in SocketId : sock'[s].status = sock[s].status, socket \in 0..MaxSockets,
         \A f \in Flow : flow[f].pc = "handshaking" =>
           ((\E n \in 1..Len(req) : AwaitedBy(req, n, f)) =>
              \E n \in 1..Len(req') : AwaitedBy(req', n, f))
  PROVE  Standing'
<1>1. (CanSend(sock) => CanSend(sock)') /\ (Dead => Dead')
  BY BoundsAssumption DEF CanSend, Dead, Live, SocketId
<1>2. ASSUME NEW f \in Flow, OnItsWay(f)'
      PROVE  Stands(f)'
  <2>1. flow'[f] = flow[f] /\ Stands(f)
    BY <1>2 DEF Standing
  <2>2. socket \in SocketId => sock'[socket].status = sock[socket].status
    OBVIOUS
  <2>3. flow[f].pc = "handshaking" => \E n \in 1..Len(req') : AwaitedBy(req', n, f)
    BY <2>1 DEF Stands
  <2> QED
    BY <1>1, <2>1, <2>2, <2>3 DEF Stands
<1>3. ASSUME NEW f \in Flow, ~OnItsWay(f)'
      PROVE  Stands(f)'
  BY <1>3 DEF Stands, OnItsWay
<1>4. \A f, g \in Flow : OnItsWay(f)' /\ OnItsWay(g)' => f = g
  BY DEF Standing
<1> QED
  BY <1>2, <1>3, <1>4 DEF Standing

\* Nor do the sockets change, but for what they are subscribed to.
LEMMA SocketsStay ==
  ASSUME Sockets, state' = state, socket' = socket, schema' = schema,
         \A s \in SocketId : sock'[s].status = sock[s].status, socket \in 0..MaxSockets,
         \A f \in Flow : flow[f].pc = "opening" => flow'[f] = flow[f],
         ping' = (state = "READY") \/ ping' = ping
  PROVE  Sockets'
<1>1. CanSend(sock) => CanSend(sock)'
  BY BoundsAssumption DEF CanSend, SocketId
<1>2. state = "READY" => ping'
  BY DEF Sockets
<1>3. \A s \in SocketId : Live(s)' = Live(s)
  BY DEF Live
<1>4. Dead => Dead'
  BY <1>3 DEF Dead
<1> QED
  BY <1>1, <1>2, <1>3, <1>4 DEF Sockets

LEMMA ResubscribeCalm ==
  ASSUME Calm, Others, TableInv(Table), CalmInv, NEW f \in Flow, Resubscribe(f)
  PROVE  StaysCalm
<1>1. /\ state' = state /\ ping' = ping /\ sock' = sock /\ socket' = socket /\ schema' = schema
      /\ flow[f].pc \in {"connected", "nextSubscription"}
  BY DEF Resubscribe, connVars, sockVars, schemaVars
<1>2. ASSUME \A g \in Flow \ {f} : flow'[g] = flow[g], ~OnItsWay(f)',
             \A n \in 1..Len(req) : n \in 1..Len(req') /\ req'[n] = req[n],
             Asking(req', sock', state', flow')
      PROVE  StaysCalm
  <2>1. Standing'
    BY <1>1, <1>2, NobodyMoves DEF CalmInv, AwaitedBy, Others, OnItsWay
  <2>2. Sockets'
    BY <1>1, <1>2, SocketsStay DEF CalmInv, Others
  <2> QED
    BY <1>2, <2>1, <2>2 DEF StaysCalm
<1>3. ASSUME flow'[f].pc \in {"idle", "nextSubscription"}, req' = req,
             \A g \in Flow \ {f} : flow'[g] = flow[g]
      PROVE  StaysCalm
  <2>1. Closes(sock, sock') /\ WaitsOn(flow, flow')
    BY <1>1, <1>3 DEF Closes, WaitsOn
  <2>2. Asking(req', sock', state', flow')
    BY <1>1, <1>3, <2>1, SameAsking DEF CalmInv
  <2>3. ~OnItsWay(f)'
    BY <1>3 DEF OnItsWay
  <2> QED
    BY <1>2, <1>3, <2>2, <2>3
<1>4. CASE flow' = [flow EXCEPT ![f] = IdleFlow] /\ UNCHANGED reqVars
  BY <1>3, <1>4 DEF Others, IdleFlow, reqVars
<1>5. ASSUME NEW t, NEW rest,
             LET T == SendRequest(Table, sock, "resubscribe", t, {f})
                 asks == state = "READY" /\ schema /\ MayIssue
             IN /\ flow' = [flow EXCEPT ![f].todo = rest,
                     ![f].pc = IF asks /\ Outstanding(T) THEN "resubscribing"
                               ELSE "nextSubscription"]
                /\ IF asks THEN Become(T) ELSE UNCHANGED reqVars
      PROVE  StaysCalm
  <2>1. PICK T : T = SendRequest(Table, sock, "resubscribe", t, {f})
    OBVIOUS
  <2>2. PICK asks : asks = (state = "READY" /\ schema /\ MayIssue)
    OBVIOUS
  <2>3. PICK p : p = IF asks /\ Outstanding(T) THEN "resubscribing" ELSE "nextSubscription"
    OBVIOUS
  <2>4. flow' = [flow EXCEPT ![f].todo = rest, ![f].pc = p]
    BY <1>5, <2>1, <2>2, <2>3
  <2>5. flow'[f].pc = p /\ \A g \in Flow \ {f} : flow'[g] = flow[g]
    BY <2>4 DEF Others, FlowRecord
  <2>6. CASE asks
    <3>1. req' = T.log /\ state = "READY"
      BY <1>5, <2>1, <2>2, <2>6 DEF Become
    <3>2. PICK r : r = req'[Len(req) + 1]
      OBVIOUS
    <3>3. /\ Len(req) \in Nat /\ Len(req') = Len(req) + 1
          /\ \A n \in 1..Len(req) : req'[n] = req[n]
          /\ r.kind = "resubscribe" /\ r.waiter = {f}
          /\ r.sock # 0 => r.sock = socket /\ CanSend(sock) /\ r.status = "unsettled"
      BY <2>1, <3>1, <3>2, SentLog, TableFields
    <3>4. r.status = "unsettled" => p = "resubscribing"
      BY <2>3, <2>6, <3>1, <3>2, <3>3 DEF Outstanding
    <3>5. r.sock # 0 => r.sock \in SocketId /\ sock[r.sock].status = "open"
      BY <3>3, BoundsAssumption DEF CanSend, Others, SocketId
    <3>6. WaitsOn(flow, flow')
      BY <1>1, <2>5 DEF WaitsOn
    <3>7. \A g \in Flow : r.status = "unsettled" /\ r.waiter = {g} =>
            /\ flow'[g].pc = Awaiting(r.kind)
            /\ flow[g].pc \notin {"handshaking", "resubscribing"}
      BY <1>1, <2>5, <3>3, <3>4 DEF Awaiting
    <3>8. Adds(req, sock, state, flow, req', flow')
      BY <3>1, <3>2, <3>3, <3>5, <3>6, <3>7 DEF Adds
    <3>9. Asking(req', sock', state', flow')
      BY <1>1, <3>8, MoreAsking DEF CalmInv
    <3>10. ~OnItsWay(f)'
      BY <2>3, <2>5 DEF OnItsWay
    <3> QED
      BY <1>2, <2>5, <3>3, <3>9, <3>10
  <2>7. CASE ~asks
    <3>1. p = "nextSubscription" /\ req' = req
      BY <1>5, <2>2, <2>3, <2>7 DEF reqVars
    <3> QED
      BY <1>3, <2>5, <3>1
  <2> QED
    BY <2>6, <2>7
<1> QED
  BY <1>4, <1>5 DEF Resubscribe

LEMMA UserRequestCalm ==
  ASSUME Calm, Others, TableInv(Table), CalmInv, NEW kind, NEW what, UserRequest(kind, what)
  PROVE  StaysCalm
<1>1. /\ state' = state /\ ping' = ping /\ sock' = sock /\ socket' = socket /\ schema' = schema
      /\ flow' = flow /\ state = "READY"
  BY DEF UserRequest, connVars, sockVars, schemaVars
<1>2. PICK T : T = SendRequest(Table, sock, kind, what, {})
  OBVIOUS
<1>3. req' = T.log
  BY <1>2 DEF UserRequest, Become
<1>4. PICK r : r = req'[Len(req) + 1]
  OBVIOUS
<1>5. /\ Len(req) \in Nat /\ Len(req') = Len(req) + 1
      /\ \A n \in 1..Len(req) : req'[n] = req[n]
      /\ r.waiter = {}
      /\ r.sock # 0 => r.sock = socket /\ CanSend(sock) /\ r.status = "unsettled"
  BY <1>2, <1>3, <1>4, SentLog, TableFields
<1>6. r.sock # 0 => r.sock \in SocketId /\ sock[r.sock].status = "open"
  BY <1>5, BoundsAssumption DEF CanSend, Others, SocketId
<1>7. Adds(req, sock, state, flow, req', flow')
  BY <1>1, <1>4, <1>5, <1>6 DEF Adds, WaitsOn
<1>8. Asking(req', sock', state', flow')
  BY <1>1, <1>7, MoreAsking DEF CalmInv
<1>9. Standing'
  BY <1>1, <1>5, NobodyMoves DEF CalmInv, AwaitedBy, Others, OnItsWay
<1>10. Sockets'
  BY <1>1, SocketsStay DEF CalmInv, Others
<1> QED
  BY <1>8, <1>9, <1>10 DEF StaysCalm

LEMMA PingCalm ==
  ASSUME Others, CalmInv, PingFires \/ UNCHANGED vars
  PROVE  StaysCalm
<1>1. /\ state' = state /\ sock' = sock /\ socket' = socket /\ schema' = schema
      /\ flow' = flow /\ req' = req
      /\ ping' = (state = "READY") \/ ping' = ping
  BY DEF PingFires, PingGoesOn, vars, connVars, sockVars, schemaVars, reqVars
<1>2. Standing'
  BY <1>1, NobodyMoves DEF CalmInv, AwaitedBy, Others, OnItsWay
<1>3. Sockets'
  BY <1>1, SocketsStay DEF CalmInv, Others
<1> QED
  BY <1>1, <1>2, <1>3 DEF StaysCalm, CalmInv
LEMMA ServedStatus ==
  ASSUME Others, TableInv(Table), NEW n, OnTheWire(n)
  PROVE  \A s \in SocketId : Served(n)[s].status = sock[s].status
<1>1. PICK r \in SocketId : r = req[n].sock
  BY WireTyped
<1>2. PICK subs : subs = CASE req[n].kind \in {"subscribe", "resubscribe"} ->
                                sock[r].subs \cup {req[n].what}
                           [] req[n].kind = "unsubscribe" -> sock[r].subs \ {req[n].what}
                           [] OTHER -> sock[r].subs
  OBVIOUS
<1>3. Served(n) = [sock EXCEPT ![r].subs = subs]
  BY <1>1, <1>2 DEF Served
<1> QED
  BY <1>3 DEF Others

\* What is known of an answer that arrives: it is for a request still open.
LEMMA OnTheWireIsOpen ==
  ASSUME Others, TableInv(Table), CalmInv, NEW n, OnTheWire(n)
  PROVE  /\ n \in 1..Len(req) /\ req[n].status = "unsettled" /\ Addressee(n) = {n}
         /\ state = "READY" \/ req[n].kind \in {"handshake", "call"}
         /\ \A f \in Flow : req[n].waiter = {f} =>
              AwaitedBy(req, n, f) /\ flow[f].pc = Awaiting(req[n].kind)
<1>1. n \in 1..Len(req) /\ Reachable(req, sock, n)
  BY DEF OnTheWire, Reachable
<1>2. req[n].status = "unsettled" /\ (state = "READY" \/ req[n].kind \in {"handshake", "call"})
  BY <1>1 DEF CalmInv, Asking
<1>3. Addressee(n) = {n}
  <2>1. req[n].id \in DOMAIN pendingRequests /\ pendingRequests[req[n].id] = n
    BY <1>1, <1>2, TableFields DEF TableInv, Guarded
  <2> QED
    BY <2>1 DEF Addressee
<1> QED
  BY <1>1, <1>2, <1>3 DEF CalmInv, Asking, AwaitedBy

LEMMA HandleResponseCalm ==
  ASSUME Calm, Others, TableInv(Table), CalmInv, NEW n \in RequestNo, HandleResponse(n)
  PROVE  StaysCalm
<1>1. /\ OnTheWire(n) /\ sock' = Served(n) /\ socket' = socket /\ schema' = schema
      /\ socket \in 0..MaxSockets
  BY DEF HandleResponse, schemaVars, Others
<1>2. /\ n \in 1..Len(req) /\ req[n].status = "unsettled" /\ Addressee(n) = {n}
      /\ state = "READY" \/ req[n].kind \in {"handshake", "call"}
      /\ \A f \in Flow : req[n].waiter = {f} =>
           AwaitedBy(req, n, f) /\ flow[f].pc = Awaiting(req[n].kind)
  BY <1>1, OnTheWireIsOpen
<1>3. (\A s \in SocketId : sock'[s].status = sock[s].status) /\ Closes(sock, sock')
  BY <1>1, ServedStatus DEF Closes
<1>4. PICK A : A = Answered(n, "resolved")
  OBVIOUS
<1>5. /\ Len(A.log) = Len(req) /\ \A m \in 1..Len(req) \ {n} : A.log[m] = req[m]
      /\ A.log[n].sock = 0 /\ A.log[n].status # "unsettled" /\ Len(req) \in Nat
  BY <1>2, <1>4, AnsweredLog
<1>6. ASSUME req' = A.log, state = "READY" => state' = "READY",
             \A f \in Flow : flow[f].pc \in {"handshaking", "resubscribing"} =>
               flow'[f].pc = flow[f].pc \/ AwaitedBy(req, n, f)
      PROVE  Asking(req', sock', state', flow')
  <2>1. Answers(req, sock, state, flow, n, req', sock', state', flow')
    BY <1>2, <1>3, <1>5, <1>6 DEF Answers
  <2> QED
    BY <2>1, OneAnswered DEF CalmInv
<1>7. CASE HandshakeDone(n)
  <2>1. PICK f \in Flow : /\ req[n].kind = "handshake" /\ req[n].waiter = {f}
                          /\ \/ /\ state' = "READY" /\ ping' = TRUE
                                /\ flow' = [flow EXCEPT ![f] = AfterConnect(f)]
                             \/ ~schema
    BY <1>2, <1>7 DEF HandshakeDone
  <2>2. AwaitedBy(req, n, f) /\ flow[f].pc = "handshaking"
    BY <1>2, <2>1 DEF Awaiting
  <2>3. schema /\ CanSend(sock) /\ OnItsWay(f)
    BY <2>2 DEF CalmInv, Standing, Stands, OnItsWay
  <2>4. state' = "READY" /\ ping' /\ flow' = [flow EXCEPT ![f] = AfterConnect(f)]
    BY <2>1, <2>3
  <2>5. /\ \A g \in Flow \ {f} : flow'[g] = flow[g]
        /\ flow'[f].pc \in {"connected", "idle"}
    BY <2>4 DEF Others, FlowRecord, AfterConnect, IdleFlow
  <2>6. Standing'
    <3>1. \A g \in Flow \ {f} : ~OnItsWay(g)'
      BY <2>3, <2>5, OthersStay DEF CalmInv
    <3>2. Stands(f)'
      BY <2>5 DEF Stands
    <3> QED
      BY <3>1, <3>2, AloneOnItsWay
  <2>7. Sockets'
    <3>1. CanSend(sock)'
      BY <1>1, <1>3, <2>3, BoundsAssumption DEF CanSend, SocketId
    <3>2. \A s \in SocketId : sock[s].status = "connecting" =>
            \E g \in Flow : flow'[g].pc = "opening" /\ flow'[g].sock = s
      BY <2>2, <2>5 DEF CalmInv, Sockets
    <3> QED
      BY <1>1, <1>3, <2>3, <2>4, <3>1, <3>2 DEF CalmInv, Sockets, Live
  <2>8. req' = A.log
    BY <1>4, <1>7 DEF HandshakeDone, Become
  <2>9. Asking(req', sock', state', flow')
    BY <1>6, <2>2, <2>4, <2>5, <2>8
  <2> QED
    BY <2>6, <2>7, <2>9 DEF StaysCalm
<1>8. ASSUME UNCHANGED <<state, ping>>, Asking(req', sock', state', flow'),
             \A f \in Flow : OnItsWay(f)' => flow'[f] = flow[f],
             \A f \in Flow : flow[f].pc = "opening" => flow'[f] = flow[f],
             req[n].kind # "handshake",
             \A m \in 1..Len(req) \ {n} : m \in 1..Len(req') /\ req'[m] = req[m]
      PROVE  StaysCalm
  <2>1. \A f \in Flow : flow[f].pc = "handshaking" => ~AwaitedBy(req, n, f)
    BY <1>2, <1>8 DEF AwaitedBy, Awaiting
  <2>2. ASSUME NEW f \in Flow, flow[f].pc = "handshaking",
               \E m \in 1..Len(req) : AwaitedBy(req, m, f)
        PROVE  \E m \in 1..Len(req') : AwaitedBy(req', m, f)
    BY <1>8, <2>1, <2>2 DEF AwaitedBy
  <2>3. \A f \in Flow : OnItsWay(f)' => OnItsWay(f) /\ flow'[f] = flow[f]
    BY <1>8 DEF OnItsWay
  <2>4. Standing'
    BY <1>1, <1>3, <1>8, <2>2, <2>3, NobodyMoves DEF CalmInv
  <2>5. Sockets'
    BY <1>1, <1>3, <1>8, SocketsStay DEF CalmInv
  <2> QED
    BY <1>8, <2>4, <2>5 DEF StaysCalm
<1>9. CASE SubscribeDone(n)
  <2>1. /\ req[n].kind \in {"subscribe", "resubscribe"} /\ UNCHANGED <<state, ping>>
        /\ flow' = [f \in Flow |-> IF req[n].waiter = {f}
                                   THEN [flow[f] EXCEPT !.pc = "nextSubscription"]
                                   ELSE flow[f]]
    BY <1>2, <1>9 DEF SubscribeDone
  <2>2. \A f \in Flow : \/ flow'[f] = flow[f] /\ req[n].waiter # {f}
                        \/ flow'[f].pc = "nextSubscription" /\ req[n].waiter = {f}
    BY <2>1 DEF Others, FlowRecord
  <2>3. req' = A.log
    BY <1>4, <1>9 DEF SubscribeDone, Become
  <2>4. Asking(req', sock', state', flow')
    BY <1>2, <1>6, <2>1, <2>2, <2>3
  <2>5. \A f \in Flow : OnItsWay(f)' => flow'[f] = flow[f]
    BY <2>2 DEF OnItsWay
  <2>6. \A f \in Flow : flow[f].pc = "opening" => flow'[f] = flow[f]
    BY <1>2, <2>1, <2>2 DEF Awaiting
  <2>7. \A m \in 1..Len(req) \ {n} : m \in 1..Len(req') /\ req'[m] = req[m]
    BY <1>5, <2>3
  <2> QED
    BY <1>8, <2>1, <2>4, <2>5, <2>6, <2>7
<1>10. CASE UnsubscribeDone(n)
  <2>1. /\ req[n].kind = "unsubscribe" /\ UNCHANGED <<state, ping, flow>> /\ req' = A.log
    BY <1>2, <1>4, <1>10 DEF UnsubscribeDone, Become
  <2>2. Asking(req', sock', state', flow')
    BY <1>6, <2>1
  <2>3. \A m \in 1..Len(req) \ {n} : m \in 1..Len(req') /\ req'[m] = req[m]
    BY <1>5, <2>1
  <2> QED
    BY <1>8, <2>1, <2>2, <2>3
<1>11. CASE SendDone(n)
  <2>1. req[n].kind = "call" /\ UNCHANGED <<state, ping, flow>>
    BY <1>2, <1>11 DEF SendDone
  <2>2. CASE Become(A)
    <3>1. req' = A.log
      BY <2>2 DEF Become
    <3>2. Asking(req', sock', state', flow')
      BY <1>6, <2>1, <3>1
    <3>3. \A m \in 1..Len(req) \ {n} : m \in 1..Len(req') /\ req'[m] = req[m]
      BY <1>5, <3>1
    <3> QED
      BY <1>8, <2>1, <3>2, <3>3
  <2>3. CASE Become(SendRequest(A, sock, "call", 0, {}))
    <3>1. PICK U : U = SendRequest(A, sock, "call", 0, {})
      OBVIOUS
    <3>2. req' = U.log
      BY <2>3, <3>1 DEF Become
    <3>3. PICK r : r = U.log[Len(A.log) + 1]
      OBVIOUS
    <3>4. TableInv(A)
      BY <1>2, <1>4, AnsweredKeeps
    <3>5. /\ Len(req') = Len(A.log) + 1
          /\ \A m \in 1..Len(A.log) : req'[m] = A.log[m]
          /\ r.kind = "call" /\ r.waiter = {}
          /\ r.sock # 0 => r.sock = socket /\ CanSend(sock) /\ r.status = "unsettled"
      BY <3>1, <3>2, <3>3, <3>4, SentLog
    <3>6. r.sock # 0 => r.sock \in SocketId /\ sock'[r.sock].status = "open"
      BY <1>1, <1>3, <3>5, BoundsAssumption DEF CanSend, SocketId
    <3>7. Asking(A.log, sock', state', flow')
      <4>1. \A f \in Flow : flow[f].pc \in {"handshaking", "resubscribing"} =>
              flow'[f].pc = flow[f].pc \/ AwaitedBy(req, n, f)
        BY <2>1
      <4>2. Answers(req, sock, state, flow, n, A.log, sock', state', flow')
        BY <1>2, <1>3, <1>5, <2>1, <4>1 DEF Answers
      <4> QED
        BY <4>2, OneAnswered DEF CalmInv
    <3>8. Adds(A.log, sock', state', flow', req', flow')
      BY <1>5, <3>2, <3>3, <3>5, <3>6 DEF Adds, WaitsOn
    <3>9. Asking(req', sock', state', flow')
      BY <3>7, <3>8, MoreAsking
    <3>10. \A m \in 1..Len(req) \ {n} : m \in 1..Len(req') /\ req'[m] = req[m]
      BY <1>5, <3>5
    <3> QED
      BY <1>8, <2>1, <3>9, <3>10
  <2> QED
    BY <1>2, <1>4, <1>11, <2>2, <2>3 DEF SendDone
<1>12. CASE LateAnswer(n)
  BY <1>2, <1>12 DEF LateAnswer
<1> QED
  BY <1>7, <1>9, <1>10, <1>11, <1>12 DEF HandleResponse

LEMMA HandleErrorResponseCalm ==
  ASSUME Calm, Others, TableInv(Table), CalmInv, NEW n \in RequestNo, HandleErrorResponse(n)
  PROVE  StaysCalm
<1>1. /\ OnTheWire(n) /\ req[n].kind # "handshake"
      /\ state' = state /\ ping' = ping /\ sock' = sock /\ socket' = socket /\ schema' = schema
      /\ flow' = FlowsAfterRejecting(Addressee(n))
  BY DEF HandleErrorResponse, connVars, sockVars, schemaVars, Calm
<1>2. /\ n \in 1..Len(req) /\ req[n].status = "unsettled" /\ Addressee(n) = {n}
      /\ \A f \in Flow : req[n].waiter = {f} =>
           AwaitedBy(req, n, f) /\ flow[f].pc = "resubscribing"
  BY <1>1, OnTheWireIsOpen DEF Awaiting
<1>3. PICK A : A = Answered(n, "rejected")
  OBVIOUS
<1>4. /\ Len(A.log) = Len(req) /\ \A m \in 1..Len(req) \ {n} : A.log[m] = req[m]
      /\ A.log[n].sock = 0 /\ A.log[n].status # "unsettled" /\ Len(req) \in Nat
  BY <1>2, <1>3, AnsweredLog
<1>5. req' = A.log
  BY <1>3 DEF HandleErrorResponse, Become
<1>6. \A f \in Flow : \/ flow'[f] = flow[f] /\ req[n].waiter # {f}
                      \/ flow'[f].pc = "nextSubscription" /\ req[n].waiter = {f}
  <2> SUFFICES ASSUME NEW f \in Flow
               PROVE  \/ flow'[f] = flow[f] /\ req[n].waiter # {f}
                      \/ flow'[f].pc = "nextSubscription" /\ req[n].waiter = {f}
    OBVIOUS
  <2>1. CASE req[n].waiter = {f}
    <3>1. flow'[f] = [flow[f] EXCEPT !.pc = IF @ = "handshaking" THEN "failing"
                                            ELSE "nextSubscription"]
      BY <1>1, <1>2, <2>1 DEF FlowsAfterRejecting
    <3>2. flow'[f].pc = IF flow[f].pc = "handshaking" THEN "failing" ELSE "nextSubscription"
      BY <3>1 DEF Others, FlowRecord
    <3> QED
      BY <1>2, <2>1, <3>2
  <2>2. CASE req[n].waiter # {f}
    BY <1>1, <1>2, <2>2 DEF FlowsAfterRejecting
  <2> QED
    BY <2>1, <2>2
<1>7. Asking(req', sock', state', flow')
  <2>1. Closes(sock, sock')
    BY <1>1 DEF Closes
  <2>2. \A f \in Flow : flow[f].pc \in {"handshaking", "resubscribing"} =>
          flow'[f].pc = flow[f].pc \/ AwaitedBy(req, n, f)
    BY <1>2, <1>6
  <2>3. Answers(req, sock, state, flow, n, req', sock', state', flow')
    BY <1>1, <1>2, <1>4, <1>5, <2>1, <2>2 DEF Answers
  <2> QED
    BY <2>3, OneAnswered DEF CalmInv
<1>8. Standing'
  <2>1. \A f \in Flow : OnItsWay(f)' => OnItsWay(f) /\ flow'[f] = flow[f]
    BY <1>6 DEF OnItsWay
  <2>2. \A f \in Flow : flow[f].pc = "handshaking" => ~AwaitedBy(req, n, f)
    BY <1>2 DEF AwaitedBy
  <2>3. \A f \in Flow : flow[f].pc = "handshaking" =>
          ((\E m \in 1..Len(req) : AwaitedBy(req, m, f)) =>
             \E m \in 1..Len(req') : AwaitedBy(req', m, f))
    BY <1>4, <1>5, <2>2 DEF AwaitedBy
  <2> QED
    BY <1>1, <2>1, <2>3, NobodyMoves DEF CalmInv, Others
<1>9. Sockets'
  <2>1. \A f \in Flow : flow[f].pc = "opening" => flow'[f] = flow[f]
    BY <1>2, <1>6
  <2> QED
    BY <1>1, <2>1, SocketsStay DEF CalmInv, Others
<1> QED
  BY <1>7, <1>8, <1>9 DEF StaysCalm

LEMMA InitCalm == Init => CalmInv
<1> SUFFICES ASSUME Init PROVE CalmInv
  OBVIOUS
<1>1. \A f \in Flow : flow[f].pc = "idle"
  BY DEF Init, IdleFlow
<1>2. \A s \in SocketId : sock[s].status = "unused"
  BY DEF Init
<1>3. Len(req) = 0 /\ state = "DISCONNECTED"
  BY DEF Init
<1>4. Standing
  BY <1>1 DEF Standing, Stands, OnItsWay
<1>5. Sockets
  BY <1>2, <1>3 DEF Sockets, Dead, Live
<1>6. Asking(req, sock, state, flow)
  BY <1>3 DEF Asking
<1> QED
  BY <1>4, <1>5, <1>6 DEF CalmInv

LEMMA StepCalm == Calm /\ IInv /\ CalmInv /\ [Next]_vars => CalmInv'
<1> SUFFICES ASSUME Calm, Others, TableInv(Table), CalmInv, [Next]_vars PROVE StaysCalm
  BY InvParts DEF StaysCalm, CalmInv
<1>1. ASSUME NEW f \in Flow,
             \/ Connect(f) \/ (\E ok \in BOOLEAN : SchemaLoaded(f, ok)) \/ OpenSocket(f)
             \/ ConnectTimeout(f) \/ FlowFails(f) \/ WakeUp(f) \/ Resubscribe(f)
      PROVE  StaysCalm
  <2>1. ~ConnectTimeout(f)
    BY DEF ConnectTimeout, Calm
  <2> QED
    BY <1>1, <2>1, ConnectCalm, SchemaLoadedCalm, OpenSocketCalm, FlowFailsCalm,
       ResubscribeCalm
<1>2. ~Disconnect /\ ~ClearCache
  BY DEF Disconnect, ClearCache, Calm
<1>3. ASSUME NEW s \in SocketId, SocketOpens(s) \/ SocketFails(s) \/ HandleClose(s)
      PROVE  StaysCalm
  <2>1. ~SocketFails(s)
    BY DEF SocketFails, Calm, CalmInv, Sockets
  <2> QED
    BY <1>3, <2>1, SocketOpensCalm, HandleCloseCalm
<1>4. CASE \/ \E t \in SubType : Subscribe(t) \/ Unsubscribe(t)
           \/ \E more \in {0, 1} : Send(more)
  BY <1>4, UserRequestCalm DEF Subscribe, Unsubscribe, Send
<1>5. ASSUME NEW n \in RequestNo,
             RequestTimeout(n) \/ HandleResponse(n) \/ HandleErrorResponse(n)
      PROVE  StaysCalm
  <2>1. ~RequestTimeout(n)
    BY DEF RequestTimeout, Calm
  <2> QED
    BY <1>5, <2>1, HandleResponseCalm, HandleErrorResponseCalm
<1>6. CASE PingFires \/ UNCHANGED vars
  BY <1>6, PingCalm
<1> QED
  BY <1>1, <1>2, <1>3, <1>4, <1>5, <1>6 DEF Next

THEOREM CalmInvariance ==
  ASSUME Calm
  PROVE  Spec => []CalmInv
<1>1. IInv /\ CalmInv /\ [Next]_vars => CalmInv'
  BY StepCalm
<1> QED
  BY <1>1, InitCalm, Invariance, PTL DEF Spec

\* However often the network drops it, the client has one connection: no socket
\* is left behind by a new one, and no two connect() calls overlap.
THEOREM OneConnectionAtATime ==
  ASSUME Calm
  PROVE  Spec => []OneConnection
<1>1. CalmInv => OneConnection
  <2> SUFFICES ASSUME CalmInv PROVE OneConnection
    OBVIOUS
  <2>1. \A f, g \in InConnect : f = g
    BY DEF InConnect, CalmInv, Standing, OnItsWay
  <2>2. Cardinality(InConnect) <= 1
    <3>1. CASE InConnect = {}
      BY <3>1, FS_EmptySet
    <3>2. CASE InConnect # {}
      <4>1. PICK f : f \in InConnect
        BY <3>2
      <4>2. InConnect = {f}
        BY <2>1, <4>1
      <4>3. Cardinality({f}) = 1
        BY FS_Singleton
      <4> QED
        BY <4>2, <4>3
    <3> QED
      BY <3>1, <3>2
  <2> QED
    BY <2>2 DEF OneConnection, CalmInv, Sockets
<1> QED
  BY <1>1, CalmInvariance, PTL

\* When the client says READY its socket is open, the schema is there and the
\* ping timer runs.
THEOREM ReadyIsServed ==
  ASSUME Calm
  PROVE  Spec => []ReadyServed
<1>1. CalmInv => ReadyServed
  BY DEF CalmInv, Sockets, ReadyServed
<1> QED
  BY <1>1, CalmInvariance, PTL

-----------------------------------------------------------------------------
(* Subscriptions.  A new connection starts without any at the server; what *)
(* makes up for it is resubscribe(), which only reconnect() calls.  So the *)
(* handlers that this.subscriptions keeps are fed if the user calls        *)
(* connect() only when there are none.                                     *)

\* A connect() call of the user that may yet succeed.
Coming(f) ==
  /\ flow[f].pc \in {"schema", "loaded", "opening", "handshaking", "failing"}
  /\ ~flow[f].again

Fed ==
  /\ \A f \in Flow : Coming(f) => subscriptions = {}
  /\ state = "READY" /\ (\A f \in Flow : flow[f].pc # "connected") =>
       subscriptions \subseteq sock[socket].subs

LEMMA NotReadyFed ==
  ASSUME Fed, state' # "READY", subscriptions' = subscriptions,
         \A f \in Flow : Coming(f)' => Coming(f) \/ subscriptions = {}
  PROVE  Fed'
  BY DEF Fed

LEMMA SameFed ==
  ASSUME Fed, state' = state, socket' = socket, sock' = sock, subscriptions' = subscriptions,
         Quiet \/ flow' = flow, \A f \in Flow : Coming(f)' => Coming(f)
  PROVE  Fed'
  BY DEF Fed, Quiet, Coming

LEMMA RejectingMoves ==
  ASSUME Others, NEW ns, NEW f \in Flow
  PROVE  LET r == FlowsAfterRejecting(ns)[f]
         IN /\ r.again = flow[f].again
            /\ \/ r.pc = flow[f].pc
               \/ r.pc = "failing" /\ flow[f].pc = "handshaking"
               \/ r.pc = "nextSubscription"
<1>1. CASE \E n \in ns : req[n].waiter = {f} /\ req[n].status = "unsettled"
  <2>1. FlowsAfterRejecting(ns)[f] = [flow[f] EXCEPT !.pc =
                                        IF @ = "handshaking" THEN "failing" ELSE "nextSubscription"]
    BY <1>1 DEF FlowsAfterRejecting
  <2>2. PICK p : p = IF flow[f].pc = "handshaking" THEN "failing" ELSE "nextSubscription"
    OBVIOUS
  <2>3. FlowsAfterRejecting(ns)[f] = [flow[f] EXCEPT !.pc = p]
    BY <2>1, <2>2
  <2> QED
    BY <2>2, <2>3 DEF Others, FlowRecord
<1>2. CASE ~\E n \in ns : req[n].waiter = {f} /\ req[n].status = "unsettled"
  BY <1>2 DEF FlowsAfterRejecting
<1> QED
  BY <1>1, <1>2

LEMMA ConnectFed ==
  ASSUME UserConnects = "fresh", Others, Fed, NEW f \in Flow, Connect(f) \/ WakeUp(f)
  PROVE  Fed'
<1>1. state' # "READY" /\ subscriptions' = subscriptions
  BY DEF Connect, WakeUp, StartConnect
<1>2. PICK again, r : /\ r = [IdleFlow EXCEPT !.pc = IF cachedRoot THEN "loaded" ELSE "schema",
                                              !.again = again]
                      /\ flow' = [flow EXCEPT ![f] = r]
                      /\ again \/ subscriptions = {}
  BY DEF Connect, WakeUp, StartConnect, MayConnect
<1>3. r.again = again
  BY <1>2 DEF IdleFlow
<1>4. flow'[f] = r /\ \A g \in Flow \ {f} : flow'[g] = flow[g]
  BY <1>2 DEF Others
<1>5. \A g \in Flow : Coming(g)' => Coming(g) \/ subscriptions = {}
  BY <1>2, <1>3, <1>4 DEF Coming
<1> QED
  BY <1>1, <1>5, NotReadyFed

LEMMA FailingFed ==
  ASSUME Others, Fed, NEW f \in Flow, FlowFails(f)
  PROVE  Fed'
<1>1. state' # "READY" /\ subscriptions' = subscriptions
  BY DEF FlowFails, Reconnect
<1>2. PICK asleep : asleep = [IdleFlow EXCEPT !.pc = "sleeping", !.again = TRUE]
  OBVIOUS
<1>3. asleep.pc = "sleeping" /\ IdleFlow.pc = "idle"
  BY <1>2 DEF IdleFlow
<1>4. flow' = [flow EXCEPT ![f] = IdleFlow] \/ flow' = [flow EXCEPT ![f] = asleep]
  BY <1>2 DEF FlowFails, Reconnect
<1>5. \A g \in Flow : Coming(g)' => Coming(g)
  BY <1>3, <1>4 DEF Coming, Others
<1> QED
  BY <1>1, <1>5, NotReadyFed

LEMMA OpeningFed ==
  ASSUME Others, CalmInv, Fed, NEW f \in Flow,
         (\E ok \in BOOLEAN : SchemaLoaded(f, ok)) \/ OpenSocket(f)
  PROVE  Fed'
<1>1. /\ state' = state /\ subscriptions' = subscriptions
      /\ flow[f].pc \in {"schema", "loaded"}
  BY DEF SchemaLoaded, OpenSocket, connVars
<1>2. state # "READY"
  BY <1>1 DEF CalmInv, Standing, Stands
<1>3. \/ \E p : flow' = [flow EXCEPT ![f].pc = p]
      \/ \E p, s : flow' = [flow EXCEPT ![f].pc = p, ![f].sock = s]
  BY DEF SchemaLoaded, OpenSocket
<1>4. /\ \A g \in Flow \ {f} : flow'[g] = flow[g]
      /\ flow'[f].again = flow[f].again
  BY <1>3 DEF Others, FlowRecord
<1>5. \A g \in Flow : Coming(g)' => Coming(g)
  BY <1>1, <1>4 DEF Coming
<1> QED
  BY <1>1, <1>2, <1>5, NotReadyFed

LEMMA SocketFed ==
  ASSUME Others, CalmInv, Fed, NEW s \in SocketId, SocketOpens(s) \/ HandleClose(s)
  PROVE  Fed'
<1>1. subscriptions' = subscriptions /\ state' # "READY"
  BY DEF SocketOpens, HandleClose, Reconnect
<1>2. CASE SocketOpens(s)
  <2>1. \/ flow' = flow
        \/ \E f \in Flow : \E p : flow[f].pc = "opening" /\ flow' = [flow EXCEPT ![f].pc = p]
    BY <1>2 DEF SocketOpens
  <2>2. \A f \in Flow : Coming(f)' => Coming(f)
    BY <2>1 DEF Coming, Others, FlowRecord
  <2> QED
    BY <1>1, <2>2, NotReadyFed
<1>3. CASE HandleClose(s) /\ \E f \in Flow : Reconnect(f, flow)
  <2>1. PICK f \in Flow : Reconnect(f, flow)
    BY <1>3
  <2>2. PICK asleep : asleep = [IdleFlow EXCEPT !.pc = "sleeping", !.again = TRUE]
    OBVIOUS
  <2>3. asleep.pc = "sleeping" /\ IdleFlow.pc = "idle"
    BY <2>2 DEF IdleFlow
  <2>4. flow' = [flow EXCEPT ![f] = IdleFlow] \/ flow' = [flow EXCEPT ![f] = asleep]
    BY <2>1, <2>2 DEF Reconnect
  <2>5. \A g \in Flow : Coming(g)' => Coming(g)
    BY <2>3, <2>4 DEF Coming, Others
  <2> QED
    BY <1>1, <2>5, NotReadyFed
<1>4. CASE HandleClose(s) /\ flow' = FlowsAfterRejecting(FiledRequests)
  <2>1. \A f \in Flow : Coming(f)' => Coming(f)
    BY <1>4, RejectingMoves DEF Coming
  <2> QED
    BY <1>1, <2>1, NotReadyFed
<1> QED
  BY <1>2, <1>3, <1>4 DEF HandleClose

LEMMA ResubscribeFed ==
  ASSUME Others, Fed, NEW f \in Flow, Resubscribe(f)
  PROVE  Fed'
<1>1. /\ state' = state /\ socket' = socket /\ sock' = sock
      /\ flow[f].pc \in {"connected", "nextSubscription"}
      /\ subscriptions' = IF flow[f].pc = "connected" THEN {} ELSE subscriptions
  BY DEF Resubscribe, connVars, sockVars
<1>2. /\ \A g \in Flow \ {f} : flow'[g] = flow[g]
      /\ flow'[f].pc \in {"idle", "nextSubscription", "resubscribing"}
  <2>1. \/ flow' = [flow EXCEPT ![f] = IdleFlow]
        \/ \E rest : \E p \in {"nextSubscription", "resubscribing"} :
             flow' = [flow EXCEPT ![f].todo = rest, ![f].pc = p]
    BY DEF Resubscribe
  <2>2. CASE flow' = [flow EXCEPT ![f] = IdleFlow]
    BY <2>2 DEF Others, IdleFlow
  <2>3. ASSUME NEW rest, NEW p \in {"nextSubscription", "resubscribing"},
               flow' = [flow EXCEPT ![f].todo = rest, ![f].pc = p]
        PROVE  flow'[f].pc = p /\ \A g \in Flow \ {f} : flow'[g] = flow[g]
    BY <2>3 DEF Others, FlowRecord
  <2> QED
    BY <2>1, <2>2, <2>3
<1> QED
  BY <1>1, <1>2 DEF Fed, Coming

LEMMA HandleResponseFed ==
  ASSUME Calm, Others, TableInv(Table), CalmInv, Fed, NEW n \in RequestNo, HandleResponse(n)
  PROVE  Fed'
<1>1. /\ OnTheWire(n) /\ sock' = Served(n) /\ socket' = socket
      /\ \A f \in Flow : flow[f].pc # "connected"
  BY DEF HandleResponse, Quiet
<1>2. /\ Addressee(n) = {n}
      /\ state = "READY" \/ req[n].kind \in {"handshake", "call"}
      /\ \A f \in Flow : req[n].waiter = {f} =>
           AwaitedBy(req, n, f) /\ flow[f].pc = Awaiting(req[n].kind)
  BY <1>1, OnTheWireIsOpen
<1>3. req[n].sock = socket /\ socket \in SocketId
  BY <1>1, WireTyped DEF OnTheWire, CalmInv, Sockets, Live
<1>4. \/ /\ req[n].kind \in {"subscribe", "resubscribe"}
         /\ sock'[socket].subs = sock[socket].subs \cup {req[n].what}
      \/ /\ req[n].kind = "unsubscribe"
         /\ sock'[socket].subs = sock[socket].subs \ {req[n].what}
      \/ /\ req[n].kind \notin {"subscribe", "resubscribe", "unsubscribe"}
         /\ sock'[socket].subs = sock[socket].subs
  <2>1. PICK subs : subs = CASE req[n].kind \in {"subscribe", "resubscribe"} ->
                                  sock[socket].subs \cup {req[n].what}
                             [] req[n].kind = "unsubscribe" ->
                                  sock[socket].subs \ {req[n].what}
                             [] OTHER -> sock[socket].subs
    OBVIOUS
  <2>2. sock' = [sock EXCEPT ![socket].subs = subs]
    BY <1>1, <1>3, <2>1 DEF Served
  <2>3. sock'[socket].subs = subs
    BY <1>3, <2>2 DEF Others
  <2> QED
    BY <2>1, <2>3
<1>5. CASE HandshakeDone(n)
  <2>1. PICK f \in Flow : /\ req[n].kind = "handshake" /\ req[n].waiter = {f}
                          /\ flow' = [flow EXCEPT ![f] = AfterConnect(f)] \/ ~schema
                          /\ subscriptions' = subscriptions
    BY <1>2, <1>5 DEF HandshakeDone
  <2>2. flow[f].pc = "handshaking"
    BY <1>2, <2>1 DEF Awaiting
  <2>3. flow' = [flow EXCEPT ![f] = AfterConnect(f)]
    BY <2>1, <2>2 DEF CalmInv, Standing, Stands
  <2>4. /\ \A g \in Flow \ {f} : flow'[g] = flow[g]
        /\ flow'[f].pc = IF flow[f].again THEN "connected" ELSE "idle"
    BY <2>3 DEF Others, FlowRecord, AfterConnect, IdleFlow
  <2>5. flow[f].again \/ subscriptions = {}
    BY <2>2 DEF Fed, Coming
  <2> QED
    BY <2>1, <2>4, <2>5 DEF Fed, Coming
<1>6. ASSUME state = "READY", state' = state, subscriptions' \subseteq sock'[socket].subs
      PROVE  Fed'
  <2>1. StaysCalm
    BY HandleResponseCalm
  <2>2. \A f \in Flow : ~Coming(f)'
    BY <1>6, <2>1 DEF StaysCalm, Standing, Stands, Coming
  <2> QED
    BY <1>1, <1>6, <2>2 DEF Fed
<1>7. CASE SubscribeDone(n)
  <2>1. /\ req[n].kind \in {"subscribe", "resubscribe"} /\ state' = state
        /\ subscriptions' = subscriptions \cup {req[n].what}
    BY <1>2, <1>7 DEF SubscribeDone
  <2>2. state = "READY" /\ subscriptions \subseteq sock[socket].subs
    BY <1>1, <1>2, <2>1 DEF Fed
  <2> QED
    BY <1>4, <1>6, <2>1, <2>2
<1>8. CASE UnsubscribeDone(n)
  <2>1. /\ req[n].kind = "unsubscribe" /\ state' = state
        /\ subscriptions' = subscriptions \ {req[n].what}
    BY <1>2, <1>8 DEF UnsubscribeDone
  <2>2. state = "READY" /\ subscriptions \subseteq sock[socket].subs
    BY <1>1, <1>2, <2>1 DEF Fed
  <2> QED
    BY <1>4, <1>6, <2>1, <2>2
<1>9. CASE SendDone(n)
  <2>1. req[n].kind = "call" /\ UNCHANGED <<state, subscriptions, flow>>
    BY <1>2, <1>9 DEF SendDone
  <2>2. sock'[socket].subs = sock[socket].subs
    BY <1>4, <2>1
  <2> QED
    BY <1>1, <2>1, <2>2 DEF Fed, Coming
<1>10. CASE LateAnswer(n)
  BY <1>2, <1>10 DEF LateAnswer
<1> QED
  BY <1>5, <1>7, <1>8, <1>9, <1>10 DEF HandleResponse

LEMMA StepFed ==
  Calm /\ UserConnects = "fresh" /\ IInv /\ CalmInv /\ Fed /\ [Next]_vars => Fed'
<1> SUFFICES ASSUME Calm, UserConnects = "fresh", Others, TableInv(Table), CalmInv, Fed,
                    [Next]_vars
             PROVE  Fed'
  BY InvParts
<1>1. ASSUME NEW f \in Flow,
             \/ Connect(f) \/ (\E ok \in BOOLEAN : SchemaLoaded(f, ok)) \/ OpenSocket(f)
             \/ ConnectTimeout(f) \/ FlowFails(f) \/ WakeUp(f) \/ Resubscribe(f)
      PROVE  Fed'
  <2>1. ~ConnectTimeout(f)
    BY DEF ConnectTimeout, Calm
  <2> QED
    BY <1>1, <2>1, ConnectFed, OpeningFed, FailingFed, ResubscribeFed
<1>2. ~Disconnect /\ ~ClearCache
  BY DEF Disconnect, ClearCache, Calm
<1>3. ASSUME NEW s \in SocketId, SocketOpens(s) \/ SocketFails(s) \/ HandleClose(s)
      PROVE  Fed'
  <2>1. ~SocketFails(s)
    BY DEF SocketFails, Calm, CalmInv, Sockets
  <2> QED
    BY <1>3, <2>1, SocketFed
<1>4. CASE \/ \E t \in SubType : Subscribe(t) \/ Unsubscribe(t)
           \/ \E more \in {0, 1} : Send(more)
           \/ PingFires \/ UNCHANGED vars
  <2>1. UNCHANGED <<state, socket, sock, subscriptions, flow>>
    BY <1>4 DEF Subscribe, Unsubscribe, Send, UserRequest, PingFires, vars, connVars, sockVars
  <2> QED
    BY <2>1, SameFed DEF Coming
<1>5. ASSUME NEW n \in RequestNo,
             RequestTimeout(n) \/ HandleResponse(n) \/ HandleErrorResponse(n)
      PROVE  Fed'
  <2>1. ~RequestTimeout(n)
    BY DEF RequestTimeout, Calm
  <2>2. CASE HandleErrorResponse(n)
    <3>1. /\ Quiet /\ UNCHANGED <<state, socket, sock, subscriptions>>
          /\ flow' = FlowsAfterRejecting(Addressee(n))
      BY <2>2 DEF HandleErrorResponse, connVars, sockVars
    <3>2. \A f \in Flow : Coming(f)' => Coming(f)
      BY <3>1, RejectingMoves DEF Coming
    <3> QED
      BY <3>1, <3>2, SameFed
  <2> QED
    BY <1>5, <2>1, <2>2, HandleResponseFed
<1> QED
  BY <1>1, <1>2, <1>3, <1>4, <1>5 DEF Next

\* A handler kept in this.subscriptions is fed by the server of the present
\* connection, whatever connections came before it, when only reconnect() carries
\* subscriptions over to a new one.
THEOREM SubscriptionsAreHonest ==
  ASSUME Calm, UserConnects = "fresh"
  PROVE  Spec => []HonestSubscriptions
<1>1. Init => Fed
  BY DEF Init, IdleFlow, Fed, Coming
<1>2. IInv /\ CalmInv /\ Fed /\ [Next]_vars => Fed'
  BY StepFed
<1>3. Fed => HonestSubscriptions
  BY DEF Fed, HonestSubscriptions
<1> QED
  BY <1>1, <1>2, <1>3, Invariance, CalmInvariance, PTL DEF Spec

=============================================================================
