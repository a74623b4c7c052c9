------------------------ MODULE SharedThreaderProofs ------------------------
(***************************************************************************)
(* Machine-checked proofs about the worker pool, for any set of tasks, any *)
(* pool size, any number of closing calls, and with every switch of the    *)
(* environment on or off.                                                  *)
(***************************************************************************)
EXTENDS SharedThreader, SequenceTheorems, TLAPS

-----------------------------------------------------------------------------
(* The inductive invariant, over the stack av of available workers, the    *)
(* pending map pend, the messages box of each worker and the counter n.    *)

PendingTyped(pend) ==
  DOMAIN pend \subseteq Nat /\ \A id \in DOMAIN pend : pend[id] \in Task

\* OneTaskPerWorker of the state, said of any stack and messages.
Exclusive(av, box) ==
  /\ \A i, j \in 1..Len(av) : i # j => av[i] # av[j]
  /\ \A w \in Worker : \A m, n \in box[w] : m = n
  /\ \A i \in 1..Len(av) : box[av[i]] = {}

\* Ids in use were handed out by the counter.
IdsBelow(pend, box, n) ==
  /\ \A id \in DOMAIN pend : id < n
  /\ \A w \in Worker : \A m \in box[w] : m.id < n

\* A message a worker holds is filed under its id, if the id is filed at all.
FiledRight(pend, box) ==
  \A w \in Worker : \A m \in box[w] : m.id \in DOMAIN pend => pend[m.id] = m.task

\* Worker w is neither available nor at work.
Unused(w, av, box) == box[w] = {} /\ \A i \in 1..Len(av) : av[i] # w

IInv ==
  /\ TypeOK
  /\ Exclusive(available, inbox)
  /\ IdsBelow(pending, inbox, idCounter)
  /\ FiledRight(pending, inbox)
  /\ \A w \in Worker : initState[w[1]] # "done" => Unused(w, available, inbox)
  /\ OwnResult
-----------------------------------------------------------------------------
(* processQueue() keeps the invariant, whatever state it starts from.      *)

LEMMA DispatchSafe ==
  ASSUME idCounter \in Nat, alive \in [Worker -> BOOLEAN],
         NEW q \in Seq(Task), NEW av \in Seq(Worker),
         NEW pend, PendingTyped(pend),
         NEW box \in [Worker -> SUBSET Message],
         Exclusive(av, box), IdsBelow(pend, box, idCounter), FiledRight(pend, box),
         ProcessQueue(q, av, pend, box)
  PROVE  /\ queue' \in Seq(Task) /\ available' \in Seq(Worker)
         /\ PendingTyped(pending') /\ idCounter' \in Nat
         /\ inbox' \in [Worker -> SUBSET Message]
         /\ Exclusive(available', inbox')
         /\ IdsBelow(pending', inbox', idCounter')
         /\ FiledRight(pending', inbox')
         /\ \A w \in Worker : Unused(w, av, box) => Unused(w, available', inbox')
<1> DEFINE k == IF Len(q) < Len(av) THEN Len(q) ELSE Len(av)
           ids == idCounter .. (idCounter + k - 1)
           TaskOf(id) == q[id - idCounter + 1]
           WorkerOf(id) == av[Len(av) - (id - idCounter)]
           Posted(w) == {[id |-> id, task |-> TaskOf(id)] :
                            id \in {i \in ids : WorkerOf(i) = w}}
<1>1. k \in Nat /\ k <= Len(q) /\ k <= Len(av) /\ Len(q) \in Nat /\ Len(av) \in Nat
  BY LenProperties
<1>2. /\ queue' = SubSeq(q, k + 1, Len(q))
      /\ available' = SubSeq(av, 1, Len(av) - k)
      /\ pending' = [id \in DOMAIN pend \cup ids |->
                       IF id \in ids THEN TaskOf(id) ELSE pend[id]]
      /\ idCounter' = idCounter + k
      /\ inbox' = [w \in Worker |-> IF alive[w] THEN box[w] \cup Posted(w) ELSE box[w]]
  BY DEF ProcessQueue, FirstId
<1> HIDE DEF k
<1>3. \A id \in ids : /\ id \in Nat /\ id >= idCounter
                      /\ id - idCounter + 1 \in 1..Len(q)
                      /\ Len(av) - (id - idCounter) \in (Len(av) - k + 1)..Len(av)
  BY <1>1
<1>4. \A id \in ids : TaskOf(id) \in Task /\ WorkerOf(id) \in Worker
  BY <1>1, <1>3, ElementOfSeq
<1>5. queue' \in Seq(Task)
  <2>1. \A i \in (k + 1)..Len(q) : q[i] \in Task
    BY <1>1, ElementOfSeq
  <2>2. QED BY <2>1, <1>1, <1>2, SubSeqProperties
<1>6. /\ available' \in Seq(Worker) /\ Len(available') = Len(av) - k
      /\ \A i \in 1..Len(available') : i \in 1..(Len(av) - k) /\ available'[i] = av[i]
  <2>1. \A i \in 1..(Len(av) - k) : av[i] \in Worker
    BY <1>1, ElementOfSeq
  <2>2. /\ SubSeq(av, 1, Len(av) - k) \in Seq(Worker)
        /\ Len(SubSeq(av, 1, Len(av) - k)) =
             IF 1 <= Len(av) - k THEN Len(av) - k - 1 + 1 ELSE 0
        /\ \A i \in 1..(Len(av) - k - 1 + 1) : SubSeq(av, 1, Len(av) - k)[i] = av[1 + i - 1]
    BY <2>1, <1>1, SubSeqProperties
  <2>3. QED BY <2>2, <1>1, <1>2
<1>7. PendingTyped(pending') /\ idCounter' \in Nat
  BY <1>1, <1>3, <1>4, <1>2 DEF PendingTyped
<1>8. \A w \in Worker : Posted(w) \in SUBSET Message
  BY <1>3, <1>4 DEF Message
<1>9. inbox' \in [Worker -> SUBSET Message]
  BY <1>2, <1>8
<1>10. \A w \in Worker : \A m \in inbox'[w] :
         \/ m \in box[w]
         \/ /\ m.id \in ids /\ m.task = TaskOf(m.id) /\ WorkerOf(m.id) = w
            /\ m = [id |-> m.id, task |-> TaskOf(m.id)]
  BY <1>2
<1>11. \A i, j \in ids : WorkerOf(i) = WorkerOf(j) => i = j
  <2>1. SUFFICES ASSUME NEW i \in ids, NEW j \in ids, i # j
                 PROVE  WorkerOf(i) # WorkerOf(j)
    OBVIOUS
  <2>2. /\ Len(av) - (i - idCounter) \in 1..Len(av)
        /\ Len(av) - (j - idCounter) \in 1..Len(av)
        /\ Len(av) - (i - idCounter) # Len(av) - (j - idCounter)
    BY <2>1, <1>1, <1>3
  <2>3. QED BY <2>2 DEF Exclusive
<1>12. \A id \in ids : box[WorkerOf(id)] = {}
  BY <1>1, <1>3 DEF Exclusive
<1>13. Exclusive(available', inbox')
  <2>1. \A i, j \in 1..Len(available') : i # j => available'[i] # available'[j]
    BY <1>1, <1>6 DEF Exclusive
  <2>2. \A w \in Worker : \A m, n \in inbox'[w] : m = n
    <3>1. SUFFICES ASSUME NEW w \in Worker, NEW m \in inbox'[w], NEW n \in inbox'[w]
                   PROVE  m = n
      OBVIOUS
    <3>2. CASE m \in box[w] /\ n \in box[w]
      BY <3>2 DEF Exclusive
    <3>3. CASE m \notin box[w] \/ n \notin box[w]
      <4>1. box[w] = {}
        BY <3>3, <1>10, <1>12
      <4>2. QED BY <4>1, <1>10, <1>11
    <3>4. QED BY <3>2, <3>3
  <2>3. \A i \in 1..Len(available') : inbox'[available'[i]] = {}
    <3>1. SUFFICES ASSUME NEW i \in 1..Len(available')
                   PROVE  inbox'[available'[i]] = {}
      OBVIOUS
    <3>2. i \in 1..(Len(av) - k) /\ i \in 1..Len(av) /\ available'[i] = av[i]
      BY <1>1, <1>6
    <3>3. av[i] \in Worker /\ box[av[i]] = {}
      BY <3>2, ElementOfSeq DEF Exclusive
    <3>4. \A id \in ids : WorkerOf(id) # av[i]
      BY <3>2, <1>1, <1>3 DEF Exclusive
    <3>5. QED BY <3>2, <3>3, <3>4, <1>10
  <2>4. QED BY <2>1, <2>2, <2>3 DEF Exclusive
<1>14. IdsBelow(pending', inbox', idCounter')
  <2>1. \A id \in ids : id < idCounter'
    BY <1>1, <1>2
  <2>2. \A id \in DOMAIN pend : id < idCounter'
    BY <1>1, <1>2 DEF IdsBelow, PendingTyped
  <2>3. \A w \in Worker : \A m \in box[w] : m.id < idCounter'
    BY <1>1, <1>2 DEF IdsBelow, Message
  <2>4. QED BY <2>1, <2>2, <2>3, <1>2, <1>10 DEF IdsBelow
<1>15. FiledRight(pending', inbox')
  <2>1. SUFFICES ASSUME NEW w \in Worker, NEW m \in inbox'[w], m.id \in DOMAIN pending'
                 PROVE  pending'[m.id] = m.task
    BY DEF FiledRight
  <2>2. CASE m \in box[w]
    <3>1. m.id \notin ids /\ m.id \in DOMAIN pend
      BY <2>1, <2>2, <1>3, <1>2 DEF IdsBelow, Message
    <3>2. QED BY <2>2, <3>1, <1>2 DEF FiledRight
  <2>3. CASE m.id \in ids /\ m.task = TaskOf(m.id)
    BY <2>3, <1>2
  <2>4. QED BY <2>2, <2>3, <1>10
<1>16. ASSUME NEW w \in Worker, Unused(w, av, box)
       PROVE  Unused(w, available', inbox')
  <2>1. \A id \in ids : WorkerOf(id) # w
    BY <1>16, <1>1, <1>3 DEF Unused
  <2>2. inbox'[w] = {}
    BY <1>16, <1>10, <2>1 DEF Unused
  <2>3. \A i \in 1..Len(available') : available'[i] # w
    BY <1>16, <1>1, <1>6 DEF Unused
  <2>4. QED BY <2>2, <2>3 DEF Unused
<1>17. QED BY <1>5, <1>6, <1>7, <1>9, <1>13, <1>14, <1>15, <1>16
-----------------------------------------------------------------------------
(* Settling promises keeps every caller's result its own.                  *)

LEMMA SettleTyped ==
  ASSUME TypeOK, OwnResult, NEW ts, NEW v \in Task \cup {"rejected"},
         v \in Task => ts = {v},
         outcome' = Settle(ts, v)
  PROVE  /\ outcome' \in [Task -> Task \cup {"none", "unsettled", "rejected"}]
         /\ OwnResult'
  BY OutcomeAssumption DEF TypeOK, OwnResult, Settle

\* Fewer messages break nothing.
LEMMA FewerMessages ==
  ASSUME NEW av \in Seq(Worker), NEW pend, NEW n,
         NEW old \in [Worker -> SUBSET Message], NEW box,
         box \in [Worker -> SUBSET Message],
         \A w \in Worker : box[w] \subseteq old[w],
         Exclusive(av, old), IdsBelow(pend, old, n), FiledRight(pend, old)
  PROVE  /\ Exclusive(av, box) /\ IdsBelow(pend, box, n) /\ FiledRight(pend, box)
         /\ \A w \in Worker : Unused(w, av, old) => Unused(w, av, box)
<1>1. \A i \in 1..Len(av) : av[i] \in Worker
  BY ElementOfSeq
<1>2. Exclusive(av, box)
  BY <1>1 DEF Exclusive
<1>3. IdsBelow(pend, box, n) /\ FiledRight(pend, box)
  BY DEF IdsBelow, FiledRight
<1>4. \A w \in Worker : Unused(w, av, old) => Unused(w, av, box)
  BY DEF Unused
<1> QED BY <1>2, <1>3, <1>4

\* The loop of terminate() and its end, from any array of workers and with any
\* part of the messages left.
LEMMA TerminateFromSafe ==
  ASSUME IInv, NEW c \in Closer, NEW a \in Nat, NEW i \in Nat, NEW q \in Seq(Task),
         NEW box, box \in [Worker -> SUBSET Message],
         \A w \in Worker : box[w] \subseteq inbox[w],
         TerminateFrom(c, a, i, q, box)
  PROVE  /\ initialized' \in BOOLEAN /\ initializing' \in 0..MaxInits
         /\ initState' = initState
         /\ arrayNo' \in Nat /\ workers' \in Seq(Seq(Worker)) /\ Len(workers') = arrayNo' + 1
         /\ available' \in Seq(Worker) /\ queue' \in Seq(Task)
         /\ PendingTyped(pending') /\ idCounter' \in Nat
         /\ inbox' \in [Worker -> SUBSET Message]
         /\ alive' \in [Worker -> BOOLEAN]
         /\ closer' \in [Closer ->
              [pc : CloserPC, array : Nat, next : Nat, watch : SUBSET Nat]]
         /\ Exclusive(available', inbox')
         /\ IdsBelow(pending', inbox', idCounter')
         /\ FiledRight(pending', inbox')
         /\ \A w \in Worker : Unused(w, available, inbox) => Unused(w, available', inbox')
<1> USE DEF IInv, TypeOK, PendingTyped
<1>0. /\ inbox' = box
      /\ Exclusive(available, inbox') /\ IdsBelow(pending, inbox', idCounter)
      /\ FiledRight(pending, inbox')
      /\ \A w \in Worker : Unused(w, available, inbox) => Unused(w, available, inbox')
  <2>1. inbox' = box
    BY DEF TerminateFrom
  <2>2. available \in Seq(Worker) /\ inbox \in [Worker -> SUBSET Message]
    OBVIOUS
  <2>3. /\ Exclusive(available, box) /\ IdsBelow(pending, box, idCounter)
        /\ FiledRight(pending, box)
        /\ \A w \in Worker : Unused(w, available, inbox) => Unused(w, available, box)
    BY <2>2, FewerMessages
  <2> QED BY <2>1, <2>3
<1>1. CASE /\ i <= Len(workers[a])
           /\ alive' = [alive EXCEPT ![workers[a][i]] = FALSE]
           /\ closer' = [closer EXCEPT ![c] =
                [pc |-> "terminating", array |-> a, next |-> i + 1, watch |-> {}]]
           /\ queue' = q
           /\ UNCHANGED <<poolVars, available, pending, idCounter>>
  <2>1. UNCHANGED <<initialized, initializing, initState, workers, arrayNo, available,
                    pending, idCounter>>
    BY <1>1 DEF poolVars
  <2>2. queue' \in Seq(Task) /\ alive' \in [Worker -> BOOLEAN]
    BY <1>1
  <2>3. closer' \in [Closer ->
              [pc : CloserPC, array : Nat, next : Nat, watch : SUBSET Nat]]
    BY <1>1 DEF CloserPC
  <2>4. QED BY <1>0, <2>1, <2>2, <2>3
<1>2. CASE ClearPool(c)
  <2>1. /\ workers' \in Seq(Seq(Worker)) /\ Len(workers') = arrayNo' + 1 /\ arrayNo' \in Nat
    <3>1. << >> \in Seq(Worker)
      BY EmptySeq
    <3>2. QED BY <1>2, <3>1, AppendProperties DEF ClearPool
  <2>2. /\ available' \in Seq(Worker) /\ queue' \in Seq(Task) /\ Len(available') = 0
    BY <1>2, EmptySeq DEF ClearPool
  <2>3. PendingTyped(pending') /\ DOMAIN pending' = {}
    <3>1. DOMAIN pending' = {}
      BY <1>2 DEF ClearPool
    <3>2. QED BY <3>1
  <2>4. /\ initialized' \in BOOLEAN /\ initializing' \in 0..MaxInits
        /\ initState' = initState /\ idCounter' = idCounter /\ alive' = alive
    <3>1. initialized' \in BOOLEAN
      BY <1>2, Zenon DEF ClearPool
    <3>2. initializing' \in 0..MaxInits
      BY <1>2, PoolAssumption DEF ClearPool
    <3>3. QED BY <1>2, <3>1, <3>2 DEF ClearPool
  <2>5. closer' \in [Closer ->
              [pc : CloserPC, array : Nat, next : Nat, watch : SUBSET Nat]]
    BY <1>2 DEF ClearPool, CloserPC
  <2>6. /\ Exclusive(available', inbox')
        /\ \A w \in Worker : Unused(w, available, inbox) => Unused(w, available', inbox')
    BY <1>0, <2>2, <2>4 DEF Exclusive, Unused
  <2>7. /\ IdsBelow(pending', inbox', idCounter')
        /\ FiledRight(pending', inbox')
    BY <1>0, <2>3, <2>4 DEF IdsBelow, FiledRight
  <2>8. QED BY <1>0, <2>1, <2>2, <2>3, <2>4, <2>5, <2>6, <2>7
<1>3. QED BY <1>1, <1>2 DEF TerminateFrom
-----------------------------------------------------------------------------
LEMMA InitIInv == Init => IInv
<1> SUFFICES ASSUME Init PROVE IInv
  OBVIOUS
<1>0. DOMAIN pending = {}
  BY DEF Init
<1>1. TypeOK
  <2>1. workers \in Seq(Seq(Worker)) /\ Len(workers) = arrayNo + 1
    BY EmptySeq DEF Init
  <2>2. available \in Seq(Worker) /\ queue \in Seq(Task)
    BY EmptySeq DEF Init
  <2>3. closer \in [Closer -> [pc : CloserPC, array : Nat, next : Nat, watch : SUBSET Nat]]
    BY DEF Init, NotClosing, CloserPC
  <2>4. DOMAIN pending \subseteq Nat /\ \A id \in DOMAIN pending : pending[id] \in Task
    BY <1>0
  <2>5. initialized \in BOOLEAN /\ raced \in BOOLEAN
    BY Zenon DEF Init
  <2>6. /\ initializing \in 0..MaxInits /\ arrayNo \in Nat
        /\ initState \in [InitId -> {"unused", "creating", "done", "failed"}]
        /\ idCounter \in Nat
    BY PoolAssumption DEF Init
  <2>7. /\ inbox \in [Worker -> SUBSET Message] /\ alive \in [Worker -> BOOLEAN]
        /\ awaits \in [Task -> 0..MaxInits]
        /\ phase \in [Task -> {"idle", "awaitInit", "entered"}]
        /\ outcome \in [Task -> Task \cup {"none", "unsettled", "rejected"}]
    BY PoolAssumption DEF Init
  <2>8. QED BY <2>1, <2>2, <2>3, <2>4, <2>5, <2>6, <2>7 DEF TypeOK
<1>2. Exclusive(available, inbox)
  BY DEF Init, Exclusive
<1>3. IdsBelow(pending, inbox, idCounter) /\ FiledRight(pending, inbox)
  BY <1>0 DEF Init, IdsBelow, FiledRight
<1>4. \A w \in Worker : Unused(w, available, inbox)
  BY DEF Init, Unused
<1>5. OwnResult
  BY OutcomeAssumption DEF Init, OwnResult
<1>6. QED BY <1>1, <1>2, <1>3, <1>4, <1>5 DEF IInv
-----------------------------------------------------------------------------
(* Every step keeps the invariant: one lemma per action that touches the   *)
(* workers, the ids or the promises.                                       *)

LEMMA RunSafe ==
  ASSUME IInv, NEW t \in Task, Run(t)
  PROVE  IInv'
<1> USE DEF IInv
<1>1. /\ UNCHANGED <<initialized, workers, arrayNo, alive, closer>>
      /\ UNCHANGED <<available, queue, pending, idCounter, inbox>>
  BY DEF Run, workVars
<1>2. /\ initializing' \in 0..MaxInits
      /\ initState' \in [InitId -> {"unused", "creating", "done", "failed"}]
      /\ awaits' \in [Task -> 0..MaxInits]
      /\ \A k \in InitId : initState'[k] # "done" => initState[k] # "done"
  <2>1. CASE /\ initialized
             /\ UNCHANGED <<awaits, initializing, initState>>
    BY <2>1 DEF TypeOK
  <2>2. CASE /\ initializing # 0
             /\ awaits' = [awaits EXCEPT ![t] = initializing]
             /\ UNCHANGED <<initializing, initState>>
    BY <2>2 DEF TypeOK
  <2>3. CASE \E k \in InitId :
             /\ initState[k] = "unused"
             /\ initializing' = k
             /\ initState' = [initState EXCEPT ![k] = "creating"]
             /\ awaits' = [awaits EXCEPT ![t] = k]
    BY <2>3, PoolAssumption DEF TypeOK, InitId
  <2>4. QED BY <2>1, <2>2, <2>3 DEF Run
<1>3. /\ phase' \in [Task -> {"idle", "awaitInit", "entered"}]
      /\ outcome' \in [Task -> Task \cup {"none", "unsettled", "rejected"}]
      /\ OwnResult'
  BY OutcomeAssumption DEF Run, TypeOK, OwnResult
<1>4. raced' \in BOOLEAN
  BY Zenon DEF Run
<1>5. TypeOK'
  BY <1>1, <1>2, <1>3, <1>4 DEF TypeOK
<1>6. \A w \in Worker : initState'[w[1]] # "done" => Unused(w, available', inbox')
  BY <1>1, <1>2 DEF Worker, Unused
<1>7. QED BY <1>1, <1>3, <1>5, <1>6 DEF Exclusive, IdsBelow, FiledRight

LEMMA InitDoneSafe ==
  ASSUME IInv, NEW k \in InitId, InitDone(k)
  PROVE  IInv'
<1> USE DEF IInv
<1>1. /\ initState[k] = "creating" /\ initState' = [initState EXCEPT ![k] = "done"]
      /\ workers' = [workers EXCEPT ![arrayNo + 1] = @ \o PoolOf(k)]
      /\ available' = available \o PoolOf(k)
      /\ alive' = [w \in Worker |-> w[1] = k \/ alive[w]]
      /\ initialized' = TRUE
      /\ UNCHANGED <<initializing, arrayNo, queue, pending, idCounter, inbox, awaits,
                     phase, outcome, closer, raced>>
  BY DEF InitDone
<1>2. /\ PoolOf(k) \in Seq(Worker) /\ Len(PoolOf(k)) = PoolSize
      /\ \A j \in 1..PoolSize : PoolOf(k)[j] = <<k, j>> /\ <<k, j>> \in Worker
  BY PoolAssumption, IsASeq, LenProperties DEF PoolOf, Worker
<1> DEFINE L == Len(available)
<1>3. /\ available' \in Seq(Worker) /\ L \in Nat
      /\ Len(available') = L + PoolSize
      /\ \A i \in 1..L : available'[i] = available[i]
      /\ \A i \in (L + 1)..(L + PoolSize) :
           i - L \in 1..PoolSize /\ available'[i] = <<k, i - L>>
  <2>1. available \in Seq(Worker) /\ L \in Nat
    BY LenProperties DEF TypeOK
  <2>2. /\ available \o PoolOf(k) \in Seq(Worker)
        /\ Len(available \o PoolOf(k)) = Len(available) + Len(PoolOf(k))
        /\ \A i \in 1..(Len(available) + Len(PoolOf(k))) : (available \o PoolOf(k))[i] =
             IF i <= Len(available) THEN available[i] ELSE PoolOf(k)[i - Len(available)]
    BY <1>2, <2>1, ConcatProperties
  <2> HIDE DEF L
  <2>3. \A i \in (L + 1)..(L + PoolSize) : i - L \in 1..PoolSize
    BY <2>1, PoolAssumption
  <2>4. /\ \A i \in 1..L : i \in 1..(L + PoolSize) /\ i <= L
        /\ \A i \in (L + 1)..(L + PoolSize) : i \in 1..(L + PoolSize) /\ ~(i <= L)
    BY <2>1, PoolAssumption
  <2>5. QED BY <1>1, <1>2, <2>1, <2>2, <2>3, <2>4 DEF L
<1>4. workers' \in Seq(Seq(Worker)) /\ Len(workers') = arrayNo' + 1
  <2>1. arrayNo + 1 \in 1..Len(workers)
    BY DEF TypeOK
  <2>2. workers[arrayNo + 1] \o PoolOf(k) \in Seq(Worker)
    BY <1>2, <2>1, ElementOfSeq, ConcatProperties DEF TypeOK
  <2>3. QED BY <1>1, <2>1, <2>2, ExceptSeq DEF TypeOK
<1>5. TypeOK'
  <2>1. initialized' \in BOOLEAN /\ alive' \in [Worker -> BOOLEAN]
    BY <1>1, Zenon
  <2>2. initState' \in [InitId -> {"unused", "creating", "done", "failed"}]
    BY <1>1 DEF TypeOK
  <2>3. QED BY <1>1, <1>3, <1>4, <2>1, <2>2 DEF TypeOK
<1>6. \A j \in 1..PoolSize : Unused(<<k, j>>, available, inbox)
  BY <1>1, <1>2
<1>7. Exclusive(available', inbox')
  <2>1. \A i, j \in 1..Len(available') : i # j => available'[i] # available'[j]
    <3>1. SUFFICES ASSUME NEW i \in 1..Len(available'), NEW j \in 1..Len(available'),
                          i # j
                   PROVE  available'[i] # available'[j]
      OBVIOUS
    <3>2. /\ i \in 1..L \/ i \in (L + 1)..(L + PoolSize)
          /\ j \in 1..L \/ j \in (L + 1)..(L + PoolSize)
      BY <1>3, PoolAssumption
    <3>3. CASE i \in 1..L /\ j \in 1..L
      BY <3>1, <3>3, <1>3 DEF Exclusive
    <3>4. CASE i \in (L + 1)..(L + PoolSize) /\ j \in (L + 1)..(L + PoolSize)
      <4>1. i - L # j - L
        BY <3>1, <3>4, <1>3
      <4>2. QED BY <3>4, <4>1, <1>3
    <3>5. CASE \/ i \in 1..L /\ j \in (L + 1)..(L + PoolSize)
               \/ j \in 1..L /\ i \in (L + 1)..(L + PoolSize)
      <4>1. \A m \in 1..PoolSize, n \in 1..L : available[n] # <<k, m>>
        BY <1>6 DEF Unused
      <4>2. QED BY <3>5, <4>1, <1>3
    <3>6. QED BY <3>2, <3>3, <3>4, <3>5
  <2>2. \A i \in 1..Len(available') : inbox'[available'[i]] = {}
    <3>1. SUFFICES ASSUME NEW i \in 1..Len(available')
                   PROVE  inbox[available'[i]] = {}
      BY <1>1
    <3>2. i \in 1..L \/ i \in (L + 1)..(L + PoolSize)
      BY <1>3, PoolAssumption
    <3>3. CASE i \in 1..L
      BY <3>3, <1>3 DEF Exclusive
    <3>4. CASE i \in (L + 1)..(L + PoolSize)
      <4>1. available'[i] = <<k, i - L>> /\ i - L \in 1..PoolSize
        BY <3>4, <1>3
      <4>2. QED BY <4>1, <1>6 DEF Unused
    <3>5. QED BY <3>2, <3>3, <3>4
  <2>3. QED BY <1>1, <2>1, <2>2 DEF Exclusive
<1>8. ASSUME NEW w \in Worker, initState'[w[1]] # "done"
      PROVE  Unused(w, available', inbox')
  <2>1. w[1] # k /\ w[1] \in InitId /\ initState[w[1]] # "done"
    BY <1>1, <1>8 DEF Worker, TypeOK
  <2>2. Unused(w, available, inbox)
    BY <2>1
  <2>3. \A j \in 1..PoolSize : <<k, j>> # w
    BY <2>1
  <2>4. \A i \in 1..Len(available') : available'[i] # w
    <3>1. SUFFICES ASSUME NEW i \in 1..Len(available') PROVE available'[i] # w
      OBVIOUS
    <3>2. i \in 1..L \/ i \in (L + 1)..(L + PoolSize)
      BY <1>3, PoolAssumption
    <3>3. CASE i \in 1..L
      BY <3>3, <1>3, <2>2 DEF Unused
    <3>4. CASE i \in (L + 1)..(L + PoolSize)
      BY <3>4, <1>3, <2>3
    <3>5. QED BY <3>2, <3>3, <3>4
  <2>5. QED BY <1>1, <2>2, <2>4 DEF Unused
<1>9. QED BY <1>1, <1>5, <1>7, <1>8 DEF IdsBelow, FiledRight, OwnResult

LEMMA EnterSafe ==
  ASSUME IInv, NEW t \in Task, Enter(t)
  PROVE  IInv'
<1> USE DEF IInv
<1>1. /\ ProcessQueue(Append(queue, t), available, pending, inbox)
      /\ UNCHANGED <<initialized, initializing, initState, workers, arrayNo, alive,
                     awaits, outcome, closer, raced>>
      /\ phase' \in [Task -> {"idle", "awaitInit", "entered"}]
  BY DEF Enter, poolVars, TypeOK
<1>2. Append(queue, t) \in Seq(Task)
  BY AppendProperties DEF TypeOK
<1>3. /\ queue' \in Seq(Task) /\ available' \in Seq(Worker)
      /\ PendingTyped(pending') /\ idCounter' \in Nat
      /\ inbox' \in [Worker -> SUBSET Message]
      /\ Exclusive(available', inbox')
      /\ IdsBelow(pending', inbox', idCounter')
      /\ FiledRight(pending', inbox')
      /\ \A w \in Worker : Unused(w, available, inbox) => Unused(w, available', inbox')
  BY <1>1, <1>2, DispatchSafe DEF TypeOK, PendingTyped
<1>4. TypeOK'
  BY <1>1, <1>3 DEF TypeOK, PendingTyped
<1>5. QED BY <1>1, <1>3, <1>4 DEF OwnResult

LEMMA ReplySafe ==
  ASSUME IInv, NEW w \in Worker, NEW m \in inbox[w], NEW ok \in BOOLEAN, Reply(w, m, ok)
  PROVE  IInv'
<1> USE DEF IInv
<1> DEFINE left == [id \in DOMAIN pending \ {m.id} |-> pending[id]]
           box == [inbox EXCEPT ![w] = @ \ {m}]
           av == Append(available, w)
<1>1. /\ m \in inbox[w] /\ m \in Message
      /\ ProcessQueue(queue, av, left, box)
      /\ UNCHANGED <<initialized, initializing, initState, workers, arrayNo, alive,
                     awaits, phase, raced>>
  BY DEF Reply, Release, poolVars, TypeOK
<1>2. closer' \in [Closer -> [pc : CloserPC, array : Nat, next : Nat, watch : SUBSET Nat]]
  BY DEF Reply, WakeDrains, TypeOK, CloserPC
<1>3. outcome' \in [Task -> Task \cup {"none", "unsettled", "rejected"}] /\ OwnResult'
  <2>1. CASE m.id \in DOMAIN pending
    <3>1. pending[m.id] = m.task /\ m.task \in Task
      BY <1>1, <2>1 DEF FiledRight, Message
    <3>2. outcome' = Settle({m.task}, IF ok THEN m.task ELSE "rejected")
      BY <2>1, <3>1 DEF Reply
    <3>3. CASE ok
      BY <3>1, <3>2, <3>3, SettleTyped
    <3>4. CASE ~ok
      <4>1. outcome' = Settle({m.task}, "rejected")
        BY <3>2, <3>4
      <4>2. "rejected" \notin Task
        BY OutcomeAssumption
      <4>3. QED BY <4>1, <4>2, SettleTyped
    <3>5. QED BY <3>3, <3>4
  <2>2. CASE m.id \notin DOMAIN pending
    <3>1. outcome' = outcome
      BY <2>2 DEF Reply
    <3>2. QED BY <3>1 DEF TypeOK, OwnResult
  <2>3. QED BY <2>1, <2>2
<1>4. /\ av \in Seq(Worker) /\ Len(av) = Len(available) + 1
      /\ \A i \in 1..Len(available) : av[i] = available[i]
      /\ av[Len(available) + 1] = w
  BY AppendProperties DEF TypeOK
<1>5. PendingTyped(left) /\ box \in [Worker -> SUBSET Message]
  BY DEF TypeOK, PendingTyped
<1>6. box[w] = {} /\ \A i \in 1..Len(available) : available[i] # w
  BY <1>1 DEF Exclusive, TypeOK
<1>7. Exclusive(av, box)
  <2>1. \A i \in 1..Len(av) : i \in 1..Len(available) \/ i = Len(available) + 1
    BY <1>4, LenProperties DEF TypeOK
  <2>2. \A i, j \in 1..Len(av) : i # j => av[i] # av[j]
    BY <1>4, <1>6, <2>1 DEF Exclusive
  <2>3. \A x \in Worker : \A n1, n2 \in box[x] : n1 = n2
    BY DEF Exclusive, TypeOK
  <2>4. \A i \in 1..Len(av) : box[av[i]] = {}
    <3>1. SUFFICES ASSUME NEW i \in 1..Len(av) PROVE box[av[i]] = {}
      OBVIOUS
    <3>2. CASE i \in 1..Len(available)
      <4>1. available[i] \in Worker /\ available[i] # w /\ inbox[available[i]] = {}
        BY <3>2, <1>6, ElementOfSeq DEF Exclusive, TypeOK
      <4>2. QED BY <3>2, <4>1, <1>4 DEF TypeOK
    <3>3. CASE i = Len(available) + 1
      BY <3>3, <1>4, <1>6
    <3>4. QED BY <3>2, <3>3, <2>1
  <2>5. QED BY <2>2, <2>3, <2>4 DEF Exclusive
<1>8. IdsBelow(left, box, idCounter) /\ FiledRight(left, box)
  BY DEF IdsBelow, FiledRight, TypeOK
<1>9. idCounter \in Nat /\ alive \in [Worker -> BOOLEAN] /\ queue \in Seq(Task)
  BY DEF TypeOK
<1> HIDE DEF left, box, av
<1>10. /\ queue' \in Seq(Task) /\ available' \in Seq(Worker)
       /\ PendingTyped(pending') /\ idCounter' \in Nat
       /\ inbox' \in [Worker -> SUBSET Message]
       /\ Exclusive(available', inbox')
       /\ IdsBelow(pending', inbox', idCounter')
       /\ FiledRight(pending', inbox')
       /\ \A x \in Worker : Unused(x, av, box) => Unused(x, available', inbox')
  BY <1>1, <1>4, <1>5, <1>7, <1>8, <1>9, DispatchSafe
<1>11. \A x \in Worker : Unused(x, available, inbox) => Unused(x, av, box)
  <2>1. SUFFICES ASSUME NEW x \in Worker, Unused(x, available, inbox)
                 PROVE  Unused(x, av, box)
    OBVIOUS
  <2>2. x # w
    BY <2>1, <1>1 DEF Unused
  <2>3. box[x] = {}
    BY <2>1, <2>2 DEF Unused, box, TypeOK
  <2>4. \A i \in 1..Len(av) : av[i] # x
    <3>1. \A i \in 1..Len(av) : i \in 1..Len(available) \/ i = Len(available) + 1
      BY <1>4, LenProperties DEF TypeOK
    <3>2. QED BY <2>1, <2>2, <3>1, <1>4 DEF Unused
  <2>5. QED BY <2>3, <2>4 DEF Unused
<1>12. TypeOK'
  BY <1>1, <1>2, <1>3, <1>10 DEF TypeOK, PendingTyped
<1>13. QED BY <1>1, <1>3, <1>10, <1>11, <1>12

\* What terminate() does up to its first await, whoever calls it.
LEMMA TerminateBodySafe ==
  ASSUME IInv, NEW c \in Closer, NEW q \in Seq(Task), TerminateBody(c, q),
         UNCHANGED <<awaits, phase>>, raced' \in BOOLEAN
  PROVE  IInv'
<1> USE DEF IInv
<1>1. TerminateFrom(c, arrayNo + 1, 1, q, inbox) /\ arrayNo + 1 \in Nat
  BY DEF TerminateBody, TypeOK
<1>2. /\ outcome' \in [Task -> Task \cup {"none", "unsettled", "rejected"}]
      /\ OwnResult'
  <2>1. outcome' = Settle(QueuedTasks \cup PendingTasks, "rejected")
    BY DEF TerminateBody
  <2>2. "rejected" \notin Task
    BY OutcomeAssumption
  <2>3. QED BY <2>1, <2>2, SettleTyped
<1>3. QED BY <1>1, <1>2, TerminateFromSafe DEF TypeOK, PendingTyped

LEMMA TerminateNextSafe ==
  ASSUME IInv, NEW c \in Closer, TerminateNext(c)
  PROVE  IInv'
<1> USE DEF IInv
<1> DEFINE box == [inbox EXCEPT ![Dying(c)] = {}]
<1>0. box \in [Worker -> SUBSET Message] /\ \A w \in Worker : box[w] \subseteq inbox[w]
  BY DEF TypeOK
<1>1. /\ TerminateFrom(c, closer[c].array, closer[c].next, queue, box)
      /\ closer[c].array \in Nat /\ closer[c].next \in Nat /\ queue \in Seq(Task)
      /\ UNCHANGED <<awaits, phase, outcome, raced>>
  BY DEF TerminateNext, TypeOK
<1> HIDE DEF box
<1>2. QED BY <1>0, <1>1, TerminateFromSafe DEF TypeOK, PendingTyped, OwnResult

LEMMA DrainSafe ==
  ASSUME IInv, NEW c \in Closer, Drain(c)
  PROVE  IInv'
<1> USE DEF IInv, DrainedQueue
<1>0. raced' \in BOOLEAN
  BY Zenon DEF Drain
<1>1. CASE TerminateBody(c, <<>>)
  <2>1. << >> \in Seq(Task) /\ UNCHANGED <<awaits, phase>>
    BY EmptySeq DEF Drain
  <2>2. QED BY <1>1, <1>0, <2>1, TerminateBodySafe
<1>2. CASE /\ outcome' = Settle(QueuedTasks, "rejected")
           /\ queue' = <<>>
           /\ closer' = [closer EXCEPT ![c].pc = "draining", ![c].watch = DOMAIN pending]
           /\ UNCHANGED <<poolVars, available, pending, idCounter, inbox, alive>>
  <2>1. /\ outcome' \in [Task -> Task \cup {"none", "unsettled", "rejected"}]
        /\ OwnResult'
    <3>1. "rejected" \notin Task
      BY OutcomeAssumption
    <3>2. QED BY <1>2, <3>1, SettleTyped
  <2>2. closer' \in [Closer ->
          [pc : CloserPC, array : Nat, next : Nat, watch : SUBSET Nat]]
    BY <1>2 DEF TypeOK, CloserPC
  <2>3. queue' \in Seq(Task)
    BY <1>2, EmptySeq
  <2>4. UNCHANGED <<initialized, initializing, initState, workers, arrayNo, available,
                    pending, idCounter, inbox, alive, awaits, phase>>
    BY <1>2 DEF poolVars, Drain
  <2>5. TypeOK'
    BY <1>0, <2>1, <2>2, <2>3, <2>4 DEF TypeOK
  <2>6. QED BY <2>1, <2>4, <2>5 DEF Exclusive, IdsBelow, FiledRight, Unused
<1>3. QED BY <1>1, <1>2 DEF Drain

LEMMA DrainDoneSafe ==
  ASSUME IInv, NEW c \in Closer, DrainDone(c)
  PROVE  IInv'
<1> USE DEF IInv
<1>1. CASE TerminateBody(c, queue)
  BY <1>1, TerminateBodySafe DEF DrainDone, TypeOK
<1>2. CASE /\ closer' = [closer EXCEPT ![c].pc = "returned", ![c].watch = {}]
           /\ UNCHANGED <<poolVars, workVars, alive, outcome>>
  <2>1. closer' \in [Closer ->
          [pc : CloserPC, array : Nat, next : Nat, watch : SUBSET Nat]]
    BY <1>2 DEF TypeOK, CloserPC
  <2>2. UNCHANGED <<initialized, initializing, initState, workers, arrayNo, available,
                    queue, pending, idCounter, inbox, alive, awaits, phase, outcome,
                    raced>>
    BY <1>2 DEF poolVars, workVars, DrainDone
  <2>3. QED BY <2>1, <2>2 DEF TypeOK, Exclusive, IdsBelow, FiledRight, Unused, OwnResult
<1>3. QED BY <1>1, <1>2 DEF DrainDone
-----------------------------------------------------------------------------
LEMMA NextIInv == IInv /\ [Next]_vars => IInv'
<1> SUFFICES ASSUME IInv, [Next]_vars PROVE IInv'
  OBVIOUS
<1>1. ASSUME NEW t \in Task, Run(t) PROVE IInv'
  BY <1>1, RunSafe
<1>2. ASSUME NEW t \in Task, Enter(t) PROVE IInv'
  BY <1>2, EnterSafe
<1>3. ASSUME NEW k \in InitId, InitDone(k) PROVE IInv'
  BY <1>3, InitDoneSafe
<1>4. ASSUME NEW k \in InitId, InitFail(k) PROVE IInv'
  <2>1. /\ initState' \in [InitId -> {"unused", "creating", "done", "failed"}]
        /\ \A w \in Worker : initState'[w[1]] # "done" => initState[w[1]] # "done"
    BY <1>4 DEF InitFail, IInv, TypeOK, Worker
  <2>2. UNCHANGED <<initialized, initializing, workers, arrayNo, available, queue,
                    pending, idCounter, inbox, alive, awaits, phase, outcome, closer,
                    raced>>
    BY <1>4 DEF InitFail, workVars
  <2>3. QED BY <2>1, <2>2
               DEF IInv, TypeOK, Exclusive, IdsBelow, FiledRight, Unused, OwnResult
<1>5. ASSUME NEW w \in Worker, NEW ok \in BOOLEAN, NEW m \in inbox[w], Reply(w, m, ok)
      PROVE  IInv'
  BY <1>5, ReplySafe
<1>6. ASSUME NEW w \in Worker, Crash(w) PROVE IInv'
  <2>1. alive' \in [Worker -> BOOLEAN]
    BY <1>6, Zenon DEF Crash, IInv, TypeOK
  <2>2. UNCHANGED <<initialized, initializing, initState, workers, arrayNo, available,
                    queue, pending, idCounter, awaits, phase, outcome, closer, raced>>
    BY <1>6 DEF Crash, poolVars
  <2>3. /\ inbox' \in [Worker -> SUBSET Message]
        /\ \A x \in Worker : inbox'[x] \subseteq inbox[x]
    BY <1>6 DEF Crash, IInv, TypeOK
  <2>4. available \in Seq(Worker) /\ inbox \in [Worker -> SUBSET Message]
    BY DEF IInv, TypeOK
  <2>5. /\ Exclusive(available, inbox') /\ IdsBelow(pending, inbox', idCounter)
        /\ FiledRight(pending, inbox')
        /\ \A x \in Worker : Unused(x, available, inbox) => Unused(x, available, inbox')
    BY <2>3, <2>4, FewerMessages DEF IInv
  <2> QED BY <2>1, <2>2, <2>3, <2>5 DEF IInv, TypeOK, OwnResult
<1>7. ASSUME NEW c \in Closer, Terminate(c) PROVE IInv'
  <2>1. raced' \in BOOLEAN
    BY <1>7, Zenon DEF Terminate
  <2>2. QED BY <1>7, <2>1, TerminateBodySafe DEF Terminate, IInv, TypeOK
<1>8. ASSUME NEW c \in Closer, TerminateNext(c) PROVE IInv'
  BY <1>8, TerminateNextSafe
<1>9. ASSUME NEW c \in Closer, Drain(c) PROVE IInv'
  BY <1>9, DrainSafe
<1>10. ASSUME NEW c \in Closer, DrainDone(c) PROVE IInv'
  BY <1>10, DrainDoneSafe
<1>11. CASE UNCHANGED vars
  BY <1>11 DEF vars, poolVars, workVars, IInv, TypeOK, Exclusive, IdsBelow, FiledRight,
               Unused, OwnResult
<1>12. QED
  BY <1>1, <1>2, <1>3, <1>4, <1>5, <1>6, <1>7, <1>8, <1>9, <1>10, <1>11 DEF Next

LEMMA Invariance == Spec => []IInv
<1>1. Init => IInv
  BY InitIInv
<1>2. IInv /\ [Next]_vars => IInv'
  BY NextIInv
<1>3. QED BY <1>1, <1>2, PTL DEF Spec

\* Every variable of the pool keeps its type: the arrays hold workers of the
\* pools created, the queue and the pending map hold tasks.
THEOREM TypeCorrect == Spec => []TypeOK
<1>1. IInv => TypeOK
  BY DEF IInv
<1>2. QED BY <1>1, Invariance, PTL

\* However run(), terminate() and drain() interleave with answers, crashes and
\* failed creations, no worker thread holds two tasks or is offered one while
\* it still works (SharedThreader.ts, processQueue and the message handler).
THEOREM WorkersExclusive == Spec => []OneTaskPerWorker
<1>1. IInv => OneTaskPerWorker
  BY DEF IInv, Exclusive, OneTaskPerWorker
<1>2. QED BY <1>1, Invariance, PTL

\* No caller is given the result of another caller's task.
THEOREM ResultsOwn == Spec => []OwnResult
<1>1. IInv => OwnResult
  BY DEF IInv
<1>2. QED BY <1>1, Invariance, PTL
-----------------------------------------------------------------------------
(* A task is started at most once, and not after its caller was told.      *)

Entries(q) == {q[i] : i \in 1..Len(q)}
Filed(pend) == {pend[id] : id \in DOMAIN pend}

\* No task is queued twice or both queued and filed.
Apart(q, pend) ==
  /\ \A i, j \in 1..Len(q) : i # j => q[i] # q[j]
  /\ \A i \in 1..Len(q) : q[i] \notin Filed(pend)

InTermination == \E c \in Closer : closer[c].pc = "terminating"

Orderly ==
  /\ Apart(queue, pending)
  /\ \A t \in Task : phase[t] # "entered" => t \notin Entries(queue) \cup Filed(pending)
  /\ \A t \in Task : phase[t] = "awaitInit" => outcome[t] = "unsettled"
  /\ (\A t \in Entries(queue) : outcome[t] = "unsettled") \/ InTermination

\* processQueue() starts what was queued and keeps the queue apart from pending.
LEMMA DispatchApart ==
  ASSUME idCounter \in Nat, NEW q \in Seq(Task), NEW av \in Seq(Worker), NEW pend,
         PendingTyped(pend), \A id \in DOMAIN pend : id < idCounter, Apart(q, pend),
         NEW box, ProcessQueue(q, av, pend, box)
  PROVE  /\ Apart(queue', pending')
         /\ Entries(queue') \subseteq Entries(q)
         /\ Filed(pending') \subseteq Filed(pend) \cup Entries(q)
         /\ \A id \in DOMAIN pending' :
              id \in DOMAIN pend \/ (id >= idCounter /\ pending'[id] \in Entries(q))
<1> DEFINE k == IF Len(q) < Len(av) THEN Len(q) ELSE Len(av)
           ids == idCounter .. (idCounter + k - 1)
<1>1. k \in Nat /\ k <= Len(q) /\ Len(q) \in Nat
  BY LenProperties
<1>2. /\ queue' = SubSeq(q, k + 1, Len(q))
      /\ pending' = [id \in DOMAIN pend \cup ids |->
                       IF id \in ids THEN q[id - idCounter + 1] ELSE pend[id]]
  BY DEF ProcessQueue, FirstId
<1> HIDE DEF k
<1>3. \A id \in ids : /\ id \in Nat /\ id >= idCounter
                      /\ id - idCounter + 1 \in 1..Len(q) /\ id - idCounter + 1 <= k
  BY <1>1
<1>4. Len(queue') = Len(q) - k /\ \A i \in 1..Len(queue') :
        i + k \in 1..Len(q) /\ i + k > k /\ queue'[i] = q[i + k]
  <2>1. \A i \in (k + 1)..Len(q) : q[i] \in Task
    BY <1>1, ElementOfSeq
  <2>2. CASE k + 1 <= Len(q)
    <3>1. /\ Len(queue') = Len(q) - (k + 1) + 1
          /\ \A i \in 1..(Len(q) - (k + 1) + 1) : queue'[i] = q[(k + 1) + i - 1]
      BY <1>1, <1>2, <2>1, <2>2, SubSeqProperties
    <3> QED BY <1>1, <3>1
  <2>3. CASE ~(k + 1 <= Len(q))
    <3>1. Len(queue') = 0
      BY <1>1, <1>2, <2>1, <2>3, SubSeqProperties
    <3> QED BY <1>1, <2>3, <3>1
  <2> QED BY <2>2, <2>3
<1>5. \A i, j \in 1..Len(queue') : i # j => queue'[i] # queue'[j]
  <2> SUFFICES ASSUME NEW i \in 1..Len(queue'), NEW j \in 1..Len(queue'), i # j
               PROVE  queue'[i] # queue'[j]
    OBVIOUS
  <2>1. i + k # j + k
    BY <1>1, <1>4
  <2> QED BY <1>4, <2>1 DEF Apart
<1>6. \A id \in DOMAIN pending' :
        \/ id \in DOMAIN pend /\ pending'[id] = pend[id]
        \/ id \in ids /\ pending'[id] = q[id - idCounter + 1]
  BY <1>2
<1>7. Entries(queue') \subseteq Entries(q)
  BY <1>4 DEF Entries
<1>8. Filed(pending') \subseteq Filed(pend) \cup Entries(q)
  BY <1>3, <1>6 DEF Filed, Entries
<1>9. ASSUME NEW i \in 1..Len(queue')
      PROVE  queue'[i] \notin Filed(pending')
  <2>1. i + k \in 1..Len(q) /\ i + k > k /\ queue'[i] = q[i + k]
    BY <1>4
  <2>2. queue'[i] \notin Filed(pend)
    BY <2>1 DEF Apart
  <2>3. \A id \in ids : queue'[i] # q[id - idCounter + 1]
    <3> SUFFICES ASSUME NEW id \in ids PROVE q[i + k] # q[id - idCounter + 1]
      BY <2>1
    <3>1. id - idCounter + 1 \in 1..Len(q) /\ i + k # id - idCounter + 1
      BY <1>1, <1>3, <2>1
    <3> QED BY <2>1, <3>1 DEF Apart
  <2>4. ASSUME NEW id \in DOMAIN pending'
        PROVE  queue'[i] # pending'[id]
    BY <1>6, <2>2, <2>3 DEF Filed
  <2> QED BY <2>4 DEF Filed
<1>10. \A id \in DOMAIN pending' :
         id \in DOMAIN pend \/ (id >= idCounter /\ pending'[id] \in Entries(q))
  BY <1>3, <1>6 DEF Entries
<1> QED BY <1>5, <1>7, <1>8, <1>9, <1>10 DEF Apart

\* What the step promises of what it starts.
StartsOnceStep ==
  \A id \in DOMAIN pending' \ DOMAIN pending :
    /\ pending'[id] \notin PendingTasks
    /\ \/ outcome[pending'[id]] = "unsettled"
       \/ InTermination

LEMMA EnterOnce ==
  ASSUME IInv, Orderly, NEW t \in Task, Enter(t)
  PROVE  Orderly' /\ StartsOnceStep
<1>1. PICK q : q = Append(queue, t)
  OBVIOUS
<1>2. /\ q \in Seq(Task) /\ Len(q) = Len(queue) + 1 /\ q[Len(queue) + 1] = t
      /\ \A i \in 1..Len(queue) : q[i] = queue[i]
  BY <1>1, AppendProperties DEF IInv, TypeOK
<1>3. Len(queue) \in Nat /\ \A i \in 1..Len(q) : i \in 1..Len(queue) \/ i = Len(queue) + 1
  BY <1>2, LenProperties DEF IInv, TypeOK
<1>4. phase[t] = "awaitInit" /\ t \notin Entries(queue) \cup Filed(pending)
  BY DEF Enter, PoolReady, Orderly
<1>5. Entries(q) = Entries(queue) \cup {t}
  <2>1. Entries(q) \subseteq Entries(queue) \cup {t}
    BY <1>2, <1>3 DEF Entries
  <2>2. \A i \in 1..Len(queue) : i \in 1..Len(q)
    BY <1>2, <1>3
  <2>3. Len(queue) + 1 \in 1..Len(q)
    BY <1>2, <1>3
  <2>4. Entries(queue) \cup {t} \subseteq Entries(q)
    BY <1>2, <2>2, <2>3 DEF Entries
  <2> QED BY <2>1, <2>4
<1>6. Apart(q, pending)
  <2>1. \A i \in 1..Len(queue) : queue[i] \in Entries(queue)
    BY DEF Entries
  <2>2. \A i, j \in 1..Len(q) : i # j => q[i] # q[j]
    BY <1>2, <1>3, <1>4, <2>1 DEF Orderly, Apart
  <2>3. \A i \in 1..Len(q) : q[i] \notin Filed(pending)
    BY <1>2, <1>3, <1>4 DEF Orderly, Apart
  <2> QED BY <2>2, <2>3 DEF Apart
<1>7. /\ idCounter \in Nat /\ available \in Seq(Worker)
      /\ PendingTyped(pending) /\ \A id \in DOMAIN pending : id < idCounter
      /\ ProcessQueue(q, available, pending, inbox)
  BY <1>1 DEF Enter, IInv, TypeOK, IdsBelow, PendingTyped
<1>8. /\ Apart(queue', pending')
      /\ Entries(queue') \subseteq Entries(q)
      /\ Filed(pending') \subseteq Filed(pending) \cup Entries(q)
      /\ \A id \in DOMAIN pending' :
           id \in DOMAIN pending \/ (id >= idCounter /\ pending'[id] \in Entries(q))
  BY <1>2, <1>6, <1>7, DispatchApart
<1>9. /\ phase' = [phase EXCEPT ![t] = "entered"] /\ outcome' = outcome /\ closer' = closer
  BY DEF Enter
<1>10. \A s \in Task : phase'[s] # "entered" => s # t /\ phase'[s] = phase[s]
  BY <1>9 DEF IInv, TypeOK
<1>11. \A s \in Task : phase'[s] # "entered" =>
         s \notin Entries(queue') \cup Filed(pending')
  BY <1>5, <1>8, <1>10 DEF Orderly
<1>12. \A s \in Task : phase'[s] = "awaitInit" => outcome'[s] = "unsettled"
  BY <1>9, <1>10 DEF Orderly
<1>13. outcome[t] = "unsettled"
  BY <1>4 DEF Orderly
<1>14. (\A s \in Entries(q) : outcome[s] = "unsettled") \/ InTermination
  BY <1>5, <1>13 DEF Orderly
<1>15. InTermination' <=> InTermination
  BY <1>9 DEF InTermination
<1>16. (\A s \in Entries(queue') : outcome'[s] = "unsettled") \/ InTermination'
  BY <1>8, <1>9, <1>14, <1>15
<1>17. StartsOnceStep
  <2> SUFFICES ASSUME NEW id \in DOMAIN pending', id \notin DOMAIN pending
               PROVE  /\ pending'[id] \notin PendingTasks
                      /\ outcome[pending'[id]] = "unsettled" \/ InTermination
    BY DEF StartsOnceStep
  <2>1. pending'[id] \in Entries(q)
    BY <1>8
  <2>2. pending'[id] \notin Filed(pending)
    BY <1>6, <2>1 DEF Apart, Entries
  <2> QED BY <1>14, <2>1, <2>2 DEF Filed, PendingTasks
<1> QED BY <1>8, <1>11, <1>12, <1>16, <1>17 DEF Orderly

LEMMA ReplyOnce ==
  ASSUME IInv, Orderly, NEW w \in Worker, NEW ok \in BOOLEAN, NEW m \in inbox[w],
         Reply(w, m, ok)
  PROVE  Orderly' /\ StartsOnceStep
<1>1. PICK left : left = [id \in DOMAIN pending \ {m.id} |-> pending[id]]
  OBVIOUS
<1>2. PICK box : box = [inbox EXCEPT ![w] = @ \ {m}]
  OBVIOUS
<1>3. /\ queue \in Seq(Task) /\ Append(available, w) \in Seq(Worker) /\ idCounter \in Nat
      /\ ProcessQueue(queue, Append(available, w), left, box)
      /\ m.id < idCounter
  BY <1>1, <1>2, AppendProperties DEF Reply, Release, IInv, TypeOK, IdsBelow
<1>4. PendingTyped(left) /\ \A id \in DOMAIN left : id < idCounter
  BY <1>1 DEF IInv, TypeOK, IdsBelow, PendingTyped
<1>5. Filed(left) \subseteq Filed(pending)
  BY <1>1 DEF Filed
<1>6. Apart(queue, left)
  BY <1>5 DEF Orderly, Apart
<1>7. /\ Apart(queue', pending')
      /\ Entries(queue') \subseteq Entries(queue)
      /\ Filed(pending') \subseteq Filed(left) \cup Entries(queue)
      /\ \A id \in DOMAIN pending' :
           id \in DOMAIN left \/ (id >= idCounter /\ pending'[id] \in Entries(queue))
  BY <1>3, <1>4, <1>6, DispatchApart
<1>8. /\ phase' = phase
      /\ \A c \in Closer : closer[c].pc = "terminating" => closer'[c].pc = "terminating"
  BY DEF Reply, WakeDrains, IInv, TypeOK
<1>9. \A s \in Task : outcome[s] = "unsettled" /\ s \notin Filed(pending) =>
        outcome'[s] = "unsettled"
  <2>1. CASE m.id \in DOMAIN pending
    <3>1. pending[m.id] \in Filed(pending)
      BY <2>1 DEF Filed
    <3> QED BY <2>1, <3>1 DEF Reply, Settle
  <2>2. CASE m.id \notin DOMAIN pending
    BY <2>2 DEF Reply
  <2> QED BY <2>1, <2>2
<1>10. \A s \in Task : phase'[s] # "entered" =>
         s \notin Entries(queue') \cup Filed(pending')
  BY <1>5, <1>7, <1>8 DEF Orderly
<1>11. \A s \in Task : phase'[s] = "awaitInit" => outcome'[s] = "unsettled"
  BY <1>8, <1>9 DEF Orderly
<1>12. Entries(queue) \subseteq Task /\ \A s \in Entries(queue) : s \notin Filed(pending)
  BY <1>3, ElementOfSeq DEF Orderly, Apart, Entries
<1>13. (\A s \in Entries(queue') : outcome'[s] = "unsettled") \/ InTermination'
  BY <1>7, <1>8, <1>9, <1>12 DEF Orderly, InTermination
<1>14. StartsOnceStep
  <2> SUFFICES ASSUME NEW id \in DOMAIN pending', id \notin DOMAIN pending
               PROVE  /\ pending'[id] \notin PendingTasks
                      /\ outcome[pending'[id]] = "unsettled" \/ InTermination
    BY DEF StartsOnceStep
  <2>1. pending'[id] \in Entries(queue)
    BY <1>1, <1>7
  <2>2. pending'[id] \notin Filed(pending)
    BY <1>12, <2>1
  <2> QED BY <2>1, <2>2 DEF Orderly, Filed, PendingTasks
<1> QED BY <1>7, <1>10, <1>11, <1>13, <1>14 DEF Orderly

\* Rejections reach only what is queued or filed.
LEMMA SettleOrderly ==
  ASSUME Orderly, NEW ts, ts \subseteq Entries(queue) \cup Filed(pending),
         outcome' = Settle(ts, "rejected"), phase' = phase
  PROVE  \A t \in Task : phase'[t] = "awaitInit" => outcome'[t] = "unsettled"
BY DEF Orderly, Settle

LEMMA TerminateFromOnce ==
  ASSUME IInv, Orderly, NEW c \in Closer, NEW a, NEW i, NEW q, NEW box,
         TerminateFrom(c, a, i, q, box), q = queue \/ q = <<>>, phase' = phase,
         \A t \in Task : phase'[t] = "awaitInit" => outcome'[t] = "unsettled"
  PROVE  Orderly' /\ StartsOnceStep
<1>1. /\ queue' = queue \/ (Entries(queue') = {} /\ Len(queue') = 0)
      /\ pending' = pending \/ DOMAIN pending' = {}
  BY EmptySeq DEF TerminateFrom, ClearPool, Entries
<1>2. Apart(queue', pending')
  BY <1>1 DEF Orderly, Apart, Filed
<1>3. Entries(queue') \subseteq Entries(queue) /\ Filed(pending') \subseteq Filed(pending)
  BY <1>1 DEF Filed
<1>4. InTermination' \/ Entries(queue') = {}
  <2>1. CASE closer' = [closer EXCEPT ![c] =
                 [pc |-> "terminating", array |-> a, next |-> i + 1, watch |-> {}]]
    BY <2>1 DEF InTermination, IInv, TypeOK
  <2>2. CASE ClearPool(c)
    BY <2>2, EmptySeq DEF ClearPool, Entries
  <2> QED BY <2>1, <2>2 DEF TerminateFrom
<1>5. DOMAIN pending' \subseteq DOMAIN pending
  BY <1>1
<1> QED BY <1>2, <1>3, <1>4, <1>5 DEF Orderly, StartsOnceStep

LEMMA OrderlyStep == ASSUME IInv, Orderly, [Next]_vars PROVE Orderly' /\ StartsOnceStep
<1>0. QueuedTasks = Entries(queue) /\ PendingTasks = Filed(pending)
  BY DEF QueuedTasks, PendingTasks, Entries, Filed
<1>1. ASSUME NEW t \in Task, Run(t)
      PROVE  Orderly' /\ StartsOnceStep
  <2>1. UNCHANGED <<queue, pending, closer>> /\ phase[t] = "idle"
    BY <1>1 DEF Run, workVars
  <2>2. /\ \A s \in Task : phase'[s] # "entered" => phase[s] # "entered"
        /\ \A s \in Task : s # t => phase'[s] = phase[s] /\ outcome'[s] = outcome[s]
        /\ outcome'[t] = "unsettled"
    BY <1>1 DEF Run, IInv, TypeOK
  <2>3. t \notin Entries(queue)
    BY <2>1 DEF Orderly
  <2>4. Entries(queue) \subseteq Task
    BY ElementOfSeq DEF Entries, IInv, TypeOK
  <2> QED BY <2>1, <2>2, <2>3, <2>4 DEF Orderly, StartsOnceStep, InTermination
<1>2. ASSUME NEW c \in Closer, NEW q, TerminateBody(c, q), q = queue \/ q = <<>>, phase' = phase
      PROVE  Orderly' /\ StartsOnceStep
  <2>1. \A t \in Task : phase'[t] = "awaitInit" => outcome'[t] = "unsettled"
    BY <1>0, <1>2, SettleOrderly DEF TerminateBody
  <2> QED BY <1>2, <2>1, TerminateFromOnce DEF TerminateBody
<1>3. ASSUME NEW c \in Closer, TerminateNext(c)
      PROVE  Orderly' /\ StartsOnceStep
  <2>1. phase' = phase /\ outcome' = outcome
    BY <1>3 DEF TerminateNext
  <2>2. \A t \in Task : phase'[t] = "awaitInit" => outcome'[t] = "unsettled"
    BY <2>1 DEF Orderly
  <2> QED BY <1>3, <2>1, <2>2, TerminateFromOnce DEF TerminateNext
<1>4. ASSUME NEW c \in Closer, Drain(c)
      PROVE  Orderly' /\ StartsOnceStep
  <2>1. phase' = phase
    BY <1>4 DEF Drain
  <2>2. CASE TerminateBody(c, <<>>)
    BY <1>2, <2>1, <2>2
  <2>3. CASE outcome' = Settle(QueuedTasks, "rejected") /\ queue' = <<>> /\ pending' = pending
    <3>1. \A t \in Task : phase'[t] = "awaitInit" => outcome'[t] = "unsettled"
      BY <1>0, <2>1, <2>3, SettleOrderly
    <3>2. Len(queue') = 0 /\ Entries(queue') = {}
      BY <2>3, EmptySeq DEF Entries
    <3> QED BY <2>1, <2>3, <3>1, <3>2 DEF Orderly, Apart, StartsOnceStep
  <2> QED BY <1>4, <2>2, <2>3 DEF Drain, DrainedQueue
<1>5. ASSUME NEW c \in Closer, DrainDone(c)
      PROVE  Orderly' /\ StartsOnceStep
  <2>1. phase' = phase
    BY <1>5 DEF DrainDone
  <2>2. CASE TerminateBody(c, queue)
    BY <1>2, <2>1, <2>2
  <2>3. CASE /\ closer' = [closer EXCEPT ![c].pc = "returned", ![c].watch = {}]
             /\ closer[c].pc = "drained"
             /\ UNCHANGED <<queue, pending, outcome>>
    <3>1. InTermination => InTermination'
      BY <2>3 DEF InTermination, IInv, TypeOK
    <3> QED BY <2>1, <2>3, <3>1 DEF Orderly, StartsOnceStep
  <2> QED BY <1>5, <2>2, <2>3 DEF DrainDone, workVars
<1>6. ASSUME UNCHANGED <<queue, pending, phase, outcome, closer>>
      PROVE  Orderly' /\ StartsOnceStep
  BY <1>6 DEF Orderly, StartsOnceStep, InTermination
<1>7. ASSUME \/ \E k \in InitId : InitDone(k) \/ InitFail(k)
             \/ \E w \in Worker : Crash(w)
             \/ UNCHANGED vars
      PROVE  UNCHANGED <<queue, pending, phase, outcome, closer>>
  BY <1>7 DEF InitDone, InitFail, Crash, vars, workVars
<1>8. ASSUME NEW c \in Closer, Terminate(c)
      PROVE  Orderly' /\ StartsOnceStep
  BY <1>2, <1>8 DEF Terminate
<1> QED
  BY <1>1, <1>3, <1>4, <1>5, <1>6, <1>7, <1>8, EnterOnce, ReplyOnce DEF Next

\* Whatever arrives late, a task is started at most once, and a rejected one
\* only while terminate() is between its awaits (SharedThreader.ts,
\* processQueue() against terminate() and drain()).
THEOREM TasksStartOnce == Spec => StartsOnce
<1>1. Init => Orderly
  BY EmptySeq DEF Init, Orderly, Apart, Entries, Filed
<1>2. IInv /\ Orderly /\ [Next]_vars => Orderly' /\ StartsOnceStep
  BY OrderlyStep
<1>3. StartsOnceStep =>
        [\A id \in DOMAIN pending' \ DOMAIN pending :
           /\ pending'[id] \notin PendingTasks
           /\ \/ outcome[pending'[id]] = "unsettled"
              \/ \E c \in Closer : closer[c].pc = "terminating"]_vars
  BY DEF StartsOnceStep, InTermination
<1> QED BY <1>1, <1>2, <1>3, Invariance, PTL DEF Spec, StartsOnce
-----------------------------------------------------------------------------
(* What waits is served, and what is lost is lost to a race.               *)

\* A creation in progress is awaited by the run() that started it.
Awaited ==
  \A k \in InitId : initState[k] = "creating" =>
    \E t \in Task : phase[t] = "awaitInit" /\ awaits[t] = k

\* Until a run() races a close: nothing waits for the pool while it is closed,
\* terminate() has left no promise open, and NothingSwallowed.
Remembered ==
  ~raced =>
    /\ Closing => ~InRun
    /\ (\E c \in Closer : closer[c].pc = "terminating") =>
         \A t \in Task : outcome[t] # "unsettled"
    /\ \A t \in Task : outcome[t] = "unsettled" =>
         phase[t] = "awaitInit" \/ t \in QueuedTasks \cup PendingTasks

\* Until then, too, the array in use is filled once.
FilledOnce ==
  ~raced =>
    /\ \A k \in InitId : initState[k] = "creating" =>
         initializing = k /\ initialized = FALSE /\ workers[arrayNo + 1] = <<>>
    /\ initialized = FALSE /\ initializing = 0 => workers[arrayNo + 1] = <<>>
    /\ Len(workers[arrayNo + 1]) <= PoolSize

\* processQueue() leaves no pair of a task and a worker, and no task behind.
LEMMA DispatchComplete ==
  ASSUME idCounter \in Nat, NEW q \in Seq(Task), NEW av \in Seq(Worker), NEW pend,
         PendingTyped(pend), \A id \in DOMAIN pend : id < idCounter,
         NEW box, ProcessQueue(q, av, pend, box)
  PROVE  /\ queue' = <<>> \/ available' = <<>>
         /\ \A i \in 1..Len(q) : q[i] \in (QueuedTasks \cup PendingTasks)'
         /\ \A id \in DOMAIN pend : pend[id] \in PendingTasks'
<1> DEFINE k == IF Len(q) < Len(av) THEN Len(q) ELSE Len(av)
           ids == idCounter .. (idCounter + k - 1)
<1>1. k \in Nat /\ k <= Len(q) /\ k <= Len(av) /\ Len(q) \in Nat /\ Len(av) \in Nat
      /\ (k = Len(q) \/ k = Len(av))
  BY LenProperties
<1>2. /\ queue' = SubSeq(q, k + 1, Len(q))
      /\ available' = SubSeq(av, 1, Len(av) - k)
      /\ pending' = [id \in DOMAIN pend \cup ids |->
                       IF id \in ids THEN q[id - idCounter + 1] ELSE pend[id]]
  BY DEF ProcessQueue, FirstId
<1> HIDE DEF k
<1>3. queue' = <<>> \/ available' = <<>>
  <2>1. CASE k = Len(q)
    BY <1>1, <1>2, <2>1, SubSeqProperties, EmptySeq
  <2>2. CASE k = Len(av)
    BY <1>1, <1>2, <2>2, SubSeqProperties, EmptySeq
  <2> QED BY <1>1, <2>1, <2>2
<1>4. ASSUME NEW i \in 1..Len(q)
      PROVE  q[i] \in (QueuedTasks \cup PendingTasks)'
  <2>1. CASE i <= k
    <3>1. idCounter + i - 1 \in ids /\ (idCounter + i - 1) - idCounter + 1 = i
      BY <1>1, <2>1
    <3>2. idCounter + i - 1 \in DOMAIN pending' /\ pending'[idCounter + i - 1] = q[i]
      BY <1>2, <3>1
    <3> QED BY <3>2 DEF PendingTasks
  <2>2. CASE i > k
    <3>1. /\ i - k \in 1..(Len(q) - (k + 1) + 1) /\ (k + 1) + (i - k) - 1 = i
          /\ k + 1 <= Len(q)
      BY <1>1, <2>2
    <3>2. \A j \in (k + 1)..Len(q) : q[j] \in Task
      BY <1>1, ElementOfSeq
    <3>3. /\ Len(queue') = Len(q) - (k + 1) + 1
          /\ queue'[i - k] = q[(k + 1) + (i - k) - 1]
      BY <1>1, <1>2, <3>1, <3>2, SubSeqProperties
    <3>4. i - k \in 1..Len(queue') /\ queue'[i - k] = q[i]
      BY <3>1, <3>3
    <3> QED BY <3>4 DEF QueuedTasks
  <2> QED BY <1>1, <2>1, <2>2
<1>5. ASSUME NEW id \in DOMAIN pend
      PROVE  pend[id] \in PendingTasks'
  <2>1. id \notin ids /\ id \in DOMAIN pending'
    BY <1>2 DEF PendingTyped
  <2>2. pending'[id] = pend[id]
    BY <1>2, <2>1
  <2> QED BY <2>1, <2>2 DEF PendingTasks
<1> QED
  BY <1>3, <1>4, <1>5

LEMMA AwaitedStep == ASSUME IInv, Awaited, [Next]_vars PROVE Awaited'
<1>1. ASSUME NEW t \in Task, Run(t)
      PROVE  Awaited'
  <2>1. phase' = [phase EXCEPT ![t] = "awaitInit"] /\ phase[t] = "idle"
    BY <1>1 DEF Run
  <2>2. \A s \in Task : phase[s] = "awaitInit" => phase'[s] = "awaitInit" /\ s # t
    BY <2>1 DEF IInv, TypeOK
  <2>3. CASE UNCHANGED <<awaits, initState>>
    BY <2>2, <2>3 DEF Awaited
  <2>4. CASE awaits' = [awaits EXCEPT ![t] = initializing] /\ UNCHANGED initState
    BY <2>2, <2>4 DEF Awaited, IInv, TypeOK
  <2>5. CASE \E k \in InitId : /\ initState' = [initState EXCEPT ![k] = "creating"]
                               /\ awaits' = [awaits EXCEPT ![t] = k]
    <3>1. PICK k \in InitId : /\ initState' = [initState EXCEPT ![k] = "creating"]
                              /\ awaits' = [awaits EXCEPT ![t] = k]
      BY <2>5
    <3>2. phase'[t] = "awaitInit" /\ awaits'[t] = k
      BY <2>1, <3>1 DEF IInv, TypeOK
    <3>3. ASSUME NEW j \in InitId, initState'[j] = "creating", j # k
          PROVE  \E s \in Task : phase'[s] = "awaitInit" /\ awaits'[s] = j
      <4>1. initState[j] = "creating"
        BY <3>1, <3>3 DEF IInv, TypeOK
      <4>2. PICK s \in Task : phase[s] = "awaitInit" /\ awaits[s] = j
        BY <4>1 DEF Awaited
      <4>3. phase'[s] = "awaitInit" /\ awaits'[s] = j
        BY <2>2, <3>1, <4>2 DEF IInv, TypeOK
      <4> QED BY <4>3
    <3> QED BY <3>2, <3>3 DEF Awaited
  <2> QED BY <1>1, <2>3, <2>4, <2>5 DEF Run
<1>2. ASSUME NEW t \in Task, Enter(t)
      PROVE  Awaited'
  <2>1. /\ phase' = [phase EXCEPT ![t] = "entered"] /\ UNCHANGED <<initState, awaits>>
        /\ awaits[t] # 0 => initState[awaits[t]] = "done"
    BY <1>2 DEF Enter, PoolReady, poolVars
  <2>2. \A k \in InitId : k # 0
    BY DEF InitId
  <2> QED BY <2>1, <2>2 DEF Awaited, IInv, TypeOK
<1>3. ASSUME NEW k \in InitId, InitDone(k) \/ InitFail(k)
      PROVE  Awaited'
  <2>1. /\ \A j \in InitId : initState'[j] = "creating" => initState[j] = "creating"
        /\ UNCHANGED <<phase, awaits>>
    BY <1>3 DEF InitDone, InitFail, IInv, TypeOK
  <2> QED BY <2>1 DEF Awaited
<1>4. ASSUME UNCHANGED <<initState, phase, awaits>>
      PROVE  Awaited'
  BY <1>4 DEF Awaited
<1>5. ASSUME \/ \E w \in Worker, ok \in BOOLEAN : \E m \in inbox[w] : Reply(w, m, ok)
             \/ \E w \in Worker : Crash(w)
             \/ \E c \in Closer : Terminate(c) \/ TerminateNext(c) \/ Drain(c) \/ DrainDone(c)
             \/ UNCHANGED vars
      PROVE  UNCHANGED <<initState, phase, awaits>>
  BY <1>5 DEF Reply, Crash, Terminate, TerminateNext, Drain, DrainDone, TerminateBody,
              TerminateFrom, ClearPool, vars, poolVars
<1> QED
  BY <1>1, <1>2, <1>3, <1>4, <1>5 DEF Next

LEMMA NoIdleStep ==
  ASSUME IInv, Awaited, NoIdleWorkerWhileQueued, [Next]_vars
  PROVE  NoIdleWorkerWhileQueued'
<1> USE DEF NoIdleWorkerWhileQueued
<1>1. ASSUME NEW t \in Task, Run(t)
      PROVE  NoIdleWorkerWhileQueued'
  <2>1. \A s \in Task : PoolReady(s) => PoolReady(s)'
    <3>1. SUFFICES ASSUME NEW s \in Task, PoolReady(s) PROVE PoolReady(s)'
      OBVIOUS
    <3>2. s # t /\ phase'[s] = phase[s] /\ awaits'[s] = awaits[s]
      BY <1>1, <3>1 DEF Run, PoolReady, IInv, TypeOK
    <3>3. \A k \in InitId : initState[k] = "done" => initState'[k] = "done"
      BY <1>1 DEF Run, IInv, TypeOK
    <3>4. awaits[s] # 0 => awaits[s] \in InitId
      BY PoolAssumption DEF IInv, TypeOK, InitId
    <3> QED BY <3>1, <3>2, <3>3, <3>4 DEF PoolReady
  <2> QED BY <1>1, <2>1 DEF Run, workVars
<1>2. ASSUME NEW t \in Task, Enter(t)
      PROVE  NoIdleWorkerWhileQueued'
  <2>1. Append(queue, t) \in Seq(Task)
    BY AppendProperties DEF IInv, TypeOK
  <2>2. PendingTyped(pending) /\ \A id \in DOMAIN pending : id < idCounter
    BY DEF IInv, TypeOK, IdsBelow, PendingTyped
  <2> QED BY <1>2, <2>1, <2>2, DispatchComplete DEF Enter, IInv, TypeOK
<1>3. ASSUME NEW k \in InitId, InitDone(k)
      PROVE  NoIdleWorkerWhileQueued'
  <2>1. PICK t \in Task : phase[t] = "awaitInit" /\ awaits[t] = k
    BY <1>3 DEF InitDone, Awaited
  <2>2. PoolReady(t)'
    BY <1>3, <2>1 DEF InitDone, PoolReady, IInv, TypeOK
  <2> QED BY <2>2
<1>4. ASSUME NEW k \in InitId, InitFail(k)
      PROVE  NoIdleWorkerWhileQueued'
  <2>1. \A j \in InitId : initState[j] = "done" => initState'[j] = "done"
    BY <1>4 DEF InitFail, IInv, TypeOK
  <2>2. \A s \in Task : awaits[s] # 0 => awaits[s] \in InitId
    BY PoolAssumption DEF IInv, TypeOK, InitId
  <2>3. \A s \in Task : PoolReady(s) => PoolReady(s)'
    BY <1>4, <2>1, <2>2 DEF InitFail, PoolReady
  <2> QED BY <1>4, <2>3 DEF InitFail, workVars
<1>5. ASSUME NEW w \in Worker, NEW ok \in BOOLEAN, NEW m \in inbox[w], Reply(w, m, ok)
      PROVE  NoIdleWorkerWhileQueued'
  <2>1. PICK left : left = [id \in DOMAIN pending \ {m.id} |-> pending[id]]
    OBVIOUS
  <2>2. PendingTyped(left) /\ \A id \in DOMAIN left : id < idCounter
    BY <2>1 DEF IInv, TypeOK, IdsBelow, PendingTyped
  <2>3. Append(available, w) \in Seq(Worker)
    BY AppendProperties DEF IInv, TypeOK
  <2>4. PICK box : box = [inbox EXCEPT ![w] = @ \ {m}]
    OBVIOUS
  <2>5. ProcessQueue(queue, Append(available, w), left, box)
    BY <1>5, <2>1, <2>4 DEF Reply, Release
  <2> QED BY <2>2, <2>3, <2>5, DispatchComplete DEF IInv, TypeOK
<1>6. ASSUME NEW c \in Closer, NEW a, NEW i, NEW q, NEW box,
             TerminateFrom(c, a, i, q, box), q = <<>> \/ q = queue, UNCHANGED <<awaits, phase>>
      PROVE  NoIdleWorkerWhileQueued'
  <2>1. CASE queue' = q /\ UNCHANGED <<poolVars, available>>
    BY <1>6, <2>1 DEF poolVars, PoolReady
  <2>2. CASE ClearPool(c)
    BY <2>2 DEF ClearPool
  <2> QED BY <1>6, <2>1, <2>2 DEF TerminateFrom
<1>7. ASSUME NEW c \in Closer, Terminate(c) \/ TerminateNext(c) \/ Drain(c) \/ DrainDone(c)
      PROVE  NoIdleWorkerWhileQueued'
  <2>1. UNCHANGED <<awaits, phase>>
    BY <1>7 DEF Terminate, TerminateNext, Drain, DrainDone
  <2>2. CASE \E a, i, q, box : TerminateFrom(c, a, i, q, box) /\ (q = <<>> \/ q = queue)
    BY <1>6, <2>1, <2>2
  <2>3. CASE queue' = <<>>
    BY <2>3
  <2>4. CASE UNCHANGED <<poolVars, workVars>>
    BY <2>1, <2>4 DEF poolVars, workVars, PoolReady
  <2> QED BY <1>7, <2>2, <2>3, <2>4
          DEF Terminate, TerminateNext, Drain, DrainDone, DrainedQueue, TerminateBody
<1>8. ASSUME (\E w \in Worker : Crash(w)) \/ UNCHANGED vars
      PROVE  NoIdleWorkerWhileQueued'
  BY <1>8 DEF Crash, vars, poolVars, workVars, PoolReady
<1> QED
  BY <1>1, <1>2, <1>3, <1>4, <1>5, <1>7, <1>8 DEF Next

LEMMA RacedStays == ASSUME IInv, [Next]_vars, ~raced' PROVE ~raced
<1>1. raced' = raced \/ raced' = (raced \/ Closing) \/ raced' = (raced \/ InRun)
  BY DEF Next, Run, Enter, InitDone, InitFail, Reply, Crash, Terminate, TerminateNext, Drain,
         DrainDone, vars
<1> QED
  BY <1>1

\* No run() waits for the pool when a step of a close is taken.
LEMMA ClosesAlone ==
  ASSUME Remembered, ~raced, ~raced', NEW c \in Closer,
         Terminate(c) \/ TerminateNext(c) \/ Drain(c) \/ DrainDone(c)
  PROVE  ~InRun /\ phase' = phase
<1>1. CASE Terminate(c)
  BY <1>1 DEF Terminate
<1>2. CASE Drain(c)
  BY <1>2 DEF Drain
<1>3. CASE TerminateNext(c)
  BY <1>3 DEF TerminateNext, Remembered, Closing
<1>4. CASE DrainDone(c)
  BY <1>4 DEF DrainDone, Remembered, Closing
<1> QED
  BY <1>1, <1>2, <1>3, <1>4

\* A close whose body has run leaves no promise open.
LEMMA AllSettled ==
  ASSUME IInv, Remembered, ~raced, ~InRun, NEW c \in Closer, NEW q, TerminateBody(c, q)
  PROVE  \A t \in Task : outcome'[t] # "unsettled"
<1>1. outcome' = Settle(QueuedTasks \cup PendingTasks, "rejected")
  BY DEF TerminateBody
<1>2. \A t \in Task : outcome[t] = "unsettled" => t \in QueuedTasks \cup PendingTasks
  BY DEF Remembered, InRun
<1> QED
  BY <1>1, <1>2 DEF Settle

LEMMA RememberedStep == ASSUME IInv, Remembered, [Next]_vars PROVE Remembered'
<1> SUFFICES ASSUME ~raced' PROVE Remembered'
  BY DEF Remembered
<1>0. ~raced
  BY RacedStays
<1>1. ASSUME NEW t \in Task, Run(t)
      PROVE  Remembered'
  <2>1. ~Closing /\ closer' = closer /\ UNCHANGED <<queue, pending>>
    BY <1>1 DEF Run, workVars
  <2>2. phase'[t] = "awaitInit" /\ \A s \in Task : s # t =>
          phase'[s] = phase[s] /\ outcome'[s] = outcome[s]
    BY <1>1 DEF Run, IInv, TypeOK
  <2> QED BY <1>0, <2>1, <2>2 DEF Remembered, Closing, QueuedTasks, PendingTasks
<1>2. ASSUME NEW t \in Task, Enter(t)
      PROVE  Remembered'
  <2>1. /\ InRun /\ closer' = closer /\ outcome' = outcome
        /\ \A s \in Task : s # t => phase'[s] = phase[s]
    BY <1>2 DEF Enter, PoolReady, InRun, IInv, TypeOK
  <2>2. PICK q : q = Append(queue, t)
    OBVIOUS
  <2>3. /\ q \in Seq(Task) /\ Len(q) = Len(queue) + 1 /\ q[Len(queue) + 1] = t
        /\ \A i \in 1..Len(queue) : q[i] = queue[i]
    BY <2>2, AppendProperties DEF IInv, TypeOK
  <2>4. PendingTyped(pending) /\ \A id \in DOMAIN pending : id < idCounter
    BY DEF IInv, TypeOK, IdsBelow, PendingTyped
  <2>5. /\ \A i \in 1..Len(q) : q[i] \in (QueuedTasks \cup PendingTasks)'
        /\ \A id \in DOMAIN pending : pending[id] \in PendingTasks'
    BY <1>2, <2>2, <2>3, <2>4, DispatchComplete DEF Enter, IInv, TypeOK
  <2>6. /\ 1..Len(queue) \subseteq 1..Len(q) /\ Len(queue) + 1 \in 1..Len(q)
    BY <2>3, LenProperties DEF IInv, TypeOK
  <2>7. t \in (QueuedTasks \cup PendingTasks)'
    BY <2>3, <2>5, <2>6
  <2>8. \A s \in QueuedTasks \cup PendingTasks : s \in (QueuedTasks \cup PendingTasks)'
    BY <2>3, <2>5, <2>6 DEF QueuedTasks, PendingTasks
  <2>9. ~Closing
    BY <1>0, <2>1 DEF Remembered
  <2> QED BY <1>0, <2>1, <2>7, <2>8, <2>9 DEF Remembered, Closing
<1>3. ASSUME \/ \E k \in InitId : InitDone(k) \/ InitFail(k)
             \/ \E w \in Worker : Crash(w)
             \/ UNCHANGED vars
      PROVE  Remembered'
  <2>1. UNCHANGED <<closer, phase, outcome, queue, pending>>
    BY <1>3 DEF InitDone, InitFail, Crash, vars, workVars
  <2> QED BY <1>0, <2>1 DEF Remembered, Closing, InRun, QueuedTasks, PendingTasks
<1>4. ASSUME NEW w \in Worker, NEW ok \in BOOLEAN, NEW m \in inbox[w], Reply(w, m, ok)
      PROVE  Remembered'
  <2>1. PICK left : left = [id \in DOMAIN pending \ {m.id} |-> pending[id]]
    OBVIOUS
  <2>2. PendingTyped(left) /\ \A id \in DOMAIN left : id < idCounter
    BY <2>1 DEF IInv, TypeOK, IdsBelow, PendingTyped
  <2>3. Append(available, w) \in Seq(Worker)
    BY AppendProperties DEF IInv, TypeOK
  <2>4. PICK box : box = [inbox EXCEPT ![w] = @ \ {m}]
    OBVIOUS
  <2>5. ProcessQueue(queue, Append(available, w), left, box)
    BY <1>4, <2>1, <2>4 DEF Reply, Release
  <2>6. /\ \A i \in 1..Len(queue) : queue[i] \in (QueuedTasks \cup PendingTasks)'
        /\ \A id \in DOMAIN left : left[id] \in PendingTasks'
    BY <2>2, <2>3, <2>5, DispatchComplete DEF IInv, TypeOK
  <2>7. phase' = phase
    BY <1>4 DEF Reply
  <2>8. \A c \in Closer : /\ closer'[c].pc = "terminating" <=> closer[c].pc = "terminating"
                          /\ closer'[c].pc \in {"idle", "returned"}
                               <=> closer[c].pc \in {"idle", "returned"}
    BY <1>4 DEF Reply, WakeDrains, IInv, TypeOK
  <2>9. /\ \A s \in Task : outcome'[s] = "unsettled" => outcome[s] = "unsettled"
        /\ m.id \in DOMAIN pending => outcome'[pending[m.id]] # "unsettled"
    <3>1. CASE m.id \in DOMAIN pending
      <4>1. PICK v : v = IF ok THEN m.task ELSE "rejected"
        OBVIOUS
      <4>2. outcome' = Settle({pending[m.id]}, v)
        BY <1>4, <3>1, <4>1 DEF Reply
      <4>3. v # "unsettled" /\ pending[m.id] \in Task
        BY <3>1, <4>1, OutcomeAssumption DEF IInv, TypeOK, Message
      <4> QED BY <4>2, <4>3 DEF Settle
    <3>2. CASE m.id \notin DOMAIN pending
      BY <1>4, <3>2 DEF Reply
    <3> QED BY <3>1, <3>2
  <2>10. ASSUME NEW s \in Task, outcome'[s] = "unsettled", s \in QueuedTasks \cup PendingTasks
         PROVE  s \in (QueuedTasks \cup PendingTasks)'
    <3>1. CASE s \in QueuedTasks
      BY <2>6, <3>1 DEF QueuedTasks
    <3>2. CASE s \in PendingTasks
      <4>1. PICK id \in DOMAIN pending : s = pending[id]
        BY <3>2 DEF PendingTasks
      <4>2. id # m.id
        BY <2>9, <2>10, <4>1
      <4>3. id \in DOMAIN left /\ left[id] = s
        BY <2>1, <4>1, <4>2
      <4> QED BY <2>6, <4>3
    <3> QED BY <2>10, <3>1, <3>2
  <2> QED BY <1>0, <2>7, <2>8, <2>9, <2>10 DEF Remembered, Closing, InRun
<1>5. ASSUME ~InRun', \A t \in Task : outcome'[t] # "unsettled"
      PROVE  Remembered'
  BY <1>5 DEF Remembered
<1>6. ASSUME NEW c \in Closer, Terminate(c) \/ TerminateNext(c) \/ Drain(c) \/ DrainDone(c)
      PROVE  Remembered'
  <2>1. ~InRun /\ phase' = phase
    BY <1>0, <1>6, ClosesAlone
  <2>2. ~InRun'
    BY <2>1 DEF InRun
  <2>3. CASE \E q : TerminateBody(c, q)
    BY <1>0, <1>5, <2>1, <2>2, <2>3, AllSettled
  <2>4. CASE TerminateNext(c)
    BY <1>0, <1>5, <2>2, <2>4 DEF TerminateNext, Remembered
  <2>5. CASE /\ outcome' = Settle(QueuedTasks, "rejected")
             /\ closer' = [closer EXCEPT ![c].pc = "draining", ![c].watch = DOMAIN pending]
             /\ UNCHANGED pending
    <3>1. \A d \in Closer : closer'[d].pc = "terminating" => closer[d].pc = "terminating"
      BY <2>5 DEF IInv, TypeOK
    <3>2. \A t \in Task : outcome'[t] = "unsettled" =>
            outcome[t] = "unsettled" /\ t \notin QueuedTasks
      BY <2>5 DEF Settle
    <3>3. \A t \in Task : outcome'[t] = "unsettled" => t \in PendingTasks'
      BY <1>0, <2>1, <2>5, <3>2 DEF Remembered, InRun, PendingTasks
    <3> QED BY <1>0, <2>2, <3>1, <3>2, <3>3 DEF Remembered
  <2>6. CASE /\ closer' = [closer EXCEPT ![c].pc = "returned", ![c].watch = {}]
             /\ UNCHANGED <<workVars, outcome>>
    <3>1. \A d \in Closer : closer'[d].pc = "terminating" => closer[d].pc = "terminating"
      BY <2>6 DEF IInv, TypeOK
    <3> QED BY <1>0, <2>1, <2>2, <2>6, <3>1
            DEF Remembered, workVars, QueuedTasks, PendingTasks
  <2> QED BY <1>6, <2>3, <2>4, <2>5, <2>6 DEF Terminate, Drain, DrainDone
<1> QED
  BY <1>1, <1>2, <1>3, <1>4, <1>6 DEF Next

\* Until a run() races a close, a pool joins an empty array.
LEMMA FilledOnceStep ==
  ASSUME IInv, Awaited, Remembered, FilledOnce, [Next]_vars
  PROVE  FilledOnce'
<1> SUFFICES ASSUME ~raced' PROVE FilledOnce'
  BY DEF FilledOnce
<1>0. ~raced
  BY RacedStays
<1>1. ASSUME UNCHANGED <<initialized, initializing, initState, workers, arrayNo>>
      PROVE  FilledOnce'
  BY <1>0, <1>1 DEF FilledOnce
<1>2. ASSUME NEW t \in Task, Run(t)
      PROVE  FilledOnce'
  <2>1. UNCHANGED <<initialized, workers, arrayNo>>
    BY <1>2 DEF Run
  <2>2. CASE UNCHANGED <<initializing, initState>>
    BY <1>1, <2>1, <2>2
  <2>3. CASE /\ initialized = FALSE /\ initializing = 0
             /\ \E k \in InitId : /\ initializing' = k
                                  /\ initState' = [initState EXCEPT ![k] = "creating"]
    <3>1. PICK k \in InitId : /\ initializing' = k
                              /\ initState' = [initState EXCEPT ![k] = "creating"]
      BY <2>3
    <3>2. \A j \in InitId : j # 0
      BY DEF InitId
    <3>3. \A j \in InitId : initState[j] # "creating"
      BY <1>0, <2>3, <3>2 DEF FilledOnce
    <3>4. \A j \in InitId : initState'[j] = "creating" => j = k
      BY <3>1, <3>3 DEF IInv, TypeOK
    <3> QED BY <1>0, <2>1, <2>3, <3>1, <3>4 DEF FilledOnce
  <2> QED BY <1>2, <2>2, <2>3 DEF Run, IInv, TypeOK
<1>3. ASSUME NEW k \in InitId, InitDone(k)
      PROVE  FilledOnce'
  <2>1. /\ initializing = k /\ workers[arrayNo + 1] = <<>>
        /\ \A j \in InitId : initState[j] = "creating" => j = k
    BY <1>0, <1>3 DEF InitDone, FilledOnce
  <2>2. /\ UNCHANGED <<initializing, arrayNo>>
        /\ initState' = [initState EXCEPT ![k] = "done"]
        /\ workers' = [workers EXCEPT ![arrayNo + 1] = @ \o PoolOf(k)]
    BY <1>3 DEF InitDone
  <2>3. \A j \in InitId : initState'[j] # "creating"
    BY <2>1, <2>2 DEF IInv, TypeOK
  <2>4. PoolOf(k) \in Seq(Worker) /\ Len(PoolOf(k)) = PoolSize
    <3>1. PoolOf(k) \in [1..PoolSize -> Worker]
      BY DEF PoolOf, Worker
    <3> QED BY <3>1, PoolAssumption, SeqDef DEF PoolOf
  <2>5. workers'[arrayNo + 1] = <<>> \o PoolOf(k)
    <3>1. arrayNo + 1 \in DOMAIN workers
      BY DEF IInv, TypeOK
    <3> QED BY <2>1, <2>2, <3>1
  <2>6. Len(workers'[arrayNo + 1]) = PoolSize
    BY <2>4, <2>5, ConcatProperties, EmptySeq
  <2>7. k # 0
    BY DEF InitId
  <2> QED BY <2>1, <2>2, <2>3, <2>6, <2>7, PoolAssumption DEF FilledOnce
<1>4. ASSUME NEW k \in InitId, InitFail(k)
      PROVE  FilledOnce'
  <2>1. \A j \in InitId : initState'[j] = "creating" => initState[j] = "creating"
    BY <1>4 DEF InitFail, IInv, TypeOK
  <2> QED BY <1>0, <1>4, <2>1 DEF InitFail, FilledOnce
<1>5. ASSUME NEW c \in Closer, ClearPool(c), ~InRun
      PROVE  FilledOnce'
  <2>1. \A j \in InitId : initState'[j] # "creating"
    BY <1>5 DEF ClearPool, Awaited, InRun
  <2>2. workers'[arrayNo' + 1] = <<>>
    <3>1. <<>> \in Seq(Worker)
      BY EmptySeq
    <3> QED BY <1>5, <3>1, AppendProperties DEF ClearPool, IInv, TypeOK
  <2>3. Len(workers'[arrayNo' + 1]) = 0
    BY <2>2
  <2> QED BY <2>1, <2>2, <2>3, PoolAssumption DEF FilledOnce
<1>6. ASSUME NEW c \in Closer, Terminate(c) \/ TerminateNext(c) \/ Drain(c) \/ DrainDone(c)
      PROVE  FilledOnce'
  <2>1. ~InRun
    BY <1>0, <1>6, ClosesAlone
  <2>2. CASE ClearPool(c)
    BY <1>5, <2>1, <2>2
  <2>3. CASE UNCHANGED poolVars
    BY <1>1, <2>3 DEF poolVars
  <2> QED BY <1>6, <2>2, <2>3
          DEF Terminate, TerminateNext, Drain, DrainDone, TerminateBody, TerminateFrom
<1>7. ASSUME \/ \E t \in Task : Enter(t)
             \/ \E w \in Worker, ok \in BOOLEAN : \E m \in inbox[w] : Reply(w, m, ok)
             \/ \E w \in Worker : Crash(w)
             \/ UNCHANGED vars
      PROVE  UNCHANGED poolVars
  BY <1>7 DEF Enter, Reply, Crash, vars
<1>8. ASSUME UNCHANGED poolVars
      PROVE  FilledOnce'
  BY <1>1, <1>8 DEF poolVars
<1> QED
  BY <1>2, <1>3, <1>4, <1>6, <1>7, <1>8 DEF Next

LEMMA InitBooks ==
  ASSUME Init
  PROVE  Awaited /\ NoIdleWorkerWhileQueued /\ Remembered /\ FilledOnce
<1>1. Awaited
  BY DEF Init, Awaited
<1>2. NoIdleWorkerWhileQueued
  BY DEF Init, NoIdleWorkerWhileQueued
<1>3. Remembered
  BY DEF Init, Remembered, Closing, NotClosing
<1>4. FilledOnce
  <2>1. workers = << <<>> >> /\ arrayNo = 0 /\ \A k \in InitId : initState[k] = "unused"
    BY DEF Init
  <2>2. workers[arrayNo + 1] = <<>>
    BY <2>1
  <2> QED BY <2>1, <2>2, EmptySeq, PoolAssumption DEF FilledOnce, Init
<1> QED
  BY <1>1, <1>2, <1>3, <1>4

LEMMA Books == Spec => [](Awaited /\ NoIdleWorkerWhileQueued /\ Remembered /\ FilledOnce)
<1> DEFINE B == Awaited /\ NoIdleWorkerWhileQueued /\ Remembered /\ FilledOnce
<1>1. Init => B
  BY InitBooks
<1>2. IInv /\ B /\ [Next]_vars => B'
  BY AwaitedStep, NoIdleStep, RememberedStep, FilledOnceStep
<1>3. Spec => []IInv
  BY Invariance
<1> QED
  BY <1>1, <1>2, <1>3, PTL DEF Spec

\* However calls, closes, crashes and failed creations interleave, a worker is
\* never idle beside a queued task once the run() calls that are about to look
\* have looked (processQueue, called after every push to either side).
THEOREM NoWorkerIdles == Spec => []NoIdleWorkerWhileQueued
<1> QED BY Books, PTL

\* A promise handed out by run() is never lost from the queue and the pending
\* map while unsettled, as long as no run() waits for the pool during a close
\* (terminate() and drain(), and the message handler's `pending.delete`).
THEOREM NothingIsSwallowed == Spec => []NothingSwallowed
<1>1. Remembered => NothingSwallowed
  BY DEF Remembered, NothingSwallowed
<1> QED BY <1>1, Books, PTL

\* Pools created one after another never leave more than poolSize workers in
\* this.workers, under the same condition (init() and the end of terminate()).
THEOREM PoolIsBounded == Spec => []PoolBounded
<1>1. IInv /\ FilledOnce => PoolBounded
  BY DEF FilledOnce, PoolBounded
<1> QED BY <1>1, Books, Invariance, PTL
=============================================================================
