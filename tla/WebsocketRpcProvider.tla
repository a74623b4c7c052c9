------------------------ MODULE WebsocketRpcProvider ------------------------
(***************************************************************************)
(* The WebSocket client of src/providers/WebsocketRpcProvider.ts: its      *)
(* connection state, the connect() and reconnect() activities, the table   *)
(* of pending requests, the subscriptions and the ping timer, together     *)
(* with the schema cache of websocket/ProtobufLoader.ts.                   *)
(*                                                                         *)
(* JavaScript runs one callback at a time, and the continuations of the    *)
(* promises it settled (microtasks) before the next callback.  A flow is   *)
(* one connect() call in progress, or one reconnect() loop with the        *)
(* connect() and resubscribe() it awaits; a flow that is about to continue *)
(* as a microtask makes Quiet false, which holds back the callbacks of     *)
(* timers and sockets but not the user's own code.                         *)
(*                                                                         *)
(* Bounds of the model, not of the code: MaxSockets sockets are opened,    *)
(* MaxRequests requests issued, and the network drops none of the sockets  *)
(* numbered above MaxDropped.                                              *)
(***************************************************************************)
EXTENDS Naturals, Sequences, FiniteSets

CONSTANTS
  Flow,                  \* connect() / reconnect() activities at a time
  SubType,               \* SubscriptionType
  MaxPending,            \* config.maxPendingRequests
  MaxReconnectAttempts,  \* config.maxReconnectAttempts
  AutoReconnect,         \* config.autoReconnect
  MaxSockets, MaxRequests, MaxDropped,
  SocketsMayFail,        \* sockets fail to open
  NetworkMayStall,       \* timers fire before what they guard has happened
  Refusable,             \* kinds of requests the server may answer with an error
  UserMayDisconnect,     \* the user calls disconnect()
  UserConnects,          \* when the user calls connect(): "anytime"; "settled", not from
                         \*   the client's own callbacks; "fresh", nor with subscriptions
                         \*   of an earlier connection
  UserMayClearCache      \* the user calls clearCache()

ASSUME BoundsAssumption ==
  /\ MaxPending \in Nat /\ MaxReconnectAttempts \in Nat
  /\ MaxSockets \in Nat /\ MaxRequests \in Nat /\ MaxDropped \in Nat
ASSUME SwitchesAssumption ==
  /\ AutoReconnect \in BOOLEAN /\ SocketsMayFail \in BOOLEAN
  /\ NetworkMayStall \in BOOLEAN
  /\ UserMayDisconnect \in BOOLEAN /\ UserMayClearCache \in BOOLEAN
  /\ UserConnects \in {"fresh", "settled", "anytime"}

RequestKind == {"handshake", "subscribe", "resubscribe", "unsubscribe", "call"}
ASSUME RefusableAssumption == Refusable \subseteq RequestKind

SocketId == 1..MaxSockets
RequestNo == 1..MaxRequests
ConnectionState ==
  {"DISCONNECTED", "CONNECTING", "CONNECTED", "HANDSHAKING", "READY", "RECONNECTING"}

VARIABLES
  state,                    \* this.state
  userRequestedDisconnect,  \* this.userRequestedDisconnect
  reconnectAttempt,         \* this.reconnectAttempt
  ping,                     \* whether the ping timer is armed
  socket,                   \* the socket this.socket refers to; 0 is null
  sock,                     \* each WebSocket: its status, and what the server
                            \*   at its other end has it subscribed to
  requestId,                \* this.requestId
  pendingRequests,          \* this.pendingRequests: id -> the request filed under it
  timers,                   \* requests whose timeout is armed
  req,                      \* every request ever issued, in order
  subscriptions,            \* the keys of this.subscriptions
  schema,                   \* whether this.protoRoot is set
  cachedRoot,               \* whether ProtobufLoader's cachedRoot is set
  flow                      \* where each connect() or reconnect() stands

connVars == <<state, userRequestedDisconnect, reconnectAttempt, ping>>
sockVars == <<socket, sock>>
reqVars == <<requestId, pendingRequests, timers, req>>
schemaVars == <<schema, cachedRoot>>
vars == <<connVars, sockVars, reqVars, subscriptions, schemaVars, flow>>

FlowPC == {"idle", "sleeping", "schema", "loaded", "opening", "handshaking", "failing",
           "connected", "resubscribing", "nextSubscription"}
IdleFlow == [pc |-> "idle", again |-> FALSE, sock |-> 0, todo |-> {}]
SockStatus == {"unused", "connecting", "aborted", "failed", "open", "closing", "closed"}

\* A request: what is the subscription type, or the number of payloads a batch
\* has still to send; waiter, the flow that awaits it, if any; sock, the socket
\* it was sent on, 0 when no answer can come; by, the request whose answer
\* settled it.
Request == [id : Nat, kind : RequestKind, what : SubType \cup {0, 1}, waiter : SUBSET Flow,
            sock : 0..MaxSockets, status : {"unsettled", "resolved", "rejected"},
            by : 0..MaxRequests]

TypeOK ==
  /\ state \in ConnectionState
  /\ userRequestedDisconnect \in BOOLEAN
  /\ reconnectAttempt \in 0..MaxReconnectAttempts
  /\ ping \in BOOLEAN
  /\ socket \in 0..MaxSockets
  /\ sock \in [SocketId -> [status : SockStatus, subs : SUBSET SubType]]
  /\ requestId \in Nat
  /\ req \in Seq(Request)
  /\ DOMAIN pendingRequests \subseteq 1..requestId
  /\ \A id \in DOMAIN pendingRequests : pendingRequests[id] \in 1..Len(req)
  /\ timers \subseteq 1..Len(req)
  /\ subscriptions \subseteq SubType
  /\ schema \in BOOLEAN /\ cachedRoot \in BOOLEAN
  /\ flow \in [Flow -> [pc : FlowPC, again : BOOLEAN, sock : 0..MaxSockets,
                        todo : SUBSET SubType]]

Init ==
  /\ state = "DISCONNECTED"
  /\ userRequestedDisconnect = FALSE
  /\ reconnectAttempt = 0
  /\ ping = FALSE
  /\ socket = 0
  /\ sock = [s \in SocketId |-> [status |-> "unused", subs |-> {}]]
  /\ requestId = 0
  /\ pendingRequests = [id \in {} |-> 0]
  /\ timers = {}
  /\ req = <<>>
  /\ subscriptions = {}
  /\ schema = FALSE /\ cachedRoot = FALSE
  /\ flow = [f \in Flow |-> IdleFlow]
-----------------------------------------------------------------------------
(* The request table.  Its operators take and return a table, so that a    *)
(* callback can settle one request and issue the next.                     *)

Table == [log |-> req, filed |-> pendingRequests, timers |-> timers, lastId |-> requestId]

Become(T) ==
  req' = T.log /\ pendingRequests' = T.filed /\ timers' = T.timers /\ requestId' = T.lastId

\* pendingRequests.delete(id)
Unfile(filed, id) == [i \in DOMAIN filed \ {id} |-> filed[i]]

\* A promise keeps the first value it is settled with.
Settle(T, ns, status, by) ==
  [T EXCEPT !.log = [n \in 1..Len(@) |->
     IF n \in ns /\ @[n].status = "unsettled"
     THEN [@[n] EXCEPT !.status = status, !.by = by] ELSE @[n]]]

\* Mutant: the map is cleared and nobody told.
CleanupWithoutReject(T) ==
  [T EXCEPT !.filed = [id \in {} |-> 0], !.timers = @ \ {T.filed[id] : id \in DOMAIN T.filed}]

\* cleanupPendingRequests()
CleanupPendingRequests(T) ==
  LET ns == {T.filed[id] : id \in DOMAIN T.filed}
  IN [Settle(T, ns, "rejected", 0) EXCEPT !.filed = [id \in {} |-> 0], !.timers = @ \ ns]

\* Mutant: an id that is free now, and was used before.
NextRequestIdIsSize(T) == Cardinality(DOMAIN T.filed) + 1

\* nextRequestId(); its 32 bits do not overflow here.
NextRequestId(T) == T.lastId + 1

\* this.socket.readyState === WebSocket.OPEN, the sockets being sk
CanSend(sk) == socket # 0 /\ sk[socket].status = "open"

\* Mutant: one pending request too many.
HasRoomForOneMore(T) == Cardinality(DOMAIN T.filed) <= MaxPending

\* The check sendRequest() begins with.
HasRoom(T) == Cardinality(DOMAIN T.filed) < MaxPending

\* nextRequestId() and sendRequest(): the request is turned away when too many
\* are pending; else it is filed with its timer, and sent.  A send that throws
\* rejects the promise and leaves the entry and the timer.
SendRequest(T, sk, kind, what, waiter) ==
  LET id == NextRequestId(T)
      n == Len(T.log) + 1
      room == HasRoom(T)
      sent == room /\ CanSend(sk)
  IN [log |-> Append(T.log, [id |-> id, kind |-> kind, what |-> what, waiter |-> waiter,
                             sock |-> IF sent THEN socket ELSE 0,
                             status |-> IF sent THEN "unsettled" ELSE "rejected", by |-> 0]),
      filed |-> IF room THEN [i \in DOMAIN T.filed \cup {id} |->
                                IF i = id THEN n ELSE T.filed[i]]
                ELSE T.filed,
      timers |-> IF room THEN T.timers \cup {n} ELSE T.timers,
      lastId |-> id]

MayIssue == Len(req) < MaxRequests
Outstanding(T) == T.log[Len(T.log)].status = "unsettled"
-----------------------------------------------------------------------------
(* Flows                                                                   *)

\* No continuation is due: the callback of a timer or a socket may run.
Quiet ==
  \A f \in Flow : flow[f].pc \notin {"loaded", "failing", "connected", "nextSubscription"}

\* What the flows do when the requests ns are rejected: a handshake fails its
\* connect(); resubscribe() logs the error and goes on.
FlowsAfterRejecting(ns) ==
  [f \in Flow |->
     IF \E n \in ns : req[n].waiter = {f} /\ req[n].status = "unsettled"
     THEN [flow[f] EXCEPT !.pc = IF @ = "handshaking" THEN "failing" ELSE "nextSubscription"]
     ELSE flow[f]]

FiledRequests == {pendingRequests[id] : id \in DOMAIN pendingRequests}

\* connect() up to its first await; the guard on the state is its caller's.
StartConnect(f, again) ==
  /\ state' = "CONNECTING"
  /\ userRequestedDisconnect' = FALSE
  /\ flow' = [flow EXCEPT ![f] = [IdleFlow EXCEPT
                !.pc = IF cachedRoot THEN "loaded" ELSE "schema", !.again = again]]

\* Mutant: one attempt too many.
AttemptsLeftOneMore == reconnectAttempt <= MaxReconnectAttempts

AttemptsLeft == reconnectAttempt < MaxReconnectAttempts

\* Mutant: the attempts are not counted.
NextAttemptUncounted == reconnectAttempt

NextAttempt == reconnectAttempt + 1

\* reconnect() up to its sleep, in the flow f of fl, with DISCONNECTED set.
Reconnect(f, fl) ==
  \/ /\ ~AttemptsLeft
     /\ state' = "DISCONNECTED"
     /\ flow' = [fl EXCEPT ![f] = IdleFlow]
     /\ UNCHANGED <<reconnectAttempt, schemaVars>>
  \/ /\ AttemptsLeft
     /\ state' = "RECONNECTING"
     /\ reconnectAttempt' = NextAttempt
     /\ schema' = FALSE /\ cachedRoot' = FALSE
     /\ flow' = [fl EXCEPT ![f] = [IdleFlow EXCEPT !.pc = "sleeping", !.again = TRUE]]
-----------------------------------------------------------------------------
(* connect(), disconnect(), reconnect()                                    *)

MayConnect ==
  UserConnects = "anytime" \/ (Quiet /\ (UserConnects = "settled" \/ subscriptions = {}))

\* Mutant: connect() only looks whether the client is READY.
ConnectUnlessReady(f) ==
  /\ flow[f].pc = "idle" /\ MayConnect
  /\ state # "READY"
  /\ StartConnect(f, FALSE)
  /\ UNCHANGED <<reconnectAttempt, ping, sockVars, reqVars, subscriptions, schemaVars>>

Connect(f) ==
  /\ flow[f].pc = "idle" /\ MayConnect
  /\ state = "DISCONNECTED"
  /\ StartConnect(f, FALSE)
  /\ UNCHANGED <<reconnectAttempt, ping, sockVars, reqVars, subscriptions, schemaVars>>

\* The schema arrives, or the fetch or the parse fails.
SchemaLoaded(f, ok) ==
  /\ Quiet /\ flow[f].pc = "schema"
  /\ cachedRoot' = (cachedRoot \/ ok)
  /\ flow' = [flow EXCEPT ![f].pc = IF ok THEN "loaded" ELSE "failing"]
  /\ UNCHANGED <<connVars, sockVars, reqVars, subscriptions, schema>>

\* connect() after the schema is there, and connectWebSocket(): a new socket
\* takes the place of this.socket, whatever that was.  The constructor throws
\* when MaxSockets exist.
OpenSocket(f) ==
  /\ flow[f].pc = "loaded"
  /\ schema' = TRUE
  /\ LET fresh == {s \in SocketId : sock[s].status = "unused"}
     IN \/ /\ fresh = {}
           /\ flow' = [flow EXCEPT ![f].pc = "failing"]
           /\ UNCHANGED sockVars
        \/ \E s \in fresh :
             /\ \A r \in fresh : s <= r
             /\ socket' = s
             /\ sock' = [sock EXCEPT ![s].status = "connecting"]
             /\ flow' = [flow EXCEPT ![f].pc = "opening", ![f].sock = s]
  /\ UNCHANGED <<connVars, reqVars, subscriptions, cachedRoot>>

\* onopen.  When connect() still waits for this socket, performHandshake()
\* follows up to its await, and fails at once without a schema.
SocketOpens(s) ==
  LET sk == [sock EXCEPT ![s].status = "open"]
      waiting == {f \in Flow : flow[f].pc = "opening" /\ flow[f].sock = s}
  IN /\ Quiet /\ sock[s].status = "connecting"
     /\ sock' = sk
     /\ \/ /\ waiting = {}
           /\ state' = "CONNECTED"
           /\ UNCHANGED <<reqVars, flow>>
        \/ \E f \in waiting :
             /\ state' = "HANDSHAKING"
             /\ IF schema
                THEN LET T == SendRequest(Table, sk, "handshake", 0, {f})
                     IN /\ MayIssue
                        /\ Become(T)
                        /\ flow' = [flow EXCEPT ![f].pc =
                             IF Outstanding(T) THEN "handshaking" ELSE "failing"]
                ELSE flow' = [flow EXCEPT ![f].pc = "failing"] /\ UNCHANGED reqVars
     /\ UNCHANGED <<userRequestedDisconnect, reconnectAttempt, ping, socket, subscriptions,
                    schemaVars>>

\* The connectTimeout of connectWebSocket(): the socket is left as it is.
ConnectTimeout(f) ==
  /\ Quiet /\ NetworkMayStall
  /\ flow[f].pc = "opening"
  /\ flow' = [flow EXCEPT ![f].pc = "failing"]
  /\ UNCHANGED <<connVars, sockVars, reqVars, subscriptions, schemaVars>>

\* onerror, for a socket that failed to open or was closed before it did.
SocketFails(s) ==
  /\ Quiet
  /\ \/ sock[s].status = "connecting" /\ SocketsMayFail
     \/ sock[s].status = "aborted"
  /\ sock' = [sock EXCEPT ![s].status = "failed"]
  /\ flow' = [f \in Flow |-> IF flow[f].pc = "opening" /\ flow[f].sock = s
                             THEN [flow[f] EXCEPT !.pc = "failing"] ELSE flow[f]]
  /\ UNCHANGED <<connVars, socket, reqVars, subscriptions, schemaVars>>

\* connect() throws, and with it the reconnect() that called it starts over.
FlowFails(f) ==
  /\ flow[f].pc = "failing"
  /\ \/ /\ ~flow[f].again
        /\ state' = "DISCONNECTED"
        /\ flow' = [flow EXCEPT ![f] = IdleFlow]
        /\ UNCHANGED <<reconnectAttempt, schemaVars>>
     \/ /\ flow[f].again
        /\ Reconnect(f, flow)
  /\ UNCHANGED <<userRequestedDisconnect, ping, sockVars, reqVars, subscriptions>>

\* disconnect(): CLOSING lasts only inside it.
Disconnect ==
  /\ UserMayDisconnect
  /\ state # "DISCONNECTED"
  /\ userRequestedDisconnect' = TRUE
  /\ state' = "DISCONNECTED"
  /\ ping' = FALSE
  /\ Become(CleanupPendingRequests(Table))
  /\ flow' = FlowsAfterRejecting(FiledRequests)
  /\ socket' = 0
  /\ sock' = [s \in SocketId |->
       IF s = socket
       THEN [sock[s] EXCEPT !.status = CASE @ = "connecting" -> "aborted"
                                         [] @ = "open" -> "closing"
                                         [] OTHER -> @]
       ELSE sock[s]]
  /\ UNCHANGED <<reconnectAttempt, subscriptions, schemaVars>>

\* onclose of socket s, be it this.socket or one replaced or given up since:
\* handleClose() does not ask.
HandleClose(s) ==
  /\ Quiet
  /\ \/ sock[s].status \in {"failed", "closing"}
     \/ sock[s].status = "open" /\ s <= MaxDropped
  /\ sock' = [sock EXCEPT ![s] = [status |-> "closed", subs |-> {}]]
  /\ ping' = FALSE
  /\ \/ /\ state = "READY" /\ AutoReconnect /\ ~userRequestedDisconnect
        /\ \E f \in Flow : flow[f].pc = "idle" /\ Reconnect(f, flow)
        /\ UNCHANGED reqVars
     \/ /\ ~(state = "READY" /\ AutoReconnect /\ ~userRequestedDisconnect)
        /\ state' = "DISCONNECTED"
        /\ Become(CleanupPendingRequests(Table))
        /\ flow' = FlowsAfterRejecting(FiledRequests)
        /\ UNCHANGED <<reconnectAttempt, schemaVars>>
  /\ UNCHANGED <<userRequestedDisconnect, socket, subscriptions>>

\* The backoff of reconnect() is over: it sets DISCONNECTED to get past the
\* guard of connect(), and calls it.
WakeUp(f) ==
  /\ Quiet /\ flow[f].pc = "sleeping"
  /\ StartConnect(f, TRUE)
  /\ UNCHANGED <<reconnectAttempt, ping, sockVars, reqVars, subscriptions, schemaVars>>

\* One turn of resubscribe(): it first takes the whole map, then asks for one
\* type after another; a subscribe call that throws loses its type, as one
\* does for which MaxRequests leaves no room.
Resubscribe(f) ==
  LET first == flow[f].pc = "connected"
      todo == IF first THEN subscriptions ELSE flow[f].todo
  IN /\ flow[f].pc \in {"connected", "nextSubscription"}
     /\ subscriptions' = IF first THEN {} ELSE subscriptions
     /\ \/ /\ todo = {}
           /\ flow' = [flow EXCEPT ![f] = IdleFlow]
           /\ UNCHANGED reqVars
        \/ \E t \in todo :
             LET T == SendRequest(Table, sock, "resubscribe", t, {f})
                 asks == state = "READY" /\ schema /\ MayIssue
             IN /\ flow' = [flow EXCEPT ![f].todo = todo \ {t},
                     ![f].pc = IF asks /\ Outstanding(T) THEN "resubscribing"
                               ELSE "nextSubscription"]
                /\ IF asks THEN Become(T) ELSE UNCHANGED reqVars
     /\ UNCHANGED <<connVars, sockVars, schemaVars>>
-----------------------------------------------------------------------------
(* Requests of the user                                                    *)

\* subscribeBlocks() and its like, unsubscribe(), and _send() of a batch of
\* more + 1 payloads, each up to its first await.
UserRequest(kind, what) ==
  /\ state = "READY" /\ schema
  /\ MayIssue
  /\ Become(SendRequest(Table, sock, kind, what, {}))
  /\ UNCHANGED <<connVars, sockVars, subscriptions, schemaVars, flow>>

Subscribe(t) == UserRequest("subscribe", t)
Unsubscribe(t) == UserRequest("unsubscribe", t)
Send(more) == UserRequest("call", more)

\* clearCache() called by the user.
ClearCache ==
  /\ UserMayClearCache
  /\ schema' = FALSE /\ cachedRoot' = FALSE
  /\ UNCHANGED <<connVars, sockVars, reqVars, subscriptions, flow>>

\* Mutant: the timer drops the request and does not reject it.
RequestTimeoutSilent(n) ==
  /\ Quiet /\ NetworkMayStall
  /\ n \in timers
  /\ Become([Table EXCEPT !.filed = Unfile(@, req[n].id), !.timers = @ \ {n}])
  /\ UNCHANGED <<connVars, sockVars, subscriptions, schemaVars, flow>>

\* The timer of sendRequest(): it deletes whatever is filed under the id.
RequestTimeout(n) ==
  /\ Quiet /\ NetworkMayStall
  /\ n \in timers
  /\ Become([Settle(Table, {n}, "rejected", 0) EXCEPT
               !.filed = Unfile(@, req[n].id), !.timers = @ \ {n}])
  /\ flow' = FlowsAfterRejecting({n})
  /\ UNCHANGED <<connVars, sockVars, subscriptions, schemaVars>>

\* Mutant: the timer does not arm itself again.
PingEnds == FALSE

\* The timer of schedulePing() arms itself again.
PingGoesOn == state = "READY"

\* schedulePing()'s timer.  The ping takes a request id, is not filed, and its
\* answer is not awaited; ids are what it changes.
PingFires ==
  /\ Quiet /\ ping
  /\ ping' = PingGoesOn
  /\ requestId' = IF state = "READY" /\ schema THEN NextRequestId(Table) ELSE requestId
  /\ requestId' <= MaxRequests
  /\ UNCHANGED <<state, userRequestedDisconnect, reconnectAttempt, sockVars,
                 pendingRequests, timers, req, subscriptions, schemaVars, flow>>
-----------------------------------------------------------------------------
(* The server answers request n, and handleMessage() runs.                 *)

OnTheWire(n) == n \in 1..Len(req) /\ req[n].sock # 0 /\ sock[req[n].sock].status = "open"

\* The request filed under the id of n's answer; none when it was given up.
Addressee(n) ==
  IF req[n].id \in DOMAIN pendingRequests THEN {pendingRequests[req[n].id]} ELSE {}

\* The table once n is answered.
Answered(n, status) ==
  [Settle(Table, Addressee(n), status, n) EXCEPT
     !.log[n].sock = 0,
     !.filed = Unfile(@, req[n].id),
     !.timers = @ \ Addressee(n)]

\* The server's side of accepting n.
Served(n) ==
  [sock EXCEPT ![req[n].sock].subs =
     CASE req[n].kind \in {"subscribe", "resubscribe"} -> @ \cup {req[n].what}
       [] req[n].kind = "unsubscribe" -> @ \ {req[n].what}
       [] OTHER -> @]

\* Mutant: reconnect() forgets resubscribe().
AfterConnectIdle(f) == IdleFlow

\* Where a flow goes when its connect() returns: reconnect() resubscribes.
AfterConnect(f) == IF flow[f].again THEN [flow[f] EXCEPT !.pc = "connected"] ELSE IdleFlow

\* performHandshake() and connect() after the answer: READY, whatever became of
\* the connection meanwhile.
HandshakeDone(n) ==
  /\ Become(Answered(n, "resolved"))
  /\ \E f \in Flow : \E m \in Addressee(n) :
       /\ req[m].kind = "handshake" /\ req[m].waiter = {f}
       /\ \/ /\ schema
             /\ state' = "READY" /\ ping' = TRUE /\ reconnectAttempt' = 0
             /\ flow' = [flow EXCEPT ![f] = AfterConnect(f)]
          \/ /\ ~schema
             /\ flow' = [flow EXCEPT ![f].pc = "failing"]
             /\ UNCHANGED <<state, ping, reconnectAttempt>>
  /\ UNCHANGED subscriptions

\* subscribe*() and resubscribe() after the answer.
SubscribeDone(n) ==
  /\ Become(Answered(n, "resolved"))
  /\ \E m \in Addressee(n) :
       /\ req[m].kind \in {"subscribe", "resubscribe"}
       /\ subscriptions' = subscriptions \cup {req[m].what}
       /\ flow' = [f \in Flow |-> IF req[m].waiter = {f}
                                  THEN [flow[f] EXCEPT !.pc = "nextSubscription"]
                                  ELSE flow[f]]
  /\ UNCHANGED <<state, ping, reconnectAttempt>>

UnsubscribeDone(n) ==
  /\ Become(Answered(n, "resolved"))
  /\ \E m \in Addressee(n) :
       /\ req[m].kind = "unsubscribe"
       /\ subscriptions' = subscriptions \ {req[m].what}
  /\ UNCHANGED <<state, ping, reconnectAttempt, flow>>

\* _send() after an answer: the next payload of the batch goes out, whatever
\* the state of the connection is by now, as long as there is a schema.
SendDone(n) ==
  /\ \E m \in Addressee(n) :
       /\ req[m].kind = "call"
       /\ \/ /\ req[m].what = 1 /\ schema
             /\ MayIssue
             /\ Become(SendRequest(Answered(n, "resolved"), sock, "call", 0, {}))
          \/ /\ req[m].what = 0 \/ ~schema
             /\ Become(Answered(n, "resolved"))
  /\ UNCHANGED <<state, ping, reconnectAttempt, subscriptions, flow>>

\* The answer comes too late: nothing is filed under its id.
LateAnswer(n) ==
  /\ Addressee(n) = {}
  /\ Become(Answered(n, "resolved"))
  /\ UNCHANGED <<state, ping, reconnectAttempt, subscriptions, flow>>

HandleResponse(n) ==
  /\ Quiet /\ OnTheWire(n)
  /\ sock' = Served(n)
  /\ HandshakeDone(n) \/ SubscribeDone(n) \/ UnsubscribeDone(n) \/ SendDone(n) \/ LateAnswer(n)
  /\ UNCHANGED <<userRequestedDisconnect, socket, schemaVars>>

HandleErrorResponse(n) ==
  /\ Quiet /\ OnTheWire(n) /\ req[n].kind \in Refusable
  /\ Become(Answered(n, "rejected"))
  /\ flow' = FlowsAfterRejecting(Addressee(n))
  /\ UNCHANGED <<connVars, sockVars, subscriptions, schemaVars>>
-----------------------------------------------------------------------------
Next ==
  \/ \E f \in Flow :
       \/ Connect(f) \/ (\E ok \in BOOLEAN : SchemaLoaded(f, ok)) \/ OpenSocket(f)
       \/ ConnectTimeout(f) \/ FlowFails(f) \/ WakeUp(f) \/ Resubscribe(f)
  \/ Disconnect \/ ClearCache \/ PingFires
  \/ \E s \in SocketId : SocketOpens(s) \/ SocketFails(s) \/ HandleClose(s)
  \/ \E t \in SubType : Subscribe(t) \/ Unsubscribe(t)
  \/ \E more \in {0, 1} : Send(more)
  \/ \E n \in RequestNo : RequestTimeout(n) \/ HandleResponse(n) \/ HandleErrorResponse(n)

Spec == Init /\ [][Next]_vars

(* Fairness: continuations run, armed timers fire (NetworkMayStall), and a   *)
(* fetch of the schema ends one way or the other; strong for these, as the   *)
(* event loop serves a due callback though Quiet comes and goes.  Nothing is *)
(* assumed of the user, of the server, or of sockets opening or closing.     *)
FairSpec ==
  /\ Spec
  /\ \A f \in Flow :
       /\ WF_vars(OpenSocket(f)) /\ WF_vars(FlowFails(f)) /\ WF_vars(Resubscribe(f))
       /\ SF_vars(\E ok \in BOOLEAN : SchemaLoaded(f, ok))
       /\ SF_vars(ConnectTimeout(f)) /\ SF_vars(WakeUp(f))
  /\ \A n \in RequestNo : SF_vars(RequestTimeout(n))
-----------------------------------------------------------------------------
(* What the users of the client rely on.                                   *)

\* A request that is still open is filed under its own id and its timer runs,
\* through reconnections, late answers and clean-ups: it cannot hang.
UnsettledIsGuarded ==
  \A n \in 1..Len(req) : req[n].status = "unsettled" =>
    /\ n \in timers
    /\ req[n].id \in DOMAIN pendingRequests /\ pendingRequests[req[n].id] = n

\* maxPendingRequests holds also while a batch or resubscribe() issues requests
\* from the answers of others.
PendingBounded == Cardinality(DOMAIN pendingRequests) <= MaxPending

\* The answer that settles a request was given to that request, also when pings
\* and connections share the counter of ids.
RightAnswer == \A n \in 1..Len(req) : req[n].status = "resolved" => req[n].by = n

\* Requests as their senders see them.
Ledger == INSTANCE RequestLedger WITH
  Window <- MaxPending,
  ledger <- [n \in 1..Len(req) |-> [status |-> req[n].status, by |-> req[n].by]]
ImplementsLedger == Ledger!Spec

Live(s) == sock[s].status \in {"connecting", "open"}
InConnect == {f \in Flow : flow[f].pc \in {"schema", "loaded", "opening", "handshaking", "failing"}}

\* Without timeouts, failing sockets, disconnect(), clearCache(), refused
\* handshakes and a full table of requests there is one connection: no socket is
\* left behind by a new one, and no two connect() calls overlap.
OneConnection ==
  /\ \A s \in SocketId : Live(s) => s = socket
  /\ Cardinality(InConnect) <= 1

\* Under the same conditions READY is not said in vain: the socket is open, the
\* schema is there and the ping timer runs.
ReadyServed == state = "READY" => CanSend(sock) /\ schema /\ ping

\* Under the same conditions, and when only reconnect() carries subscriptions over
\* to a new connection, a handler kept in this.subscriptions is fed by the server
\* of the present one, once resubscribe() is through.
HonestSubscriptions ==
  state = "READY" /\ (\A f \in Flow : flow[f].pc = "idle") =>
    subscriptions \subseteq sock[socket].subs

\* Every request settles: its timer is never lost.
RequestsSettle ==
  \A n \in RequestNo :
    (n <= Len(req) /\ req[n].status = "unsettled")
      ~> (n <= Len(req) /\ req[n].status # "unsettled")

\* Every connect() comes to an end, the one inside a reconnect() included.
ConnectReturns ==
  \A f \in Flow : f \in InConnect ~> f \notin InConnect

\* A reconnect() does not go on for ever: RECONNECTING gives way to READY, or to
\* DISCONNECTED when the attempts are used up.
ReconnectEnds == state = "RECONNECTING" ~> state \in {"READY", "DISCONNECTED"}

\* "Only auto-reconnect if: [...] 3. User did not explicitly call disconnect()"
\* (WebsocketRpcProvider.ts, handleClose()): the backoff of a reconnect() does
\* not end in a connect() after the user has called disconnect().
DisconnectStopsReconnect ==
  [][\A f \in Flow : WakeUp(f) => ~userRequestedDisconnect]_vars
=============================================================================
