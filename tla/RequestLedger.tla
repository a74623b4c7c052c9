---------------------------- MODULE RequestLedger ----------------------------
(***************************************************************************)
(* What WebsocketRpcProvider promises whoever sends a request: it settles  *)
(* at most once, by the server's answer to that very request or with an    *)
(* error, and no more than Window requests wait for an answer at a time.   *)
(***************************************************************************)
EXTENDS Naturals, Sequences, FiniteSets

CONSTANT Window
VARIABLE ledger   \* the requests in the order they were issued

Waiting == [status |-> "unsettled", by |-> 0]
Refused == [status |-> "rejected", by |-> 0]
ResolvedBy(n) == [status |-> "resolved", by |-> n]

WaitingIn(l) == {n \in 1..Len(l) : l[n].status = "unsettled"}

Init == ledger = <<>>

\* A request goes out when the window has room, and may be turned away.
Issued(l, m) ==
  m = Append(l, Refused) \/ (Cardinality(WaitingIn(l)) < Window /\ m = Append(l, Waiting))

Issue == Issued(ledger, ledger')

\* The server accepts or refuses request n.
Answer(n) ==
  /\ n \in WaitingIn(ledger)
  /\ \E entry \in {ResolvedBy(n), [Refused EXCEPT !.by = n]} :
       LET answered == [ledger EXCEPT ![n] = entry]
       IN ledger' = answered \/ Issued(answered, ledger')

\* Requests are given up: one times out, or the connection is lost.
GiveUp(ns) ==
  /\ ns \subseteq WaitingIn(ledger)
  /\ ledger' = [n \in 1..Len(ledger) |-> IF n \in ns THEN Refused ELSE ledger[n]]

Next ==
  \/ Issue
  \/ \E n \in WaitingIn(ledger) : Answer(n)
  \/ \E ns \in SUBSET WaitingIn(ledger) : GiveUp(ns)

Spec == Init /\ [][Next]_ledger
=============================================================================
