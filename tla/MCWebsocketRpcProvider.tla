----------------------- MODULE MCWebsocketRpcProvider -----------------------
(* Instances of WebsocketRpcProvider for TLC. *)
EXTENDS WebsocketRpcProvider, TLC

CONSTANTS f1, f2, blocks, epochs

OneFlow == {f1}
TwoFlows == {f1, f2}
OneType == {blocks}
TwoTypes == {blocks, epochs}

NoKind == {}
EveryKind == RequestKind
\* Every request but the handshake.
Requests == RequestKind \ {"handshake"}

\* Flows and subscription types are interchangeable (not used with liveness).
Symmetry == Permutations(Flow) \cup Permutations(SubType)
=============================================================================
