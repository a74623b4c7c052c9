--------------------------- MODULE MCUTXOsManager ---------------------------
(* Instances of UTXOsManager for TLC. *)
EXTENDS UTXOsManager

CONSTANTS s1, s2, r1

OneSender == {s1}
TwoSenders == {s1, s2}
OneReader == {r1}
NoReader == {}

OneCoin == {1}
TwoCoins == {1, 2}
NoCoin == {}
ThirdCoin == {3}
=============================================================================
