------------------------------ MODULE MCShare -------------------------------
EXTENDS Share, TLC

CONSTANTS a, b, d

Swap == Permutations(Clients)

(* A bound for the run in which the streams would grow for ever.            *)
ShortStreams == \A c \in Clients, w \in Windows : Len(toS[c][w]) <= 2 /\ Len(toC[c][w]) <= 2
=============================================================================
