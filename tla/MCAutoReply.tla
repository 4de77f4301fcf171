---------------------------- MODULE MCAutoReply ----------------------------
(* AutoReply with two clients, which are interchangeable.                  *)
EXTENDS AutoReply, TLC

CONSTANTS Ann, Bob

Couple == {Ann, Bob}

Swaps == Permutations(Couple)
============================================================================
