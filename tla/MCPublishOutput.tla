-------------------------- MODULE MCPublishOutput --------------------------
(* Writers on one destination: two that stage and one that streams in one  *)
(* process that may crash; one alone on Windows; two that stage in two     *)
(* processes.                                                              *)
EXTENDS PublishOutput, TLC

CONSTANTS w1, w2, w3, w4, p1, p2

SameProcess == [w \in Writers |-> p1]
TwoProcesses == [w \in Writers |-> IF w = w1 THEN p1 ELSE p2]
Staged == [w \in Writers |-> "staged"]
AllWays == [w \in Writers |-> CASE w \in {w1, w2} -> "staged"
                                [] w = w3 -> "stream"
                                [] w = w4 -> "native"]
=============================================================================
