----------------------------- MODULE MCCallLogs ------------------------------
(* Two users who are in three queues or not, of which two are looked at,    *)
(* and three calls; between the second and the third the clocks go back.    *)
EXTENDS CallLogs, TLC

CONSTANTS ann, bob

MCWall == <<1, 3, 2>>
Call(start, from, to, answered) ==
    [start |-> start, from |-> from, to |-> to, answered |-> answered]
MCCalls ==
    {Call(1, Outside, {ann, bob}, FALSE),
     Call(2, Outside, {bob}, FALSE), Call(2, bob, {ann}, FALSE),
     Call(3, Outside, {ann, bob}, FALSE), Call(3, Outside, {bob}, TRUE)}
QueueSymmetry == Permutations(Queues)
=============================================================================
