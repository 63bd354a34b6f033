---------------------------- MODULE MCWorkerPool ----------------------------
(* Instances of WorkerPool for TLC.                                        *)
EXTENDS WorkerPool

CONSTANTS j1, j2, w1, s1, s2

(* One retry for the first submission, none (given as 0) for the second.   *)
MCMaxAttempts == [j \in Jobs |-> IF j = j1 THEN 2 ELSE 0]

NoParents == [j \in Jobs |-> NoJob]
Nested    == [j \in Jobs |-> IF j = j2 THEN j1 ELSE NoJob]

(* Both modes; without BlockOnFull also a job that submits another one.     *)
MCSetups == [BlockOnFull : BOOLEAN, Parent : {NoParents}] \cup {[BlockOnFull |-> FALSE, Parent |-> Nested]}
=============================================================================
