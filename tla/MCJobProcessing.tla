-------------------------- MODULE MCJobProcessing --------------------------
(* Small instances of JobProcessing for TLC. *)
EXTENDS JobProcessing, TLC

CONSTANTS h1, w1, w2, s1, s2, vm

(* one host; the jobs change the same virtual machine *)
OneHost == [j \in Jobs |-> h1]
SameHost == [w \in Workers |-> h1]
SameVm == [j \in Jobs |-> {vm}]

(* two workers of one thread each, or one worker *)
OwnWorker == [s \in Slots |-> IF s = s1 THEN w1 ELSE w2]
SharedWorker == [s \in Slots |-> w1]

(* Workers of one thread each may be exchanged together with their thread; *)
(* this halves the states of a safety run.                                 *)
Exchange == {f \in Permutations(Workers \cup Slots) :
               /\ \A w \in Workers : f[w] \in Workers
               /\ \A s \in Slots : f[s] \in Slots /\ OwnWorker[f[s]] = f[OwnWorker[s]]}
=============================================================================
