-------------------------- MODULE MCLeaderElection --------------------------
(* LeaderElection with at most MaxFaults failed calls, stops and crashes.   *)
EXTENDS LeaderElection, TLC

CONSTANT MaxFaults

VARIABLE faults

mcvars == <<vars, faults>>

MCInit == Init /\ faults = 0

MCNext ==
  \/ /\ \/ \E r \in Replicas : Begin(r) \/ Tick(r) \/ Serve(r) \/ Reply(r)
        \/ \E x \in late : ServeLate(x[1], x[2])
        \/ Advance
     /\ UNCHANGED faults
  \/ /\ \E r \in Replicas : phase[r] = "releasing" /\ Exit(r)
     /\ UNCHANGED faults
  \/ /\ faults < MaxFaults
     /\ \E r \in Replicas : Fault(r)
     /\ faults' = faults + 1

MCSpec == MCInit /\ [][MCNext]_mcvars

MCFairSpec == MCSpec /\ Fairness

Symmetry == Permutations(Punctual)
=============================================================================
