--------------------------- MODULE MCWorkflowState ---------------------------
(* Three processes on one workflow with two different contents.      *)
EXTENDS WorkflowState, TLC

CONSTANTS p1, p2, p3, d1, d2

Serial(p) == [procs |-> {p}, data |-> Data, overlap |-> FALSE, removeFails |-> FALSE,
              maxOps |-> 5, maxCrashes |-> 2]
Concurrent(d) == [procs |-> Procs, data |-> {d}, overlap |-> TRUE, removeFails |-> TRUE,
                  maxOps |-> 4, maxCrashes |-> 0]
Crashing(d) == [Concurrent(d) EXCEPT !.removeFails = FALSE, !.maxCrashes = 1]

MCProfiles == {Serial(p) : p \in Procs} \union {Concurrent(d) : d \in Data}
StaleProfiles == {Crashing(d) : d \in Data}

Symm == Permutations(Procs) \union Permutations(Data)
=============================================================================
