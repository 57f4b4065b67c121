------------------------------- MODULE Mutex -------------------------------
(***************************************************************************)
(* What a resource lock promises, and what GovernedExecutor, Continuity and  *)
(* GitSession take it for: each resource has at most one holder, who gets it *)
(* in one step when it is free and gives it up in one step, alive or dead.   *)
(***************************************************************************)
CONSTANTS Procs, Free, Resources
VARIABLE holder

Init == holder = [r \in Resources |-> Free]

Acquire(p, r) ==
    /\ holder[r] = Free
    /\ holder' = [holder EXCEPT ![r] = p]

Release(r) ==
    /\ holder[r] # Free
    /\ holder' = [holder EXCEPT ![r] = Free]

Next == \E r \in Resources : Release(r) \/ \E p \in Procs : Acquire(p, r)

Spec == Init /\ [][Next]_holder
=============================================================================
