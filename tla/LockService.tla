---------------------------- MODULE LockService ----------------------------
(***************************************************************************)
(* What a lock promises: it is granted to one client at a time, a client   *)
(* returns from Acquire only while it has been granted the lock, and from  *)
(* Release only after it gave the lock back.                               *)
(***************************************************************************)
CONSTANTS Client, Free

VARIABLES holder, stage

vars == <<holder, stage>>

Init ==
    /\ holder = Free
    /\ stage = [c \in Client |-> "out"]

Acquire(c) ==
    /\ stage[c] = "out"
    /\ stage' = [stage EXCEPT ![c] = "acquiring"]
    /\ UNCHANGED holder

Grant(c) ==
    /\ stage[c] = "acquiring" /\ holder = Free
    /\ holder' = c
    /\ UNCHANGED stage

Enter(c) ==
    /\ stage[c] = "acquiring" /\ holder = c
    /\ stage' = [stage EXCEPT ![c] = "in"]
    /\ UNCHANGED holder

Release(c) ==
    /\ stage[c] = "in"
    /\ stage' = [stage EXCEPT ![c] = "releasing"]
    /\ UNCHANGED holder

GiveBack(c) ==
    /\ stage[c] = "releasing" /\ holder = c
    /\ holder' = Free
    /\ UNCHANGED stage

Leave(c) ==
    /\ stage[c] = "releasing" /\ holder # c
    /\ stage' = [stage EXCEPT ![c] = "out"]
    /\ UNCHANGED holder

Next == \E c \in Client : \/ Acquire(c) \/ Grant(c) \/ Enter(c)
                          \/ Release(c) \/ GiveBack(c) \/ Leave(c)

Spec == Init /\ [][Next]_vars
=============================================================================
