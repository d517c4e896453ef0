-------------------------------- MODULE Job --------------------------------
(***************************************************************************)
(* What a MapReduce job promises: each reduce task's output appears at     *)
(* once, computed from the output of every map task, and nobody is told    *)
(* that the job is over before all of it is there.                         *)
(***************************************************************************)
CONSTANTS MapTask, ReduceTask

VARIABLES output, over

vars == <<output, over>>

Init ==
    /\ output = [r \in ReduceTask |-> {}]
    /\ over = FALSE

Publish(r) ==
    /\ output' = [output EXCEPT ![r] = MapTask]
    /\ UNCHANGED over

Finish ==
    /\ \A r \in ReduceTask : output[r] = MapTask
    /\ over' = TRUE
    /\ UNCHANGED output

Next == Finish \/ \E r \in ReduceTask : Publish(r)

Spec == Init /\ [][Next]_vars
=============================================================================
