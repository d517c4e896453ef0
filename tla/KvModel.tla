------------------------------ MODULE KvModel ------------------------------
(***************************************************************************)
(* What the versioned key/value service promises its clients: every        *)
(* operation takes effect at one moment between its call and its return,   *)
(* as in the sequential model that models1/kv.go gives to the              *)
(* linearizability checker, with one answer more: ErrNoKey, which the      *)
(* server gives to a Put (StepPutNoKey) and the checker's model does not   *)
(* know.  An operation that has not changed anything may be tried again.   *)
(***************************************************************************)
EXTENDS Naturals

CONSTANTS Client, Key, Value, Version, Empty

VARIABLES kvState, op

vars == <<kvState, op>>

NoAnswer == [value |-> Empty, version |-> 0, err |-> "none"]

NoInput == [op |-> "none", key |-> Empty, value |-> Empty, version |-> 0]

Input == [op : {"Get"}, key : Key, value : {Empty}, version : {0}]
         \cup [op : {"Put"}, key : Key, value : Value, version : Version]

Init ==
    /\ kvState = [k \in Key |-> [value |-> Empty, version |-> 0]]
    /\ op = [c \in Client |-> [at |-> "idle", input |-> NoInput, answer |-> NoAnswer]]

Invoke(c, input) ==
    /\ op[c].at \in {"idle", "returned"}
    /\ op' = [op EXCEPT ![c] = [at |-> "pending", input |-> input, answer |-> NoAnswer]]
    /\ UNCHANGED kvState

\* The Step function of the model, for a Get; it compares the value alone,
\* version and error are fixed here in addition.
StepGet(c) ==
    LET k == op[c].input.key
        s == kvState[k]
    IN  /\ op[c].at = "pending" /\ op[c].input.op = "Get"
        /\ op' = [op EXCEPT ![c].answer =
                    [value |-> s.value, version |-> s.version,
                     err |-> IF s.version = 0 THEN "ErrNoKey" ELSE "OK"]]
        /\ UNCHANGED kvState

\* The Step function of the model, for a Put.
StepPut(c) ==
    LET in == op[c].input
        s  == kvState[in.key]
        match == s.version = in.version
    IN  /\ op[c].at = "pending" /\ in.op = "Put" /\ op[c].answer.err # "OK"
        /\ kvState' = [kvState EXCEPT ![in.key] =
               IF match THEN [value |-> in.value, version |-> s.version + 1] ELSE @]
        /\ op' = [op EXCEPT ![c].answer =
                    [value |-> Empty, version |-> 0,
                     err |-> IF match THEN "OK" ELSE "ErrVersion"]]

\* What the server adds to the model: a Put with a version, of a key that does
\* not exist, is answered ErrNoKey and changes nothing.
StepPutNoKey(c) ==
    LET in == op[c].input
    IN  /\ op[c].at = "pending" /\ in.op = "Put" /\ op[c].answer.err # "OK"
        /\ kvState[in.key].version = 0 /\ in.version # 0
        /\ op' = [op EXCEPT ![c].answer = [value |-> Empty, version |-> 0, err |-> "ErrNoKey"]]
        /\ UNCHANGED kvState

\* What the caller may be told: the answer, or ErrMaybe, if it is a Put.
Outputs(c) ==
    {op[c].answer} \cup
    (IF op[c].input.op = "Put" /\ op[c].answer.err \in {"OK", "ErrVersion"}
       THEN {[op[c].answer EXCEPT !.err = "ErrMaybe"]} ELSE {})

Respond(c) ==
    /\ op[c].at = "pending" /\ op[c].answer.err # "none"
    /\ \E output \in Outputs(c) :
         op' = [op EXCEPT ![c] = [at |-> "returned", input |-> op[c].input, answer |-> output]]
    /\ UNCHANGED kvState

Next ==
    \E c \in Client :
      \/ \E input \in Input : Invoke(c, input)
      \/ StepGet(c)
      \/ StepPut(c)
      \/ StepPutNoKey(c)
      \/ Respond(c)

Spec == Init /\ [][Next]_vars
=============================================================================
