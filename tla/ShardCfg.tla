------------------------------ MODULE ShardCfg ------------------------------
(***************************************************************************)
(* A shard configuration of shardkv1/shardcfg/shardcfg.go and its two      *)
(* operations, JoinBalance and LeaveBalance.  Both are loops; an action is *)
(* one iteration.  A Join walks over a Go map, hence in any order; a Leave *)
(* over a slice that its caller ordered.  A group's servers are abstracted *)
(* to which groups share one.                                              *)
(***************************************************************************)
EXTENDS Integers, FiniteSets, FiniteSetsExt

CONSTANTS
    NShards,   \* the number of shards; 12 in the code
    Gid,       \* the groups; 0 is no group
    Clash,     \* the pairs {g, h} of groups that have a server in common
    MaxNum     \* bound: no operation starts on a configuration of this number

ASSUME ShardAssumption ==
    /\ NShards \in 1 .. 256
    /\ IsFiniteSet(Gid) /\ Gid \subseteq Nat \ {0}
    /\ MaxNum \in Nat

VARIABLES
    num, shards, groups,  \* cfg.Num, cfg.Shards, the keys of cfg.Groups
    at,                   \* which loop runs, if any
    todo,                 \* the groups that Join or Leave have still to look at
    next,                 \* the shard that Rebalance assigns next
    result,               \* what the last operation returned
    moved                 \* the shards that the Rebalance under way has given away

vars == <<num, shards, groups, at, todo, next, result, moved>>

Shard == 0 .. NShards - 1

\* MakeShardConfig.
Init ==
    /\ num = 0 /\ shards = [s \in Shard |-> 0] /\ groups = {}
    /\ at = "idle" /\ todo = {} /\ next = 0 /\ result = TRUE /\ moved = {}

-----------------------------------------------------------------------------
(* analyze: the most and the least loaded group, the smaller gid on a tie. *)

Count(g) == Cardinality({s \in Shard : shards[s] = g})

Most == CHOOSE g \in groups :
          \A h \in groups : Count(h) < Count(g) \/ (Count(h) = Count(g) /\ g <= h)

\* Mutant: the first group will do.
LeastFirst == Min(groups)

Least == CHOOSE g \in groups :
           \A h \in groups : Count(h) > Count(g) \/ (Count(h) = Count(g) /\ g <= h)

-----------------------------------------------------------------------------
(* Rebalance.                                                              *)

\* It is called: without groups, no shard is assigned.
StartRebalance ==
    /\ num' = num + 1 /\ result' = TRUE
    /\ IF groups = {}
         THEN at' = "idle" /\ shards' = [s \in Shard |-> 0]
         ELSE at' = "assign" /\ UNCHANGED shards
    /\ UNCHANGED <<groups, todo, next, moved>>

Give(s, g) ==
    /\ shards' = [shards EXCEPT ![s] = g]
    /\ moved' = moved \cup {s}

\* Assign a shard whose group has left.
Assign ==
    /\ at = "assign"
    /\ IF shards[next] \in groups THEN UNCHANGED <<shards, moved>> ELSE Give(next, Least)
    /\ IF next = NShards - 1 THEN at' = "move" /\ next' = 0
                             ELSE next' = next + 1 /\ UNCHANGED at
    /\ UNCHANGED <<num, groups, todo, result>>

\* Mutant: a difference of one is not good enough.
EvenStrictly == Count(Most) < Count(Least) + 1

Even == Count(Most) < Count(Least) + 2

\* Move the first shard of the most loaded group to the least loaded one.
Move ==
    /\ at = "move" /\ ~Even
    /\ Give(Min({s \in Shard : shards[s] = Most}), Least)
    /\ UNCHANGED <<num, groups, at, todo, next, result>>

EndRebalance ==
    /\ at = "move" /\ Even
    /\ at' = "idle" /\ moved' = {}
    /\ UNCHANGED <<num, shards, groups, todo, next, result>>

-----------------------------------------------------------------------------
(* JoinBalance and LeaveBalance.                                           *)

Call(op, S) ==
    /\ at = "idle" /\ num < MaxNum
    /\ at' = op /\ todo' = S
    /\ UNCHANGED <<num, shards, groups, next, result, moved>>

JoinBalance(S) == Call("join", S)
LeaveBalance(S) == Call("leave", S)

\* The operation returns false: what it did to the groups so far remains.
Refuse ==
    /\ at' = "idle" /\ result' = FALSE /\ todo' = {}
    /\ UNCHANGED <<num, shards, groups, next, moved>>

\* A server of g is in another group.
Shares(g) == \E h \in groups : {g, h} \in Clash

Fatal ==
    /\ at' = "fatal"
    /\ UNCHANGED <<num, shards, groups, todo, next, result, moved>>

JoinOne(g) ==
    /\ at = "join" /\ g \in todo
    /\ \/ g \in groups /\ Refuse
       \/ g \notin groups /\ Shares(g) /\ Fatal
       \/ /\ g \notin groups /\ ~Shares(g)
          /\ groups' = groups \cup {g} /\ todo' = todo \ {g}
          /\ UNCHANGED <<num, shards, at, next, result, moved>>

LeaveOne(g) ==
    /\ at = "leave" /\ g \in todo
    /\ \/ g \notin groups /\ Refuse
       \/ /\ g \in groups
          /\ groups' = groups \ {g} /\ todo' = todo \ {g}
          /\ UNCHANGED <<num, shards, at, next, result, moved>>

\* Mutant: only Join rebalances.
LastDoneJoin ==
    /\ at \in {"join", "leave"} /\ todo = {}
    /\ \/ at = "join" /\ StartRebalance
       \/ /\ at = "leave"
          /\ at' = "idle" /\ num' = num + 1 /\ result' = TRUE
          /\ UNCHANGED <<shards, groups, todo, next, moved>>

\* The loop over the arguments is done: a new configuration.
LastDone ==
    /\ at \in {"join", "leave"} /\ todo = {}
    /\ StartRebalance

Step ==
    \/ \E g \in Gid : JoinOne(g) \/ LeaveOne(g)
    \/ LastDone \/ Assign \/ Move \/ EndRebalance

Next ==
    \/ \E S \in (SUBSET Gid) \ {{}} : JoinBalance(S) \/ LeaveBalance(S)
    \/ Step

\* The operations run to their end; nobody has to call one.
Spec == Init /\ [][Next]_vars /\ WF_vars(Step)

-----------------------------------------------------------------------------
(* Properties.                                                             *)

\* Balanced: after an operation that returned true every shard belongs to a
\* group of the configuration and no group has two shards more than another
\* (what CheckConfig demands), also when refused operations before it left
\* groups without shards or shards without a group.
Balanced ==
    at = "idle" /\ result /\ groups # {} =>
      /\ \A s \in Shard : shards[s] \in groups
      /\ \A g, h \in groups : Count(g) <= Count(h) + 1

\* MovedOnce: a rebalancing takes no shard away from the group that it gave
\* it to: data is handed over once at most.
MovedOnce ==
    [][\A s \in moved : shards'[s] = shards[s]]_vars

\* Completes: every operation returns, or stops the program; the moves of
\* Rebalance do not go round in circles.
Completes == at # "idle" ~> at \in {"idle", "fatal"}
=============================================================================
