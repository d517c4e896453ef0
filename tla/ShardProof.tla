----------------------------- MODULE ShardProof -----------------------------
(***************************************************************************)
(* Theorems about ShardCfg, for any number of shards, any groups and any   *)
(* sequence of operations: a configuration that was rebalanced is          *)
(* balanced, and Rebalance moves no shard twice.                           *)
(*                                                                         *)
(* Neither is inductive alone.  For the first, the loop that assigns       *)
(* shards has to be known to leave none behind it without a group          *)
(* (Assigned).  For the second, a group that was given a shard has to be   *)
(* known to stay within one of the least loaded one (GivenToLeast): it can *)
(* then not be the one that the next shard is taken from.                  *)
(***************************************************************************)
EXTENDS ShardCfg, FiniteSetTheorems, TLAPS

TypeInv ==
    /\ shards \in [Shard -> Nat] /\ next \in Shard /\ moved \in SUBSET Shard
    /\ groups \in SUBSET Gid /\ todo \in SUBSET Gid
    /\ at \in {"idle", "join", "leave", "fatal", "assign", "move"} /\ result \in BOOLEAN

Rebalancing == at \in {"assign", "move"}

Assigned ==
    /\ Rebalancing => groups # {}
    /\ at # "assign" => next = 0
    /\ at = "assign" => \A s \in Shard : s < next => shards[s] \in groups
    /\ at = "move" => \A s \in Shard : shards[s] \in groups

\* No group has two shards less than g.
Light(g) == \A h \in groups : Count(g) <= Count(h) + 1

GivenToLeast ==
    /\ ~Rebalancing => moved = {}
    /\ \A s \in moved : shards[s] \in groups /\ Light(shards[s])

ShardInv == TypeInv /\ Assigned /\ GivenToLeast /\ Balanced

-----------------------------------------------------------------------------
(* Counting shards.                                                        *)

\* A set of numbers that is not empty has a least one.
LEMMA LeastNumber ==
    ASSUME NEW S, S \subseteq Nat, S # {}
    PROVE  \E x \in S : \A y \in S : x <= y
<1>1. PICK x \in S : \A y \in S : ~(<<y, x>> \in OpToRel(<, Nat))
  BY NatLessThanWellFounded, WFMin
<1>2. \A y \in S : ~(y < x)
  BY <1>1 DEF OpToRel
<1> QED
  BY <1>2

LEMMA ShardsFinite ==
    /\ IsFiniteSet(Shard) /\ Cardinality(Shard) = NShards /\ NShards \in Nat /\ NShards >= 1
    /\ Shard \subseteq Nat /\ 0 \in Shard
<1>1. NShards \in Nat /\ NShards >= 1 /\ 0 \in Int /\ NShards - 1 \in Int
  BY ShardAssumption
<1>2. IsFiniteSet(0 .. NShards - 1) /\ Cardinality(0 .. NShards - 1) = NShards
  BY <1>1, FS_Interval
<1> QED
  BY <1>1, <1>2 DEF Shard

LEMMA CountType ==
    \A g : Count(g) \in Nat /\ Count(g) <= NShards
<1> SUFFICES ASSUME NEW g PROVE Count(g) \in Nat /\ Count(g) <= NShards
  OBVIOUS
<1>1. {s \in Shard : shards[s] = g} \in SUBSET Shard
  OBVIOUS
<1> QED
  BY <1>1, ShardsFinite, FS_Subset, FS_CardinalityType DEF Count

\* Shard s goes from group f to group g.
Goes(s, f, g) == f = shards[s] /\ f # g /\ shards' = [shards EXCEPT ![s] = g]

\* That changes two counts.
LEMMA CountGive ==
    ASSUME TypeInv, NEW s \in Shard, NEW f, NEW g, Goes(s, f, g)
    PROVE  /\ Count(g)' = Count(g) + 1
           /\ Count(f)' = Count(f) - 1
           /\ \A h : h # f /\ h # g => Count(h)' = Count(h)
<1> DEFINE Of(h) == {x \in Shard : shards[x] = h}
           Now(h) == {x \in Shard : shards'[x] = h}
<1>1. \A h : Count(h) = Cardinality(Of(h)) /\ Count(h)' = Cardinality(Now(h))
  BY DEF Count
<1>2. Now(g) = Of(g) \cup {s} /\ s \notin Of(g)
  BY DEF TypeInv, Goes
<1>3. Now(f) = Of(f) \ {s} /\ s \in Of(f)
  BY DEF TypeInv, Goes
<1>4. \A h : h # f /\ h # g => Now(h) = Of(h)
  BY DEF TypeInv, Goes
<1>5. \A h : Of(h) \in SUBSET Shard
  OBVIOUS
<1> HIDE DEF Of, Now
<1>6. \A h : IsFiniteSet(Of(h))
  BY <1>5, ShardsFinite, FS_Subset
<1>7. Cardinality(Now(g)) = Cardinality(Of(g)) + 1
  BY <1>2, <1>6, FS_AddElement
<1>8. Cardinality(Now(f)) = Cardinality(Of(f)) - 1
  BY <1>3, <1>6, FS_RemoveElement
<1> QED
  BY <1>1, <1>4, <1>7, <1>8

\* analyze finds a group with the fewest shards, and one with the most.
LEMMA LeastFacts ==
    ASSUME TypeInv, groups # {}
    PROVE  Least \in groups /\ \A h \in groups : Count(Least) <= Count(h)
<1> DEFINE counts == {Count(h) : h \in groups}
<1>1. counts \subseteq Nat /\ counts # {}
  BY CountType
<1>2. PICK n \in counts : \A k \in counts : n <= k
  <2> HIDE DEF counts
  <2> QED
    BY <1>1, LeastNumber
<1> DEFINE ties == {h \in groups : Count(h) = n}
<1>3. ties \subseteq Nat /\ ties # {}
  BY ShardAssumption DEF TypeInv
<1>4. PICK g \in ties : \A h \in ties : g <= h
  <2> HIDE DEF ties
  <2> QED
    BY <1>3, LeastNumber
<1>5. \A h \in groups : Count(h) \in Nat /\ n <= Count(h) /\ Count(g) = n
  BY <1>2, CountType
<1>6. g \in groups /\ \A h \in groups : Count(h) > Count(g) \/ (Count(h) = Count(g) /\ g <= h)
  BY <1>4, <1>5
<1>7. Least \in groups /\ \A h \in groups : Count(h) > Count(Least)
                                            \/ (Count(h) = Count(Least) /\ Least <= h)
  BY <1>6 DEF Least
<1> QED
  BY <1>7, CountType

LEMMA MostFacts ==
    ASSUME TypeInv, groups # {}
    PROVE  Most \in groups /\ \A h \in groups : Count(h) <= Count(Most)
<1> DEFINE rests == {NShards - Count(h) : h \in groups}
<1>0. NShards \in Nat
  BY ShardsFinite
<1>1. rests \subseteq Nat /\ rests # {}
  BY <1>0, CountType
<1>2. PICK n \in rests : \A k \in rests : n <= k
  <2> HIDE DEF rests
  <2> QED
    BY <1>1, LeastNumber
<1> DEFINE ties == {h \in groups : NShards - Count(h) = n}
<1>3. ties \subseteq Nat /\ ties # {}
  BY ShardAssumption DEF TypeInv
<1>4. PICK g \in ties : \A h \in ties : g <= h
  <2> HIDE DEF ties
  <2> QED
    BY <1>3, LeastNumber
<1>5. \A h \in groups : NShards - Count(g) <= NShards - Count(h)
  BY <1>2
<1>6. \A h \in groups : Count(h) <= Count(g) /\ (Count(h) = Count(g) => h \in ties)
  BY <1>0, <1>5, CountType
<1>7. g \in groups /\ \A h \in groups : Count(h) < Count(g) \/ (Count(h) = Count(g) /\ g <= h)
  BY <1>4, <1>6, CountType
<1>8. Most \in groups /\ \A h \in groups : Count(h) < Count(Most)
                                           \/ (Count(h) = Count(Most) /\ Most <= h)
  BY <1>7 DEF Most
<1> QED
  BY <1>8, CountType

-----------------------------------------------------------------------------
(* The steps.                                                              *)

LEMMA InitShard == Init => ShardInv
  BY ShardsFinite DEF Init, ShardInv, TypeInv, Assigned, GivenToLeast, Balanced, Rebalancing

\* The shards that Rebalance has given away stay where they are.
Kept == \A s \in moved : shards'[s] = shards[s]

\* A shard without a group, or of a group with two shards more than the least
\* loaded one, has not been given away before; and giving it to the least loaded
\* group leaves the groups that were given a shard within one of the others.
LEMMA GiveKeeps ==
    ASSUME ShardInv, groups # {}, NEW s \in Shard, UNCHANGED groups, Give(s, Least),
           shards[s] \notin groups \/ Count(shards[s]) >= Count(Least) + 2
    PROVE  /\ Kept
           /\ shards' \in [Shard -> Nat] /\ shards'[s] = Least /\ Least \in groups
           /\ moved' \in SUBSET Shard
           /\ \A x \in Shard : x # s => shards'[x] = shards[x]
           /\ (\A x \in moved : shards[x] \in groups /\ Light(shards[x]))'
<1> USE DEF ShardInv
<1>1. PICK L \in groups : L = Least /\ \A h \in groups : Count(L) <= Count(h)
  BY LeastFacts
<1>2. PICK f : f = shards[s]
  OBVIOUS
<1>3. \A g : Count(g) \in Nat
  BY CountType
<1>4. f # L
  BY <1>1, <1>2, <1>3
<1>5. L \in Nat /\ shards \in [Shard -> Nat]
  BY ShardAssumption DEF TypeInv
<1>6. /\ shards' \in [Shard -> Nat] /\ shards'[s] = L /\ moved' = moved \cup {s}
      /\ moved' \in SUBSET Shard /\ \A x \in Shard : x # s => shards'[x] = shards[x]
  BY <1>1, <1>5 DEF Give, TypeInv
<1>7. s \notin moved
  <2>1. \A x \in moved : shards[x] \in groups /\ Count(shards[x]) <= Count(L) + 1
    BY <1>1 DEF GivenToLeast, Light
  <2> QED
    BY <1>1, <1>3, <2>1
<1>8. /\ Count(L)' = Count(L) + 1 /\ Count(f)' = Count(f) - 1
      /\ \A h : h # f /\ h # L => Count(h)' = Count(h)
  <2>1. Goes(s, f, L)
    BY <1>1, <1>2, <1>4 DEF Give, Goes
  <2> QED
    BY <2>1, CountGive
<1>9. \A h \in groups : Count(h)' \in Nat /\ Count(L) <= Count(h)'
  <2> SUFFICES ASSUME NEW h \in groups PROVE Count(h)' \in Nat /\ Count(L) <= Count(h)'
    OBVIOUS
  <2>1. CASE h = L
    BY <1>3, <1>8, <2>1
  <2>2. CASE h = f
    BY <1>1, <1>2, <1>3, <1>8, <2>2
  <2>3. CASE h # f /\ h # L
    BY <1>1, <1>3, <1>8, <2>3
  <2> QED
    BY <2>1, <2>2, <2>3
<1>10. \A g \in groups : (\A h \in groups : Count(g)' <= Count(h)' + 1) => Light(g)'
  BY DEF Light
<1>11. Light(L)'
  BY <1>3, <1>8, <1>9, <1>10
<1>12. ASSUME NEW x \in moved PROVE shards'[x] \in groups /\ Light(shards[x])'
  <2>1. PICK g \in groups : g = shards[x] /\ Count(g) <= Count(L) + 1
    BY <1>12 DEF GivenToLeast, Light
  <2>2. shards'[x] = g
    BY <1>6, <1>7, <2>1 DEF TypeInv
  <2>3. CASE g = L
    BY <1>11, <2>2, <2>3
  <2>4. CASE g # L
    <3>1. g # f
      BY <1>1, <1>2, <1>3, <2>1
    <3>2. Count(g)' = Count(g)
      BY <1>8, <2>4, <3>1
    <3>3. \A h \in groups : Count(g)' <= Count(h)' + 1
      BY <1>3, <1>9, <2>1, <3>2
    <3> QED
      BY <1>10, <2>2, <3>3
  <2> QED
    BY <2>3, <2>4
<1>13. Kept
  BY <1>6, <1>7 DEF Kept, TypeInv
<1> QED
  BY <1>1, <1>6, <1>11, <1>12, <1>13

LEMMA AssignShard ==
    ASSUME ShardInv, Assign
    PROVE  ShardInv' /\ Kept
<1> USE DEF ShardInv
<1>1. groups # {} /\ next \in Shard /\ next \in Nat /\ NShards \in Nat
  BY ShardsFinite DEF Assign, TypeInv, Assigned, Rebalancing
<1>2. /\ UNCHANGED <<num, groups, todo, result>> /\ at = "assign"
      /\ \/ next = NShards - 1 /\ at' = "move" /\ next' = 0
         \/ next # NShards - 1 /\ at' = "assign" /\ next' = next + 1
  BY DEF Assign
<1>3. /\ next' \in Shard
      /\ \A s \in Shard : (at' = "move" \/ s < next') => s < next \/ s = next
  BY <1>1, <1>2 DEF Shard
<1>4. /\ shards' \in [Shard -> Nat] /\ moved' \in SUBSET Shard /\ Kept
      /\ (\A x \in moved : shards[x] \in groups /\ Light(shards[x]))'
      /\ shards'[next] \in groups
      /\ \A x \in Shard : x # next => shards'[x] = shards[x]
  <2>1. CASE shards[next] \in groups
    <3>1. UNCHANGED <<shards, moved, groups>>
      BY <1>2, <2>1 DEF Assign
    <3>2. \A x \in moved : shards[x] \in groups /\ Light(shards[x])
      BY DEF GivenToLeast
    <3> QED
      BY <2>1, <3>1, <3>2 DEF Kept, Light, Count, TypeInv
  <2>2. CASE shards[next] \notin groups
    <3>1. Give(next, Least) /\ UNCHANGED groups
      BY <1>2, <2>2 DEF Assign
    <3> QED
      BY <1>1, <2>2, <3>1, GiveKeeps
  <2> QED
    BY <2>1, <2>2
<1>5. TypeInv'
  BY <1>2, <1>3, <1>4 DEF TypeInv
<1>6. Assigned'
  BY <1>1, <1>2, <1>3, <1>4 DEF Assigned, Rebalancing
<1>7. GivenToLeast' /\ Balanced'
  BY <1>2, <1>4 DEF GivenToLeast, Rebalancing, Balanced
<1> QED
  BY <1>4, <1>5, <1>6, <1>7

LEMMA MoveShard ==
    ASSUME ShardInv, Move
    PROVE  ShardInv' /\ Kept
<1> USE DEF ShardInv
<1>1. groups # {} /\ at = "move" /\ UNCHANGED <<num, groups, at, todo, next, result>>
  BY DEF Move, Assigned, Rebalancing
<1>2. Most \in groups /\ Least \in groups /\ Count(Most) \in Nat /\ Count(Least) \in Nat
  BY <1>1, LeastFacts, MostFacts, CountType
<1>3. Count(Most) >= Count(Least) + 2
  BY <1>2 DEF Move, Even
<1> DEFINE Rich == {s \in Shard : shards[s] = Most}
<1>4. Rich # {} /\ Rich \subseteq Nat
  <2>1. Rich \subseteq Nat
    BY ShardsFinite
  <2>2. Cardinality(Rich) # 0
    BY <1>2, <1>3 DEF Count
  <2> HIDE DEF Rich
  <2> QED
    BY <2>1, <2>2, FS_EmptySet
<1>5. Min(Rich) \in Rich
  <2> HIDE DEF Rich
  <2> QED
    BY <1>4, LeastNumber DEF Min
<1>6. PICK s \in Shard : shards[s] = Most /\ Give(s, Least)
  BY <1>5 DEF Move
<1>7. /\ shards' \in [Shard -> Nat] /\ moved' \in SUBSET Shard /\ Kept
      /\ (\A x \in moved : shards[x] \in groups /\ Light(shards[x]))'
      /\ shards'[s] \in groups
      /\ \A x \in Shard : x # s => shards'[x] = shards[x]
  BY <1>1, <1>3, <1>6, GiveKeeps
<1>8. TypeInv'
  BY <1>1, <1>7 DEF TypeInv
<1>9. Assigned'
  BY <1>1, <1>7 DEF Assigned, Rebalancing
<1>10. GivenToLeast' /\ Balanced'
  BY <1>1, <1>7 DEF GivenToLeast, Rebalancing, Balanced
<1> QED
  BY <1>7, <1>8, <1>9, <1>10

LEMMA EndShard ==
    ASSUME ShardInv, EndRebalance
    PROVE  ShardInv' /\ Kept
<1> USE DEF ShardInv
<1>1. groups # {} /\ at = "move" /\ at' = "idle" /\ moved' = {}
      /\ UNCHANGED <<num, shards, groups, todo, next, result>>
  BY DEF EndRebalance, Assigned, Rebalancing
<1>2. \A g, h \in groups : Count(g) <= Count(h) + 1
  <2> SUFFICES ASSUME NEW g \in groups, NEW h \in groups PROVE Count(g) <= Count(h) + 1
    OBVIOUS
  <2>1. Count(g) <= Count(Most) /\ Count(Least) <= Count(h)
    BY <1>1, LeastFacts, MostFacts
  <2> QED
    BY <2>1, CountType DEF EndRebalance, Even
<1>3. \A s \in Shard : shards[s] \in groups
  BY <1>1 DEF Assigned
<1>4. Balanced'
  BY <1>1, <1>2, <1>3 DEF Balanced, Count
<1>5. TypeInv' /\ Assigned' /\ GivenToLeast' /\ Kept
  BY <1>1 DEF TypeInv, Assigned, GivenToLeast, Rebalancing, Kept
<1> QED
  BY <1>4, <1>5

LEMMA LastDoneShard ==
    ASSUME ShardInv, LastDone
    PROVE  ShardInv' /\ Kept
<1> USE DEF ShardInv
<1>1. moved = {} /\ moved' = {} /\ next = 0 /\ UNCHANGED <<groups, todo, next>> /\ result' = TRUE
  BY DEF LastDone, StartRebalance, GivenToLeast, Assigned, Rebalancing
<1>2. CASE groups = {}
  <2>1. at' = "idle" /\ shards' = [s \in Shard |-> 0]
    BY <1>2 DEF LastDone, StartRebalance
  <2> QED
    BY <1>1, <1>2, <2>1 DEF TypeInv, Assigned, GivenToLeast, Balanced, Rebalancing, Kept
<1>3. CASE groups # {}
  <2>1. at' = "assign" /\ UNCHANGED shards
    BY <1>3 DEF LastDone, StartRebalance
  <2>2. \A s \in Shard : ~(s < 0)
    BY ShardsFinite
  <2> QED
    BY <1>1, <1>3, <2>1, <2>2 DEF TypeInv, Assigned, GivenToLeast, Balanced, Rebalancing, Kept
<1> QED
  BY <1>2, <1>3

\* Between the rebalancings no shard changes its group, and no configuration is
\* handed out that has not been rebalanced.
LEMMA QuietShard ==
    ASSUME ShardInv, ~Rebalancing, UNCHANGED <<shards, next, moved>>,
           groups' \in SUBSET Gid, todo' \in SUBSET Gid, result' \in BOOLEAN,
           at' \in {"join", "leave", "fatal"} \/ (at' = "idle" /\ result' = FALSE)
    PROVE  ShardInv' /\ Kept
<1>1. moved = {} /\ next = 0 /\ ~Rebalancing'
  BY DEF ShardInv, GivenToLeast, Assigned, Rebalancing
<1>2. TypeInv' /\ Assigned' /\ GivenToLeast' /\ Kept
  BY <1>1 DEF ShardInv, TypeInv, Assigned, GivenToLeast, Kept, Rebalancing
<1>3. Balanced'
  BY DEF Balanced
<1> QED
  BY <1>2, <1>3 DEF ShardInv

LEMMA NextShard ==
    ASSUME ShardInv, [Next]_vars
    PROVE  ShardInv' /\ Kept
<1>0. TypeInv
  BY DEF ShardInv
<1>1. ASSUME NEW S \in SUBSET Gid, JoinBalance(S) \/ LeaveBalance(S)
      PROVE  ShardInv' /\ Kept
  <2>1. /\ ~Rebalancing /\ UNCHANGED <<shards, next, moved, groups, result>>
        /\ todo' = S /\ at' \in {"join", "leave"}
    BY <1>1 DEF JoinBalance, LeaveBalance, Call, Rebalancing
  <2>2. groups' \in SUBSET Gid /\ todo' \in SUBSET Gid /\ result' \in BOOLEAN
    BY <1>0, <2>1 DEF TypeInv
  <2> QED
    BY <2>1, <2>2, QuietShard
<1>2. ASSUME NEW g \in Gid, JoinOne(g)
      PROVE  ShardInv' /\ Kept
  <2>1. /\ ~Rebalancing /\ UNCHANGED <<shards, next, moved>>
        /\ groups' = groups \/ groups' = groups \cup {g}
        /\ todo' = todo \/ todo' = todo \ {g} \/ todo' = {}
        /\ result' = result \/ result' = FALSE
        /\ at' \in {"join", "leave", "fatal"} \/ (at' = "idle" /\ result' = FALSE)
    BY <1>2 DEF JoinOne, Refuse, Fatal, Rebalancing
  <2>2. groups' \in SUBSET Gid /\ todo' \in SUBSET Gid /\ result' \in BOOLEAN
    BY <1>0, <2>1 DEF TypeInv
  <2> QED
    BY <2>1, <2>2, QuietShard
<1>3. ASSUME NEW g \in Gid, LeaveOne(g)
      PROVE  ShardInv' /\ Kept
  <2>1. /\ ~Rebalancing /\ UNCHANGED <<shards, next, moved>>
        /\ groups' = groups \/ groups' = groups \ {g}
        /\ todo' = todo \/ todo' = todo \ {g} \/ todo' = {}
        /\ result' = result \/ result' = FALSE
        /\ at' \in {"join", "leave", "fatal"} \/ (at' = "idle" /\ result' = FALSE)
    BY <1>3 DEF LeaveOne, Refuse, Rebalancing
  <2>2. groups' \in SUBSET Gid /\ todo' \in SUBSET Gid /\ result' \in BOOLEAN
    BY <1>0, <2>1 DEF TypeInv
  <2> QED
    BY <2>1, <2>2, QuietShard
<1>4. CASE UNCHANGED vars
  BY <1>4 DEF vars, ShardInv, TypeInv, Assigned, GivenToLeast, Balanced, Rebalancing, Light,
              Count, Kept
<1> QED
  BY <1>1, <1>2, <1>3, <1>4, AssignShard, MoveShard, EndShard, LastDoneShard DEF Next, Step

-----------------------------------------------------------------------------
(* The theorems.                                                           *)

\* The two loops of Rebalance keep their invariants: no shard behind the first
\* is without a group, and no group that was given a shard has two more than
\* another.
THEOREM ShardInvCorrect == Spec => []ShardInv
  BY InitShard, NextShard, PTL DEF Spec

\* When JoinBalance or LeaveBalance has returned true, every shard has a group
\* of the configuration and no group has two shards more than another, as
\* CheckConfig demands, whatever operations were refused before it.
THEOREM BalancedCorrect == Spec => []Balanced
<1>1. ShardInv => Balanced
  BY DEF ShardInv
<1> QED
  BY <1>1, ShardInvCorrect, PTL

\* Rebalance takes no shard from the group that it gave it to: the loop that
\* moves shards never takes one from a group that it, or the loop that assigns
\* shards, has filled.
THEOREM MovedOnceCorrect == Spec => MovedOnce
<1>1. ShardInv /\ [Next]_vars => [Kept]_vars
  BY NextShard
<1> QED
  BY <1>1, ShardInvCorrect, PTL DEF Spec, MovedOnce, Kept

=============================================================================
