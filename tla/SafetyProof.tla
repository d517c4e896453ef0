---------------------------- MODULE SafetyProof -----------------------------
(***************************************************************************)
(* The safety of the replicated log, for any odd number of servers and     *)
(* without the bounds of the model-checked instances, but for a system     *)
(* without the three things that other runs show to break it (Calm): no    *)
(* call is handled after its caller gave up on it in the same term         *)
(* (LateDelivery), the lock does not change hands in AppendEntries         *)
(* (Preempt), and the service takes no snapshots (SnapshotAt). Calls may   *)
(* be lost and reordered, and servers may be restarted, inside a handler   *)
(* too.  CommittedStays, first, needs only the last of these conditions,   *)
(* and MedianInLog, last, is proved with snapshots.                        *)
(*                                                                         *)
(* The inductive invariant is SafeInv. Its argument: a call shows that its *)
(* sender has won its term, and a term has one sender (CallsInv); so the   *)
(* entries of one term, in any log and in any call, come from one leader's *)
(* log (LeaderOwns, CallOwns) and two logs that agree on the term of an    *)
(* entry agree on all before it (Matching). What a leader takes for        *)
(* replicated is in its followers' logs (ProgressInv, AckInv), with its    *)
(* term for as long as they stay in it. An entry of a leader's own term is *)
(* blocked or secure (LeaderSecure): a majority has left the term without  *)
(* acknowledging it, so that it will never be counted, or those that did   *)
(* keep it, and no log, call, vote or leader beyond its term lacks it.     *)
(* What is committed is secure with a majority (CommitInv).                *)
(***************************************************************************)
EXTENDS RaftProof

-----------------------------------------------------------------------------
(* What AppendEntries does to a log.  Positions are those of rf.Log,       *)
(* counted from 1: the entry of index k is at position k + 1.              *)

\* The position of the entry at PrevLogIndex, and that of the last new entry.
Lo(m) == m.prev + 1
End(m) == m.prev + 1 + Len(m.entries)

\* What is known of these numbers.
LEMMA CallNumbers ==
    ASSUME TypeOK, NEW m \in rpcs, m.type = "AE"
    PROVE  /\ Lo(m) \in Nat /\ Lo(m) >= 1 /\ End(m) \in Nat /\ End(m) >= Lo(m)
           /\ m.term \in Nat /\ m.prevTerm \in Nat /\ m.commit \in Nat /\ m.prev \in Nat
           /\ m.entries # <<>> => End(m) > Lo(m)
<1>1. PICK prev \in Nat, len \in Nat : prev = m.prev /\ len = Len(m.entries)
  BY EntriesMessage, LenProperties
<1>2. Lo(m) = prev + 1 /\ End(m) = prev + 1 + len
  BY <1>1 DEF Lo, End
<1>3. m.entries # <<>> => len > 0
  BY <1>1, EntriesMessage, EmptySeq, LenProperties
<1> QED
  BY <1>1, <1>2, <1>3, EntriesMessage, VoteMessage

LEMMA LogNumbers ==
    ASSUME TypeOK, NEW i \in Server
    PROVE  /\ Len(log[i]) \in Nat /\ Len(log[i]) >= 1 /\ commitIndex[i] \in Nat
           /\ currentTerm[i] \in Nat /\ DOMAIN log[i] = 1 .. Len(log[i])
  BY LocalType, LenProperties DEF TypeOK

\* Server i keeps its log up to position c and takes over the rest of m.
Spliced(i, m, c) ==
    /\ \A j \in Server : j # i => log'[j] = log[j]
    /\ c \in Lo(m) .. End(m) - 1
    /\ Len(log'[i]) = End(m)
    /\ \A p \in 1 .. c : p <= Len(log[i]) => log'[i][p] = log[i][p]
    /\ \A p \in c + 1 .. End(m) : log'[i][p] = m.entries[p - Lo(m)]

\* What LeaderCommit makes of the commit index of i.
Informed(i, m) ==
    commitIndex' = [commitIndex EXCEPT ![i] =
      IF m.commit > @ THEN MinOf(m.commit, Len(log'[i]) - 1) ELSE @]

\* An append that does not panic is a splice.
LEMMA AppendFromSplices ==
    ASSUME TypeOK, NEW i \in Server, snapshotIndex[i] = 0,
           NEW m \in rpcs, m.type = "AE", NEW from \in Nat,
           from - m.prev \in 0 .. Len(m.entries) - 1, AppendFrom(i, m, from)
    PROVE  \/ /\ UNCHANGED <<log, commitIndex>> /\ rpcs' = rpcs \ {m}
              /\ down' = down \cup {i} /\ from >= Len(log[i])
           \/ /\ Spliced(i, m, from + 1) /\ Informed(i, m) /\ UNCHANGED down
              /\ Reply(m, AEReply(m, m.term, TRUE, 0, 0, 0))
<1>1. PICK s \in Seq(Entry), e \in Seq(Entry), prev \in Nat :
             s = log[i] /\ e = m.entries /\ prev = m.prev
  BY EntriesMessage, LocalType
<1> DEFINE keep == from + 1
           n == from - prev
           size == MaxOf(0, keep - Len(s))
<1>2. /\ n \in 0 .. Len(e) /\ keep \in Nat /\ Len(s) \in Nat /\ Len(e) \in Nat
      /\ keep + (Len(e) - n) = prev + 1 + Len(e)
      /\ keep \in prev + 1 .. prev + Len(e)
      /\ \A p \in keep + 1 .. prev + 1 + Len(e) : (p - keep) + n = p - (prev + 1)
      /\ size \in Nat /\ keep <= Len(s) + size
  <2>1. from - prev \in 0 .. Len(e) - 1 /\ Len(s) \in Nat /\ Len(e) \in Nat
    BY <1>1, LenProperties
  <2> QED
    BY <2>1 DEF MaxOf
<1>5. /\ Lo(m) = prev + 1 /\ End(m) = prev + 1 + Len(e)
  BY <1>1 DEF Lo, End
<1>3. from + 1 - snapshotIndex[i] = keep
  OBVIOUS
<1>4. CASE /\ keep \notin 0 .. Len(s) /\ rpcs' = rpcs \ {m} /\ down' = down \cup {i}
           /\ UNCHANGED <<log, snapshotIndex, snapshotByte, commitIndex>>
  <2>1. from >= Len(s)
    BY <1>2, <1>4
  <2> QED
    BY <1>1, <1>4, <2>1
<1> HIDE DEF keep, n, size
<1>6. ASSUME NEW junk \in [1 .. size -> StaleEntry]
      PROVE  junk \in Seq(Entry) /\ keep <= Len(s) + Len(junk)
  <2>1. StaleEntry \subseteq Entry
    BY BoundAssumption DEF StaleEntry, Entry
  <2>2. size \in Nat
    BY <1>2
  <2>3. junk \in Seq(Entry) /\ Len(junk) = size
    BY <2>1, <2>2
  <2> QED
    BY <1>2, <2>3
<1>7. ASSUME NEW junk \in Seq(Entry), keep <= Len(s) + Len(junk),
             log' = [log EXCEPT ![i] = Take(s \o junk, keep) \o Skip(e, n)]
      PROVE  Spliced(i, m, keep)
  <2> DEFINE long == s \o junk
             head == Take(long, keep)
             tail == Skip(e, n)
             r == head \o tail
  <2>1. log'[i] = r /\ \A k \in Server : k # i => log'[k] = log[k]
    BY <1>7 DEF TypeOK
  <2>2. /\ long \in Seq(Entry) /\ Len(long) = Len(s) + Len(junk)
        /\ \A p \in 1 .. Len(s) : long[p] = s[p]
    BY ConcatProperties
  <2> HIDE DEF long
  <2>3. keep \in 0 .. Len(long) /\ n \in 0 .. Len(e)
    BY <1>2, <1>7, <2>2
  <2>4. /\ head \in Seq(Entry) /\ Len(head) = keep
        /\ \A p \in 1 .. keep : head[p] = long[p]
    BY <2>2, <2>3, TakeType, SubSeqProperties DEF Take
  <2>5. tail \in Seq(Entry) /\ Len(tail) = Len(e) - n
    BY <2>3, SkipType
  <2>6. \A p \in 1 .. Len(e) - n : tail[p] = e[p + n]
    <3> SUFFICES ASSUME NEW p \in 1 .. Len(e) - n
                 PROVE  tail[p] = e[p + n]
      OBVIOUS
    <3>1. tail = SubSeq(e, n + 1, Len(e)) /\ n + 1 \in Nat /\ n + 1 >= 1
      BY <1>2 DEF Skip
    <3>2. tail[p] = e[(n + 1) + p - 1]
      BY <1>2, <3>1
    <3> QED
      BY <1>2, <3>2
  <2> HIDE DEF head, tail
  <2>7. /\ r \in Seq(Entry) /\ Len(r) = Len(head) + Len(tail)
        /\ \A p \in 1 .. Len(head) + Len(tail) :
             r[p] = IF p <= Len(head) THEN head[p] ELSE tail[p - Len(head)]
    BY <2>4, <2>5, ConcatProperties
  <2> HIDE DEF r
  <2>8. Len(r) = keep + (Len(e) - n) /\ Len(r) = End(m) /\ keep \in Lo(m) .. End(m) - 1
    BY <1>2, <1>5, <2>4, <2>5, <2>7
  <2>9. ASSUME NEW p \in 1 .. keep, p <= Len(s)
        PROVE  r[p] = s[p]
    <3>1. p \in 1 .. Len(head) + Len(tail) /\ p <= Len(head) /\ p \in 1 .. Len(s)
      BY <1>2, <2>4, <2>5, <2>9
    <3> QED
      BY <2>2, <2>4, <2>7, <3>1
  <2>10. ASSUME NEW p \in keep + 1 .. End(m)
         PROVE  r[p] = e[p - Lo(m)]
    <3>1. /\ p \in 1 .. Len(head) + Len(tail) /\ ~(p <= Len(head))
          /\ p - Len(head) \in 1 .. Len(e) - n
          /\ (p - Len(head)) + n = p - Lo(m)
      <4>1. Len(head) = keep /\ Len(tail) = Len(e) - n
        BY <2>4, <2>5
      <4>2. p \in keep + 1 .. prev + 1 + Len(e)
        BY <1>5
      <4>3. (p - keep) + n = p - Lo(m)
        BY <1>2, <1>5, <4>2
      <4> QED
        BY <1>2, <4>1, <4>2, <4>3
    <3> QED
      BY <2>6, <2>7, <3>1
  <2> QED
    BY <1>1, <2>1, <2>8, <2>9, <2>10 DEF Spliced
<1>8. ASSUME Spliced(i, m, keep),
             commitIndex' = [commitIndex EXCEPT ![i] =
               IF m.commit > @ THEN MinOf(m.commit, Len(log'[i]) + snapshotIndex[i] - 1)
                               ELSE @]
      PROVE  Informed(i, m)
  <2>1. Len(log'[i]) = prev + 1 + Len(e)
    BY <1>1, <1>8 DEF Spliced, End
  <2>2. Len(log'[i]) + snapshotIndex[i] - 1 = Len(log'[i]) - 1
    BY <1>2, <2>1
  <2> QED
    BY <1>8, <2>2 DEF Informed
<1> QED
  BY <1>1, <1>3, <1>4, <1>6, <1>7, <1>8 DEF AppendFrom, keep, n, size

\* How much of its log the AppendEntries handler of i keeps: what precedes the
\* new entries and what is committed.
Cut(i, m) == MaxOf(Lo(m), commitIndex[i] + 1)

\* The three ends of the second critical section of AppendEntries.
LEMMA StoreEntriesSplices ==
    ASSUME TypeOK, NEW i \in Server, snapshotIndex[i] = 0,
           NEW m \in rpcs, m.type = "AE", m.entries # <<>>, StoreEntries(i, m)
    PROVE  \/ /\ UNCHANGED <<log, commitIndex>> /\ rpcs' = rpcs \ {m}
              /\ Cut(i, m) > Len(log[i])
           \/ /\ UNCHANGED <<log, commitIndex, down>> /\ End(m) <= commitIndex[i] + 1
              /\ Reply(m, AEReply(m, m.term, TRUE, 0, 0, 0))
           \/ /\ Spliced(i, m, Cut(i, m)) /\ Informed(i, m) /\ UNCHANGED down
              /\ Reply(m, AEReply(m, m.term, TRUE, 0, 0, 0))
<1>1. PICK have \in Nat, len \in Nat, prev \in Nat, commit \in Nat :
             /\ have = Len(log[i]) /\ len = Len(m.entries) /\ len >= 1
             /\ prev = m.prev /\ commit = commitIndex[i]
  BY EntriesMessage, LocalType, EmptySeq, LenProperties
<1>2. Lo(m) = prev + 1 /\ End(m) = prev + 1 + len
  BY <1>1 DEF Lo, End
<1>3. CASE commitIndex[i] > m.prev /\ Len(m.entries) <= commitIndex[i] - m.prev
           /\ AlreadyCommitted(i, m)
  <2>1. len <= commit - prev
    BY <1>1, <1>3
  <2>2. End(m) <= commitIndex[i] + 1
    BY <1>1, <1>2, <2>1
  <2> QED
    BY <1>3, <2>2 DEF AlreadyCommitted
<1>4. ASSUME NEW from \in {prev, commit}, from - prev \in 0 .. len - 1, Cut(i, m) = from + 1,
             AppendFrom(i, m, from)
      PROVE  \/ /\ UNCHANGED <<log, commitIndex>> /\ rpcs' = rpcs \ {m}
                /\ Cut(i, m) > Len(log[i])
             \/ /\ Spliced(i, m, Cut(i, m)) /\ Informed(i, m) /\ UNCHANGED down
                /\ Reply(m, AEReply(m, m.term, TRUE, 0, 0, 0))
  <2>1. from \in Nat /\ from - m.prev \in 0 .. Len(m.entries) - 1
    BY <1>1, <1>4
  <2>2. from >= Len(log[i]) => Cut(i, m) > Len(log[i])
    BY <1>1, <1>4, <2>1
  <2> QED
    BY <1>4, <2>1, <2>2, AppendFromSplices
<1>5. CASE commitIndex[i] > m.prev /\ Len(m.entries) > commitIndex[i] - m.prev
           /\ AppendFrom(i, m, commitIndex[i])
  <2>1. commit > prev /\ len > commit - prev /\ AppendFrom(i, m, commit)
    BY <1>1, <1>5
  <2>2. commit - prev \in 0 .. len - 1
    BY <2>1
  <2>3. Cut(i, m) = commit + 1
    BY <1>1, <1>2, <2>1 DEF Cut, MaxOf
  <2> QED
    BY <1>4, <2>1, <2>2, <2>3
<1>6. CASE commitIndex[i] <= m.prev /\ AppendFrom(i, m, m.prev)
  <2>1. commit <= prev /\ AppendFrom(i, m, prev)
    BY <1>1, <1>6
  <2>2. prev - prev \in 0 .. len - 1
    BY <1>1
  <2>3. Cut(i, m) = prev + 1
    BY <1>1, <1>2, <2>1 DEF Cut, MaxOf
  <2> QED
    BY <1>4, <2>1, <2>2, <2>3
<1> QED
  BY <1>3, <1>5, <1>6 DEF StoreEntries

-----------------------------------------------------------------------------
(* Calls that outlive a step.                                              *)

\* m is what a step leaves of the call c: the caller may have given up on it.
Same(m, c) == m = c \/ (c.type \in {"AE", "IS"} /\ m = GiveUp(c))

\* What the call says does not change.
LEMMA SameFields ==
    ASSUME TypeOK, NEW c \in rpcs, NEW m, Same(m, c)
    PROVE  /\ m.type = c.type /\ m.src = c.src /\ m.dst = c.dst /\ m.term = c.term
           /\ c.type = "AE" => /\ m.prev = c.prev /\ m.prevTerm = c.prevTerm
                               /\ m.entries = c.entries /\ m.commit = c.commit
           /\ c.type = "IS" => m.lastIndex = c.lastIndex /\ m.lastTerm = c.lastTerm
           /\ c.type \notin {"AE", "IS"} => m = c
<1>1. CASE m = c
  BY <1>1
<1>2. CASE c.type = "AE" /\ m = GiveUp(c)
  <2>1. c \in [type : {"AE"}, src : Server, dst : Server, term : Nat, prev : Nat,
               prevTerm : Nat, entries : Seq(Entry), commit : Nat, live : BOOLEAN]
    BY <1>2 DEF TypeOK, Message
  <2> QED
    BY <1>2, <2>1 DEF GiveUp
<1>3. CASE c.type = "IS" /\ m = GiveUp(c)
  <2>1. c \in [type : {"IS"}, src : Server, dst : Server, term : Nat, lastIndex : Nat,
               lastTerm : Nat, data : Seq(Entry), live : BOOLEAN]
    BY <1>3 DEF TypeOK, Message
  <2> QED
    BY <1>3, <2>1 DEF GiveUp
<1> QED
  BY <1>1, <1>2, <1>3 DEF Same

\* No call of these types is made in this step.
NoNew(types) == \A m \in rpcs' : m.type \in types => \E c \in rpcs : Same(m, c)

\* Removing calls makes none.
LEMMA RemoveNoNew ==
    ASSUME rpcs' \subseteq rpcs, NEW types
    PROVE  NoNew(types)
  BY DEF NoNew, Same

\* Answering a call makes only the answer.
LEMMA ReplyNoNew ==
    ASSUME NEW m \in rpcs, NEW r, Reply(m, r), NEW types, r.type \notin types
    PROVE  NoNew(types)
  BY DEF NoNew, Same, Reply

\* Stopping a server makes none.
LEMMA StopNoNew ==
    ASSUME NEW i \in Server, NEW cs \in SUBSET rpcs, rpcs' = CallsAfterStop(i, cs), NEW types
    PROVE  NoNew(types)
  BY DEF NoNew, Same, CallsAfterStop

-----------------------------------------------------------------------------
(* A system that takes no snapshots.                                       *)

Dummy == [term |-> 0, cmd |-> Nil]

\* Nothing was ever cut off at the front of a log, an InstallSnapshot call
\* offers the empty snapshot, and commitIndex is an index of the log.
Plain ==
    /\ \A i \in Server : snapshotIndex[i] = 0 /\ snapshotTerm[i] = 0
    /\ \A i \in Server : log[i][1] = Dummy
    /\ \A i \in Server : commitIndex[i] + 1 <= Len(log[i])
    /\ \A m \in rpcs : m.type = "IS" => m.lastIndex = 0 /\ m.lastTerm = 0

\* Nothing that a server considers committed is removed or changed.
CommittedKept ==
    \A i \in Server : /\ commitIndex[i] + 1 <= Len(log'[i])
                      /\ \A p \in 1 .. commitIndex[i] + 1 : log'[i][p] = log[i][p]

\* The case of a step that leaves logs and snapshots alone.
LEMMA PlainFrame ==
    ASSUME TypeOK, TypeOK', Plain, UNCHANGED <<log, snapshotIndex, snapshotTerm>>,
           \A i \in Server : commitIndex'[i] = 0 \/ commitIndex'[i] + 1 <= Len(log[i]),
           NoNew({"IS"})
    PROVE  Plain' /\ CommittedKept
<1>1. CommittedKept
  BY DEF Plain, CommittedKept
<1>2. ASSUME NEW i \in Server
      PROVE  commitIndex'[i] + 1 <= Len(log'[i])
  BY LocalType
<1>3. ASSUME NEW m \in rpcs', m.type = "IS"
      PROVE  m.lastIndex = 0 /\ m.lastTerm = 0
  BY <1>3, SameFields DEF NoNew, Plain
<1> QED
  BY <1>1, <1>2, <1>3 DEF Plain

\* The answer to an AppendEntries call is not a call.
LEMMA AnswerNoNew ==
    ASSUME NEW m \in rpcs, NEW types, {"AEReply", "ISReply", "RVReply"} \cap types = {},
           \/ rpcs' \subseteq rpcs
           \/ \E rt, su, xt, xi, xl : Reply(m, AEReply(m, rt, su, xt, xi, xl))
           \/ \E rt : Reply(m, ISReply(m, rt))
           \/ \E rt, g : VoteReply(m, rt, g)
    PROVE  NoNew(types)
<1>1. CASE rpcs' \subseteq rpcs
  BY <1>1, RemoveNoNew
<1>2. CASE \E rt, su, xt, xi, xl : Reply(m, AEReply(m, rt, su, xt, xi, xl))
  <2>1. \A rt, su, xt, xi, xl : AEReply(m, rt, su, xt, xi, xl).type = "AEReply"
    BY DEF AEReply
  <2> QED
    BY <1>2, <2>1, ReplyNoNew
<1>3. CASE \E rt : Reply(m, ISReply(m, rt))
  <2>1. \A rt : ISReply(m, rt).type = "ISReply"
    BY DEF ISReply
  <2> QED
    BY <1>3, <2>1, ReplyNoNew
<1>4. CASE \E rt, g : VoteReply(m, rt, g)
  BY <1>4 DEF VoteReply, NoNew, Same
<1> QED
  BY <1>1, <1>2, <1>3, <1>4

\* Storing entries keeps what is committed, whatever happened since the
\* handler looked at the log.
LEMMA StoreEntriesPlain ==
    ASSUME TypeOK, TypeOK', Plain, UNCHANGED snapshotTerm,
           NEW i \in Server, NEW m \in rpcs, m.type = "AE", m.entries # <<>>, StoreEntries(i, m)
    PROVE  Plain' /\ CommittedKept
<1>1. snapshotIndex[i] = 0
  BY DEF Plain
<1>2. UNCHANGED snapshotIndex
  BY DEF StoreEntries, AppendFrom, AlreadyCommitted
<1>3. NoNew({"IS"})
  <2>1. rpcs' \subseteq rpcs \/ Reply(m, AEReply(m, m.term, TRUE, 0, 0, 0))
    BY DEF StoreEntries, AppendFrom, AlreadyCommitted
  <2> QED
    BY <2>1, AnswerNoNew
<1>4. CASE UNCHANGED <<log, commitIndex>>
  <2>1. \A j \in Server : commitIndex'[j] + 1 <= Len(log[j])
    BY <1>4 DEF Plain
  <2> QED
    BY <1>2, <1>3, <1>4, <2>1, PlainFrame
<1>5. CASE Spliced(i, m, Cut(i, m)) /\ Informed(i, m)
  <2>1. PICK have \in Nat, commit \in Nat, told \in Nat, new \in Nat, cut \in Int, lo \in Nat, end \in Nat :
               /\ have = Len(log[i]) /\ commit = commitIndex[i] /\ told = m.commit
               /\ new = Len(log'[i]) /\ cut = Cut(i, m) /\ lo = Lo(m) /\ end = End(m)
               /\ lo >= 1
    <3>1. /\ Len(log'[i]) \in Nat /\ commitIndex[i] \in Nat /\ Lo(m) \in Nat /\ Lo(m) >= 1
          /\ End(m) \in Nat /\ Len(log[i]) \in Nat /\ m.commit \in Nat
      BY CallNumbers, LogNumbers, LenProperties DEF TypeOK
    <3>2. Cut(i, m) \in Int
      BY <3>1 DEF Cut, MaxOf
    <3> QED
      BY <3>1, <3>2
  <2>2. /\ commit + 1 <= have /\ cut <= end - 1 /\ new = end /\ cut >= commit + 1
        /\ commit + 1 <= new /\ 1 <= cut
    BY <1>5, <2>1 DEF Spliced, Plain, Cut, MaxOf
  <2>3. ASSUME NEW p \in 1 .. commit + 1
        PROVE  log'[i][p] = log[i][p]
    <3>1. p \in 1 .. cut /\ p <= have
      BY <2>2
    <3> QED
      BY <1>5, <2>1, <3>1 DEF Spliced
  <2>4. \A j \in Server : j # i => log'[j] = log[j] /\ commitIndex'[j] = commitIndex[j]
    BY <1>5 DEF Spliced, Informed, TypeOK
  <2>5. CommittedKept
    BY <2>1, <2>2, <2>3, <2>4 DEF CommittedKept, Plain
  <2>6. \A j \in Server : log'[j][1] = Dummy
    <3>1. 1 \in 1 .. commit + 1
      OBVIOUS
    <3> QED
      BY <2>3, <2>4, <3>1 DEF Plain
  <2>7. \A j \in Server : commitIndex'[j] + 1 <= Len(log'[j])
    <3>1. commitIndex'[i] = IF told > commit THEN MinOf(told, new - 1) ELSE commit
      BY <1>5, <2>1 DEF Informed, TypeOK
    <3>2. commitIndex'[i] + 1 <= new
      BY <2>2, <3>1 DEF MinOf
    <3> QED
      BY <2>1, <2>4, <3>2 DEF Plain
  <2>8. \A j \in Server : snapshotIndex'[j] = 0 /\ snapshotTerm'[j] = 0
    BY <1>2 DEF Plain
  <2>9. ASSUME NEW c \in rpcs', c.type = "IS"
        PROVE  c.lastIndex = 0 /\ c.lastTerm = 0
    BY <1>3, <2>9, SameFields DEF NoNew, Plain
  <2> QED
    BY <2>5, <2>6, <2>7, <2>8, <2>9 DEF Plain
<1> QED
  BY <1>1, <1>4, <1>5, StoreEntriesSplices

\* A restart finds the log in the Persister, and the other servers keep theirs.
LEMMA ReloadLog ==
    ASSUME TypeOK, PersistedInTime, NEW i \in Server, NEW d, Reload(i, d),
           d.log = disk[i].log, d.index = disk[i].index
    PROVE  /\ log' = log /\ snapshotIndex' = snapshotIndex
           /\ commitIndex' = [commitIndex EXCEPT ![i] = 0]
<1>1. disk[i] = [term |-> currentTerm[i], vote |-> votedFor[i], log |-> log[i],
                 index |-> snapshotIndex[i], snapshot |-> snapshotByte[i]]
  BY DEF PersistedInTime
<1>2. d.log = log[i] /\ d.index = snapshotIndex[i]
  BY <1>1
<1> QED
  BY <1>2 DEF Reload, TypeOK

\* What the Persister holds when it is copied in the middle of a handler.
LEMMA HalfSavedLog ==
    ASSUME TypeOK, NEW m \in rpcs, RestartInHandler(m.dst, m)
    PROVE  \E d : /\ Reload(m.dst, d) /\ d.log = disk[m.dst].log
                  /\ d.index = disk[m.dst].index /\ d.term = m.term
<1> DEFINE d == [disk[m.dst] EXCEPT !.term = m.term, !.vote = IF m.type = "RV" THEN @ ELSE Nil]
<1>1. disk[m.dst] \in Persisted
  BY VoteMessage DEF TypeOK
<1>2. Reload(m.dst, d)
  BY DEF RestartInHandler
<1>3. d.log = disk[m.dst].log /\ d.index = disk[m.dst].index /\ d.term = m.term
  BY <1>1 DEF Persisted
<1> HIDE DEF d
<1> QED
  BY <1>2, <1>3

LEMMA ReloadPlain ==
    ASSUME TypeOK, TypeOK', PersistedInTime, Plain, NEW i \in Server, NEW d, Reload(i, d),
           d.log = disk[i].log, d.index = disk[i].index,
           NEW cs \in SUBSET rpcs, rpcs' = CallsAfterStop(i, cs)
    PROVE  Plain' /\ CommittedKept
<1>1. /\ log' = log /\ snapshotIndex' = snapshotIndex
      /\ commitIndex' = [commitIndex EXCEPT ![i] = 0]
  BY ReloadLog
<1>2. \A j \in Server : commitIndex'[j] = 0 \/ commitIndex'[j] + 1 <= Len(log[j])
  BY <1>1 DEF TypeOK, Plain
<1>3. snapshotTerm' = snapshotTerm
  <2>1. log'[i] = d.log /\ snapshotTerm[i] = 0 /\ log[i][1].term = 0
    <3>1. log'[i] = d.log
      BY DEF Reload, TypeOK
    <3>2. snapshotTerm[i] = 0 /\ log[i][1] = Dummy
      BY DEF Plain
    <3> QED
      BY <3>1, <3>2 DEF Dummy
  <2>2. d.log[1].term = 0
    BY <1>1, <2>1
  <2> QED
    BY <2>1, <2>2 DEF Reload, TypeOK
<1> QED
  BY <1>1, <1>2, <1>3, StopNoNew, PlainFrame

\* Every step of a system without snapshots leaves logs plain and keeps what is
\* committed.
LEMMA PlainStep ==
    ASSUME SnapshotAt = {}, TypeOK, TypeOK', PersistedInTime, Plain, [Next]_vars
    PROVE  Plain' /\ CommittedKept
<1>0. \A j \in Server : commitIndex[j] + 1 <= Len(log[j])
  BY DEF Plain
<1>1. ASSUME NEW i \in Server, StartElection(i) \/ AbortElection(i)
      PROVE  Plain' /\ CommittedKept
  BY <1>0, <1>1, PlainFrame, RemoveNoNew DEF StartElection, AbortElection, persistent
<1>2. ASSUME NEW i \in Server, AdvanceCommit(i)
      PROVE  Plain' /\ CommittedKept
  <2>1. UNCHANGED <<log, snapshotIndex, snapshotTerm, rpcs>>
    BY <1>2 DEF AdvanceCommit, persistent
  <2>2. commitIndex' = commitIndex \/ (InLog(i, Median(i))
                                       /\ commitIndex' = [commitIndex EXCEPT ![i] = Median(i)])
    BY <1>2 DEF AdvanceCommit
  <2>3. InLog(i, Median(i)) => Median(i) + 1 <= Len(log[i])
    <3>1. PICK k \in Nat, n \in Nat : k = Median(i) /\ n = Len(log[i])
      BY MedianType, LogNumbers
    <3>2. snapshotIndex[i] = 0
      BY DEF Plain
    <3> QED
      BY <3>1, <3>2 DEF InLog
  <2>4. \A j \in Server : commitIndex'[j] + 1 <= Len(log[j])
    BY <1>0, <2>2, <2>3 DEF TypeOK
  <2> QED
    BY <2>1, <2>4, PlainFrame, RemoveNoNew
<1>3. ASSUME NEW i \in Server, Restart(i)
      PROVE  Plain' /\ CommittedKept
  <2>1. rpcs \in SUBSET rpcs
    OBVIOUS
  <2> QED
    BY <1>3, <2>1, ReloadPlain DEF Restart
<1>4. ASSUME NEW i \in Server, NEW c \in Command, Start(i, c)
      PROVE  Plain' /\ CommittedKept
  <2>1. /\ UNCHANGED <<snapshotIndex, snapshotTerm, rpcs, commitIndex>>
        /\ \A j \in Server : j # i => log'[j] = log[j]
        /\ log'[i] = Append(log[i], [term |-> currentTerm[i], cmd |-> c])
    BY <1>4 DEF Start, TypeOK
  <2>2. Len(log'[i]) = Len(log[i]) + 1 /\ \A p \in 1 .. Len(log[i]) : log'[i][p] = log[i][p]
    <3>1. log[i] \in Seq(Entry) /\ [term |-> currentTerm[i], cmd |-> c] \in Entry
      BY LocalType DEF Entry
    <3> QED
      BY <2>1, <3>1, AppendProperties
  <2>3. \A j \in Server : /\ Len(log'[j]) >= Len(log[j])
                          /\ \A p \in 1 .. Len(log[j]) : log'[j][p] = log[j][p]
    <3>1. Len(log[i]) \in Nat /\ Len(log'[i]) >= Len(log[i])
      BY <2>2, LogNumbers
    <3>2. ASSUME NEW j \in Server, j # i
          PROVE  log'[j] = log[j] /\ Len(log'[j]) >= Len(log[j])
      BY <2>1, <3>2, LogNumbers
    <3> QED
      BY <2>2, <3>1, <3>2
  <2>4. ASSUME NEW j \in Server
        PROVE  /\ commitIndex[j] + 1 <= Len(log'[j])
               /\ \A p \in 1 .. commitIndex[j] + 1 : log'[j][p] = log[j][p]
    <3>1. PICK have \in Nat, new \in Nat, commit \in Nat :
                 have = Len(log[j]) /\ new = Len(log'[j]) /\ commit = commitIndex[j]
      BY LogNumbers, LenProperties DEF TypeOK
    <3>2. new >= have /\ commit + 1 <= have
      BY <1>0, <2>3, <3>1
    <3> QED
      BY <2>3, <3>1, <3>2
  <2>5. \A j \in Server : log'[j][1] = Dummy
    BY <2>3, LogNumbers DEF Plain
  <2> QED
    BY <2>1, <2>4, <2>5 DEF Plain, CommittedKept
<1>5. ASSUME NEW i \in Server, NEW j \in Server, GetVote(i, j) \/ SendAppendEntries(i, j)
      PROVE  Plain' /\ CommittedKept
  <2>1. NoNew({"IS"})
    BY <1>5 DEF GetVote, SendAppendEntries, NoNew, Same
  <2> QED
    BY <1>0, <1>5, <2>1, PlainFrame DEF GetVote, SendAppendEntries, persistent
<1>6. ASSUME NEW i \in Server, NEW j \in Server, SendInstallSnapshot(i, j)
      PROVE  Plain' /\ CommittedKept
  <2>1. UNCHANGED <<log, snapshotIndex, snapshotTerm, commitIndex>>
    BY <1>6 DEF SendInstallSnapshot, persistent
  <2>2. \A m \in rpcs' : m.type = "IS" => m.lastIndex = 0 /\ m.lastTerm = 0
    BY <1>6 DEF SendInstallSnapshot, Plain
  <2> QED
    BY <2>1, <2>2 DEF Plain, CommittedKept
<1>7. ASSUME NEW m \in rpcs, RequestVote(m.dst, m)
      PROVE  Plain' /\ CommittedKept
  <2>1. NoNew({"IS"})
    <3>1. \E rt, g : VoteReply(m, rt, g)
      BY <1>7 DEF RequestVote, RequestVoteStale, RequestVoteSameTerm, RequestVoteNewTerm
    <3> QED
      BY <3>1, AnswerNoNew
  <2> QED
    BY <1>0, <1>7, <2>1, PlainFrame
       DEF RequestVote, RequestVoteStale, RequestVoteSameTerm, RequestVoteNewTerm, persistent
<1>8. ASSUME NEW m \in rpcs, HandleVoteReply(m.src, m) \/ LoseVote(m.src, m)
      PROVE  Plain' /\ CommittedKept
  <2>1. rpcs' \subseteq rpcs
    BY <1>8 DEF HandleVoteReply, LoseVote
  <2> QED
    BY <1>0, <1>8, <2>1, RemoveNoNew, PlainFrame
       DEF HandleVoteReply, LoseVote, StepDown, Tally, persistent
<1>9. ASSUME NEW m \in rpcs, AppendEntries(m.dst, m)
      PROVE  Plain' /\ CommittedKept
  <2> DEFINE i == m.dst
  <2>0. i \in Server /\ m.type = "AE" /\ UNCHANGED snapshotTerm
    BY <1>9, VoteMessage DEF AppendEntries
  <2>1. CASE AppendEntriesStale(i, m) \/ AppendEntriesRefuse(i, m)
    <3>1. /\ UNCHANGED <<log, snapshotIndex, commitIndex>>
          /\ rpcs' \subseteq rpcs \/ \E rt, su, xt, xi, xl : Reply(m, AEReply(m, rt, su, xt, xi, xl))
      BY <2>1 DEF AppendEntriesStale, AppendEntriesRefuse, persistent
    <3>2. NoNew({"IS"})
      BY <3>1, AnswerNoNew
    <3> QED
      BY <1>0, <2>0, <3>1, <3>2, PlainFrame
  <2>2. CASE UNCHANGED <<log, snapshotIndex>> /\ Heartbeat(i, m)
    <3>1. NoNew({"IS"})
      BY <2>2, AnswerNoNew DEF Heartbeat
    <3>2. \A j \in Server : commitIndex'[j] + 1 <= Len(log[j])
      <4>1. PICK have \in Nat, commit \in Nat, told \in Nat :
                   have = Len(log[i]) /\ commit = commitIndex[i] /\ told = m.commit
        BY <2>0, LogNumbers, CallNumbers
      <4>2. Loglen(i) - 1 = have - 1
        BY <2>0, <4>1 DEF Loglen, Plain
      <4>3. commitIndex' = [commitIndex EXCEPT ![i] =
                              IF told > commit THEN MinOf(told, have - 1) ELSE commit]
        BY <2>0, <2>2, <4>1, <4>2 DEF Heartbeat, TypeOK
      <4>4. commit + 1 <= have
        BY <1>0, <2>0, <4>1
      <4>5. commitIndex'[i] + 1 <= have
        <5>1. commitIndex'[i] = IF told > commit THEN MinOf(told, have - 1) ELSE commit
          BY <2>0, <4>3 DEF TypeOK
        <5> QED
          BY <4>4, <5>1 DEF MinOf
      <4>6. \A j \in Server : j # i => commitIndex'[j] = commitIndex[j]
        BY <4>3 DEF TypeOK
      <4> QED
        BY <1>0, <2>0, <4>1, <4>5, <4>6
    <3> QED
      BY <2>0, <2>2, <3>1, <3>2, PlainFrame
  <2>3. CASE m.entries # <<>> /\ StoreEntries(i, m)
    BY <2>0, <2>3, StoreEntriesPlain
  <2>4. CASE UNCHANGED <<log, snapshotIndex, commitIndex, rpcs>>
    BY <1>0, <2>0, <2>4, RemoveNoNew, PlainFrame
  <2> QED
    BY <1>9, <2>1, <2>2, <2>3, <2>4 DEF AppendEntries, AppendEntriesAccept
<1>10. ASSUME NEW m \in rpcs, AppendEntriesResume(m.dst, m)
       PROVE  Plain' /\ CommittedKept
  <2>1. m.dst \in Server /\ m.type = "AE" /\ m.entries # <<>>
    BY <1>10, VoteMessage DEF AppendEntriesResume, TypeOK
  <2> QED
    BY <1>10, <2>1, StoreEntriesPlain DEF AppendEntriesResume
<1>11. ASSUME NEW m \in rpcs,
              HandleAppendEntriesReply(m.src, m) \/ HandleInstallSnapshotReply(m.src, m)
       PROVE  Plain' /\ CommittedKept
  <2>1. /\ UNCHANGED <<log, snapshotIndex, snapshotTerm, commitIndex>>
        /\ rpcs' \subseteq rpcs
    BY <1>11 DEF HandleAppendEntriesReply, HandleInstallSnapshotReply, AppendEntriesSucceeded,
                 ReplyOfNewerTerm, StepDown, BackUp, ReplyIgnored, InstallSnapshotDone, persistent
  <2> QED
    BY <1>0, <2>1, RemoveNoNew, PlainFrame
<1>12. ASSUME NEW m \in rpcs, InstallSnapshot(m.dst, m)
       PROVE  Plain' /\ CommittedKept
  <2>1. SnapshotKnown(m.dst, m)
    BY <1>12, VoteMessage DEF InstallSnapshot, SnapshotKnown, Plain
  <2>2. /\ UNCHANGED <<log, snapshotIndex, snapshotTerm, commitIndex>>
        /\ \E rt : Reply(m, ISReply(m, rt))
    BY <1>12, <2>1 DEF InstallSnapshot, InstallSnapshotStale, InstallSnapshotKnown,
                       InstallSnapshotTake, persistent
  <2>3. NoNew({"IS"})
    BY <2>2, AnswerNoNew
  <2> QED
    BY <1>0, <2>2, <2>3, PlainFrame
<1>13. ASSUME NEW m \in rpcs, RestartInHandler(m.dst, m)
       PROVE  Plain' /\ CommittedKept
  <2>1. m.dst \in Server /\ rpcs \ {m} \in SUBSET rpcs
    BY VoteMessage
  <2>2. PICK d : Reload(m.dst, d) /\ d.log = disk[m.dst].log /\ d.index = disk[m.dst].index
    BY <1>13, HalfSavedLog
  <2> QED
    BY <1>13, <2>1, <2>2, ReloadPlain DEF RestartInHandler
<1>14. ASSUME NEW m \in rpcs, Timeout(m)
       PROVE  Plain' /\ CommittedKept
  <2>1. NoNew({"IS"})
    BY <1>14 DEF Timeout, NoNew, Same
  <2> QED
    BY <1>0, <1>14, <2>1, PlainFrame DEF Timeout, persistent
<1>15. ASSUME NEW m \in rpcs, Lose(m)
       PROVE  Plain' /\ CommittedKept
  BY <1>0, <1>15, RemoveNoNew, PlainFrame DEF Lose, persistent
<1>16. CASE UNCHANGED vars
  BY <1>0, <1>16, RemoveNoNew, PlainFrame DEF vars
<1> QED
  BY <1>1, <1>2, <1>3, <1>4, <1>5, <1>6, <1>7, <1>8, <1>9, <1>10, <1>11, <1>12,
     <1>13, <1>14, <1>15, <1>16 DEF Next

LEMMA InitPlain == Init => Plain
<1> SUFFICES ASSUME Init PROVE Plain
  OBVIOUS
<1>1. \A i \in Server : log[i] = <<Dummy>> /\ commitIndex[i] = 0
  BY DEF Init, Dummy
<1>2. Len(<<Dummy>>) = 1 /\ <<Dummy>>[1] = Dummy
  OBVIOUS
<1> QED
  BY <1>1, <1>2 DEF Init, Plain

\* CommittedStaysCorrect: without snapshots no step removes or changes what a
\* server knows to be committed: not the truncation in AppendEntries, even when
\* the lock changed hands before it and the call is long outdated (the
\* comparison with commitIndex is made after the second lock), and not a crash.
THEOREM CommittedStaysCorrect ==
    ASSUME SnapshotAt = {}
    PROVE  Spec => CommittedStays
<1>1. Init => Plain
  BY InitPlain
<1>2. TypeOK /\ TypeOK' /\ PersistedInTime /\ Plain /\ [Next]_vars => Plain'
  BY PlainStep
<1>3. ASSUME TypeOK, TypeOK', PersistedInTime, Plain, Plain', Next
      PROVE  \A i \in Server : \A k \in 1 .. commitIndex[i] :
               k <= Loglen(i)' - 1 /\ Holds(i, k)' = Holds(i, k)
  <2> SUFFICES ASSUME NEW i \in Server, NEW k \in 1 .. commitIndex[i]
               PROVE  k <= Loglen(i)' - 1 /\ Holds(i, k)' = Holds(i, k)
    OBVIOUS
  <2>1. CommittedKept
    BY <1>3, PlainStep
  <2>2. PICK new \in Nat, commit \in Nat : new = Len(log'[i]) /\ commit = commitIndex[i]
    BY <1>3, LogNumbers, LenProperties DEF TypeOK
  <2>3. snapshotIndex[i] = 0 /\ snapshotIndex'[i] = 0
    BY <1>3 DEF Plain
  <2>4. k <= new - 1 /\ k + 1 \in 1 .. commit + 1 /\ ~(k <= 0) /\ k - 0 + 1 = k + 1
    BY <2>1, <2>2 DEF CommittedKept
  <2>5. log'[i][k + 1] = log[i][k + 1]
    BY <2>1, <2>2, <2>4 DEF CommittedKept
  <2>6. Loglen(i)' - 1 = new - 1
    BY <2>2, <2>3 DEF Loglen
  <2>7. Holds(i, k) = log[i][k + 1] /\ Holds(i, k)' = log'[i][k + 1]
    BY <2>3, <2>4 DEF Holds, At
  <2> QED
    BY <2>4, <2>5, <2>6, <2>7
<1>4. ASSUME TypeOK, TypeOK', PersistedInTime, Plain, Plain', [Next]_vars
      PROVE  [\A i \in Server : \A k \in 1 .. commitIndex[i] :
                k <= Loglen(i)' - 1 /\ Holds(i, k)' = Holds(i, k)]_vars
  BY <1>3, <1>4
<1>5. TypeOK /\ TypeOK' /\ PersistedInTime /\ Plain /\ Plain' /\ [Next]_vars
        => [\A i \in Server : \A k \in 1 .. commitIndex[i] :
              k <= Loglen(i)' - 1 /\ Holds(i, k)' = Holds(i, k)]_vars
  BY <1>4
<1> QED
  BY <1>1, <1>2, <1>5, TypeCorrect, PersistedCorrect, PTL DEF Spec, CommittedStays

-----------------------------------------------------------------------------
(* Handlers that keep the lock are never in between.                       *)

LEMMA InsideStep ==
    ASSUME Preempt = FALSE, TypeOK, inside = {}, [Next]_vars
    PROVE  inside' = {}
<1>1. \A i \in Server : CallsAfterStop(i, inside) = {}
  BY DEF CallsAfterStop
<1>2. ASSUME NEW i \in Server,
             \/ StartElection(i) \/ AbortElection(i) \/ AdvanceCommit(i) \/ Restart(i)
             \/ \E c \in Command : Start(i, c)
             \/ \E index \in SnapshotAt : Snapshot(i, index)
             \/ \E j \in Server : \/ GetVote(i, j)
                                  \/ SendAppendEntries(i, j)
                                  \/ SendInstallSnapshot(i, j)
      PROVE  inside' = {}
  BY <1>1, <1>2 DEF StartElection, AbortElection, AdvanceCommit, Restart, Reload, Start, Snapshot,
                    GetVote, SendAppendEntries, SendInstallSnapshot
<1>3. ASSUME NEW m \in rpcs,
             \/ RequestVote(m.dst, m) \/ HandleVoteReply(m.src, m) \/ LoseVote(m.src, m)
             \/ HandleAppendEntriesReply(m.src, m)
             \/ InstallSnapshot(m.dst, m) \/ HandleInstallSnapshotReply(m.src, m)
             \/ Timeout(m) \/ Lose(m)
      PROVE  inside' = {}
  BY <1>3 DEF RequestVote, HandleVoteReply, LoseVote, HandleAppendEntriesReply,
              InstallSnapshot, HandleInstallSnapshotReply, Timeout, Lose
<1>4. ASSUME NEW m \in rpcs, RestartInHandler(m.dst, m)
      PROVE  inside' = {}
  BY <1>1, <1>4, VoteMessage DEF RestartInHandler, Reload
<1>5. ASSUME NEW m \in rpcs, AppendEntries(m.dst, m)
      PROVE  inside' = {}
  BY <1>5 DEF AppendEntries, AppendEntriesStale, AppendEntriesRefuse, AppendEntriesAccept
<1>6. ASSUME NEW m \in rpcs, AppendEntriesResume(m.dst, m)
      PROVE  FALSE
  BY <1>6 DEF AppendEntriesResume
<1>7. CASE UNCHANGED vars
  BY <1>7 DEF vars
<1> QED
  BY <1>2, <1>3, <1>4, <1>5, <1>6, <1>7 DEF Next

-----------------------------------------------------------------------------
(* The inductive invariant.                                                *)

\* The conditions under which the log is safe.
Calm ==
    /\ LateDelivery = FALSE /\ Preempt = FALSE /\ SnapshotAt = {}
    /\ Cardinality(Server) % 2 = 1

Majority(Q) == Q \in SUBSET Server /\ 2 * Cardinality(Q) > Cardinality(Server)

-----------------------------------------------------------------------------
(* Terms that have had their leader.                                       *)

\* The calls of sendAppendEntries and their answers.
IsCall(m) == m.type \in {"AE", "IS", "AEReply", "ISReply"}

\* s has won the election of term t: a majority is in term t, with its vote for
\* s, or beyond it, no vote of theirs for another candidate of t is around,
\* and s does not count votes of t any more.
Elected(s, t) ==
    /\ s \in Server
    /\ t <= currentTerm[s] /\ (t = currentTerm[s] => ~Counting(s))
    /\ \E Q \in SUBSET Server :
         /\ Majority(Q)
         /\ \A v \in Q : /\ t <= currentTerm[v]
                         /\ t = currentTerm[v] => votedFor[v] = s
                         /\ \A w \in Votes : w.voter = v /\ w.term = t => w.candidate = s

\* A call shows that its sender was elected.
CallsElected == \A m \in rpcs : IsCall(m) => Elected(m.src, m.term) /\ m.src # m.dst

\* The calls of a term have one sender, and it has one call at a time out to
\* another server.
OneCall ==
    \A m, n \in rpcs : IsCall(m) /\ IsCall(n) /\ m.term = n.term =>
      /\ m.src = n.src
      /\ m.dst = n.dst => m = n

\* A leader waits for its calls.
CallsLive ==
    \A m \in rpcs : m.type \in {"AE", "IS"} /\ state[m.src] = "Leader"
                      /\ currentTerm[m.src] = m.term => m.live = TRUE

\* Nobody asks for votes, or has them, for a term it has not reached, and a
\* candidate has left term 0.
VotesOwn ==
    /\ \A i \in Server : election[i].votes # {} => election[i].term > 0
    /\ \A w \in Votes : w.term <= currentTerm[w.candidate]
    /\ \A m \in rpcs : m.type = "RV" => m.term <= currentTerm[m.src]

CallsInv == CallsElected /\ OneCall /\ CallsLive /\ VotesOwn


\* Two majorities share a server.
LEMMA MajoritiesMeet ==
    ASSUME NEW Q, NEW W, Majority(Q), Majority(W)
    PROVE  \E v \in Server : v \in Q /\ v \in W
<1>1. Q \subseteq Server /\ W \subseteq Server
  BY DEF Majority
<1>2. /\ Cardinality(Server) \in Nat /\ Cardinality(Q) \in Nat /\ Cardinality(W) \in Nat
  BY <1>1, ServerAssumption, FS_Subset, FS_CardinalityType
<1>3. Cardinality(Q) + Cardinality(W) > Cardinality(Server)
  BY <1>2 DEF Majority
<1> QED
  BY <1>1, <1>3, ServerAssumption, FS_MajoritiesIntersect

\* A majority has voted for i in its present term.
Backed(i) ==
    \E Q \in SUBSET Server :
      /\ Majority(Q)
      /\ \A v \in Q : [voter |-> v, term |-> currentTerm[i], candidate |-> i] \in Votes

LEMMA LeaderBacked ==
    ASSUME TypeOK, VotesSound, NEW i \in Server, state[i] = "Leader"
    PROVE  Backed(i)
<1>1. election[i].votes \in SUBSET Server
  BY DEF TypeOK, Election
<1>2. Majority(election[i].votes) /\ election[i].term = currentTerm[i]
  BY <1>1 DEF VotesSound, ElectedByMajority, Majority
<1>3. \A v \in election[i].votes :
        [voter |-> v, term |-> currentTerm[i], candidate |-> i] \in Votes
  BY <1>2, VotesMember
<1> QED
  BY <1>1, <1>2, <1>3 DEF Backed

\* Nobody else was elected in that term.
LEMMA BackedAlone ==
    ASSUME NEW i \in Server, NEW s, Backed(i), Elected(s, currentTerm[i])
    PROVE  s = i
<1>1. PICK Q \in SUBSET Server :
             /\ Majority(Q)
             /\ \A v \in Q : [voter |-> v, term |-> currentTerm[i], candidate |-> i] \in Votes
  BY DEF Backed
<1>2. PICK W \in SUBSET Server :
             /\ Majority(W)
             /\ \A v \in W : \A w \in Votes :
                  w.voter = v /\ w.term = currentTerm[i] => w.candidate = s
  BY DEF Elected
<1>3. PICK v \in Server : v \in Q /\ v \in W
  BY <1>1, <1>2, MajoritiesMeet
<1>4. [voter |-> v, term |-> currentTerm[i], candidate |-> i] \in Votes
  BY <1>1, <1>3
<1> QED
  BY <1>2, <1>3, <1>4

LEMMA LeaderElected ==
    ASSUME TypeOK, VotesSound, NEW i \in Server, state[i] = "Leader"
    PROVE  Elected(i, currentTerm[i])
<1>1. PICK Q \in SUBSET Server :
             /\ Majority(Q)
             /\ \A v \in Q : [voter |-> v, term |-> currentTerm[i], candidate |-> i] \in Votes
  BY LeaderBacked DEF Backed
<1>2. ASSUME NEW v \in Q
      PROVE  /\ currentTerm[i] <= currentTerm[v]
             /\ currentTerm[i] = currentTerm[v] => votedFor[v] = i
             /\ \A w \in Votes : w.voter = v /\ w.term = currentTerm[i] => w.candidate = i
  <2>1. PICK w \in Votes : w.voter = v /\ w.term = currentTerm[i] /\ w.candidate = i
    BY <1>1, <1>2
  <2> QED
    BY <2>1 DEF VotesSound, VotesRemembered, OneVotePerTerm
<1>3. ~Counting(i) /\ currentTerm[i] <= currentTerm[i]
  BY DEF Counting, TypeOK
<1> QED
  BY <1>1, <1>2, <1>3 DEF Elected

\* A leader does not get a call of its own term, and so does not turn follower
\* in it.
LEMMA NoRival ==
    ASSUME TypeOK, VotesSound, CallsElected, NEW m \in rpcs, IsCall(m),
           NEW i \in Server, state[i] = "Leader", m.term = currentTerm[i]
    PROVE  m.src = i /\ m.dst # i
  BY LeaderBacked, BackedAlone DEF CallsElected

\* A server only starts to count votes for a new term.
CountingKept ==
    \A i \in Server : Counting(i)' => \/ Counting(i) /\ currentTerm'[i] = currentTerm[i]
                                      \/ currentTerm'[i] > currentTerm[i]

\* Once elected, elected for ever.
LEMMA ElectedKept ==
    ASSUME TypeOK, TypeOK', VoteKept, NewVotesCast, CountingKept, NEW s, NEW t \in Nat, Elected(s, t)
    PROVE  Elected(s, t)'
<1>0. \A v \in Server : currentTerm[v] \in Nat /\ currentTerm'[v] \in Nat
                         /\ currentTerm'[v] >= currentTerm[v]
  BY DEF TypeOK, VoteKept
<1>1. s \in Server /\ s # Nil
  BY ServerAssumption DEF Elected
<1>2. t <= currentTerm'[s] /\ (t = currentTerm'[s] => ~Counting(s)')
  BY <1>0, <1>1 DEF Elected, CountingKept
<1>3. PICK Q \in SUBSET Server :
         /\ Majority(Q)
         /\ \A v \in Q : /\ t <= currentTerm[v]
                         /\ t = currentTerm[v] => votedFor[v] = s
                         /\ \A w \in Votes : w.voter = v /\ w.term = t => w.candidate = s
  BY DEF Elected
<1>4. ASSUME NEW v \in Q
      PROVE  t <= currentTerm'[v] /\ (t = currentTerm'[v] => votedFor'[v] = s)
  BY <1>0, <1>1, <1>3 DEF VoteKept
<1>5. ASSUME NEW v \in Q, NEW w \in Votes', w.voter = v, w.term = t
      PROVE  w.candidate = s
  BY <1>3, <1>4, <1>5 DEF NewVotesCast
<1>6. Majority(Q)'
  BY <1>3 DEF Majority
<1> QED
  BY <1>1, <1>2, <1>3, <1>4, <1>5, <1>6 DEF Elected

\* m and c are calls between the same servers in the same term.
SameKey(m, c) == m.src = c.src /\ m.dst = c.dst /\ m.term = c.term

\* Every call is one that was under way before the step, or the answer to it.
KeptCalls ==
    \A m, n \in rpcs' : IsCall(m) /\ IsCall(n) =>
      \E c, d \in rpcs : /\ IsCall(c) /\ IsCall(d) /\ SameKey(m, c) /\ SameKey(n, d)
                         /\ c = d => m = n

\* A caller that gave up does not lead.
KeptLive == \A m \in rpcs' : m.type \in {"AE", "IS"} => m \in rpcs \/ state'[m.src] # "Leader"

LEMMA NoCallKept ==
    ASSUME \A m \in rpcs' : IsCall(m) => m \in rpcs
    PROVE  KeptCalls /\ KeptLive
  BY DEF KeptCalls, KeptLive, SameKey, IsCall

LEMMA AnswerKept ==
    ASSUME NEW m \in rpcs, IsCall(m), NEW r, SameKey(r, m), r.type \in {"AEReply", "ISReply"},
           Reply(m, r)
    PROVE  KeptCalls /\ KeptLive
<1>1. rpcs' \subseteq (rpcs \ {m}) \cup {r}
  BY DEF Reply
<1>2. KeptLive
  BY <1>1 DEF KeptLive
<1>3. ASSUME NEW a \in rpcs', NEW b \in rpcs', IsCall(a), IsCall(b)
      PROVE  \E c, d \in rpcs : /\ IsCall(c) /\ IsCall(d) /\ SameKey(a, c) /\ SameKey(b, d)
                                /\ c = d => a = b
  <2>1. CASE a = r /\ b = r
    BY <2>1
  <2>2. CASE a = r /\ b \in rpcs \ {m}
    BY <1>3, <2>2 DEF SameKey
  <2>3. CASE a \in rpcs \ {m} /\ b = r
    BY <1>3, <2>3 DEF SameKey
  <2>4. CASE a \in rpcs \ {m} /\ b \in rpcs \ {m}
    BY <1>3, <2>4 DEF SameKey
  <2> QED
    BY <1>1, <2>1, <2>2, <2>3, <2>4
<1> QED
  BY <1>2, <1>3 DEF KeptCalls

\* The answers to calls have their key.
LEMMA AnswerKeys ==
    ASSUME NEW m
    PROVE  /\ \A rt, su, xt, xi, xl : /\ SameKey(AEReply(m, rt, su, xt, xi, xl), m)
                                      /\ AEReply(m, rt, su, xt, xi, xl).type = "AEReply"
           /\ \A rt : SameKey(ISReply(m, rt), m) /\ ISReply(m, rt).type = "ISReply"
  BY DEF SameKey, AEReply, ISReply

LEMMA StopKept ==
    ASSUME TypeOK, NEW i \in Server, state'[i] # "Leader",
           NEW cs \in SUBSET rpcs, rpcs' = CallsAfterStop(i, cs)
    PROVE  KeptCalls /\ KeptLive
<1> DEFINE Left(c) == IF c.type \in {"AE", "IS"} /\ c.src = i THEN GiveUp(c) ELSE c
<1>1. \A m \in rpcs' : \E c \in rpcs : m = Left(c)
  BY DEF CallsAfterStop
<1>2. ASSUME NEW c \in rpcs
      PROVE  SameKey(Left(c), c) /\ Left(c).type = c.type
  <2>1. Same(Left(c), c)
    BY DEF Same
  <2> HIDE DEF Left
  <2> QED
    BY <2>1, SameFields DEF SameKey
<1>3. \A c : Left(c) = c \/ (c.type \in {"AE", "IS"} /\ c.src = i)
  OBVIOUS
<1> HIDE DEF Left
<1>4. KeptCalls
  BY <1>1, <1>2 DEF KeptCalls, IsCall
<1>5. KeptLive
  BY <1>1, <1>2, <1>3 DEF KeptLive, SameKey
<1> QED
  BY <1>4, <1>5

\* Only a leader that sends makes a new call.
LEMMA CallsKept ==
    ASSUME LateDelivery = FALSE, TypeOK, TypeOK', inside = {}, [Next]_vars
    PROVE  \/ KeptCalls /\ KeptLive
           \/ \E i, j \in Server : SendAppendEntries(i, j) \/ SendInstallSnapshot(i, j)
<1>1. ASSUME NEW i \in Server,
             \/ StartElection(i) \/ AbortElection(i) \/ AdvanceCommit(i)
             \/ \E c \in Command : Start(i, c)
             \/ \E index \in SnapshotAt : Snapshot(i, index)
             \/ \E j \in Server : GetVote(i, j)
      PROVE  KeptCalls /\ KeptLive
  <2>1. \A m \in rpcs' : IsCall(m) => m \in rpcs
    <3>1. CASE rpcs' = rpcs
      BY <3>1
    <3>2. CASE \E j \in Server : GetVote(i, j)
      BY <3>2 DEF GetVote, IsCall
    <3> QED
      BY <1>1, <3>1, <3>2 DEF StartElection, AbortElection, AdvanceCommit, Start, Snapshot
  <2> QED
    BY <2>1, NoCallKept
<1>2. ASSUME NEW i \in Server, NEW d, Reload(i, d), NEW cs \in SUBSET rpcs,
             rpcs' = CallsAfterStop(i, cs)
      PROVE  KeptCalls /\ KeptLive
  <2>1. state'[i] # "Leader"
    BY <1>2 DEF Reload, TypeOK
  <2> QED
    BY <1>2, <2>1, StopKept
<1>3. ASSUME NEW m \in rpcs,
             \/ RequestVote(m.dst, m) \/ HandleVoteReply(m.src, m) \/ LoseVote(m.src, m)
             \/ HandleAppendEntriesReply(m.src, m) \/ HandleInstallSnapshotReply(m.src, m)
             \/ Lose(m)
      PROVE  KeptCalls /\ KeptLive
  <2>1. \A r \in rpcs' : IsCall(r) => r \in rpcs
    <3>1. CASE rpcs' = rpcs \ {m}
      BY <3>1
    <3>2. CASE RequestVote(m.dst, m)
      <4>1. PICK rt, g : VoteReply(m, rt, g)
        BY <3>2 DEF RequestVote, RequestVoteStale, RequestVoteSameTerm, RequestVoteNewTerm
      <4> QED
        BY <4>1 DEF VoteReply, IsCall
    <3> QED
      BY <1>3, <3>1, <3>2 DEF HandleVoteReply, LoseVote, HandleAppendEntriesReply,
                              HandleInstallSnapshotReply, Lose
  <2> QED
    BY <2>1, NoCallKept
<1>4. ASSUME NEW m \in rpcs, AppendEntries(m.dst, m)
      PROVE  KeptCalls /\ KeptLive
  <2>1. IsCall(m)
    BY <1>4 DEF AppendEntries, IsCall
  <2>2. rpcs' \subseteq rpcs \/ \E rt, su, xt, xi, xl : Reply(m, AEReply(m, rt, su, xt, xi, xl))
    BY <1>4 DEF AppendEntries, AppendEntriesStale, AppendEntriesRefuse, AppendEntriesAccept,
                Heartbeat, StoreEntries, AppendFrom, AlreadyCommitted
  <2>3. CASE rpcs' \subseteq rpcs
    BY <2>3, NoCallKept
  <2>4. CASE \E rt, su, xt, xi, xl : Reply(m, AEReply(m, rt, su, xt, xi, xl))
    BY <2>1, <2>4, AnswerKept, AnswerKeys
  <2> QED
    BY <2>2, <2>3, <2>4
<1>5. ASSUME NEW m \in rpcs, InstallSnapshot(m.dst, m)
      PROVE  KeptCalls /\ KeptLive
  <2>1. IsCall(m)
    BY <1>5 DEF InstallSnapshot, IsCall
  <2>2. \E rt : Reply(m, ISReply(m, rt))
    BY <1>5 DEF InstallSnapshot, InstallSnapshotStale, InstallSnapshotKnown, InstallSnapshotTake
  <2> QED
    BY <2>1, <2>2, AnswerKept, AnswerKeys
<1>6. ASSUME NEW m \in rpcs, AppendEntriesResume(m.dst, m) \/ Timeout(m)
      PROVE  FALSE
  BY <1>6 DEF AppendEntriesResume, Timeout
<1>7. CASE UNCHANGED vars
  BY <1>7, NoCallKept DEF vars
<1>8. ASSUME NEW i \in Server, Restart(i)
      PROVE  KeptCalls /\ KeptLive
  BY <1>2, <1>8 DEF Restart
<1>9. ASSUME NEW m \in rpcs, RestartInHandler(m.dst, m)
      PROVE  KeptCalls /\ KeptLive
  BY <1>2, <1>9, VoteMessage DEF RestartInHandler
<1> QED
  BY <1>1, <1>3, <1>4, <1>5, <1>6, <1>7, <1>8, <1>9 DEF Next

-----------------------------------------------------------------------------
(* Kinds of steps.                                                         *)

OldLeaders == \A i \in Server : state'[i] = "Leader" =>
                 state[i] = "Leader" /\ currentTerm'[i] = currentTerm[i]
OldCounting == \A i \in Server : Counting(i)' => Counting(i) /\ currentTerm'[i] = currentTerm[i]
OldTallies == \A i \in Server : election'[i].votes # {} =>
                 election[i].votes # {} /\ election'[i].term = election[i].term
OldVotes == Votes' \subseteq Votes
OldMatch == \A i \in Server : state'[i] = "Leader" => matchIndex'[i] = matchIndex[i]
OldCommits == \A i \in Server : commitIndex'[i] \in {commitIndex[i], 0}
OldCalls == NoNew({"AE", "RV"})
OldAcks == \A m \in rpcs' : m.type = "AEReply" /\ m.success = TRUE => m \in rpcs

\* A step that is not about elections, and one that is not about logs.
NoElectionStep == OldLeaders /\ OldCounting /\ OldTallies /\ OldVotes
NoLogStep == log' = log /\ OldMatch /\ OldCommits /\ OldCalls /\ OldAcks

\* Candidate i becomes leader.
Wins(i) ==
    /\ Counting(i) /\ Backed(i) /\ UNCHANGED currentTerm
    /\ \A s \in Server : state'[s] = "Leader" => s = i \/ state[s] = "Leader"
    /\ \A s \in Server : matchIndex'[s] = IF s = i THEN [j \in Server |-> 0] ELSE matchIndex[s]
    /\ OldCounting /\ OldTallies /\ OldVotes
    /\ log' = log /\ OldCommits /\ OldCalls /\ OldAcks

\* Each server keeps its part in the elections or loses it.
LEMMA QuietElection ==
    ASSUME NoVoteReply,
           \A c \in Server :
             \/ /\ state'[c] = state[c] /\ currentTerm'[c] = currentTerm[c]
                /\ election'[c].votes = election[c].votes /\ election'[c].term = election[c].term
             \/ state'[c] # "Leader" /\ election'[c].votes = {}
             \/ /\ state'[c] # "Leader" /\ state[c] # "Leader"
                /\ currentTerm'[c] = currentTerm[c]
                /\ election'[c].votes = election[c].votes /\ election'[c].term = election[c].term
    PROVE  NoElectionStep
<1>1. OldVotes
  BY QuietVotes DEF OldVotes
<1>2. OldLeaders /\ OldTallies
  BY DEF OldLeaders, OldTallies
<1>3. OldCounting
  BY DEF OldCounting, Counting
<1> QED
  BY <1>1, <1>2, <1>3 DEF NoElectionStep

LEMMA SameElection ==
    ASSUME NoVoteReply, UNCHANGED <<state, currentTerm, election>>
    PROVE  NoElectionStep
  BY QuietElection

\* Server i forgets its election.
LEMMA LostElection ==
    ASSUME TypeOK, NoVoteReply, NEW i \in Server, NEW t,
           currentTerm' = [currentTerm EXCEPT ![i] = t],
           state' = [state EXCEPT ![i] = "Follower"],
           election' = [election EXCEPT ![i] = NoElection]
    PROVE  NoElectionStep
<1>1. state'[i] # "Leader" /\ election'[i].votes = {}
  BY DEF TypeOK, NoElection
<1>2. \A c \in Server : c # i => /\ state'[c] = state[c] /\ currentTerm'[c] = currentTerm[c]
                                 /\ election'[c] = election[c]
  BY DEF TypeOK
<1> QED
  BY <1>1, <1>2, QuietElection

\* A follower of m.src counts on if it was counting in that term.
LEMMA FollowQuiet ==
    ASSUME TypeOK, VotesSound, CallsElected, NoVoteReply, NEW m \in rpcs, m.type \in {"AE", "IS"},
           m.term >= currentTerm[m.dst], Follow(m.dst, m.term)
    PROVE  NoElectionStep
<1> DEFINE i == m.dst
<1>0. i \in Server /\ IsCall(m)
  BY VoteMessage DEF IsCall
<1>1. CASE m.term > currentTerm[i]
  BY <1>0, <1>1, LostElection DEF Follow, TermMoved
<1>2. CASE ~(m.term > currentTerm[i])
  <2>1. m.term = currentTerm[i]
    <3>1. m.term \in Nat /\ currentTerm[i] \in Nat
      BY <1>0, VoteMessage, LocalType
    <3> QED
      BY <1>2, <3>1
  <2>2. state[i] # "Leader"
    BY <1>0, <2>1, NoRival
  <2>3. /\ election' = election /\ currentTerm' = [currentTerm EXCEPT ![i] = m.term]
        /\ state' = [state EXCEPT ![i] = "Follower"]
    BY <1>2 DEF Follow
  <2>4. \A c \in Server : /\ election'[c] = election[c] /\ currentTerm'[c] = currentTerm[c]
                          /\ c # i => state'[c] = state[c]
    BY <2>1, <2>3 DEF TypeOK
  <2>5. state'[i] # "Leader"
    BY <1>0, <2>3 DEF TypeOK
  <2> QED
    BY <2>2, <2>4, <2>5, QuietElection
<1> QED
  BY <1>1, <1>2

\* The count of one answer.
LEMMA TallyKind ==
    ASSUME TypeOK, TypeOK', VotesSound, NEW m \in rpcs, NEW granted \in BOOLEAN,
           rpcs' = rpcs \ {m}, UNCHANGED commitIndex,
           Counting(m.src), m.term = currentTerm[m.src],
           granted => m.type = "RVReply" /\ m.granted,
           Tally(m.src, m, granted)
    PROVE  (NoElectionStep /\ NoLogStep) \/ Wins(m.src)
<1> DEFINE i == m.src
<1>0. i \in Server /\ m.dst \in Server
  BY VoteMessage
<1>1. UNCHANGED <<log, currentTerm>> /\ OldCommits /\ OldCalls /\ OldAcks
  <2>1. UNCHANGED <<log, currentTerm>>
    BY DEF Tally, persistent
  <2> QED
    BY <2>1, RemoveNoNew DEF OldCommits, OldCalls, OldAcks
<1>2. OldVotes /\ ElectedByMajority'
  <2>1. GoodElectionStep /\ Votes' \subseteq Votes
    BY <1>1, TallyVotes DEF VotesSound
  <2> QED
    BY <2>1 DEF OldVotes, GoodElectionStep
<1>3. \A c \in Server : c # i => state'[c] = state[c] /\ election'[c] = election[c]
  BY DEF Tally, TypeOK
<1>4. OldCounting
  BY <1>1, <1>3 DEF OldCounting, Counting
<1>5. OldTallies
  <2>1. election[i].votes # {}
    BY DEF Counting
  <2>2. election'[i].votes # {} => election'[i].term = election[i].term
    <3>1. PICK v, h : election'[i] = NoElection
                      \/ election'[i] = [election[i] EXCEPT !.votes = v, !.heard = h]
      BY <1>0 DEF Tally, TypeOK
    <3>2. CASE election'[i] = NoElection
      BY <3>2 DEF NoElection
    <3>3. CASE election'[i] = [election[i] EXCEPT !.votes = v, !.heard = h]
      <4>1. election[i] \in Election
        BY <1>0 DEF TypeOK
      <4> QED
        BY <3>3, <4>1 DEF Election
    <3> QED
      BY <3>1, <3>2, <3>3
  <2> QED
    BY <1>3, <2>1, <2>2 DEF OldTallies
<1>6. CASE state'[i] # "Leader"
  <2>1. OldLeaders
    BY <1>1, <1>3, <1>6 DEF OldLeaders
  <2>2. OldMatch
    <3>1. UNCHANGED leaderVars
      BY <1>0, <1>6 DEF Tally, TypeOK
    <3> QED
      BY <3>1 DEF OldMatch, leaderVars
  <2> QED
    BY <1>1, <1>2, <1>4, <1>5, <2>1, <2>2 DEF NoElectionStep, NoLogStep
<1>7. CASE state'[i] = "Leader"
  <2>1. Backed(i)
    <3>1. election'[i].votes \in SUBSET Server
      BY <1>0 DEF TypeOK, Election
    <3>2. Majority(election'[i].votes) /\ election'[i].term = currentTerm[i]
      BY <1>0, <1>1, <1>2, <1>7, <3>1 DEF ElectedByMajority, Majority
    <3>3. \A v \in election'[i].votes :
            [voter |-> v, term |-> currentTerm[i], candidate |-> i] \in Votes'
      BY <1>0, <3>2 DEF Votes
    <3> QED
      BY <1>2, <3>1, <3>2, <3>3 DEF Backed, OldVotes
  <2>2. \A s \in Server : state'[s] = "Leader" => s = i \/ state[s] = "Leader"
    BY <1>3
  <2>3. \A s \in Server : matchIndex'[s] = IF s = i THEN [j \in Server |-> 0] ELSE matchIndex[s]
    <3>1. state[i] # "Leader" /\ state[i] \in Roles
      BY <1>0 DEF Counting, TypeOK
    <3>2. matchIndex' = [matchIndex EXCEPT ![i] = [j \in Server |-> 0]]
      BY <1>0, <1>7, <3>1 DEF Tally, TypeOK
    <3> QED
      BY <1>0, <3>2 DEF TypeOK
  <2> QED
    BY <1>1, <1>2, <1>4, <1>5, <2>1, <2>2, <2>3 DEF Wins
<1> QED
  BY <1>6, <1>7

\* The receiver of m answers a request for its vote.
Casts(m) ==
    /\ m.type = "RV" /\ m.term <= currentTerm'[m.dst]
    /\ OldLeaders /\ OldCounting /\ OldTallies /\ NoLogStep
    /\ \A w \in Votes' : \/ w \in Votes
                         \/ /\ UpToDate(m.dst, m)
                            /\ w = [voter |-> m.dst, term |-> m.term, candidate |-> m.src]

\* The receiver of m has stored what m carries.
Accepted(m) ==
    /\ m.type = "AE" /\ m.term >= currentTerm[m.dst]
    /\ Follow(m.dst, m.term) /\ PrevMatches(m.dst, m)
    /\ \/ m.entries = <<>> /\ log' = log /\ Informed(m.dst, m)
       \/ m.entries # <<>> /\ End(m) <= commitIndex[m.dst] + 1 /\ UNCHANGED <<log, commitIndex>>
       \/ m.entries # <<>> /\ Spliced(m.dst, m, Cut(m.dst, m)) /\ Informed(m.dst, m)
    /\ Reply(m, AEReply(m, m.term, TRUE, 0, 0, 0))
    /\ UNCHANGED leaderVars /\ NoElectionStep

\* The sender of m learns that its entries are stored.
Acknowledged(m) ==
    /\ m.type = "AEReply" /\ AppendEntriesSucceeded(m.src, m) /\ rpcs' = rpcs \ {m}
    /\ UNCHANGED commitIndex

\* Leader i finds a new median.
Commits(i) ==
    /\ state[i] = "Leader" /\ InLog(i, Median(i)) /\ Committable(i, Median(i))
    /\ commitIndex' = [commitIndex EXCEPT ![i] = Median(i)]
    /\ UNCHANGED <<currentTerm, state, election, log, matchIndex, rpcs>>

LEMMA SameLogs ==
    ASSUME UNCHANGED <<log, matchIndex, commitIndex>>, rpcs' \subseteq rpcs
    PROVE  NoLogStep
  BY RemoveNoNew DEF NoLogStep, OldMatch, OldCommits, OldCalls, OldAcks

\* An answer that acknowledges nothing.
LEMMA AnswerLogs ==
    ASSUME UNCHANGED <<log, matchIndex, commitIndex>>, NEW m \in rpcs,
           \/ \E rt, xt, xi, xl : Reply(m, AEReply(m, rt, FALSE, xt, xi, xl))
           \/ \E rt : Reply(m, ISReply(m, rt))
           \/ \E rt, g : VoteReply(m, rt, g)
    PROVE  NoLogStep
<1>1. OldCalls
  BY AnswerNoNew DEF OldCalls
<1>2. OldAcks
  BY DEF OldAcks, Reply, VoteReply, AEReply, ISReply
<1> QED
  BY <1>1, <1>2 DEF NoLogStep, OldMatch, OldCommits

LEMMA RequestVoteKind ==
    ASSUME TypeOK, NEW m \in rpcs, RequestVote(m.dst, m)
    PROVE  Casts(m)
<1> DEFINE i == m.dst
<1>0. /\ i \in Server /\ m.term \in Nat /\ m.type = "RV"
      /\ UNCHANGED <<log, matchIndex, commitIndex>>
  BY VoteMessage DEF RequestVote, RequestVoteStale, RequestVoteSameTerm, RequestVoteNewTerm,
                     leaderVars, persistent
<1>1. PICK rt, g : g \in BOOLEAN /\ VoteReply(m, rt, g) /\ (g => UpToDate(i, m))
  <2>1. CASE RequestVoteStale(i, m)
    BY <2>1 DEF RequestVoteStale
  <2>2. CASE RequestVoteSameTerm(i, m)
    <3>1. (UpToDate(i, m) /\ VoteFree(i, m)) \in BOOLEAN
      BY DEF UpToDate, VoteFree
    <3> QED
      BY <2>2, <3>1 DEF RequestVoteSameTerm
  <2>3. CASE RequestVoteNewTerm(i, m)
    <3>1. UpToDate(i, m) \in BOOLEAN
      BY DEF UpToDate
    <3> QED
      BY <2>3, <3>1 DEF RequestVoteNewTerm
  <2> QED
    BY <2>1, <2>2, <2>3 DEF RequestVote
<1>2. NoLogStep
  BY <1>0, <1>1, AnswerLogs
<1>3. \/ UNCHANGED <<state, currentTerm, election>> /\ m.term <= currentTerm[i]
      \/ /\ currentTerm' = [currentTerm EXCEPT ![i] = m.term]
         /\ state' = [state EXCEPT ![i] = "Follower"]
         /\ election' = [election EXCEPT ![i] = NoElection]
  <2>1. CASE RequestVoteStale(i, m)
    <3>1. PICK t \in Nat, u \in Nat : t = m.term /\ u = currentTerm[i]
      BY <1>0, LocalType
    <3> QED
      BY <2>1, <3>1 DEF RequestVoteStale, persistent
  <2>2. CASE RequestVoteSameTerm(i, m)
    <3>1. PICK t \in Nat, u \in Nat : t = m.term /\ u = currentTerm[i]
      BY <1>0, LocalType
    <3> QED
      BY <2>2, <3>1 DEF RequestVoteSameTerm
  <2>3. CASE RequestVoteNewTerm(i, m)
    BY <2>3 DEF RequestVoteNewTerm, TermMoved
  <2> QED
    BY <2>1, <2>2, <2>3 DEF RequestVote
<1>4. \A c \in Server :
        \/ /\ state'[c] = state[c] /\ currentTerm'[c] = currentTerm[c]
           /\ election'[c] = election[c]
        \/ state'[c] # "Leader" /\ election'[c].votes = {}
  <2>1. CASE UNCHANGED <<state, currentTerm, election>>
    BY <2>1
  <2>2. CASE /\ currentTerm' = [currentTerm EXCEPT ![i] = m.term]
             /\ state' = [state EXCEPT ![i] = "Follower"]
             /\ election' = [election EXCEPT ![i] = NoElection]
    <3>1. state'[i] # "Leader" /\ election'[i].votes = {}
      BY <1>0, <2>2 DEF TypeOK, NoElection
    <3>2. \A c \in Server : c # i => /\ state'[c] = state[c] /\ currentTerm'[c] = currentTerm[c]
                                     /\ election'[c] = election[c]
      BY <2>2 DEF TypeOK
    <3> QED
      BY <3>1, <3>2
  <2> QED
    BY <1>3, <2>1, <2>2
<1>5. m.term <= currentTerm'[i]
  <2>1. CASE UNCHANGED currentTerm /\ m.term <= currentTerm[i]
    BY <2>1
  <2>2. CASE currentTerm' = [currentTerm EXCEPT ![i] = m.term]
    <3>1. currentTerm'[i] = m.term
      BY <1>0, <2>2 DEF TypeOK
    <3> QED
      BY <1>0, <3>1
  <2> QED
    BY <1>3, <2>1, <2>2
<1>6. OldLeaders /\ OldTallies
  BY <1>4 DEF OldLeaders, OldTallies
<1>7. OldCounting
  BY <1>4 DEF OldCounting, Counting
<1>8. ASSUME NEW w \in Votes', w \notin Votes
      PROVE  UpToDate(i, m) /\ w = [voter |-> i, term |-> m.term, candidate |-> m.src]
  <2>1. CASE \E r \in rpcs' : /\ r.type = "RVReply" /\ r.granted
                              /\ w = [voter |-> r.dst, term |-> r.term, candidate |-> r.src]
    <3>1. PICK r \in rpcs' : /\ r.type = "RVReply" /\ r.granted
                             /\ w = [voter |-> r.dst, term |-> r.term, candidate |-> r.src]
      BY <2>1
    <3>2. r \notin rpcs
      BY <1>8, <3>1, VotesMember
    <3>3. r = [type |-> "RVReply", src |-> m.src, dst |-> m.dst, term |-> m.term,
               rterm |-> rt, granted |-> g]
      BY <1>1, <3>1, <3>2 DEF VoteReply
    <3> QED
      BY <1>1, <3>1, <3>3
  <2>2. CASE \E c \in Server : \E j \in election'[c].votes :
               w = [voter |-> j, term |-> election'[c].term, candidate |-> c]
    BY <1>4, <1>8, <2>2, VotesMember
  <2> QED
    BY <1>8, <2>1, <2>2 DEF Votes
<1> QED
  BY <1>0, <1>2, <1>5, <1>6, <1>7, <1>8 DEF Casts

LEMMA AppendEntriesKind ==
    ASSUME Calm, TypeOK, TypeOK', VotesSound, CallsElected, Plain,
           NEW m \in rpcs, AppendEntries(m.dst, m)
    PROVE  (NoElectionStep /\ NoLogStep) \/ Accepted(m)
<1> DEFINE i == m.dst
<1>0. /\ i \in Server /\ m.type = "AE" /\ UNCHANGED leaderVars /\ NoVoteReply
      /\ UNCHANGED matchIndex /\ snapshotIndex[i] = 0
  BY VoteMessage, AppendEntriesNoVote DEF AppendEntries, leaderVars, Plain
<1>1. CASE AppendEntriesStale(i, m)
  <2>1. NoElectionStep
    BY <1>0, <1>1, SameElection DEF AppendEntriesStale, persistent
  <2>2. NoLogStep
    BY <1>0, <1>1, AnswerLogs DEF AppendEntriesStale, persistent
  <2> QED
    BY <2>1, <2>2
<1>2. ASSUME m.term >= currentTerm[i], Follow(i, m.term)
      PROVE  NoElectionStep
  BY <1>0, <1>2, FollowQuiet
<1>3. CASE AppendEntriesRefuse(i, m)
  <2>1. NoElectionStep /\ UNCHANGED <<log, commitIndex>>
    BY <1>2, <1>3 DEF AppendEntriesRefuse
  <2>2. rpcs' \subseteq rpcs \/ \E rt, xt, xi, xl : Reply(m, AEReply(m, rt, FALSE, xt, xi, xl))
    BY <1>3 DEF AppendEntriesRefuse
  <2> QED
    BY <1>0, <2>1, <2>2, SameLogs, AnswerLogs
<1>4. CASE AppendEntriesAccept(i, m)
  <2>1. /\ m.term >= currentTerm[i] /\ Follow(i, m.term) /\ PrevMatches(i, m)
        /\ NoElectionStep
    BY <1>2, <1>4 DEF AppendEntriesAccept
  <2>2. CASE m.entries = <<>> /\ log' = log /\ Heartbeat(i, m)
    <3>1. Loglen(i) - 1 = Len(log'[i]) - 1
      BY <1>0, <2>2, LogNumbers DEF Loglen
    <3>2. Informed(i, m)
      BY <2>2, <3>1 DEF Heartbeat, Informed
    <3> QED
      BY <1>0, <2>1, <2>2, <3>2 DEF Accepted, Heartbeat
  <2>3. CASE m.entries # <<>> /\ StoreEntries(i, m)
    <3>1. CASE /\ UNCHANGED <<log, commitIndex>> /\ rpcs' = rpcs \ {m}
      BY <1>0, <2>1, <3>1, SameLogs
    <3>2. CASE /\ UNCHANGED <<log, commitIndex, down>> /\ End(m) <= commitIndex[i] + 1
               /\ Reply(m, AEReply(m, m.term, TRUE, 0, 0, 0))
      BY <1>0, <2>1, <2>3, <3>2 DEF Accepted
    <3>3. CASE /\ Spliced(i, m, Cut(i, m)) /\ Informed(i, m) /\ UNCHANGED down
               /\ Reply(m, AEReply(m, m.term, TRUE, 0, 0, 0))
      BY <1>0, <2>1, <2>3, <3>3 DEF Accepted
    <3> QED
      BY <1>0, <2>3, <3>1, <3>2, <3>3, StoreEntriesSplices
  <2> QED
    BY <1>4, <2>2, <2>3 DEF AppendEntriesAccept, Calm
<1> QED
  BY <1>1, <1>3, <1>4 DEF AppendEntries

LEMMA ReloadKind ==
    ASSUME TypeOK, PersistedInTime, NEW i \in Server, NEW d, Reload(i, d),
           d.log = disk[i].log, d.index = disk[i].index,
           NEW cs \in SUBSET rpcs, rpcs' = CallsAfterStop(i, cs)
    PROVE  NoElectionStep /\ NoLogStep
<1>1. \A m \in rpcs' : \E c \in rpcs : Same(m, c)
  BY DEF CallsAfterStop, Same
<1>2. \A m \in rpcs' : m.type \in {"AEReply", "RVReply"} => m \in rpcs
  BY <1>1, SameFields
<1>3. NoElectionStep
  <2>1. NoVoteReply
    BY <1>2 DEF NoVoteReply
  <2> QED
    BY <2>1, LostElection DEF Reload
<1>4. log' = log /\ commitIndex' = [commitIndex EXCEPT ![i] = 0]
  BY ReloadLog
<1>5. OldCommits
  BY <1>4 DEF OldCommits, TypeOK
<1>6. OldMatch
  BY DEF Reload, OldMatch, TypeOK
<1>7. OldCalls /\ OldAcks
  BY <1>1, <1>2 DEF OldCalls, NoNew, OldAcks
<1> QED
  BY <1>3, <1>4, <1>5, <1>6, <1>7 DEF NoLogStep

LEMMA InstallSnapshotKind ==
    ASSUME TypeOK, VotesSound, CallsElected, Plain, NEW m \in rpcs, InstallSnapshot(m.dst, m)
    PROVE  NoElectionStep /\ NoLogStep
<1> DEFINE i == m.dst
<1>0. /\ i \in Server /\ m.type = "IS" /\ UNCHANGED matchIndex
      /\ \E rt : Reply(m, ISReply(m, rt))
  BY VoteMessage DEF InstallSnapshot, InstallSnapshotStale, InstallSnapshotKnown,
                     InstallSnapshotTake, leaderVars
<1>1. SnapshotKnown(i, m)
  BY <1>0 DEF Plain, SnapshotKnown
<1>2. NoVoteReply
  <2>1. \A rt : ISReply(m, rt).type = "ISReply"
    BY DEF ISReply
  <2> QED
    BY <1>0, <2>1, ReplyNoVote
<1>3. CASE InstallSnapshotStale(i, m)
  BY <1>0, <1>2, <1>3, SameElection, AnswerLogs DEF InstallSnapshotStale, persistent
<1>4. CASE InstallSnapshotKnown(i, m)
  <2>1. NoElectionStep
    BY <1>0, <1>2, <1>4, FollowQuiet DEF InstallSnapshotKnown
  <2>2. NoLogStep
    BY <1>0, <1>4, AnswerLogs DEF InstallSnapshotKnown
  <2> QED
    BY <2>1, <2>2
<1> QED
  BY <1>1, <1>3, <1>4 DEF InstallSnapshot, InstallSnapshotTake

\* Nothing happens but that a call is gone.
LEMMA RemovedKind ==
    ASSUME UNCHANGED <<state, currentTerm, election, log, matchIndex, commitIndex>>,
           rpcs' \subseteq rpcs
    PROVE  NoElectionStep /\ NoLogStep
  BY RemoveNoVote, SameElection, SameLogs

\* Server i steps down.
LEMMA SteppedDownKind ==
    ASSUME TypeOK, NEW i \in Server, NEW t, StepDown(i, t), UNCHANGED <<leaderVars, commitIndex>>,
           rpcs' \subseteq rpcs
    PROVE  NoElectionStep /\ NoLogStep
<1>1. NoElectionStep
  BY RemoveNoVote, LostElection DEF StepDown, TermMoved
<1>2. NoLogStep
  BY SameLogs DEF StepDown, leaderVars
<1> QED
  BY <1>1, <1>2

LEMMA VoteAnswerKind ==
    ASSUME TypeOK, TypeOK', VotesSound, NEW m \in rpcs,
           HandleVoteReply(m.src, m) \/ LoseVote(m.src, m)
    PROVE  (NoElectionStep /\ NoLogStep) \/ Wins(m.src)
<1>0. m.src \in Server /\ rpcs' = rpcs \ {m} /\ UNCHANGED commitIndex
  BY VoteMessage DEF HandleVoteReply, LoseVote
<1>1. CASE UNCHANGED <<persistent, state, election, leaderVars>>
  BY <1>0, <1>1, RemovedKind DEF persistent, leaderVars
<1>2. CASE StepDown(m.src, m.rterm) /\ UNCHANGED leaderVars
  BY <1>0, <1>2, SteppedDownKind
<1>3. CASE /\ m.type = "RVReply" /\ Counting(m.src) /\ m.term = currentTerm[m.src]
           /\ Tally(m.src, m, m.granted)
  <2>1. m.granted \in BOOLEAN
    BY <1>3, VoteMessage
  <2> QED
    BY <1>0, <1>3, <2>1, TallyKind
<1>4. CASE Counting(m.src) /\ m.term = currentTerm[m.src] /\ Tally(m.src, m, FALSE)
  BY <1>0, <1>4, TallyKind
<1> QED
  BY <1>1, <1>2, <1>3, <1>4 DEF HandleVoteReply, LoseVote

LEMMA CallAnswerKind ==
    ASSUME TypeOK, Plain, NEW m \in rpcs,
           HandleAppendEntriesReply(m.src, m) \/ HandleInstallSnapshotReply(m.src, m)
    PROVE  (NoElectionStep /\ NoLogStep) \/ Acknowledged(m)
<1> DEFINE i == m.src
<1>0. i \in Server /\ m.dst \in Server /\ rpcs' = rpcs \ {m} /\ UNCHANGED commitIndex
  BY VoteMessage DEF HandleAppendEntriesReply, HandleInstallSnapshotReply
<1>1. CASE m.type = "AEReply" /\ AppendEntriesSucceeded(i, m)
  BY <1>0, <1>1 DEF Acknowledged
<1>2. CASE ReplyOfNewerTerm(i, m)
  BY <1>0, <1>2, SteppedDownKind DEF ReplyOfNewerTerm
<1>3. CASE BackUp(i, m) \/ ReplyIgnored(i, m)
  BY <1>0, <1>3, RemovedKind DEF BackUp, ReplyIgnored, persistent, leaderVars
<1>4. CASE InstallSnapshotDone(i, m)
  <2>1. MaxOf(matchIndex[i][m.dst], snapshotIndex[i]) = matchIndex[i][m.dst]
    <3>1. PICK x \in Nat : x = matchIndex[i][m.dst]
      BY <1>0 DEF TypeOK
    <3>2. snapshotIndex[i] = 0
      BY <1>0 DEF Plain
    <3> QED
      BY <3>1, <3>2 DEF MaxOf
  <2>2. UNCHANGED matchIndex
    BY <1>0, <1>4, <2>1 DEF InstallSnapshotDone, TypeOK
  <2> QED
    BY <1>0, <1>4, <2>2, RemovedKind DEF InstallSnapshotDone, persistent
<1> QED
  BY <1>1, <1>2, <1>3, <1>4 DEF HandleAppendEntriesReply, HandleInstallSnapshotReply

\* What a step may do to elections and logs.
StepKind ==
    \/ NoElectionStep /\ NoLogStep
    \/ \E i \in Server : \/ StartElection(i) \/ Wins(i) \/ Commits(i)
                         \/ \E c \in Command : Start(i, c)
                         \/ \E j \in Server : GetVote(i, j) \/ SendAppendEntries(i, j)
    \/ \E m \in rpcs : Casts(m) \/ Accepted(m) \/ Acknowledged(m)

LEMMA StepKinds ==
    ASSUME Calm, TypeOK, TypeOK', VotesSound, PersistedInTime, Plain, inside = {},
           CallsElected, [Next]_vars
    PROVE  StepKind
<1>1. ASSUME NEW i \in Server, AbortElection(i)
      PROVE  NoElectionStep /\ NoLogStep
  <2>1. /\ currentTerm' = [currentTerm EXCEPT ![i] = currentTerm[i]]
        /\ rpcs' = rpcs /\ UNCHANGED <<log, matchIndex, commitIndex>>
    BY <1>1 DEF AbortElection, persistent, leaderVars, TypeOK
  <2> QED
    BY <1>1, <2>1, RemoveNoVote, LostElection, SameLogs DEF AbortElection
<1>2. ASSUME NEW i \in Server, AdvanceCommit(i)
      PROVE  (NoElectionStep /\ NoLogStep) \/ Commits(i)
  <2>1. CASE UNCHANGED commitIndex
    BY <1>2, <2>1, RemovedKind DEF AdvanceCommit, persistent, leaderVars
  <2>2. CASE InLog(i, Median(i)) /\ Committable(i, Median(i))
             /\ commitIndex' = [commitIndex EXCEPT ![i] = Median(i)]
    BY <1>2, <2>2 DEF AdvanceCommit, Commits, persistent, leaderVars
  <2> QED
    BY <1>2, <2>1, <2>2 DEF AdvanceCommit
<1>3. ASSUME NEW i \in Server, Restart(i)
      PROVE  NoElectionStep /\ NoLogStep
  <2>1. rpcs \in SUBSET rpcs
    OBVIOUS
  <2> QED
    BY <1>3, <2>1, ReloadKind DEF Restart
<1>4. ASSUME NEW m \in rpcs, RestartInHandler(m.dst, m)
      PROVE  NoElectionStep /\ NoLogStep
  <2>1. rpcs \ {m} \in SUBSET rpcs /\ rpcs' = CallsAfterStop(m.dst, rpcs \ {m})
    BY <1>4 DEF RestartInHandler
  <2> QED
    BY <1>4, <2>1, HalfSavedLog, ReloadKind, VoteMessage
<1>5. ASSUME NEW i \in Server, NEW j \in Server, SendInstallSnapshot(i, j)
      PROVE  NoElectionStep /\ NoLogStep
  <2>1. NoVoteReply /\ OldCalls /\ OldAcks
    BY <1>5 DEF SendInstallSnapshot, NoVoteReply, OldCalls, NoNew, Same, OldAcks
  <2>2. UNCHANGED <<state, currentTerm, election, log, matchIndex, commitIndex>>
    BY <1>5 DEF SendInstallSnapshot, persistent
  <2> QED
    BY <2>1, <2>2, SameElection DEF NoLogStep, OldMatch, OldCommits
<1>6. ASSUME NEW m \in rpcs, AppendEntriesResume(m.dst, m) \/ Timeout(m)
      PROVE  FALSE
  BY <1>6 DEF AppendEntriesResume, Timeout, Calm
<1>7. ASSUME NEW m \in rpcs, Lose(m)
      PROVE  NoElectionStep /\ NoLogStep
  BY <1>7, RemovedKind DEF Lose, persistent, leaderVars
<1>8. CASE UNCHANGED vars
  BY <1>8, RemovedKind DEF vars, StepKind
<1>9. ASSUME NEW m \in rpcs, RequestVote(m.dst, m)
      PROVE  Casts(m)
  BY <1>9, RequestVoteKind
<1>10. ASSUME NEW m \in rpcs, AppendEntries(m.dst, m)
       PROVE  (NoElectionStep /\ NoLogStep) \/ Accepted(m)
  BY <1>10, AppendEntriesKind
<1>11. ASSUME NEW m \in rpcs, InstallSnapshot(m.dst, m)
       PROVE  NoElectionStep /\ NoLogStep
  BY <1>11, InstallSnapshotKind
<1>12. ASSUME NEW m \in rpcs, HandleVoteReply(m.src, m) \/ LoseVote(m.src, m)
       PROVE  \/ NoElectionStep /\ NoLogStep
              \/ \E i \in Server : Wins(i)
  BY <1>12, VoteAnswerKind, VoteMessage
<1>13. ASSUME NEW m \in rpcs,
              HandleAppendEntriesReply(m.src, m) \/ HandleInstallSnapshotReply(m.src, m)
       PROVE  (NoElectionStep /\ NoLogStep) \/ Acknowledged(m)
  BY <1>13, CallAnswerKind
<1>14. CASE Next
  BY <1>1, <1>2, <1>3, <1>4, <1>5, <1>6, <1>7, <1>9, <1>10, <1>11, <1>12, <1>13, <1>14
     DEF Next, StepKind, Calm
<1> QED
  BY <1>8, <1>14

-----------------------------------------------------------------------------
(* The calls of sendAppendEntries.                                         *)

OldAsked == \A m \in rpcs' : m.type = "RV" => m \in rpcs

LEMMA OldCallsAsked ==
    ASSUME TypeOK, OldCalls
    PROVE  OldAsked
  BY SameFields DEF OldCalls, NoNew, OldAsked

LEMMA GetVoteElection ==
    ASSUME TypeOK, NEW i \in Server, NEW j \in Server, GetVote(i, j)
    PROVE  NoElectionStep
<1>1. NoVoteReply
  BY DEF GetVote, NoVoteReply
<1>2. UNCHANGED <<state, currentTerm>>
  BY DEF GetVote, persistent
<1>3. \A c \in Server : /\ election'[c].votes = election[c].votes
                        /\ election'[c].term = election[c].term
  <2>1. election[i] \in Election /\ election'[i] = [election[i] EXCEPT !.asked = election[i].asked \cup {j}]
    BY DEF GetVote, TypeOK
  <2>2. election'[i].votes = election[i].votes /\ election'[i].term = election[i].term
    BY <2>1 DEF Election
  <2>3. \A c \in Server : c # i => election'[c] = election[c]
    BY DEF GetVote, TypeOK
  <2> QED
    BY <2>2, <2>3
<1> QED
  BY <1>1, <1>2, <1>3, QuietElection

\* What a step may do to elections.
LEMMA ElectionKinds ==
    ASSUME TypeOK, StepKind
    PROVE  \/ NoElectionStep /\ OldAsked
           \/ \E i \in Server : StartElection(i) \/ Wins(i) \/ \E j \in Server : GetVote(i, j)
           \/ \E m \in rpcs : Casts(m)
<1>1. CASE NoElectionStep /\ NoLogStep
  BY <1>1, OldCallsAsked DEF NoLogStep
<1>2. ASSUME NEW i \in Server, Commits(i) \/ \E c \in Command : Start(i, c)
      PROVE  NoElectionStep /\ OldAsked
  BY <1>2, SameElection DEF Commits, Start, OldAsked, NoVoteReply
<1>3. ASSUME NEW i \in Server, NEW j \in Server, SendAppendEntries(i, j)
      PROVE  NoElectionStep /\ OldAsked
  BY <1>3, SameElection DEF SendAppendEntries, OldAsked, NoVoteReply, persistent
<1>4. ASSUME NEW m \in rpcs, Accepted(m)
      PROVE  NoElectionStep /\ OldAsked
  BY <1>4 DEF Accepted, Reply, AEReply, OldAsked
<1>5. ASSUME NEW m \in rpcs, Acknowledged(m)
      PROVE  NoElectionStep /\ OldAsked
  BY <1>5, SameElection, RemoveNoVote DEF Acknowledged, AppendEntriesSucceeded, persistent, OldAsked
<1> QED
  BY <1>1, <1>2, <1>3, <1>4, <1>5 DEF StepKind

\* What a step may do to the roles of servers, with snapshots too.
RoleKind ==
    \/ NoElectionStep
    \/ \E i \in Server : StartElection(i) \/ Wins(i)
    \/ \E m \in rpcs : Casts(m)

LEMMA RoleKinds ==
    ASSUME LateDelivery = FALSE, TypeOK, TypeOK', VotesSound, inside = {}, CallsElected, [Next]_vars
    PROVE  RoleKind
<1>1. ASSUME NEW i \in Server, AbortElection(i)
      PROVE  NoElectionStep
  <2>1. /\ currentTerm' = [currentTerm EXCEPT ![i] = currentTerm[i]] /\ rpcs' = rpcs
    BY <1>1 DEF AbortElection, persistent, TypeOK
  <2> QED
    BY <1>1, <2>1, RemoveNoVote, LostElection DEF AbortElection
<1>2. ASSUME NEW i \in Server,
             \/ AdvanceCommit(i) \/ \E c \in Command : Start(i, c)
             \/ \E index \in SnapshotAt : Snapshot(i, index)
      PROVE  NoElectionStep
  BY <1>2, RemoveNoVote, SameElection DEF AdvanceCommit, Start, Snapshot, persistent
<1>3. ASSUME NEW i \in Server, NEW j \in Server, SendAppendEntries(i, j) \/ SendInstallSnapshot(i, j)
      PROVE  NoElectionStep
  BY <1>3, SameElection DEF SendAppendEntries, SendInstallSnapshot, NoVoteReply, persistent
<1>4. ASSUME NEW i \in Server, NEW d, Reload(i, d), NEW cs \in SUBSET rpcs,
             rpcs' = CallsAfterStop(i, cs)
      PROVE  NoElectionStep
  <2>1. \A m \in rpcs' : \E c \in rpcs : Same(m, c)
    BY <1>4 DEF CallsAfterStop, Same
  <2>2. NoVoteReply
    BY <2>1, SameFields DEF NoVoteReply
  <2> QED
    BY <1>4, <2>2, LostElection DEF Reload
<1>5. ASSUME NEW i \in Server, Restart(i)
      PROVE  NoElectionStep
  BY <1>4, <1>5 DEF Restart
<1>6. ASSUME NEW m \in rpcs, RestartInHandler(m.dst, m)
      PROVE  NoElectionStep
  BY <1>4, <1>6, VoteMessage DEF RestartInHandler
<1>7. ASSUME NEW m \in rpcs, HandleVoteReply(m.src, m) \/ LoseVote(m.src, m)
      PROVE  NoElectionStep \/ Wins(m.src)
  BY <1>7, VoteAnswerKind
<1>8. ASSUME NEW m \in rpcs, AppendEntries(m.dst, m)
      PROVE  NoElectionStep
  <2>1. NoVoteReply /\ m.type = "AE"
    BY <1>8, VoteMessage, AppendEntriesNoVote DEF AppendEntries
  <2>2. CASE AppendEntriesStale(m.dst, m)
    BY <2>1, <2>2, SameElection DEF AppendEntriesStale, persistent
  <2>3. CASE m.term >= currentTerm[m.dst] /\ Follow(m.dst, m.term)
    BY <2>1, <2>3, FollowQuiet
  <2> QED
    BY <1>8, <2>2, <2>3 DEF AppendEntries, AppendEntriesRefuse, AppendEntriesAccept
<1>9. ASSUME NEW m \in rpcs, InstallSnapshot(m.dst, m)
      PROVE  NoElectionStep
  <2>1. /\ m.type = "IS" /\ \E rt : Reply(m, ISReply(m, rt))
        /\ \A rt : ISReply(m, rt).type = "ISReply"
    BY <1>9 DEF InstallSnapshot, InstallSnapshotStale, InstallSnapshotKnown, InstallSnapshotTake,
                ISReply
  <2>2. NoVoteReply
    BY <2>1, ReplyNoVote
  <2>3. CASE InstallSnapshotStale(m.dst, m)
    BY <2>2, <2>3, SameElection DEF InstallSnapshotStale, persistent
  <2>4. CASE m.term >= currentTerm[m.dst] /\ Follow(m.dst, m.term)
    BY <2>1, <2>2, <2>4, FollowQuiet
  <2> QED
    BY <1>9, <2>3, <2>4 DEF InstallSnapshot, InstallSnapshotKnown, InstallSnapshotTake
<1>10. ASSUME NEW m \in rpcs,
              HandleAppendEntriesReply(m.src, m) \/ HandleInstallSnapshotReply(m.src, m)
       PROVE  NoElectionStep
  <2>1. m.src \in Server /\ rpcs' = rpcs \ {m} /\ NoVoteReply
    BY <1>10, VoteMessage, RemoveNoVote DEF HandleAppendEntriesReply, HandleInstallSnapshotReply
  <2>2. CASE ReplyOfNewerTerm(m.src, m)
    BY <2>1, <2>2, LostElection DEF ReplyOfNewerTerm, StepDown, TermMoved
  <2>3. CASE UNCHANGED <<persistent, state, election>>
    BY <2>1, <2>3, SameElection DEF persistent
  <2> QED
    BY <1>10, <2>2, <2>3 DEF HandleAppendEntriesReply, HandleInstallSnapshotReply,
         AppendEntriesSucceeded, BackUp, ReplyIgnored, InstallSnapshotDone
<1>11. ASSUME NEW m \in rpcs, Lose(m)
       PROVE  NoElectionStep
  BY <1>11, RemoveNoVote, SameElection DEF Lose, persistent
<1>12. ASSUME NEW m \in rpcs, AppendEntriesResume(m.dst, m) \/ Timeout(m)
       PROVE  FALSE
  BY <1>12 DEF AppendEntriesResume, Timeout
<1>13. CASE UNCHANGED vars
  BY <1>13, RemoveNoVote, SameElection DEF vars, RoleKind
<1>14. CASE Next
  BY <1>1, <1>2, <1>3, <1>5, <1>6, <1>7, <1>8, <1>9, <1>10, <1>11, <1>12, <1>14,
     RequestVoteKind, GetVoteElection, VoteMessage DEF Next, RoleKind
<1> QED
  BY <1>13, <1>14

LEMMA StartElectionCounting ==
    ASSUME TypeOK, NEW i \in Server, StartElection(i)
    PROVE  /\ OldLeaders /\ CountingKept /\ currentTerm'[i] = currentTerm[i] + 1
           /\ election'[i].term = currentTerm'[i] /\ election'[i].votes = {i} /\ state'[i] = "Candidate"
           /\ \A c \in Server : c # i => /\ currentTerm'[c] = currentTerm[c]
                                         /\ election'[c] = election[c] /\ state'[c] = state[c]
<1>1. /\ currentTerm'[i] = currentTerm[i] + 1 /\ currentTerm[i] \in Nat /\ state'[i] = "Candidate"
      /\ election'[i].term = currentTerm[i] + 1 /\ election'[i].votes = {i}
  BY DEF StartElection, TypeOK
<1>2. \A c \in Server : c # i => /\ currentTerm'[c] = currentTerm[c]
                                 /\ election'[c] = election[c] /\ state'[c] = state[c]
  BY DEF StartElection, TypeOK
<1>3. CountingKept
  BY <1>1, <1>2 DEF CountingKept, Counting
<1> QED
  BY <1>1, <1>2, <1>3 DEF OldLeaders

LEMMA CountingStep ==
    ASSUME TypeOK, RoleKind
    PROVE  CountingKept
<1>1. CASE OldCounting
  BY <1>1 DEF OldCounting, CountingKept
<1>2. ASSUME NEW i \in Server, StartElection(i)
      PROVE  CountingKept
  BY <1>2, StartElectionCounting
<1> QED
  BY <1>1, <1>2 DEF RoleKind, NoElectionStep, Wins, Casts

\* The votes after StartElection.
LEMMA StartElectionVoters ==
    ASSUME TypeOK, NEW i \in Server, StartElection(i), NEW w \in Votes', w \notin Votes
    PROVE  w = [voter |-> i, term |-> currentTerm'[i], candidate |-> i]
<1>1. ASSUME NEW m \in rpcs', m.type = "RVReply", m.granted,
             w = [voter |-> m.dst, term |-> m.term, candidate |-> m.src]
      PROVE  FALSE
  <2>1. m \in rpcs
    BY DEF StartElection
  <2> QED
    BY <1>1, <2>1, VotesMember
<1>2. ASSUME NEW c \in Server, NEW j \in election'[c].votes,
             w = [voter |-> j, term |-> election'[c].term, candidate |-> c]
      PROVE  w = [voter |-> i, term |-> currentTerm'[i], candidate |-> i]
  <2>1. CASE c = i
    BY <1>2, <2>1, StartElectionCounting
  <2>2. CASE c # i
    BY <1>2, <2>2, StartElectionCounting, VotesMember
  <2> QED
    BY <2>1, <2>2
<1> QED
  BY <1>1, <1>2 DEF Votes

\* The call that leader i makes to server j.
Sent(i, j) ==
    [type |-> "AE", src |-> i, dst |-> j, term |-> currentTerm[i],
     prev |-> Next1(i, j) - 1, prevTerm |-> At(i, Next1(i, j) - 1).term,
     entries |-> EntriesFrom(i, Next1(i, j)), commit |-> commitIndex[i], live |-> TRUE]

LEMMA SentCall ==
    ASSUME NEW i \in Server, NEW j \in Server, SendAppendEntries(i, j)
    PROVE  MaySend(i, j) /\ rpcs' = rpcs \cup {Sent(i, j)}
  BY DEF SendAppendEntries, Sent

LEMMA CallsElectedStep ==
    ASSUME LateDelivery = FALSE, TypeOK, TypeOK', VotesSound, inside = {}, CallsElected, OneCall, CallsLive,
           VoteKept, NewVotesCast, CountingKept, [Next]_vars
    PROVE  CallsElected' /\ OneCall'
<1>0. ASSUME NEW s, NEW t \in Nat, Elected(s, t)
      PROVE  Elected(s, t)'
  BY <1>0, ElectedKept
<1>1. CASE KeptCalls
  <2>1. ASSUME NEW m \in rpcs', IsCall(m)
        PROVE  Elected(m.src, m.term)' /\ m.src # m.dst
    <3>1. PICK c \in rpcs : IsCall(c) /\ SameKey(m, c)
      BY <1>1, <2>1 DEF KeptCalls
    <3>2. Elected(c.src, c.term)' /\ c.src # c.dst
      BY <1>0, <3>1, VoteMessage DEF CallsElected
    <3> QED
      BY <3>1, <3>2 DEF SameKey
  <2>2. ASSUME NEW m \in rpcs', NEW n \in rpcs', IsCall(m), IsCall(n), m.term = n.term
        PROVE  m.src = n.src /\ (m.dst = n.dst => m = n)
    <3>1. PICK c \in rpcs, d \in rpcs : /\ IsCall(c) /\ IsCall(d) /\ SameKey(m, c) /\ SameKey(n, d)
                                        /\ c = d => m = n
      BY <1>1, <2>2 DEF KeptCalls
    <3> QED
      BY <2>2, <3>1 DEF SameKey, OneCall
  <2> QED
    BY <2>1, <2>2 DEF CallsElected, OneCall, IsCall
<1>2. ASSUME NEW i \in Server, NEW j \in Server, MaySend(i, j), NEW r, rpcs' = rpcs \cup {r},
             r.src = i, r.dst = j, r.term = currentTerm[i]
      PROVE  CallsElected' /\ OneCall'
  <2>1. PICK t \in Nat : t = currentTerm[i] /\ Elected(i, t)' /\ i # j
    <3>1. PICK t \in Nat : t = currentTerm[i]
      BY LocalType
    <3>2. Elected(i, t)
      BY <1>2, <3>1, LeaderElected DEF MaySend
    <3>3. Elected(i, t)'
      BY <1>0, <3>2
    <3> QED
      BY <1>2, <3>1, <3>3 DEF MaySend
  <2>2. ASSUME NEW m \in rpcs', IsCall(m)
        PROVE  Elected(m.src, m.term)' /\ m.src # m.dst
    <3>1. CASE m = r
      BY <1>2, <2>1, <3>1
    <3>2. CASE m \in rpcs
      BY <1>0, <2>2, <3>2, VoteMessage DEF CallsElected
    <3> QED
      BY <1>2, <3>1, <3>2
  <2>3. ASSUME NEW n \in rpcs, IsCall(n), n.term = currentTerm[i]
        PROVE  n.src = i /\ n.dst # j
    <3>1. n.src = i
      BY <1>2, <2>3, NoRival DEF MaySend
    <3>2. n.type \in {"AE", "IS"} => n.live = TRUE
      BY <1>2, <2>3, <3>1 DEF CallsLive, MaySend
    <3> QED
      BY <1>2, <2>3, <3>1, <3>2 DEF MaySend, Awaited, IsCall
  <2>4. OneCall'
    BY <1>2, <2>3 DEF OneCall, IsCall
  <2>5. CallsElected'
    BY <2>2 DEF CallsElected, IsCall
  <2> QED
    BY <2>4, <2>5
<1>3. ASSUME NEW i \in Server, NEW j \in Server,
             SendAppendEntries(i, j) \/ SendInstallSnapshot(i, j)
      PROVE  CallsElected' /\ OneCall'
  <2>1. PICK r : /\ MaySend(i, j) /\ rpcs' = rpcs \cup {r}
                 /\ r.src = i /\ r.dst = j /\ r.term = currentTerm[i]
    <3>1. CASE SendAppendEntries(i, j)
      <4>1. MaySend(i, j) /\ rpcs' = rpcs \cup {Sent(i, j)}
        BY <3>1, SentCall
      <4>2. Sent(i, j).src = i /\ Sent(i, j).dst = j /\ Sent(i, j).term = currentTerm[i]
        BY DEF Sent
      <4> QED
        BY <4>1, <4>2
    <3>2. CASE SendInstallSnapshot(i, j)
      <4> DEFINE r == [type |-> "IS", src |-> i, dst |-> j, term |-> currentTerm[i],
                       lastIndex |-> snapshotIndex[i], lastTerm |-> snapshotTerm[i],
                       data |-> snapshotByte[i], live |-> TRUE]
      <4>1. MaySend(i, j) /\ rpcs' = rpcs \cup {r}
        BY <3>2 DEF SendInstallSnapshot
      <4>2. r.src = i /\ r.dst = j /\ r.term = currentTerm[i]
        OBVIOUS
      <4> HIDE DEF r
      <4> QED
        BY <4>1, <4>2
    <3> QED
      BY <1>3, <3>1, <3>2
  <2> QED
    BY <1>2, <2>1
<1> QED
  BY <1>1, <1>3, CallsKept

LEMMA CallsLiveStep ==
    ASSUME LateDelivery = FALSE, TypeOK, TypeOK', VotesSound, inside = {}, CallsElected, CallsLive,
           RoleKind, [Next]_vars
    PROVE  CallsLive'
<1>1. ASSUME NEW m \in rpcs', m.type \in {"AE", "IS"}, m \notin rpcs, state'[m.src] = "Leader"
      PROVE  m.live = TRUE
  <2>1. PICK i \in Server, j \in Server : SendAppendEntries(i, j) \/ SendInstallSnapshot(i, j)
    BY <1>1, CallsKept DEF KeptLive
  <2> QED
    BY <1>1, <2>1 DEF SendAppendEntries, SendInstallSnapshot
<1>2. ASSUME NEW m \in rpcs, m.type \in {"AE", "IS"}, state'[m.src] = "Leader",
             currentTerm'[m.src] = m.term
      PROVE  m.live = TRUE
  <2>0. m.src \in Server /\ IsCall(m)
    BY <1>2, VoteMessage DEF IsCall
  <2>1. CASE OldLeaders
    BY <1>2, <2>0, <2>1 DEF OldLeaders, CallsLive
  <2>2. ASSUME NEW i \in Server, Wins(i)
        PROVE  m.live = TRUE
    <3>1. currentTerm[m.src] = m.term
      BY <1>2, <2>2 DEF Wins
    <3>2. m.src # i
      BY <2>0, <2>2, <3>1 DEF CallsElected, Elected, Wins
    <3>3. state[m.src] = "Leader"
      BY <1>2, <2>0, <2>2, <3>2 DEF Wins
    <3> QED
      BY <1>2, <3>1, <3>3 DEF CallsLive
  <2> QED
    BY <2>1, <2>2, StartElectionCounting DEF RoleKind, NoElectionStep, Casts
<1> QED
  BY <1>1, <1>2 DEF CallsLive

LEMMA VotesOwnStep ==
    ASSUME TypeOK, TypeOK', VotesOwn, VoteKept, StepKind
    PROVE  VotesOwn'
<1>0. \A v \in Server : currentTerm[v] \in Nat /\ currentTerm'[v] \in Nat
                         /\ currentTerm'[v] >= currentTerm[v]
  BY DEF TypeOK, VoteKept
<1>1. \A i \in Server : election'[i].votes # {} => election'[i].term > 0
  <2>1. CASE OldTallies
    BY <2>1 DEF OldTallies, VotesOwn
  <2>2. ASSUME NEW i \in Server, StartElection(i)
        PROVE  \A c \in Server : election'[c].votes # {} => election'[c].term > 0
    BY <1>0, <2>2, StartElectionCounting DEF VotesOwn
  <2> QED
    BY <2>1, <2>2, ElectionKinds, GetVoteElection DEF NoElectionStep, Wins, Casts
<1>2. ASSUME NEW w \in Votes'
      PROVE  w.term <= currentTerm'[w.candidate]
  <2>1. CASE w \in Votes
    BY <1>0, <2>1, VotesType DEF VotesOwn
  <2>2. CASE w \notin Votes
    <3>1. ASSUME NEW i \in Server, StartElection(i)
          PROVE  w.term <= currentTerm'[w.candidate]
      BY <1>0, <2>2, <3>1, StartElectionVoters
    <3>2. ASSUME NEW m \in rpcs, Casts(m)
          PROVE  w.term <= currentTerm'[w.candidate]
      <4>1. w.term = m.term /\ w.candidate = m.src /\ m.term <= currentTerm[m.src]
        BY <2>2, <3>2 DEF Casts, VotesOwn
      <4> QED
        BY <1>0, <4>1, VoteMessage
    <3> QED
      BY <2>2, <3>1, <3>2, ElectionKinds, GetVoteElection DEF NoElectionStep, Wins, OldVotes
  <2> QED
    BY <2>1, <2>2
<1>3. ASSUME NEW m \in rpcs', m.type = "RV"
      PROVE  m.term <= currentTerm'[m.src]
  <2>1. CASE m \in rpcs
    BY <1>0, <1>3, <2>1, VoteMessage DEF VotesOwn
  <2>2. ASSUME NEW i \in Server, NEW j \in Server, GetVote(i, j), m \notin rpcs
        PROVE  m.term <= currentTerm'[m.src]
    BY <1>0, <2>2 DEF GetVote
  <2> QED
    BY <1>3, <2>1, <2>2, ElectionKinds, OldCallsAsked
       DEF OldAsked, StartElection, Wins, Casts, NoLogStep
<1> QED
  BY <1>1, <1>2, <1>3 DEF VotesOwn

\* Each step keeps what is known of calls.
LEMMA CallsStep ==
    ASSUME Calm, TypeOK, TypeOK', VotesSound, PersistedInTime, Plain, inside = {}, CallsInv,
           VoteKept, NewVotesCast, [Next]_vars
    PROVE  CallsInv'
<1>1. StepKind /\ RoleKind /\ CountingKept
  BY StepKinds, RoleKinds, CountingStep DEF CallsInv, Calm
<1> QED
  BY <1>1, CallsElectedStep, CallsLiveStep, VotesOwnStep DEF CallsInv, Calm

-----------------------------------------------------------------------------
(* Where entries are.                                                      *)

AECalls == {m \in rpcs : m.type = "AE"}
RVCalls == {m \in rpcs : m.type = "RV"}

\* The part of a log that an AppendEntries call carries; of the entry at
\* PrevLogIndex it has only the term.
View(m) == [p \in Lo(m) .. End(m) |->
              IF p = Lo(m) THEN [term |-> m.prevTerm, cmd |-> Nil]
                           ELSE m.entries[p - Lo(m)]]

Views == {log[i] : i \in Server} \cup {View(m) : m \in AECalls}

TermAt(f, p) == f[p].term

\* A term of which there are entries had a leader.
Known(t) == t = 0 \/ \E s \in Server : Elected(s, t)

TermsInv ==
    /\ \A i \in Server : \A p \in 1 .. Len(log[i]) :
         Known(TermAt(log[i], p)) /\ TermAt(log[i], p) <= currentTerm[i]
    /\ \A m \in AECalls : \A p \in Lo(m) .. End(m) :
         Known(TermAt(View(m), p)) /\ TermAt(View(m), p) <= m.term
    /\ \A m \in RVCalls : Known(m.lastTerm)

\* A leader has all entries of its term, and its calls carry parts of its log.
OwnsTerm(i) ==
    /\ \A f \in Views : \A p \in DOMAIN f : TermAt(f, p) = currentTerm[i] =>
         p <= Len(log[i]) /\ TermAt(log[i], p) = currentTerm[i]
    /\ \A p, q \in 1 .. Len(log[i]) :
         p <= q /\ TermAt(log[i], p) = currentTerm[i] => TermAt(log[i], q) = currentTerm[i]
    /\ \A m \in RVCalls : m.lastTerm = currentTerm[i] => m.lastIndex + 1 <= Len(log[i])

PartOf(m, i) ==
    /\ End(m) <= Len(log[i])
    /\ m.prevTerm = TermAt(log[i], Lo(m))
    /\ \A p \in Lo(m) + 1 .. End(m) : View(m)[p] = log[i][p]

LeaderOwns ==
    \A i \in Server : state[i] = "Leader" =>
      OwnsTerm(i) /\ \A m \in AECalls : m.term = currentTerm[i] => PartOf(m, i)

\* A call has all entries of its term as far as it goes, and goes as far as
\* its receiver has entries of that term.
CallOwns ==
    \A m \in AECalls :
      /\ \A f \in Views : \A p \in DOMAIN f :
           TermAt(f, p) = m.term /\ p <= End(m) => TermAt(View(m), MaxOf(p, Lo(m))) = m.term
      /\ currentTerm[m.dst] <= m.term =>
           \A p \in 1 .. Len(log[m.dst]) : TermAt(log[m.dst], p) = m.term => p <= End(m)

\* nextIndex and matchIndex of a leader, and its one call to each follower.
ProgressInv ==
    \A i \in Server : state[i] = "Leader" =>
      /\ \A j \in Server \ {i} : matchIndex[i][j] + 1 <= Len(log[i])
      /\ \A m \in rpcs : m.src = i /\ m.term = currentTerm[i] =>
           /\ m.type = "AE" => /\ nextIndex[i][m.dst] = Lo(m)
                               /\ matchIndex[i][m.dst] + 1 <= End(m)
           /\ m.type = "AEReply" /\ m.success = TRUE =>
                 /\ m.last + 1 <= Len(log[i])
                 /\ nextIndex[i][m.dst] <= m.last + 1
                 /\ matchIndex[i][m.dst] <= m.last

-----------------------------------------------------------------------------
(* Matching, acknowledgements and commitment.                              *)

\* Two pieces of a log that have the same term somewhere agree before it.
Match(f, g) ==
    \A k \in DOMAIN f \cap DOMAIN g : TermAt(f, k) = TermAt(g, k) =>
      \A h \in DOMAIN f \cap DOMAIN g : h <= k =>
        /\ TermAt(f, h) = TermAt(g, h)
        /\ h - 1 \in DOMAIN f /\ h - 1 \in DOMAIN g => f[h] = g[h]

Sorted(f) == \A p, q \in DOMAIN f : p <= q => TermAt(f, p) <= TermAt(f, q)

Matching ==
    /\ \A f \in Views : Sorted(f)
    /\ \A f, g \in Views : Match(f, g)

\* What j has acknowledged to leader i.
Acks(i, j) ==
    {matchIndex[i][j]} \cup
    {m.last : m \in {r \in rpcs : /\ r.type = "AEReply" /\ r.success = TRUE /\ r.src = i
                                  /\ r.dst = j /\ r.term = currentTerm[i]}}

AckInv ==
    \A i \in Server : state[i] = "Leader" =>
      \A j \in Server \ {i} : \A a \in Acks(i, j) :
        /\ a > 0 => currentTerm[j] >= currentTerm[i]
        /\ currentTerm[j] = currentTerm[i] =>
             a + 1 <= Len(log[j]) /\ \A p \in 1 .. a + 1 : log[j][p] = log[i][p]

HasAt(j, p, T) == p <= Len(log[j]) /\ TermAt(log[j], p) = T

\* An entry of term t at position q comes after one of term T at position p.
Beyond(t, q, p, T) == t > T \/ (t = T /\ q >= p)

\* The entry of term T at position p, which the servers in Q have, is in every
\* log that goes beyond it, in the log of every later leader and in that of
\* every candidate that a server in Q votes for.
Holders(p, T, Q) == \A v \in Q : currentTerm[v] >= T /\ HasAt(v, p, T)

InViews(p, T) ==
    \A f \in Views : \A q \in DOMAIN f :
      Beyond(TermAt(f, q), q, p, T) => p <= q /\ (p \in DOMAIN f => TermAt(f, p) = T)

InLeaders(p, T) ==
    \A s \in Server : state[s] = "Leader" /\ currentTerm[s] > T => HasAt(s, p, T)

InCalls(p, T) ==
    \A m \in AECalls : m.term > T =>
      p <= End(m) /\ TermAt(View(m), MaxOf(p, Lo(m))) >= T

InVoted(p, T, Q) ==
    \A w \in Votes : /\ w.voter \in Q /\ w.term > T
                     /\ Counting(w.candidate) /\ currentTerm[w.candidate] = w.term
                     => HasAt(w.candidate, p, T)

InAsked(p, T) ==
    \A m \in RVCalls : /\ m.term > T /\ Counting(m.src) /\ currentTerm[m.src] = m.term
                       /\ Beyond(m.lastTerm, m.lastIndex + 1, p, T)
                       => HasAt(m.src, p, T)

Secure(p, T, Q) ==
    /\ Holders(p, T, Q) /\ InViews(p, T) /\ InLeaders(p, T) /\ InCalls(p, T)
    /\ InVoted(p, T, Q) /\ InAsked(p, T)

\* The servers that leader i knows, or will learn, to have position p.
AckSet(i, p) == {i} \cup {j \in Server \ {i} : \E a \in Acks(i, j) : a + 1 >= p}

\* Leader i will never know that a majority has position p: the others have
\* left its term.
Blocked(i, p) ==
    \E W \in SUBSET Server : /\ Majority(W) /\ W \cap AckSet(i, p) = {}
                             /\ \A v \in W : currentTerm[v] > currentTerm[i]

LeaderSecure ==
    \A i \in Server : state[i] = "Leader" =>
      \A p \in 1 .. Len(log[i]) : TermAt(log[i], p) = currentTerm[i] =>
        Blocked(i, p) \/ Secure(p, currentTerm[i], AckSet(i, p))

\* What a server considers committed, and what a call says is committed.
CommitInv ==
    /\ \A j \in Server : commitIndex[j] # 0 =>
         \E Q \in SUBSET Server :
           Majority(Q) /\ Secure(commitIndex[j] + 1, TermAt(log[j], commitIndex[j] + 1), Q)
    /\ \A m \in AECalls : m.commit # 0 =>
         /\ m.commit + 1 <= End(m)
         /\ \E T \in 0 .. TermAt(View(m), MaxOf(m.commit + 1, Lo(m))) : \E Q \in SUBSET Server :
              Majority(Q) /\ Secure(m.commit + 1, T, Q)

-----------------------------------------------------------------------------
(* Logs and the parts of them that calls carry.                            *)

\* A position of a view after its first is a position of the entries.
LEMMA OffsetWithin ==
    ASSUME NEW lo \in Nat, NEW len \in Nat, NEW p \in lo + 1 .. lo + len
    PROVE  p - lo \in 1 .. len
  OBVIOUS

\* The first position that is kept when a log of that length is compacted.
LEMMA FirstKept ==
    ASSUME NEW s \in Nat, NEW have \in Nat, NEW k \in Nat, s < k, k <= have + s - 1
    PROVE  k - s + 1 \in Nat /\ k - s + 1 >= 1 /\ k - s + 1 <= have
  OBVIOUS

\* A call that carries the log from a position on ends where the log ends.
LEMMA LastSent ==
    ASSUME NEW n \in Nat, NEW s \in Nat, NEW have \in Nat, NEW from \in Nat, from = n - s + 1
    PROVE  (n - 1) + (have - from + 1) = have + s - 1
  OBVIOUS

LEMMA ViewFacts ==
    ASSUME TypeOK, NEW m \in AECalls
    PROVE  /\ m \in rpcs /\ View(m) \in Views /\ DOMAIN View(m) = Lo(m) .. End(m)
           /\ Lo(m) \in Nat /\ Lo(m) >= 1 /\ End(m) \in Nat /\ End(m) >= Lo(m)
           /\ TermAt(View(m), Lo(m)) = m.prevTerm
           /\ \A p \in Lo(m) + 1 .. End(m) : View(m)[p] = m.entries[p - Lo(m)]
           /\ \A p \in Lo(m) .. End(m) : TermAt(View(m), p) \in Nat
<1>1. m \in rpcs /\ m.type = "AE" /\ View(m) \in Views /\ DOMAIN View(m) = Lo(m) .. End(m)
  BY DEF AECalls, Views, View
<1>2. PICK lo \in Nat, end \in Nat : lo = Lo(m) /\ end = End(m) /\ lo >= 1 /\ end >= lo
  BY <1>1, CallNumbers
<1>3. /\ View(m)[lo] = [term |-> m.prevTerm, cmd |-> Nil]
      /\ \A p \in lo + 1 .. end : View(m)[p] = m.entries[p - lo]
  BY <1>2 DEF View
<1>4. TermAt(View(m), lo) = m.prevTerm /\ m.prevTerm \in Nat
  BY <1>1, <1>3, CallNumbers DEF TermAt
<1>5. ASSUME NEW p \in lo + 1 .. end
      PROVE  TermAt(View(m), p) \in Nat
  <2>1. PICK len \in Nat, prev \in Nat :
               /\ len = Len(m.entries) /\ prev = m.prev /\ m.entries \in Seq(Entry)
               /\ lo = prev + 1 /\ end = prev + 1 + len
    BY <1>1, <1>2, EntriesMessage, LenProperties DEF Lo, End
  <2>2. p - lo \in 1 .. len
    <3>1. end = lo + len
      BY <2>1
    <3> QED
      BY <3>1, OffsetWithin
  <2>3. m.entries[p - lo] \in Entry
    BY <2>1, <2>2, ElementOfSeq
  <2> QED
    BY <1>3, <2>3 DEF TermAt, Entry
<1>6. \A p \in lo .. end : p = lo \/ p \in lo + 1 .. end
  OBVIOUS
<1> QED
  BY <1>1, <1>2, <1>3, <1>4, <1>5, <1>6

LEMMA LogView ==
    ASSUME TypeOK, NEW i \in Server
    PROVE  /\ log[i] \in Views /\ DOMAIN log[i] = 1 .. Len(log[i])
           /\ Len(log[i]) \in Nat /\ Len(log[i]) >= 1
           /\ \A p \in 1 .. Len(log[i]) : TermAt(log[i], p) \in Nat
<1>1. log[i] \in Seq(Entry) /\ log[i] \in Views
  BY LocalType DEF Views
<1>2. ASSUME NEW p \in 1 .. Len(log[i])
      PROVE  TermAt(log[i], p) \in Nat
  <2>1. log[i][p] \in Entry
    BY <1>1, ElementOfSeq
  <2> QED
    BY <2>1 DEF TermAt, Entry
<1> QED
  BY <1>1, <1>2, LogNumbers

\* The positions of a log or a part of it are an interval.
LEMMA ViewShape ==
    ASSUME TypeOK, NEW f \in Views
    PROVE  \E a, b \in Nat : /\ DOMAIN f = a .. b /\ a >= 1
                             /\ \A p \in a .. b : TermAt(f, p) \in Nat
<1>1. CASE \E i \in Server : f = log[i]
  BY <1>1, LogView
<1>2. CASE \E m \in AECalls : f = View(m)
  BY <1>2, ViewFacts
<1> QED
  BY <1>1, <1>2 DEF Views

\* A position of a view.
LEMMA ViewAt ==
    ASSUME TypeOK, NEW f \in Views, NEW p \in DOMAIN f
    PROVE  p \in Nat /\ p >= 1 /\ TermAt(f, p) \in Nat
  BY ViewShape

LEMMA SameView ==
    ASSUME TypeOK, NEW c \in AECalls, NEW m, Same(m, c)
    PROVE  /\ View(m) = View(c) /\ Lo(m) = Lo(c) /\ End(m) = End(c)
           /\ m.term = c.term /\ m.src = c.src /\ m.dst = c.dst
           /\ m.commit = c.commit /\ m.prevTerm = c.prevTerm
<1>1. /\ m.prev = c.prev /\ m.prevTerm = c.prevTerm /\ m.entries = c.entries
      /\ m.term = c.term /\ m.src = c.src /\ m.dst = c.dst /\ m.commit = c.commit
  BY SameFields DEF AECalls
<1> QED
  BY <1>1 DEF View, Lo, End

\* Every call of AppendEntries was made before.
LEMMA OldCall ==
    ASSUME TypeOK, OldCalls, NEW m \in AECalls'
    PROVE  \E c \in AECalls : /\ View(m) = View(c) /\ Lo(m) = Lo(c) /\ End(m) = End(c)
                              /\ m.term = c.term /\ m.src = c.src /\ m.dst = c.dst
                              /\ m.commit = c.commit /\ m.prevTerm = c.prevTerm
<1>1. m \in rpcs' /\ m.type = "AE"
  BY DEF AECalls
<1>2. PICK c \in rpcs : Same(m, c)
  BY <1>1 DEF OldCalls, NoNew
<1>3. c \in AECalls
  BY <1>1, <1>2, SameFields DEF AECalls
<1> QED
  BY <1>2, <1>3, SameView

\* A step after which logs and calls are the same, but some calls may be gone.
Still == log' = log /\ OldCalls

LEMMA StillViews ==
    ASSUME TypeOK, Still
    PROVE  Views' \subseteq Views /\ RVCalls' \subseteq RVCalls
<1>1. Views' \subseteq Views
  <2> SUFFICES ASSUME NEW f \in Views'
               PROVE  f \in Views
    OBVIOUS
  <2>1. CASE \E i \in Server : f = log'[i]
    BY <2>1 DEF Still, Views
  <2>2. CASE \E m \in AECalls' : f = View(m)
    BY <2>2, OldCall DEF Still, Views
  <2> QED
    BY <2>1, <2>2 DEF Views
<1>2. RVCalls' \subseteq RVCalls
  BY OldCallsAsked DEF Still, OldAsked, RVCalls
<1> QED
  BY <1>1, <1>2

\* What a step may do to logs.
LEMMA LogKinds ==
    ASSUME StepKind
    PROVE  \/ Still
           \/ \E i \in Server : \/ \E c \in Command : Start(i, c)
                                \/ \E j \in Server : GetVote(i, j) \/ SendAppendEntries(i, j)
           \/ \E m \in rpcs : Accepted(m)
<1>1. ASSUME NEW i \in Server, StartElection(i) \/ Commits(i)
      PROVE  Still
  BY <1>1, RemoveNoNew DEF StartElection, Commits, Still, OldCalls
<1>2. ASSUME NEW m \in rpcs, Acknowledged(m)
      PROVE  Still
  BY <1>2, RemoveNoNew DEF Acknowledged, AppendEntriesSucceeded, persistent, Still, OldCalls
<1> QED
  BY <1>1, <1>2 DEF StepKind, NoLogStep, Wins, Casts, Still

\* What AppendEntries has made of the log of its receiver: up to position c it
\* is what it was, and beyond it it is what the call carries.
Merged(m, c) ==
    /\ \A j \in Server : j # m.dst => log'[j] = log[j]
    /\ c \in Lo(m) .. End(m) /\ c <= Len(log[m.dst])
    /\ c = Lo(m) \/ c <= commitIndex[m.dst] + 1
    /\ \A p \in 1 .. c : log'[m.dst][p] = log[m.dst][p]
    /\ \/ log' = log /\ c = End(m)
       \/ Len(log'[m.dst]) = End(m) /\ \A p \in c + 1 .. End(m) : log'[m.dst][p] = View(m)[p]

LEMMA PrevMatched ==
    ASSUME TypeOK, Plain, NEW m \in AECalls, PrevMatches(m.dst, m)
    PROVE  Lo(m) <= Len(log[m.dst]) /\ TermAt(log[m.dst], Lo(m)) = TermAt(View(m), Lo(m))
<1>1. m.dst \in Server /\ m \in rpcs /\ m.type = "AE" /\ snapshotIndex[m.dst] = 0
  BY VoteMessage DEF AECalls, Plain
<1>2. PICK have \in Nat, prev \in Nat : have = Len(log[m.dst]) /\ prev = m.prev /\ Lo(m) = prev + 1
  BY <1>1, LogNumbers, CallNumbers DEF Lo
<1>3. prev - 0 \in 0 .. have - 1 /\ log[m.dst][prev - 0 + 1].term = m.prevTerm
  BY <1>1, <1>2 DEF PrevMatches, InLog, At
<1>4. prev - 0 + 1 = prev + 1 /\ prev + 1 <= have
  BY <1>3
<1> QED
  BY <1>2, <1>3, <1>4, ViewFacts DEF TermAt

LEMMA AcceptedMerges ==
    ASSUME TypeOK, Plain, NEW m \in rpcs, Accepted(m)
    PROVE  m \in AECalls /\ \E c \in Nat : Merged(m, c)
<1> DEFINE v == m.dst
<1>0. m \in AECalls /\ v \in Server
  BY VoteMessage DEF Accepted, AECalls
<1>1. PICK lo \in Nat, end \in Nat, have \in Nat, commit \in Nat :
             /\ lo = Lo(m) /\ end = End(m) /\ have = Len(log[v]) /\ commit = commitIndex[v]
             /\ lo >= 1 /\ end >= lo /\ lo <= have /\ commit + 1 <= have
  <2>1. Lo(m) \in Nat /\ End(m) \in Nat /\ Lo(m) >= 1 /\ End(m) >= Lo(m)
    BY <1>0, ViewFacts
  <2>2. Len(log[v]) \in Nat /\ commitIndex[v] \in Nat
    BY <1>0, LogNumbers
  <2>3. Lo(m) <= Len(log[v]) /\ commitIndex[v] + 1 <= Len(log[v])
    BY <1>0, PrevMatched DEF Accepted, Plain
  <2> QED
    BY <2>1, <2>2, <2>3
<1>2. CASE m.entries = <<>> /\ log' = log
  <2>1. lo = end
    <3>1. PICK prev \in Nat : prev = m.prev
      BY <1>0, EntriesMessage DEF AECalls
    <3> QED
      BY <1>1, <1>2, <3>1 DEF Lo, End
  <2> QED
    BY <1>0, <1>1, <1>2, <2>1 DEF Merged
<1>3. CASE End(m) <= commitIndex[v] + 1 /\ log' = log
  <2>1. end <= commit + 1 /\ end <= have /\ end \in lo .. end
    BY <1>1, <1>3
  <2> QED
    BY <1>0, <1>1, <1>3, <2>1 DEF Merged
<1>4. CASE Spliced(v, m, Cut(v, m))
  <2>1. PICK c \in Nat : c = Cut(v, m) /\ (c = lo \/ c = commit + 1) /\ c <= have
    BY <1>1 DEF Cut, MaxOf
  <2>2. c \in lo .. end - 1 /\ c \in lo .. end
    BY <1>1, <1>4, <2>1 DEF Spliced
  <2>3. \A p \in 1 .. c : log'[v][p] = log[v][p]
    <3>1. \A p \in 1 .. c : p <= have
      BY <2>1
    <3> QED
      BY <1>1, <1>4, <2>1, <3>1 DEF Spliced
  <2>4. \A p \in c + 1 .. end : log'[v][p] = View(m)[p]
    <3>1. \A p \in c + 1 .. end : p \in lo + 1 .. end
      BY <2>2
    <3> QED
      BY <1>0, <1>1, <1>4, <2>1, <3>1, ViewFacts DEF Spliced
  <2>5. \A j \in Server : j # v => log'[j] = log[j]
    BY <1>4 DEF Spliced
  <2>6. Len(log'[v]) = end
    BY <1>1, <1>4 DEF Spliced
  <2>7. c = lo \/ c <= commit + 1
    BY <2>1
  <2>8. Merged(m, c)
    BY <1>1, <2>1, <2>2, <2>3, <2>4, <2>5, <2>6, <2>7 DEF Merged
  <2> QED
    BY <1>0, <2>8
<1> QED
  BY <1>0, <1>2, <1>3, <1>4 DEF Accepted

\* A call that carries a part of a log has its terms.
LEMMA PartTerms ==
    ASSUME TypeOK, NEW m \in AECalls, NEW i \in Server, PartOf(m, i)
    PROVE  \A p \in Lo(m) .. End(m) : TermAt(View(m), p) = TermAt(log[i], p)
<1>1. PICK lo \in Nat, end \in Nat : lo = Lo(m) /\ end = End(m)
  BY ViewFacts
<1>2. TermAt(View(m), lo) = TermAt(log[i], lo)
  BY <1>1, ViewFacts DEF PartOf
<1>3. \A p \in lo + 1 .. end : TermAt(View(m), p) = TermAt(log[i], p)
  BY <1>1 DEF PartOf, TermAt
<1>4. \A p \in lo .. end : p = lo \/ p \in lo + 1 .. end
  OBVIOUS
<1> QED
  BY <1>1, <1>2, <1>3, <1>4

\* A leader sends its log from nextIndex on.
LEMMA SentPart ==
    ASSUME TypeOK, TypeOK', Plain, NEW i \in Server, NEW j \in Server, SendAppendEntries(i, j)
    PROVE  /\ Sent(i, j) \in AECalls' /\ AECalls' = AECalls \cup {Sent(i, j)} /\ RVCalls' = RVCalls
           /\ PartOf(Sent(i, j), i) /\ End(Sent(i, j)) = Len(log[i]) /\ Lo(Sent(i, j)) = Next1(i, j)
           /\ Lo(Sent(i, j)) \in 1 .. Len(log[i])
           /\ DOMAIN View(Sent(i, j)) = Lo(Sent(i, j)) .. End(Sent(i, j))
           /\ \A p \in Lo(Sent(i, j)) .. End(Sent(i, j)) :
                TermAt(View(Sent(i, j)), p) = TermAt(log[i], p)
<1> DEFINE m == Sent(i, j)
<1>1. /\ m.type = "AE" /\ m.prev = Next1(i, j) - 1 /\ m.prevTerm = At(i, Next1(i, j) - 1).term
      /\ m.entries = EntriesFrom(i, Next1(i, j))
  BY DEF Sent
<1>2. rpcs' = rpcs \cup {m} /\ log' = log
  BY SentCall DEF SendAppendEntries, persistent
<1>3. m \in AECalls' /\ AECalls' = AECalls \cup {m} /\ RVCalls' = RVCalls
  BY <1>1, <1>2 DEF AECalls, RVCalls
<1> HIDE DEF m
<1>4. PICK k \in Nat, len \in Nat : k = Next1(i, j) /\ len = Len(log[i]) /\ k >= 1 /\ k <= len
  <2>0. PICK len \in Nat : len = Len(log[i]) /\ Loglen(i) = len + 0
    BY LocalType DEF Plain
  <2>1. PICK k \in Nat : k = Next1(i, j) /\ k <= len
    BY <2>0, Next1Type
  <2>2. k > 0
    BY <2>1 DEF SendAppendEntries, Plain
  <2> QED
    BY <2>0, <2>1, <2>2
<1>5. Lo(m) = k /\ m.prevTerm = log[i][k].term /\ m.entries = SubSeq(log[i], k + 1, len)
  <2>1. snapshotIndex[i] = 0 /\ k - 1 + 1 = k /\ k - 1 - 0 + 1 = k /\ k - 0 = k
    BY DEF Plain
  <2> QED
    BY <1>1, <1>4, <2>1 DEF Lo, At, EntriesFrom, Skip
<1>6. /\ Len(m.entries) = len - k
      /\ \A x \in 1 .. len - k : m.entries[x] = log[i][k + x]
  <2>1. log[i] \in Seq(Entry) /\ k + 1 \in 1 .. len + 1 /\ len \in k .. len
    BY <1>4, LocalType
  <2>2. PICK s \in Seq(Entry) : s = log[i]
    BY <2>1
  <2>3. Len(SubSeq(s, k + 1, len)) = len - k
    BY <1>4, <2>1, <2>2
  <2>4. ASSUME NEW x \in 1 .. len - k
        PROVE  SubSeq(s, k + 1, len)[x] = s[k + x]
    <3>1. SubSeq(s, k + 1, len)[x] = s[k + 1 + x - 1]
      BY <1>4, <2>1, <2>2
    <3>2. k + 1 + x - 1 = k + x
      BY <1>4
    <3> QED
      BY <3>1, <3>2
  <2> QED
    BY <1>5, <2>2, <2>3, <2>4
<1>7. End(m) = len
  BY <1>1, <1>4, <1>5, <1>6 DEF End, Lo
<1>9. ASSUME NEW p \in k + 1 .. len
      PROVE  View(m)[p] = log[i][p]
  <2>1. p - k \in 1 .. len - k /\ k + (p - k) = p /\ p # k /\ p \in k .. len
    BY <1>4
  <2>2. View(m)[p] = m.entries[p - k]
    BY <1>5, <1>7, <2>1 DEF View
  <2> QED
    BY <1>6, <2>1, <2>2
<1>10. View(m)[k] = [term |-> m.prevTerm, cmd |-> Nil]
  <2>1. k \in k .. len
    BY <1>4
  <2> QED
    BY <1>5, <1>7, <2>1 DEF View
<1>11. PartOf(m, i)
  BY <1>4, <1>5, <1>7, <1>9 DEF PartOf, TermAt
<1>12. ASSUME NEW p \in k .. len
       PROVE  TermAt(View(m), p) = TermAt(log[i], p)
  <2>1. CASE p = k
    BY <1>5, <1>10, <2>1 DEF TermAt
  <2>2. CASE p # k
    <3>1. p \in k + 1 .. len
      BY <1>4, <2>2
    <3> QED
      BY <1>9, <3>1 DEF TermAt
  <2> QED
    BY <2>1, <2>2
<1>13. DOMAIN View(m) = Lo(m) .. End(m) /\ Lo(m) \in 1 .. len
  BY <1>4, <1>5 DEF View
<1> QED
  BY <1>3, <1>4, <1>5, <1>7, <1>11, <1>12, <1>13 DEF m

LEMMA AcceptedCalls ==
    ASSUME NEW m \in AECalls, Accepted(m)
    PROVE  AECalls' \subseteq AECalls \ {m} /\ RVCalls' \subseteq RVCalls
  BY DEF Accepted, Reply, AEReply, AECalls, RVCalls

\* A leader appends an entry of its term.
LEMMA StartLog ==
    ASSUME TypeOK, NEW i \in Server, NEW c \in Command, Start(i, c)
    PROVE  /\ \A j \in Server : j # i => log'[j] = log[j]
           /\ Len(log'[i]) = Len(log[i]) + 1
           /\ \A p \in 1 .. Len(log[i]) : log'[i][p] = log[i][p]
           /\ TermAt(log'[i], Len(log[i]) + 1) = currentTerm[i]
           /\ AECalls' = AECalls /\ RVCalls' = RVCalls /\ UNCHANGED <<rpcs, state, currentTerm>>
           /\ state[i] = "Leader"
<1>1. /\ log' = [log EXCEPT ![i] = Append(log[i], [term |-> currentTerm[i], cmd |-> c])]
      /\ UNCHANGED <<rpcs, state, currentTerm>> /\ state[i] = "Leader"
  BY DEF Start
<1>2. PICK s \in Seq(Entry), e \in Entry :
             s = log[i] /\ e = [term |-> currentTerm[i], cmd |-> c]
  BY LocalType DEF Entry
<1>3. log'[i] = Append(s, e) /\ \A j \in Server : j # i => log'[j] = log[j]
  BY <1>1, <1>2 DEF TypeOK
<1>4. /\ Len(Append(s, e)) = Len(s) + 1 /\ Append(s, e)[Len(s) + 1] = e
      /\ \A p \in 1 .. Len(s) : Append(s, e)[p] = s[p]
  BY <1>2, AppendProperties
<1>5. AECalls' = AECalls /\ RVCalls' = RVCalls
  BY <1>1 DEF AECalls, RVCalls
<1> QED
  BY <1>1, <1>2, <1>3, <1>4, <1>5 DEF TermAt

\* What is anywhere in a log was there before.
OldTerms == \A f \in Views' : \A p \in DOMAIN f :
              \E g \in Views : p \in DOMAIN g /\ TermAt(f, p) = TermAt(g, p)

LEMMA MergedTerms ==
    ASSUME TypeOK, TypeOK', NEW m \in AECalls, NEW c \in Nat, Merged(m, c),
           NEW p \in DOMAIN log'[m.dst]
    PROVE  \/ /\ p \in 1 .. Len(log[m.dst]) /\ log'[m.dst][p] = log[m.dst][p]
              /\ p <= c \/ log' = log
           \/ p \in Lo(m) + 1 .. End(m) /\ p > c /\ log'[m.dst][p] = View(m)[p]
<1>1. PICK lo \in Nat, end \in Nat, have \in Nat, new \in Nat :
             /\ lo = Lo(m) /\ end = End(m) /\ have = Len(log[m.dst]) /\ new = Len(log'[m.dst])
             /\ DOMAIN log[m.dst] = 1 .. have /\ DOMAIN log'[m.dst] = 1 .. new
  <2>1. m.dst \in Server
    BY ViewFacts, VoteMessage
  <2>2. log[m.dst] \in Seq(Entry) /\ log'[m.dst] \in Seq(Entry)
    BY <2>1 DEF TypeOK
  <2> QED
    BY <2>2, ViewFacts, LenProperties
<1>2. c \in lo .. end /\ c <= have
  BY <1>1 DEF Merged
<1>3. CASE p <= c
  <2>1. p \in 1 .. c /\ p \in 1 .. have
    BY <1>1, <1>2, <1>3
  <2> QED
    BY <1>1, <1>3, <2>1 DEF Merged
<1>4. CASE p > c /\ log' = log
  BY <1>1, <1>4
<1>5. CASE p > c /\ new = end
  <2>1. p \in c + 1 .. end /\ p \in lo + 1 .. end
    BY <1>1, <1>2, <1>5
  <2>2. (\A x \in c + 1 .. end : log'[m.dst][x] = View(m)[x]) \/ log' = log
    BY <1>1 DEF Merged
  <2> QED
    BY <1>1, <1>4, <1>5, <2>1, <2>2
<1>6. p \in Nat
  BY <1>1
<1> QED
  BY <1>1, <1>3, <1>4, <1>5, <1>6 DEF Merged

LEMMA TermsKinds ==
    ASSUME TypeOK, TypeOK', Plain, StepKind
    PROVE  OldTerms \/ \E i \in Server : \E c \in Command : Start(i, c)
<1>1. CASE Still
  BY <1>1, StillViews DEF OldTerms
<1>2. ASSUME NEW i \in Server, NEW j \in Server, GetVote(i, j)
      PROVE  OldTerms
  <2>1. log' = log /\ AECalls' = AECalls
    BY <1>2 DEF GetVote, persistent, AECalls
  <2> QED
    BY <2>1 DEF OldTerms, Views
<1>3. ASSUME NEW i \in Server, NEW j \in Server, SendAppendEntries(i, j)
      PROVE  OldTerms
  <2> SUFFICES ASSUME NEW f \in Views', NEW p \in DOMAIN f
               PROVE  \E g \in Views : p \in DOMAIN g /\ TermAt(f, p) = TermAt(g, p)
    BY DEF OldTerms
  <2>1. log' = log
    BY <1>3 DEF SendAppendEntries, persistent
  <2>2. CASE f \in Views
    BY <2>2
  <2>3. CASE f = View(Sent(i, j))
    <3>1. PICK lo \in Nat, end \in Nat : /\ lo = Lo(Sent(i, j)) /\ end = End(Sent(i, j)) /\ lo >= 1
                                         /\ DOMAIN View(Sent(i, j)) = lo .. end /\ end = Len(log[i])
      <4>1. PICK len \in Nat : len = Len(log[i])
        BY LogView
      <4>2. /\ Lo(Sent(i, j)) \in 1 .. len /\ End(Sent(i, j)) = len
            /\ DOMAIN View(Sent(i, j)) = Lo(Sent(i, j)) .. End(Sent(i, j))
        BY <1>3, <4>1, SentPart
      <4> QED
        BY <4>1, <4>2
    <3>2. p \in lo .. end /\ p \in 1 .. end
      BY <2>3, <3>1
    <3>3. TermAt(View(Sent(i, j)), p) = TermAt(log[i], p)
      BY <1>3, <3>1, <3>2, SentPart
    <3> QED
      BY <2>3, <3>1, <3>2, <3>3, LogView
  <2> QED
    BY <1>3, <2>1, <2>2, <2>3, SentPart DEF Views
<1>4. ASSUME NEW m \in rpcs, Accepted(m)
      PROVE  OldTerms
  <2> SUFFICES ASSUME NEW f \in Views', NEW p \in DOMAIN f
               PROVE  \E g \in Views : p \in DOMAIN g /\ TermAt(f, p) = TermAt(g, p)
    BY DEF OldTerms
  <2>1. PICK c \in Nat : m \in AECalls /\ Merged(m, c)
    BY <1>4, AcceptedMerges
  <2>2. CASE f \in Views
    BY <2>2
  <2>3. CASE f = log'[m.dst]
    <3>1. m.dst \in Server
      BY VoteMessage
    <3>2. CASE p \in 1 .. Len(log[m.dst]) /\ log'[m.dst][p] = log[m.dst][p]
      BY <2>3, <3>1, <3>2, LogView DEF TermAt
    <3>3. CASE p \in Lo(m) + 1 .. End(m) /\ log'[m.dst][p] = View(m)[p]
      <4>1. PICK lo \in Nat, end \in Nat : /\ lo = Lo(m) /\ end = End(m)
                                           /\ View(m) \in Views /\ DOMAIN View(m) = lo .. end
        BY <2>1, ViewFacts
      <4>2. p \in lo .. end
        BY <3>3, <4>1
      <4> QED
        BY <2>3, <3>3, <4>1, <4>2 DEF TermAt
    <3> QED
      BY <2>1, <2>3, <3>2, <3>3, MergedTerms
  <2>4. f \in Views \/ f = log'[m.dst]
    BY <1>4, <2>1, AcceptedCalls DEF Views, Merged
  <2> QED
    BY <2>2, <2>3, <2>4
<1> QED
  BY <1>1, <1>2, <1>3, <1>4, LogKinds

-----------------------------------------------------------------------------
(* Terms of entries.                                                       *)

\* What is known of a state, and of a step, from the proofs about elections and
\* calls.
Base == TypeOK /\ VotesSound /\ Plain /\ CallsInv

Moved == /\ Base' /\ VoteKept /\ NewVotesCast /\ CountingKept /\ CommittedKept
         /\ StepKind

LEMMA TermsGrow ==
    ASSUME Base, Moved, NEW i \in Server
    PROVE  currentTerm[i] \in Nat /\ currentTerm'[i] \in Nat /\ currentTerm'[i] >= currentTerm[i]
  BY DEF Base, Moved, TypeOK, VoteKept

LEMMA KnownKept ==
    ASSUME Base, Moved, NEW t \in Nat, Known(t)
    PROVE  Known(t)'
<1>1. ASSUME NEW s \in Server, Elected(s, t)
      PROVE  Elected(s, t)'
  BY <1>1, ElectedKept DEF Base, Moved
<1> QED
  BY <1>1 DEF Known

LEMMA ViewKnown ==
    ASSUME TypeOK, TermsInv, NEW f \in Views, NEW p \in DOMAIN f
    PROVE  Known(TermAt(f, p))
<1>1. ASSUME NEW i \in Server, f = log[i]
      PROVE  Known(TermAt(f, p))
  BY <1>1, LogView DEF TermsInv
<1>2. ASSUME NEW m \in AECalls, f = View(m)
      PROVE  Known(TermAt(f, p))
  BY <1>2, ViewFacts DEF TermsInv
<1> QED
  BY <1>1, <1>2 DEF Views

LEMMA LogViews ==
    TypeOK => \A i \in Server : /\ log[i] \in Views /\ DOMAIN log[i] = 1 .. Len(log[i])
                                /\ Len(log[i]) \in Nat /\ Len(log[i]) >= 1
                                /\ \A p \in 1 .. Len(log[i]) : TermAt(log[i], p) \in Nat
  BY LogView

LEMMA CallViews ==
    TypeOK => \A m \in AECalls : /\ m \in rpcs /\ View(m) \in Views
                                 /\ DOMAIN View(m) = Lo(m) .. End(m)
                                 /\ Lo(m) \in Nat /\ Lo(m) >= 1 /\ End(m) \in Nat /\ End(m) >= Lo(m)
                                 /\ \A p \in Lo(m) .. End(m) : TermAt(View(m), p) \in Nat
  BY ViewFacts

\* The views after a step, and their types.
LEMMA NextViews ==
    ASSUME Moved
    PROVE  /\ \A i \in Server : /\ log'[i] \in Views' /\ DOMAIN log'[i] = 1 .. Len(log'[i])
                                /\ Len(log'[i]) \in Nat /\ Len(log'[i]) >= 1
                                /\ \A p \in 1 .. Len(log'[i]) : TermAt(log'[i], p) \in Nat
           /\ \A m \in AECalls' : /\ m \in rpcs' /\ View(m) \in Views'
                                  /\ DOMAIN View(m) = Lo(m) .. End(m)
                                  /\ Lo(m) \in Nat /\ Lo(m) >= 1 /\ End(m) \in Nat /\ End(m) >= Lo(m)
                                  /\ \A p \in Lo(m) .. End(m) : TermAt(View(m), p) \in Nat
<1>3. TypeOK'
  BY DEF Moved, Base
<1>4. (\A i \in Server : /\ log[i] \in Views /\ DOMAIN log[i] = 1 .. Len(log[i])
                         /\ Len(log[i]) \in Nat /\ Len(log[i]) >= 1
                         /\ \A p \in 1 .. Len(log[i]) : TermAt(log[i], p) \in Nat)'
  BY <1>3, LogViews, PTL
<1>5. (\A m \in AECalls : /\ m \in rpcs /\ View(m) \in Views
                          /\ DOMAIN View(m) = Lo(m) .. End(m)
                          /\ Lo(m) \in Nat /\ Lo(m) >= 1 /\ End(m) \in Nat /\ End(m) >= Lo(m)
                          /\ \A p \in Lo(m) .. End(m) : TermAt(View(m), p) \in Nat)'
  BY <1>3, CallViews, PTL
<1> QED
  BY <1>4, <1>5

\* Every term in a log had a leader.
LEMMA KnownStep ==
    ASSUME Base, Moved, TermsInv, NEW f \in Views', NEW p \in DOMAIN f
    PROVE  Known(TermAt(f, p))'
<1>0. TypeOK /\ TypeOK' /\ Plain /\ VotesSound /\ StepKind
  BY DEF Base, Moved
<1>1. CASE \E g \in Views : p \in DOMAIN g /\ TermAt(f, p) = TermAt(g, p)
  <2>1. PICK g \in Views : p \in DOMAIN g /\ TermAt(f, p) = TermAt(g, p)
    BY <1>1
  <2>2. PICK t \in Nat : t = TermAt(f, p) /\ Known(t)
    BY <1>0, <2>1, ViewAt, ViewKnown
  <2>3. Known(t)'
    BY <2>2, KnownKept
  <2> QED
    BY <2>2, <2>3
<1>2. ASSUME NEW i \in Server, NEW c \in Command, Start(i, c)
      PROVE  Known(TermAt(f, p))'
  <2>1. CASE f \in Views
    BY <1>1, <2>1
  <2>2. CASE f = log'[i]
    <3>1. PICK len \in Nat, t \in Nat : /\ len = Len(log[i]) /\ t = currentTerm[i]
                                        /\ DOMAIN log[i] = 1 .. len /\ log[i] \in Views
      BY <1>0, LogView, LogNumbers
    <3>2. CASE p \in 1 .. len
      <4>1. log'[i][p] = log[i][p]
        BY <1>0, <1>2, <3>1, <3>2, StartLog
      <4> QED
        BY <1>1, <2>2, <3>1, <3>2, <4>1 DEF TermAt
    <3>3. CASE p = len + 1
      <4>1. TermAt(f, p) = t
        BY <1>0, <1>2, <2>2, <3>1, <3>3, StartLog
      <4>2. Known(t)
        BY <1>0, <1>2, <3>1, LeaderElected, StartLog DEF Known
      <4>3. Known(t)'
        BY <4>2, KnownKept
      <4> QED
        BY <4>1, <4>3
    <3>4. p \in 1 .. len + 1
      BY <1>0, <1>2, <2>2, <3>1, StartLog, NextViews
    <3>5. p \in 1 .. len \/ p = len + 1
      BY <3>4
    <3> QED
      BY <3>2, <3>3, <3>5
  <2> QED
    BY <1>0, <1>2, <2>1, <2>2, StartLog DEF Views
<1> QED
  BY <1>0, <1>1, <1>2, TermsKinds DEF OldTerms

LEMMA TermsStep ==
    ASSUME Base, Moved, TermsInv
    PROVE  TermsInv'
<1>0. TypeOK /\ TypeOK' /\ Plain /\ VotesSound /\ StepKind
  BY DEF Base, Moved
<1>1. ASSUME NEW i \in Server, NEW p \in 1 .. Len(log'[i])
      PROVE  (Known(TermAt(log[i], p)) /\ TermAt(log[i], p) <= currentTerm[i])'
  <2>1. PICK f \in Views' : f = log'[i] /\ p \in DOMAIN f
    BY <1>1, NextViews
  <2>2. PICK t \in Nat, u \in Nat, x \in Nat :
               /\ t = currentTerm[i] /\ u = currentTerm'[i] /\ u >= t /\ x = TermAt(log'[i], p)
    BY <1>1, TermsGrow, NextViews
  <2>8. Known(x)'
    BY <2>1, <2>2, KnownStep
  <2>3. CASE p \in 1 .. Len(log[i]) /\ log'[i][p] = log[i][p]
    <3>1. x = TermAt(log[i], p)
      BY <2>2, <2>3 DEF TermAt
    <3>2. x <= t
      BY <2>2, <2>3, <3>1 DEF TermsInv
    <3> QED
      BY <2>2, <2>8, <3>2
  <2>4. CASE log'[i] = log[i]
    BY <1>1, <2>3, <2>4
  <2>5. ASSUME NEW k \in Server, NEW c \in Command, Start(k, c)
        PROVE  TermAt(log'[i], p) <= currentTerm'[i]
    <3>1. CASE k # i
      BY <1>0, <2>4, <2>5, <3>1, StartLog
    <3>2. CASE k = i
      <4>1. PICK len \in Nat : len = Len(log[i])
        BY <1>0, LogView
      <4>2. p \in 1 .. len \/ p = len + 1
        BY <1>0, <1>1, <2>5, <3>2, <4>1, StartLog
      <4>3. CASE p = len + 1
        BY <1>0, <2>2, <2>5, <3>2, <4>1, <4>3, StartLog
      <4>4. CASE p \in 1 .. len
        BY <1>0, <2>3, <2>5, <3>2, <4>1, <4>4, StartLog
      <4> QED
        BY <4>2, <4>3, <4>4
    <3> QED
      BY <3>1, <3>2
  <2>6. ASSUME NEW m \in rpcs, Accepted(m)
        PROVE  TermAt(log'[i], p) <= currentTerm'[i]
    <3>1. PICK c \in Nat : m \in AECalls /\ Merged(m, c)
      BY <1>0, <2>6, AcceptedMerges
    <3>2. CASE m.dst # i
      BY <2>4, <3>1, <3>2 DEF Merged
    <3>3. CASE m.dst = i /\ p \in Lo(m) + 1 .. End(m) /\ log'[i][p] = View(m)[p]
      <4>1. currentTerm'[i] = m.term
        BY <2>6, <3>3, <1>0 DEF Accepted, Follow, TypeOK
      <4>2. p \in Lo(m) .. End(m)
        <5>1. PICK lo \in Nat, end \in Nat : lo = Lo(m) /\ end = End(m)
          BY <1>0, <3>1, ViewFacts
        <5> QED
          BY <3>3, <5>1
      <4>3. TermAt(View(m), p) <= m.term
        BY <3>1, <4>2 DEF TermsInv
      <4> QED
        BY <3>3, <4>1, <4>3 DEF TermAt
    <3>4. CASE m.dst = i /\ p \in 1 .. Len(log[i]) /\ log'[i][p] = log[i][p]
      BY <2>3, <3>4
    <3> QED
      BY <1>0, <1>1, <3>1, <3>2, <3>3, <3>4, MergedTerms, NextViews
  <2>7. ASSUME NEW k \in Server, NEW j \in Server, GetVote(k, j) \/ SendAppendEntries(k, j)
        PROVE  log' = log
    BY <2>7 DEF GetVote, SendAppendEntries, persistent
  <2> QED
    BY <1>0, <2>2, <2>4, <2>5, <2>6, <2>7, <2>8, LogKinds DEF Still
<1>2. ASSUME NEW m \in AECalls', NEW p \in Lo(m) .. End(m)
      PROVE  Known(TermAt(View(m), p))' /\ TermAt(View(m), p) <= m.term
  <2>1. Known(TermAt(View(m), p))'
    BY <1>2, NextViews, KnownStep
  <2>2. ASSUME NEW c \in AECalls, View(m) = View(c), Lo(m) = Lo(c), End(m) = End(c), m.term = c.term
        PROVE  TermAt(View(m), p) <= m.term
    BY <1>2, <2>2 DEF TermsInv
  <2>3. CASE m \in AECalls
    BY <2>1, <2>2, <2>3
  <2>4. CASE Still
    BY <1>0, <2>1, <2>2, <2>4, OldCall DEF Still
  <2>5. ASSUME NEW i \in Server, NEW j \in Server, SendAppendEntries(i, j), m = Sent(i, j)
        PROVE  TermAt(View(m), p) <= m.term
    <3>1. PICK lo \in Nat, len \in Nat : lo = Lo(m) /\ len = Len(log[i]) /\ len = End(m) /\ lo >= 1
      <4>1. PICK len \in Nat : len = Len(log[i])
        BY <1>0, LogView
      <4>2. Lo(m) \in 1 .. len /\ End(m) = len
        BY <1>0, <2>5, <4>1, SentPart
      <4> QED
        BY <4>1, <4>2
    <3>2. TermAt(View(m), p) = TermAt(log[i], p) /\ p \in 1 .. len
      BY <1>0, <1>2, <2>5, <3>1, SentPart
    <3>3. m.term = currentTerm[i]
      BY <2>5 DEF Sent
    <3> QED
      BY <3>1, <3>2, <3>3 DEF TermsInv
  <2>6. ASSUME NEW c \in rpcs, Accepted(c)
        PROVE  m \in AECalls
    BY <1>0, <1>2, <2>6, AcceptedCalls, AcceptedMerges
  <2>7. ASSUME NEW i \in Server, NEW j \in Server, GetVote(i, j)
        PROVE  m \in AECalls
    BY <1>2, <2>7 DEF GetVote, AECalls
  <2> QED
    BY <1>0, <1>2, <2>1, <2>3, <2>4, <2>5, <2>6, <2>7, LogKinds, SentPart, StartLog
<1>3. ASSUME NEW m \in RVCalls'
      PROVE  Known(m.lastTerm)'
  <2>1. CASE m \in RVCalls
    <3>1. PICK t \in Nat : t = m.lastTerm /\ Known(t)
      BY <1>0, <2>1, VoteMessage DEF RVCalls, TermsInv
    <3>2. Known(t)'
      BY <3>1, KnownKept
    <3> QED
      BY <3>1, <3>2
  <2>2. ASSUME NEW i \in Server, NEW j \in Server, GetVote(i, j), m \notin RVCalls
        PROVE  Known(m.lastTerm)'
    <3>1. m.lastTerm = TermAt(log[i], Len(log[i])) /\ log' = log
      BY <1>3, <2>2 DEF GetVote, RVCalls, TermAt, persistent
    <3>2. PICK f \in Views', p \in Nat : f = log[i] /\ p = Len(log[i]) /\ p \in DOMAIN f
      BY <1>0, <3>1, NextViews, LogView
    <3>3. PICK t : t = TermAt(f, p)
      OBVIOUS
    <3>4. Known(t)'
      BY <3>2, <3>3, KnownStep
    <3> QED
      BY <3>1, <3>2, <3>3, <3>4
  <2>3. ASSUME NEW c \in rpcs, Accepted(c)
        PROVE  m \in RVCalls
    BY <1>0, <1>3, <2>3, AcceptedCalls, AcceptedMerges
  <2> QED
    BY <1>0, <1>3, <2>1, <2>2, <2>3, LogKinds, StillViews, SentPart, StartLog
<1>4. \A i \in Server : \A p \in 1 .. Len(log'[i]) :
        (Known(TermAt(log[i], p)) /\ TermAt(log[i], p) <= currentTerm[i])'
  BY <1>1
<1>5. \A m \in AECalls' : \A p \in Lo(m) .. End(m) :
        Known(TermAt(View(m), p))' /\ TermAt(View(m), p) <= m.term
  BY <1>2
<1>6. \A m \in RVCalls' : Known(m.lastTerm)'
  BY <1>3
<1> QED
  BY <1>4, <1>5, <1>6 DEF TermsInv

-----------------------------------------------------------------------------
(* What leaders have.                                                      *)

\* A leader was one before the step, or has just won.
LEMMA LeaderKinds ==
    ASSUME Base, Moved, NEW i \in Server, state'[i] = "Leader"
    PROVE  \/ state[i] = "Leader" /\ currentTerm'[i] = currentTerm[i]
           \/ Wins(i)
<1>0. TypeOK /\ StepKind
  BY DEF Base, Moved
<1>1. CASE OldLeaders
  BY <1>1 DEF OldLeaders
<1>2. ASSUME NEW k \in Server, Wins(k)
      PROVE  \/ state[i] = "Leader" /\ currentTerm'[i] = currentTerm[i]
             \/ Wins(i)
  BY <1>2 DEF Wins
<1> QED
  BY <1>0, <1>1, <1>2, ElectionKinds, GetVoteElection, StartElectionCounting DEF NoElectionStep, Casts

LEMMA LeaderAlone ==
    ASSUME Base, NEW i \in Server, NEW k \in Server, state[i] = "Leader", state[k] = "Leader",
           currentTerm[i] = currentTerm[k]
    PROVE  i = k
  BY MajorityDecides DEF Base, ElectionSafety

\* There is no trace yet of the term of a new leader.
LEMMA WinsFresh ==
    ASSUME Base, TermsInv, NEW i \in Server, Wins(i)
    PROVE  /\ \A f \in Views : \A p \in DOMAIN f : TermAt(f, p) # currentTerm[i]
           /\ \A m \in RVCalls : m.lastTerm # currentTerm[i]
           /\ \A m \in rpcs : IsCall(m) => m.term # currentTerm[i]
<1>0. TypeOK /\ CallsElected /\ VotesOwn
  BY DEF Base, CallsInv
<1>1. ASSUME NEW s, Elected(s, currentTerm[i])
      PROVE  FALSE
  <2>1. s = i
    BY <1>1, BackedAlone DEF Wins
  <2> QED
    BY <1>1, <2>1 DEF Wins, Elected
<1>2. ~Known(currentTerm[i])
  <2>1. currentTerm[i] # 0
    <3>1. election[i].votes # {} /\ election[i].term = currentTerm[i]
      BY DEF Wins, Counting
    <3>2. currentTerm[i] \in Nat /\ currentTerm[i] > 0
      BY <1>0, <3>1, LocalType DEF VotesOwn
    <3> QED
      BY <3>2
  <2> QED
    BY <1>1, <2>1 DEF Known
<1>3. \A f \in Views : \A p \in DOMAIN f : TermAt(f, p) # currentTerm[i]
  BY <1>0, <1>2, ViewKnown
<1>4. \A m \in RVCalls : m.lastTerm # currentTerm[i]
  BY <1>2 DEF TermsInv
<1>5. \A m \in rpcs : IsCall(m) => m.term # currentTerm[i]
  BY <1>0, <1>1 DEF CallsElected
<1> QED
  BY <1>3, <1>4, <1>5

\* The log of a leader only grows.
LEMMA LeaderGrows ==
    ASSUME Base, Moved, NEW i \in Server, state'[i] = "Leader"
    PROVE  /\ log'[i] = log[i] \/ \E c \in Command : Start(i, c)
           /\ Len(log'[i]) >= Len(log[i])
           /\ \A p \in 1 .. Len(log[i]) : log'[i][p] = log[i][p]
<1>0. TypeOK /\ TypeOK' /\ Plain /\ StepKind
  BY DEF Base, Moved
<1>1. log'[i] = log[i] \/ \E c \in Command : Start(i, c)
  <2>1. ASSUME NEW k \in Server, NEW c \in Command, Start(k, c), k # i
        PROVE  log'[i] = log[i]
    BY <1>0, <2>1, StartLog
  <2>2. ASSUME NEW m \in rpcs, Accepted(m)
        PROVE  log'[i] = log[i]
    <3>1. m.dst # i
      BY <1>0, <2>2, VoteMessage DEF Accepted, Follow, TypeOK
    <3> QED
      BY <1>0, <2>2, <3>1, AcceptedMerges DEF Merged
  <2>3. ASSUME NEW k \in Server, NEW j \in Server, GetVote(k, j) \/ SendAppendEntries(k, j)
        PROVE  log'[i] = log[i]
    BY <2>3 DEF GetVote, SendAppendEntries, persistent
  <2> QED
    BY <1>0, <2>1, <2>2, <2>3, LogKinds DEF Still
<1>2. PICK have \in Nat : have = Len(log[i])
  BY <1>0, LogView
<1>3. CASE log'[i] = log[i]
  BY <1>1, <1>2, <1>3
<1>4. ASSUME NEW c \in Command, Start(i, c)
      PROVE  Len(log'[i]) >= Len(log[i]) /\ \A p \in 1 .. Len(log[i]) : log'[i][p] = log[i][p]
  BY <1>0, <1>2, <1>4, StartLog
<1> QED
  BY <1>1, <1>3, <1>4

LEMMA OwnsTermStep ==
    ASSUME Base, Moved, NEW i \in Server, state[i] = "Leader", state'[i] = "Leader",
           currentTerm'[i] = currentTerm[i], OwnsTerm(i)
    PROVE  OwnsTerm(i)'
<1>0. TypeOK /\ TypeOK' /\ Plain /\ StepKind
  BY DEF Base, Moved
<1>1. PICK t \in Nat, have \in Nat, new \in Nat :
             /\ t = currentTerm[i] /\ have = Len(log[i]) /\ new = Len(log'[i]) /\ new >= have
             /\ \A p \in 1 .. have : log'[i][p] = log[i][p]
  BY <1>0, LogView, LocalType, NextViews, LeaderGrows
<1>2. \A p \in 1 .. have : TermAt(log'[i], p) = TermAt(log[i], p)
  BY <1>1 DEF TermAt
<1>3. ASSUME NEW g \in Views, NEW p \in DOMAIN g, TermAt(g, p) = t
      PROVE  p \in 1 .. new /\ TermAt(log'[i], p) = t
  <2>1. p <= have /\ TermAt(log[i], p) = t /\ p \in Nat /\ p >= 1
    BY <1>0, <1>1, <1>3, ViewAt DEF OwnsTerm
  <2>2. p \in 1 .. have /\ p \in 1 .. new
    BY <1>1, <2>1
  <2> QED
    BY <1>2, <2>1, <2>2
<1>4. ASSUME NEW c \in Command, Start(i, c)
      PROVE  new = have + 1 /\ TermAt(log'[i], have + 1) = t
  BY <1>0, <1>1, <1>4, StartLog
<1>5. ASSUME NEW f \in Views', NEW p \in DOMAIN f, TermAt(f, p) = t
      PROVE  p \in 1 .. new /\ TermAt(log'[i], p) = t
  <2>1. CASE \E g \in Views : p \in DOMAIN g /\ TermAt(f, p) = TermAt(g, p)
    BY <1>3, <1>5, <2>1
  <2>2. ASSUME NEW k \in Server, NEW c \in Command, Start(k, c)
        PROVE  p \in 1 .. new /\ TermAt(log'[i], p) = t
    <3>1. CASE f \in Views
      BY <2>1, <3>1
    <3>2. CASE f = log'[k]
      <4>1. PICK len \in Nat, u \in Nat : /\ len = Len(log[k]) /\ u = currentTerm[k]
                                          /\ DOMAIN log[k] = 1 .. len /\ log[k] \in Views
                                          /\ DOMAIN log'[k] = 1 .. len + 1
        BY <1>0, <2>2, LogView, LocalType, StartLog, NextViews
      <4>2. p \in 1 .. len \/ p = len + 1
        BY <3>2, <4>1
      <4>3. CASE p \in 1 .. len
        <5>1. TermAt(f, p) = TermAt(log[k], p)
          BY <1>0, <2>2, <3>2, <4>1, <4>3, StartLog DEF TermAt
        <5> QED
          BY <2>1, <4>1, <4>3, <5>1
      <4>4. CASE p = len + 1
        <5>1. u = t /\ state[k] = "Leader"
          BY <1>0, <1>5, <2>2, <3>2, <4>1, <4>4, StartLog
        <5>2. k = i
          BY <1>1, <4>1, <5>1, LeaderAlone
        <5>3. new = have + 1 /\ TermAt(log'[i], have + 1) = t /\ len = have
          BY <1>1, <1>4, <2>2, <4>1, <5>2
        <5> QED
          BY <4>4, <5>3
      <4> QED
        BY <4>2, <4>3, <4>4
    <3> QED
      BY <1>0, <2>2, <3>1, <3>2, StartLog DEF Views
  <2> QED
    BY <1>0, <2>1, <2>2, TermsKinds DEF OldTerms
<1>6. ASSUME NEW p \in 1 .. new, NEW q \in 1 .. new, p <= q, TermAt(log'[i], p) = t
      PROVE  TermAt(log'[i], q) = t
  <2>1. CASE q \in 1 .. have
    <3>1. p \in 1 .. have
      BY <1>6, <2>1
    <3> QED
      BY <1>1, <1>2, <1>6, <2>1, <3>1 DEF OwnsTerm
  <2>2. CASE q \notin 1 .. have
    <3>1. PICK c \in Command : Start(i, c)
      BY <1>1, <2>2, LeaderGrows
    <3>2. q = have + 1
      BY <1>4, <2>2, <3>1
    <3> QED
      BY <1>4, <3>1, <3>2
  <2> QED
    BY <2>1, <2>2
<1>7. ASSUME NEW m \in RVCalls', m.lastTerm = t
      PROVE  m.lastIndex + 1 <= new
  <2>1. CASE m \in RVCalls
    <3>1. PICK last \in Nat : last = m.lastIndex
      BY <1>0, <2>1, VoteMessage DEF RVCalls
    <3>2. last + 1 <= have
      BY <1>1, <1>7, <2>1, <3>1 DEF OwnsTerm
    <3> QED
      BY <1>1, <3>1, <3>2
  <2>2. ASSUME NEW k \in Server, NEW j \in Server, GetVote(k, j), m \notin RVCalls
        PROVE  m.lastIndex + 1 <= new
    <3>1. PICK len \in Nat : /\ len = Len(log[k]) /\ len >= 1 /\ log[k] \in Views
                             /\ DOMAIN log[k] = 1 .. len /\ Loglen(k) = len + 0
      BY <1>0, LogView, LocalType DEF Plain
    <3>2. m.lastTerm = TermAt(log[k], len) /\ m.lastIndex = len + 0 - 1
      BY <1>7, <2>2, <3>1 DEF GetVote, RVCalls, TermAt
    <3>3. len \in 1 .. new
      BY <1>3, <1>7, <3>1, <3>2
    <3> QED
      BY <3>2, <3>3
  <2>3. ASSUME NEW c \in rpcs, Accepted(c)
        PROVE  m \in RVCalls
    BY <1>0, <1>7, <2>3, AcceptedCalls, AcceptedMerges
  <2> QED
    BY <1>0, <1>7, <2>1, <2>2, <2>3, LogKinds, StillViews, SentPart, StartLog
<1> QED
  BY <1>1, <1>5, <1>6, <1>7 DEF OwnsTerm

\* Two calls that say the same.
SameCall(m, c) ==
    /\ View(m) = View(c) /\ Lo(m) = Lo(c) /\ End(m) = End(c) /\ m.term = c.term
    /\ m.src = c.src /\ m.dst = c.dst /\ m.commit = c.commit /\ m.prevTerm = c.prevTerm

\* Where a call comes from.
LEMMA CallOrigin ==
    ASSUME Base, Moved, NEW m \in AECalls'
    PROVE  \/ \E c \in AECalls : SameCall(m, c)
           \/ \E i, j \in Server : SendAppendEntries(i, j) /\ m = Sent(i, j)
<1>0. TypeOK /\ TypeOK' /\ Plain /\ StepKind
  BY DEF Base, Moved
<1>1. CASE m \in AECalls
  BY <1>1 DEF SameCall
<1>2. CASE Still
  BY <1>0, <1>2, OldCall DEF Still, SameCall
<1>3. ASSUME NEW i \in Server, NEW j \in Server, SendAppendEntries(i, j)
      PROVE  m \in AECalls \/ m = Sent(i, j)
  BY <1>0, <1>3, SentPart
<1>4. ASSUME NEW c \in rpcs, Accepted(c)
      PROVE  m \in AECalls
  BY <1>0, <1>4, AcceptedCalls, AcceptedMerges
<1>5. ASSUME NEW i \in Server, NEW j \in Server, GetVote(i, j)
      PROVE  m \in AECalls
  BY <1>5 DEF GetVote, AECalls
<1> QED
  BY <1>0, <1>1, <1>2, <1>3, <1>4, <1>5, LogKinds, StartLog

\* Where a request for a vote comes from.
LEMMA AskOrigin ==
    ASSUME Base, Moved, NEW m \in RVCalls', m \notin RVCalls
    PROVE  \E i, j \in Server :
             /\ GetVote(i, j) /\ m.src = i /\ m.term = currentTerm[i]
             /\ m.lastTerm = TermAt(log[i], Len(log[i])) /\ m.lastIndex + 1 = Len(log[i])
<1>0. TypeOK /\ TypeOK' /\ Plain /\ StepKind
  BY DEF Base, Moved
<1>1. ASSUME NEW c \in rpcs, Accepted(c)
      PROVE  FALSE
  BY <1>0, <1>1, AcceptedCalls, AcceptedMerges
<1>2. PICK i \in Server, j \in Server : GetVote(i, j)
  BY <1>0, <1>1, LogKinds, StillViews, SentPart, StartLog
<1>3. PICK len \in Nat : len = Len(log[i]) /\ Loglen(i) = len + 0
  BY <1>0, LocalType DEF Plain
<1>4. /\ m.lastTerm = TermAt(log[i], len) /\ m.lastIndex = len + 0 - 1
      /\ m.src = i /\ m.term = currentTerm[i]
  BY <1>2, <1>3 DEF GetVote, RVCalls, TermAt
<1>5. m.lastIndex + 1 = len
  BY <1>4
<1> QED
  BY <1>2, <1>3, <1>4, <1>5

LEMMA LeaderOwnsStep ==
    ASSUME Base, Moved, TermsInv, LeaderOwns
    PROVE  LeaderOwns'
<1>0. TypeOK /\ TypeOK' /\ Plain /\ StepKind
  BY DEF Base, Moved
<1>1. ASSUME NEW i \in Server, state'[i] = "Leader", state[i] = "Leader",
             currentTerm'[i] = currentTerm[i]
      PROVE  OwnsTerm(i)' /\ \A m \in AECalls' : m.term = currentTerm'[i] => PartOf(m, i)'
  <2>1. OwnsTerm(i)'
    BY <1>1, OwnsTermStep DEF LeaderOwns
  <2>2. ASSUME NEW m \in AECalls', m.term = currentTerm'[i]
        PROVE  PartOf(m, i)'
    <3>1. PICK have \in Nat, new \in Nat, lo \in Nat, end \in Nat :
                 /\ have = Len(log[i]) /\ new = Len(log'[i]) /\ lo = Lo(m) /\ end = End(m)
                 /\ new >= have /\ lo >= 1 /\ end >= lo
                 /\ \A p \in 1 .. have : log'[i][p] = log[i][p]
      BY <1>0, <1>1, LogView, NextViews, LeaderGrows
    <3>2. CASE end <= have /\ m.prevTerm = TermAt(log[i], lo)
               /\ \A p \in lo + 1 .. end : View(m)[p] = log[i][p]
      <4>1. end <= new /\ lo \in 1 .. have /\ \A p \in lo + 1 .. end : p \in 1 .. have
        BY <3>1, <3>2
      <4>2. m.prevTerm = TermAt(log'[i], lo)
        BY <3>1, <3>2, <4>1 DEF TermAt
      <4>3. \A p \in lo + 1 .. end : View(m)[p] = log'[i][p]
        BY <3>1, <3>2, <4>1
      <4> QED
        BY <3>1, <4>1, <4>2, <4>3 DEF PartOf
    <3>3. ASSUME NEW c \in AECalls, SameCall(m, c)
          PROVE  PartOf(m, i)'
      <4>1. PartOf(c, i)
        BY <1>1, <2>2, <3>3 DEF LeaderOwns, SameCall
      <4> QED
        BY <3>1, <3>2, <3>3, <4>1 DEF PartOf, SameCall
    <3>4. ASSUME NEW k \in Server, NEW j \in Server, SendAppendEntries(k, j), m = Sent(k, j)
          PROVE  PartOf(m, i)'
      <4>1. k = i
        BY <1>1, <2>2, <3>4, SentCall, LeaderAlone DEF Sent, MaySend
      <4>2. PartOf(m, i)
        BY <1>0, <3>4, <4>1, SentPart
      <4> QED
        BY <3>1, <3>2, <4>2 DEF PartOf
    <3> QED
      BY <3>3, <3>4, CallOrigin
  <2> QED
    BY <2>1, <2>2
<1>2. ASSUME NEW i \in Server, Wins(i)
      PROVE  OwnsTerm(i)' /\ \A m \in AECalls' : m.term = currentTerm'[i] => PartOf(m, i)'
  <2>1. Still /\ UNCHANGED currentTerm
    BY <1>2 DEF Wins, Still
  <2>2. /\ \A f \in Views' : \A p \in DOMAIN f : TermAt(f, p) # currentTerm'[i]
        /\ \A m \in RVCalls' : m.lastTerm # currentTerm'[i]
    BY <1>0, <1>2, <2>1, StillViews, WinsFresh
  <2>3. \A p \in 1 .. Len(log'[i]) : TermAt(log'[i], p) # currentTerm'[i]
    BY <2>2, NextViews
  <2>4. ASSUME NEW m \in AECalls'
        PROVE  m.term # currentTerm'[i]
    <3>1. PICK c \in AECalls : m.term = c.term
      BY <1>0, <2>1, OldCall DEF Still
    <3>2. c \in rpcs /\ IsCall(c)
      BY DEF AECalls, IsCall
    <3> QED
      BY <1>2, <2>1, <3>1, <3>2, WinsFresh
  <2> QED
    BY <2>2, <2>3, <2>4 DEF OwnsTerm
<1>3. ASSUME NEW i \in Server, state'[i] = "Leader"
      PROVE  OwnsTerm(i)' /\ \A m \in AECalls' : m.term = currentTerm'[i] => PartOf(m, i)'
  BY <1>1, <1>2, <1>3, LeaderKinds
<1> QED
  BY <1>3 DEF LeaderOwns

\* Where an entry comes from.
LEMMA TermOrigin ==
    ASSUME Base, Moved, NEW f \in Views', NEW p \in DOMAIN f
    PROVE  \/ \E g \in Views : p \in DOMAIN g /\ TermAt(f, p) = TermAt(g, p)
           \/ \E i \in Server : \E c \in Command :
                /\ Start(i, c) /\ f = log'[i] /\ p = Len(log[i]) + 1
                /\ TermAt(f, p) = currentTerm[i]
<1>0. TypeOK /\ TypeOK' /\ Plain /\ StepKind
  BY DEF Base, Moved
<1>1. ASSUME NEW i \in Server, NEW c \in Command, Start(i, c), f = log'[i]
      PROVE  \/ \E g \in Views : p \in DOMAIN g /\ TermAt(f, p) = TermAt(g, p)
             \/ p = Len(log[i]) + 1 /\ TermAt(f, p) = currentTerm[i]
  <2>1. PICK len \in Nat : /\ len = Len(log[i]) /\ DOMAIN log[i] = 1 .. len /\ log[i] \in Views
                           /\ DOMAIN log'[i] = 1 .. len + 1
    BY <1>0, <1>1, LogView, StartLog, NextViews
  <2>2. p \in 1 .. len \/ p = len + 1
    BY <1>1, <2>1
  <2>3. CASE p \in 1 .. len
    <3>1. TermAt(f, p) = TermAt(log[i], p)
      BY <1>0, <1>1, <2>1, <2>3, StartLog DEF TermAt
    <3> QED
      BY <2>1, <2>3, <3>1
  <2>4. CASE p = len + 1
    BY <1>0, <1>1, <2>1, <2>4, StartLog
  <2> QED
    BY <2>2, <2>3, <2>4
<1>2. ASSUME NEW i \in Server, NEW c \in Command, Start(i, c), f # log'[i]
      PROVE  f \in Views
  BY <1>0, <1>2, StartLog DEF Views
<1> QED
  BY <1>0, <1>1, <1>2, TermsKinds DEF OldTerms

LEMMA CallOwnsStep ==
    ASSUME Base, Moved, TermsInv, LeaderOwns, CallOwns
    PROVE  CallOwns'
<1>0. TypeOK /\ TypeOK' /\ Plain /\ StepKind /\ VotesSound /\ CallsElected /\ OneCall
  BY DEF Base, Moved, CallsInv
<1>1. ASSUME NEW m \in AECalls', NEW f \in Views', NEW p \in DOMAIN f,
             TermAt(f, p) = m.term, p <= End(m)
      PROVE  TermAt(View(m), MaxOf(p, Lo(m))) = m.term
  <2>1. ASSUME NEW c \in AECalls, SameCall(m, c), NEW g \in Views, p \in DOMAIN g,
               TermAt(f, p) = TermAt(g, p)
        PROVE  TermAt(View(m), MaxOf(p, Lo(m))) = m.term
    BY <1>1, <2>1 DEF CallOwns, SameCall
  <2>2. ASSUME NEW c \in AECalls, SameCall(m, c), NEW k \in Server, NEW cmd \in Command,
               Start(k, cmd), p = Len(log[k]) + 1, TermAt(f, p) = currentTerm[k]
        PROVE  FALSE
    <3>1. PartOf(c, k)
      BY <1>0, <1>1, <2>2, StartLog DEF LeaderOwns, SameCall
    <3>2. PICK len \in Nat, end \in Nat : len = Len(log[k]) /\ end = End(c) /\ End(m) = end
      BY <1>0, <2>2, LogView, ViewFacts DEF SameCall
    <3>3. end <= len /\ len + 1 <= end
      BY <1>1, <2>2, <3>1, <3>2 DEF PartOf
    <3> QED
      BY <3>3
  <2>3. ASSUME NEW i \in Server, NEW j \in Server, SendAppendEntries(i, j), m = Sent(i, j)
        PROVE  TermAt(View(m), MaxOf(p, Lo(m))) = m.term
    <3>1. OldTerms
      <4>1. ~(\E k \in Server : \E c \in Command : Start(k, c))
        <5>1. rpcs' # rpcs
          <6>1. ~Awaited(i, j, currentTerm[i]) /\ m.src = i /\ m.dst = j /\ m.term = currentTerm[i]
                /\ m.type = "AE" /\ m.live = TRUE /\ m \in rpcs'
            BY <1>1, <2>3, SentCall DEF MaySend, Sent
          <6> QED
            BY <6>1 DEF Awaited
        <5> QED
          BY <5>1 DEF Start
      <4> QED
        BY <1>0, <4>1, TermsKinds
    <3>2. PICK g \in Views : p \in DOMAIN g /\ TermAt(g, p) = currentTerm[i]
      BY <1>1, <2>3, <3>1 DEF OldTerms, Sent
    <3>3. PICK len \in Nat, lo \in Nat : /\ len = Len(log[i]) /\ lo = Lo(m) /\ lo >= 1 /\ lo <= len
                                         /\ End(m) = len
      <4>1. PICK len \in Nat : len = Len(log[i])
        BY <1>0, LogView
      <4>2. Lo(m) \in 1 .. len /\ End(m) = len
        BY <1>0, <2>3, <4>1, SentPart
      <4> QED
        BY <4>1, <4>2
    <3>4. p <= len /\ TermAt(log[i], p) = currentTerm[i] /\ p \in Nat /\ p >= 1
      <4>1. OwnsTerm(i)
        BY <2>3, SentCall DEF LeaderOwns, MaySend
      <4> QED
        BY <1>0, <3>2, <3>3, <4>1, ViewAt DEF OwnsTerm
    <3>5. PICK q \in Nat : q = MaxOf(p, lo) /\ q >= p /\ q >= lo /\ q <= len
      BY <3>3, <3>4 DEF MaxOf
    <3>6. TermAt(log[i], q) = currentTerm[i]
      <4>1. OwnsTerm(i) /\ p \in 1 .. len /\ q \in 1 .. len
        BY <2>3, <3>3, <3>4, <3>5, SentCall DEF LeaderOwns, MaySend
      <4> QED
        BY <3>3, <3>4, <3>5, <4>1 DEF OwnsTerm
    <3>7. TermAt(View(m), q) = TermAt(log[i], q)
      <4>1. q \in lo .. len
        BY <3>3, <3>5
      <4> QED
        BY <1>0, <2>3, <3>3, <4>1, SentPart
    <3> QED
      BY <2>3, <3>3, <3>5, <3>6, <3>7 DEF Sent
  <2> QED
    BY <2>1, <2>2, <2>3, CallOrigin, TermOrigin
<1>2. ASSUME NEW m \in AECalls', currentTerm'[m.dst] <= m.term,
             NEW p \in 1 .. Len(log'[m.dst]), TermAt(log'[m.dst], p) = m.term
      PROVE  p <= End(m)
  <2>0. m.dst \in Server /\ m.term \in Nat /\ m \in rpcs'
    <3>1. m \in rpcs'
      BY DEF AECalls
    <3>2. m \in Message
      BY <1>0, <3>1 DEF TypeOK, Base, Moved
    <3> QED
      BY <3>1, <3>2 DEF Message
  <2>1. PICK t \in Nat, u \in Nat, v \in Server :
          t = currentTerm[m.dst] /\ u = currentTerm'[m.dst] /\ t <= u /\ u <= m.term /\ v = m.dst /\ t <= m.term
    BY <1>2, <2>0, TermsGrow
  <2>2. ASSUME NEW c \in AECalls, SameCall(m, c), p \in 1 .. Len(log[v]), log'[v][p] = log[v][p]
        PROVE  p <= End(m)
    BY <1>2, <2>1, <2>2 DEF CallOwns, SameCall, TermAt
  <2>3. ASSUME NEW c \in AECalls, SameCall(m, c), NEW k \in Server, NEW cmd \in Command,
               Start(k, cmd)
        PROVE  p <= End(m)
    <3>1. CASE k # v
      BY <1>0, <1>2, <2>1, <2>2, <2>3, <3>1, StartLog
    <3>2. CASE k = v
      <4>1. PICK len \in Nat : len = Len(log[v])
        BY <1>0, <2>1, LogView
      <4>2. p \in 1 .. len \/ p = len + 1
        BY <1>0, <1>2, <2>1, <2>3, <3>2, <4>1, StartLog
      <4>3. CASE p \in 1 .. len
        BY <1>0, <2>2, <2>3, <3>2, <4>1, <4>3, StartLog
      <4>4. CASE p = len + 1
        <5>1. m.term = currentTerm[v] /\ state[v] = "Leader"
          BY <1>0, <1>2, <2>1, <2>3, <3>2, <4>1, <4>4, StartLog
        <5>2. c \in rpcs /\ IsCall(c) /\ c.term = currentTerm[v] /\ c.dst = v
          BY <2>1, <2>3, <5>1 DEF SameCall, AECalls, IsCall
        <5> QED
          BY <1>0, <2>1, <5>1, <5>2, NoRival
      <4> QED
        BY <4>2, <4>3, <4>4
    <3> QED
      BY <3>1, <3>2
  <2>4. ASSUME NEW a \in rpcs, Accepted(a)
        PROVE  p <= End(m)
    <3>1. PICK c \in Nat : a \in AECalls /\ Merged(a, c)
      BY <1>0, <2>4, AcceptedMerges
    <3>2. m \in AECalls /\ m # a /\ SameCall(m, m)
      BY <1>2, <2>4, <3>1, AcceptedCalls DEF SameCall
    <3>3. CASE a.dst # v
      BY <1>2, <2>1, <2>2, <3>1, <3>2, <3>3 DEF Merged
    <3>4. CASE a.dst = v /\ p \in Lo(a) + 1 .. End(a) /\ log'[v][p] = View(a)[p]
      <4>1. p \in Lo(a) .. End(a)
        <5>1. PICK lo \in Nat, end \in Nat : lo = Lo(a) /\ end = End(a)
          BY <1>0, <3>1, ViewFacts
        <5> QED
          BY <3>4, <5>1
      <4>2. m.term <= a.term /\ a.term \in Nat
        BY <1>0, <1>2, <2>1, <3>1, <3>4, <4>1, CallNumbers DEF TermsInv, TermAt, AECalls
      <4>3. u = a.term
        BY <1>0, <2>1, <2>4, <3>4 DEF Accepted, Follow, TypeOK
      <4>4. m.term = a.term
        BY <2>0, <2>1, <4>2, <4>3
      <4>5. m \in rpcs /\ IsCall(m) /\ IsCall(a)
        BY <3>1, <3>2 DEF AECalls, IsCall
      <4> QED
        BY <1>0, <2>1, <3>2, <3>4, <4>4, <4>5 DEF OneCall
    <3>5. CASE a.dst = v /\ p \in 1 .. Len(log[v]) /\ log'[v][p] = log[v][p]
      BY <2>2, <3>2, <3>5
    <3> QED
      BY <1>0, <1>2, <2>1, <3>1, <3>3, <3>4, <3>5, MergedTerms, NextViews
  <2>5. ASSUME NEW i \in Server, NEW j \in Server, SendAppendEntries(i, j)
        PROVE  p <= End(m)
    <3>1. log' = log
      BY <2>5 DEF SendAppendEntries, persistent
    <3>2. CASE m \in AECalls
      BY <1>2, <2>1, <2>2, <3>1, <3>2 DEF SameCall
    <3>3. CASE m = Sent(i, j)
      <4>1. TermAt(log[v], p) = currentTerm[i] /\ End(m) = Len(log[i])
        BY <1>0, <1>2, <2>1, <2>5, <3>1, <3>3, SentPart DEF Sent
      <4>2. OwnsTerm(i) /\ log[v] \in Views /\ p \in DOMAIN log[v]
        BY <1>0, <1>2, <2>1, <2>5, <3>1, SentCall, LogView DEF LeaderOwns, MaySend
      <4> QED
        BY <4>1, <4>2 DEF OwnsTerm
    <3> QED
      BY <1>0, <2>5, <3>2, <3>3, SentPart
  <2>6. ASSUME NEW i \in Server, NEW j \in Server, GetVote(i, j)
        PROVE  log' = log /\ m \in AECalls
    BY <1>2, <2>6 DEF GetVote, persistent, AECalls
  <2>7. CASE log' = log /\ \E c \in AECalls : SameCall(m, c)
    BY <1>2, <2>1, <2>2, <2>7
  <2>8. CASE Still
    BY <1>0, <1>2, <2>7, <2>8, OldCall DEF Still, SameCall
  <2>9. ASSUME NEW k \in Server, NEW cmd \in Command, Start(k, cmd)
        PROVE  p <= End(m)
    <3>1. m \in AECalls /\ SameCall(m, m)
      BY <1>0, <1>2, <2>9, StartLog DEF SameCall
    <3> QED
      BY <2>3, <2>9, <3>1
  <2>10. m \in AECalls => SameCall(m, m)
    BY DEF SameCall
  <2> QED
    BY <1>0, <2>4, <2>5, <2>6, <2>7, <2>8, <2>9, <2>10, LogKinds
<1> QED
  BY <1>1, <1>2 DEF CallOwns

-----------------------------------------------------------------------------
(* What a leader knows of its followers.                                   *)

\* nextIndex[i][j] changes only when no AppendEntries call of leader i to j is
\* under way any more.
OldNext ==
    \A i, j \in Server : state'[i] = "Leader" =>
      \/ nextIndex'[i][j] = nextIndex[i][j]
      \/ \A m \in rpcs' : m.type \in {"AE", "AEReply"} /\ m.src = i /\ m.dst = j
                            => m.term # currentTerm'[i]

LEMMA NextKept ==
    ASSUME Calm, Base, Moved, TermsInv, inside = {}, [Next]_vars
    PROVE  OldNext \/ \E i, j \in Server : SendAppendEntries(i, j)
<1>0. TypeOK /\ Plain /\ OneCall /\ OneCall'
  BY DEF Base, Moved, CallsInv
<1>1. UNCHANGED nextIndex => OldNext
  BY DEF OldNext
<1>2. ASSUME NEW i \in Server, NEW j \in Server,
             \A k, l \in Server : k # i \/ l # j => nextIndex'[k][l] = nextIndex[k][l],
             \A m \in rpcs' : m.type \in {"AE", "AEReply"} /\ m.src = i /\ m.dst = j
                                => m.term # currentTerm'[i]
      PROVE  OldNext
  BY <1>2 DEF OldNext
<1>3. ASSUME NEW m \in rpcs, HandleAppendEntriesReply(m.src, m) \/ HandleInstallSnapshotReply(m.src, m)
      PROVE  OldNext
  <2>0. m.src \in Server /\ m.dst \in Server /\ rpcs' = rpcs \ {m} /\ IsCall(m)
    BY <1>0, <1>3, VoteMessage DEF HandleAppendEntriesReply, HandleInstallSnapshotReply, IsCall
  <2>1. \/ UNCHANGED nextIndex
        \/ /\ m.term = currentTerm'[m.src]
           /\ \E x : nextIndex' = [nextIndex EXCEPT ![m.src][m.dst] = x]
    <3>1. CASE AppendEntriesSucceeded(m.src, m)
      BY <3>1 DEF AppendEntriesSucceeded, persistent
    <3>2. CASE InstallSnapshotDone(m.src, m)
      BY <3>2 DEF InstallSnapshotDone, persistent
    <3>3. CASE BackUp(m.src, m)
      BY <3>3 DEF BackUp, persistent, Calm
    <3>4. CASE ReplyOfNewerTerm(m.src, m) \/ ReplyIgnored(m.src, m)
      BY <3>4 DEF ReplyOfNewerTerm, ReplyIgnored, leaderVars
    <3> QED
      BY <1>3, <3>1, <3>2, <3>3, <3>4 DEF HandleAppendEntriesReply, HandleInstallSnapshotReply
  <2>2. ASSUME NEW n \in rpcs', n.type \in {"AE", "AEReply"}, n.src = m.src, n.dst = m.dst,
               n.term = m.term
        PROVE  FALSE
    <3>1. n \in rpcs /\ n # m /\ IsCall(n)
      BY <2>0, <2>2 DEF IsCall
    <3> QED
      BY <1>0, <2>0, <2>2, <3>1 DEF OneCall
  <2>3. CASE UNCHANGED nextIndex
    BY <1>1, <2>3
  <2>4. CASE /\ m.term = currentTerm'[m.src]
             /\ \E x : nextIndex' = [nextIndex EXCEPT ![m.src][m.dst] = x]
    <3>1. PICK x : nextIndex' = [nextIndex EXCEPT ![m.src][m.dst] = x]
      BY <2>4
    <3>2. \A n \in rpcs' : n.type \in {"AE", "AEReply"} /\ n.src = m.src /\ n.dst = m.dst
                              => n.term # currentTerm'[m.src]
      BY <2>2, <2>4
    <3>3. \A k, l \in Server : k # m.src \/ l # m.dst => nextIndex'[k][l] = nextIndex[k][l]
      BY <1>0, <2>0, <3>1 DEF TypeOK
    <3> QED
      BY <1>2, <2>0, <3>2, <3>3
  <2> QED
    BY <2>1, <2>3, <2>4
<1>4. ASSUME NEW i \in Server, NEW j \in Server, SendInstallSnapshot(i, j)
      PROVE  OldNext
  <2> DEFINE offer == [type |-> "IS", src |-> i, dst |-> j, term |-> currentTerm[i],
                       lastIndex |-> snapshotIndex[i], lastTerm |-> snapshotTerm[i],
                       data |-> snapshotByte[i], live |-> TRUE]
  <2>0. offer.type = "IS" /\ offer.src = i /\ offer.dst = j /\ offer.term = currentTerm[i]
    OBVIOUS
  <2>4. offer \in rpcs' /\ currentTerm' = currentTerm
    BY <1>4 DEF SendInstallSnapshot, persistent
  <2> HIDE DEF offer
  <2>1. PICK r \in rpcs' : r.type = "IS" /\ r.src = i /\ r.dst = j /\ r.term = currentTerm'[i]
    BY <2>0, <2>4
  <2>2. ASSUME NEW n \in rpcs', n.type \in {"AE", "AEReply"}, n.src = i, n.dst = j
        PROVE  n.term # currentTerm'[i]
    BY <1>0, <2>1, <2>2 DEF OneCall, IsCall
  <2>3. PICK x : nextIndex' = [nextIndex EXCEPT ![i][j] = x]
    BY <1>4 DEF SendInstallSnapshot
  <2>5. \A n \in rpcs' : n.type \in {"AE", "AEReply"} /\ n.src = i /\ n.dst = j
                            => n.term # currentTerm'[i]
    BY <2>2
  <2>6. \A k, l \in Server : k # i \/ l # j => nextIndex'[k][l] = nextIndex[k][l]
    BY <1>0, <2>3 DEF TypeOK
  <2> QED
    BY <1>2, <2>5, <2>6
<1>5. ASSUME NEW i \in Server, NEW d, Reload(i, d)
      PROVE  OldNext
  <2>1. state'[i] # "Leader" /\ \A k \in Server : k # i => nextIndex'[k] = nextIndex[k]
    BY <1>0, <1>5 DEF Reload, TypeOK
  <2>2. ASSUME NEW k \in Server, NEW l \in Server, state'[k] = "Leader"
        PROVE  nextIndex'[k][l] = nextIndex[k][l]
    BY <2>1, <2>2
  <2> QED
    BY <2>2 DEF OldNext
<1>6. ASSUME NEW m \in rpcs, HandleVoteReply(m.src, m) \/ LoseVote(m.src, m)
      PROVE  OldNext
  <2>0. m.src \in Server /\ rpcs' \subseteq rpcs
    BY <1>0, <1>6, VoteMessage DEF HandleVoteReply, LoseVote
  <2>1. CASE UNCHANGED leaderVars
    BY <1>1, <2>1 DEF leaderVars
  <2>2. CASE Counting(m.src) /\ \E g : Tally(m.src, m, g)
    <3>1. \A k \in Server : k # m.src => nextIndex'[k] = nextIndex[k]
      <4>1. \/ UNCHANGED nextIndex
            \/ \E x : nextIndex' = [nextIndex EXCEPT ![m.src] = x]
        BY <2>2 DEF Tally, leaderVars
      <4> QED
        BY <1>0, <4>1 DEF TypeOK
    <3>2. ASSUME state'[m.src] = "Leader", NEW n \in rpcs', n.type \in {"AE", "AEReply"}
          PROVE  n.term # currentTerm'[m.src]
      <4>1. Wins(m.src)
        BY <2>0, <2>2, <3>2, LeaderKinds DEF Counting
      <4>2. n \in rpcs /\ IsCall(n)
        BY <2>0, <3>2 DEF IsCall
      <4> QED
        BY <2>0, <4>1, <4>2, WinsFresh DEF Wins
    <3>3. ASSUME NEW k \in Server, NEW l \in Server, state'[k] = "Leader"
          PROVE  \/ nextIndex'[k][l] = nextIndex[k][l]
                 \/ \A n \in rpcs' : n.type \in {"AE", "AEReply"} /\ n.src = k /\ n.dst = l
                                       => n.term # currentTerm'[k]
      <4>1. CASE k = m.src
        BY <3>2, <3>3, <4>1
      <4>2. CASE k # m.src
        BY <3>1, <4>2
      <4> QED
        BY <4>1, <4>2
    <3> QED
      BY <3>3 DEF OldNext
  <2> QED
    BY <1>6, <2>1, <2>2 DEF HandleVoteReply, LoseVote
<1>7. ASSUME NEW i \in Server,
             \/ StartElection(i) \/ AbortElection(i) \/ AdvanceCommit(i)
             \/ \E c \in Command : Start(i, c)
             \/ \E j \in Server : GetVote(i, j)
      PROVE  UNCHANGED nextIndex
  BY <1>7 DEF StartElection, AbortElection, AdvanceCommit, Start, GetVote, leaderVars
<1>8. ASSUME NEW m \in rpcs,
             \/ RequestVote(m.dst, m) \/ AppendEntries(m.dst, m) \/ InstallSnapshot(m.dst, m)
             \/ Lose(m)
      PROVE  UNCHANGED nextIndex
  BY <1>8 DEF RequestVote, AppendEntries, InstallSnapshot, Lose, leaderVars
<1>9. ASSUME NEW m \in rpcs, AppendEntriesResume(m.dst, m) \/ Timeout(m)
      PROVE  FALSE
  BY <1>9 DEF AppendEntriesResume, Timeout, Calm
<1>10. ASSUME NEW i \in Server, Restart(i)
       PROVE  OldNext
  BY <1>5, <1>10 DEF Restart
<1>11. ASSUME NEW m \in rpcs, RestartInHandler(m.dst, m)
       PROVE  OldNext
  BY <1>0, <1>5, <1>11, VoteMessage DEF RestartInHandler
<1>12. CASE UNCHANGED vars
  BY <1>1, <1>12 DEF vars
<1>13. CASE Next
  BY <1>1, <1>3, <1>4, <1>6, <1>7, <1>8, <1>9, <1>10, <1>11, <1>13 DEF Next, Calm
<1> QED
  BY <1>12, <1>13

\* matchIndex of a leader changes only when it is told that entries are stored.
LEMMA MatchKinds ==
    ASSUME Base, Moved, NEW i \in Server, state[i] = "Leader", state'[i] = "Leader"
    PROVE  matchIndex'[i] = matchIndex[i] \/ \E m \in rpcs : Acknowledged(m) /\ m.src = i
<1>0. TypeOK /\ StepKind
  BY DEF Base, Moved
<1>1. CASE OldMatch
  BY <1>1 DEF OldMatch
<1>2. CASE UNCHANGED matchIndex
  BY <1>2
<1>3. ASSUME NEW k \in Server, Wins(k)
      PROVE  matchIndex'[i] = matchIndex[i]
  BY <1>3 DEF Wins, Counting
<1>4. ASSUME NEW m \in rpcs, Acknowledged(m), m.src # i
      PROVE  matchIndex'[i] = matchIndex[i]
  BY <1>0, <1>4 DEF Acknowledged, AppendEntriesSucceeded, TypeOK
<1>5. ASSUME NEW k \in Server, \/ StartElection(k) \/ Commits(k) \/ \E c \in Command : Start(k, c)
                               \/ \E j \in Server : GetVote(k, j) \/ SendAppendEntries(k, j)
      PROVE  UNCHANGED matchIndex
  BY <1>5 DEF StartElection, Commits, Start, GetVote, SendAppendEntries, leaderVars
<1>6. ASSUME NEW m \in rpcs, Accepted(m)
      PROVE  UNCHANGED matchIndex
  BY <1>6 DEF Accepted, leaderVars
<1> QED
  BY <1>0, <1>1, <1>2, <1>3, <1>4, <1>5, <1>6 DEF StepKind, NoLogStep, Casts

\* Where an acknowledgement comes from.
LEMMA AckOrigin ==
    ASSUME Calm, Base, Moved, NEW r \in rpcs', r.type = "AEReply", r.success = TRUE, r \notin rpcs
    PROVE  \E m \in AECalls :
             /\ Accepted(m) /\ r.last + 1 = End(m) /\ r.src = m.src /\ r.dst = m.dst /\ r.term = m.term
             /\ state[m.src] = "Leader" /\ currentTerm[m.src] = m.term
<1>0. TypeOK /\ Plain /\ StepKind
  BY DEF Base, Moved
<1>1. ~OldAcks
  BY DEF OldAcks
<1>2. ASSUME NEW i \in Server, \/ StartElection(i) \/ Commits(i) \/ \E c \in Command : Start(i, c)
                               \/ \E j \in Server : GetVote(i, j) \/ SendAppendEntries(i, j)
      PROVE  OldAcks
  <2>1. CASE StartElection(i) \/ Commits(i) \/ \E c \in Command : Start(i, c)
    <3>1. rpcs' = rpcs
      BY <2>1 DEF StartElection, Commits, Start
    <3> QED
      BY <3>1 DEF OldAcks
  <2>2. ASSUME NEW j \in Server, GetVote(i, j)
        PROVE  OldAcks
    BY <2>2 DEF GetVote, OldAcks
  <2>3. ASSUME NEW j \in Server, SendAppendEntries(i, j)
        PROVE  OldAcks
    <3>1. Sent(i, j).type = "AE" /\ rpcs' = rpcs \cup {Sent(i, j)}
      BY <2>3, SentCall DEF Sent
    <3> QED
      BY <3>1 DEF OldAcks
  <2> QED
    BY <1>2, <2>1, <2>2, <2>3
<1>3. ASSUME NEW m \in rpcs, Acknowledged(m)
      PROVE  OldAcks
  BY <1>3 DEF Acknowledged, OldAcks
<1>4. PICK m \in rpcs : Accepted(m)
  BY <1>0, <1>1, <1>2, <1>3 DEF StepKind, NoLogStep, Casts, Wins
<1>5. m \in AECalls
  BY <1>0, <1>4, AcceptedMerges
<1>6. Waits(m) /\ r = AEReply(m, m.term, TRUE, 0, 0, 0)
  BY <1>4 DEF Accepted, Reply
<1>7. state[m.src] = "Leader" /\ currentTerm[m.src] = m.term
  BY <1>6 DEF Waits, Calm
<1>8. r.src = m.src /\ r.dst = m.dst /\ r.term = m.term /\ r.last = m.prev + Len(m.entries)
  BY <1>6 DEF AEReply
<1>9. r.last + 1 = End(m)
  <2>1. PICK prev \in Nat, len \in Nat : prev = m.prev /\ len = Len(m.entries)
    BY <1>0, <1>5, EntriesMessage, LenProperties DEF AECalls
  <2> QED
    BY <1>8, <2>1 DEF End
<1> QED
  BY <1>4, <1>5, <1>7, <1>8, <1>9

LEMMA ReplyMessage ==
    ASSUME TypeOK, NEW m \in rpcs, m.type = "AEReply"
    PROVE  m.last \in Nat /\ m.success \in BOOLEAN /\ m.term \in Nat /\ m.src \in Server /\ m.dst \in Server
  BY DEF TypeOK, Message

\* matchIndex[i][j] becomes what j has just acknowledged.
LEMMA MatchStep ==
    ASSUME Base, Moved, ProgressInv, NEW i \in Server, NEW j \in Server,
           state[i] = "Leader", state'[i] = "Leader"
    PROVE  \/ matchIndex'[i][j] = matchIndex[i][j]
           \/ \E m \in rpcs : /\ Acknowledged(m) /\ m.src = i /\ m.dst = j /\ m.term = currentTerm[i]
                              /\ m.type = "AEReply" /\ m.success = TRUE /\ rpcs' = rpcs \ {m}
                              /\ matchIndex'[i][j] = m.last
<1>1. CASE matchIndex'[i] = matchIndex[i]
  BY <1>1
<1>2. ASSUME NEW m \in rpcs, Acknowledged(m), m.src = i
      PROVE  \/ matchIndex'[i][j] = matchIndex[i][j]
             \/ /\ m.dst = j /\ m.term = currentTerm[i] /\ m.type = "AEReply" /\ m.success = TRUE
                /\ matchIndex'[i][j] = m.last /\ rpcs' = rpcs \ {m}
  <2>0. TypeOK /\ m.type = "AEReply" /\ rpcs' = rpcs \ {m}
    BY <1>2 DEF Base, Acknowledged
  <2>1. PICK last \in Nat : last = m.last
    BY <2>0, ReplyMessage
  <2>2. m.success = TRUE /\ m.term = currentTerm[i] /\ m.dst \in Server
    BY <1>2, <2>0, ReplyMessage DEF Acknowledged, AppendEntriesSucceeded
  <2>3. PICK next \in Nat : next = nextIndex[i][m.dst] /\ next <= last + 1
    <3>1. nextIndex[i][m.dst] <= m.last + 1
      BY <1>2, <2>0, <2>2 DEF ProgressInv
    <3>2. nextIndex[i][m.dst] \in Nat
      BY <2>0, <2>2 DEF TypeOK
    <3> QED
      BY <2>1, <3>1, <3>2
  <2>4. nextIndex'[i][m.dst] = last + 1
    <3>1. nextIndex' = [nextIndex EXCEPT ![i][m.dst] = MaxOf(@, last + 1)]
      BY <1>2, <2>1 DEF Acknowledged, AppendEntriesSucceeded, Acked
    <3>2. nextIndex'[i][m.dst] = MaxOf(next, last + 1)
      BY <2>0, <2>2, <2>3, <3>1 DEF TypeOK
    <3>3. MaxOf(next, last + 1) = last + 1
      BY <2>3 DEF MaxOf
    <3> QED
      BY <3>2, <3>3
  <2>5. matchIndex' = [matchIndex EXCEPT ![i][m.dst] = last]
    <3>1. matchIndex' = [matchIndex EXCEPT ![i][m.dst] = nextIndex'[i][m.dst] - 1]
      BY <1>2 DEF Acknowledged, AppendEntriesSucceeded
    <3>2. nextIndex'[i][m.dst] - 1 = last
      BY <2>4
    <3> QED
      BY <3>1, <3>2
  <2>6. CASE j = m.dst
    <3>1. matchIndex'[i][j] = last
      BY <2>0, <2>2, <2>5, <2>6 DEF TypeOK
    <3> QED
      BY <2>0, <2>1, <2>2, <2>6, <3>1
  <2>7. CASE j # m.dst
    BY <2>0, <2>2, <2>5, <2>7 DEF TypeOK
  <2> QED
    BY <2>6, <2>7
<1> QED
  BY <1>1, <1>2, MatchKinds

\* nextIndex of a server that has a call from the leader stays until the call
\* is over.
LEMMA NextStep ==
    ASSUME Calm, Base, Moved, TermsInv, inside = {}, [Next]_vars, NEW i \in Server,
           state'[i] = "Leader", NEW m \in rpcs', m.type \in {"AE", "AEReply"}, m.src = i,
           m.term = currentTerm'[i]
    PROVE  \/ nextIndex'[i][m.dst] = nextIndex[i][m.dst]
           \/ \E j \in Server : SendAppendEntries(i, j) /\ m = Sent(i, j)
<1>0. TypeOK /\ TypeOK' /\ OneCall'
  BY DEF Base, Moved, CallsInv
<1>1. m.dst \in Server
  BY <1>0 DEF TypeOK, Message
<1>2. CASE OldNext
  BY <1>1, <1>2 DEF OldNext
<1>3. ASSUME NEW a \in Server, NEW j \in Server, SendAppendEntries(a, j)
      PROVE  \/ nextIndex'[i][m.dst] = nextIndex[i][m.dst]
             \/ SendAppendEntries(i, j) /\ m = Sent(i, j)
  <2>1. PICK x : nextIndex' = [nextIndex EXCEPT ![a][j] = x]
    BY <1>3 DEF SendAppendEntries
  <2>2. CASE a # i \/ m.dst # j
    BY <1>0, <1>1, <2>1, <2>2 DEF TypeOK
  <2>3. CASE a = i /\ m.dst = j
    <3>1. Sent(i, j) \in rpcs' /\ currentTerm' = currentTerm
      <4>1. currentTerm' = currentTerm
        BY <1>3 DEF SendAppendEntries, persistent
      <4> QED
        BY <1>3, <2>3, <4>1, SentCall
    <3>2. /\ Sent(i, j).type = "AE" /\ Sent(i, j).src = i /\ Sent(i, j).dst = j
          /\ Sent(i, j).term = currentTerm[i]
      BY DEF Sent
    <3>3. m = Sent(i, j)
      BY <1>0, <2>3, <3>1, <3>2 DEF OneCall, IsCall
    <3> QED
      BY <1>3, <2>3, <3>3
  <2> QED
    BY <2>2, <2>3
<1> QED
  BY <1>2, <1>3, NextKept

LEMMA ProgressStep ==
    ASSUME Calm, Base, Moved, TermsInv, LeaderOwns, ProgressInv, inside = {}, [Next]_vars
    PROVE  ProgressInv'
<1>0. TypeOK /\ TypeOK' /\ Plain /\ OneCall /\ VotesSound /\ CallsElected
  BY DEF Base, Moved, CallsInv
<1>1. ASSUME NEW i \in Server, state'[i] = "Leader", Wins(i)
      PROVE  /\ \A j \in Server \ {i} : matchIndex'[i][j] + 1 <= Len(log'[i])
             /\ \A m \in rpcs' : m.src = i /\ m.term = currentTerm'[i] =>
                  m.type # "AE" /\ ~(m.type = "AEReply" /\ m.success = TRUE)
  <2>1. state[i] # "Leader" /\ currentTerm' = currentTerm
    BY <1>1 DEF Wins, Counting
  <2>2. \A j \in Server : matchIndex'[i][j] = 0
    BY <1>1 DEF Wins
  <2>3. PICK have \in Nat : have = Len(log'[i]) /\ have >= 1
    BY NextViews
  <2>4. \A j \in Server : matchIndex'[i][j] + 1 <= Len(log'[i])
    BY <2>2, <2>3
  <2>5. ASSUME NEW m \in rpcs', m.src = i, m.term = currentTerm'[i], m.type = "AE"
        PROVE  FALSE
    <3>1. m \in AECalls'
      BY <2>5 DEF AECalls
    <3>2. ASSUME NEW c \in AECalls, SameCall(m, c)
          PROVE  FALSE
      <4>1. c \in rpcs /\ IsCall(c) /\ c.term = currentTerm[i]
        BY <2>1, <2>5, <3>2 DEF AECalls, IsCall, SameCall
      <4> QED
        BY <1>1, <4>1, WinsFresh
    <3>3. ASSUME NEW a \in Server, NEW j \in Server, SendAppendEntries(a, j), m = Sent(a, j)
          PROVE  FALSE
      BY <2>1, <2>5, <3>3, SentCall DEF Sent, MaySend
    <3> QED
      BY <3>1, <3>2, <3>3, CallOrigin
  <2>6. ASSUME NEW m \in rpcs', m.src = i, m.term = currentTerm'[i], m.type = "AEReply", m.success = TRUE
        PROVE  FALSE
    <3>1. CASE m \in rpcs
      BY <1>1, <2>1, <2>6, <3>1, WinsFresh DEF IsCall
    <3>2. CASE m \notin rpcs
      BY <2>1, <2>6, <3>2, AckOrigin
    <3> QED
      BY <3>1, <3>2
  <2> QED
    BY <2>4, <2>5, <2>6
<1>2. ASSUME NEW i \in Server, state'[i] = "Leader", state[i] = "Leader",
             currentTerm'[i] = currentTerm[i]
      PROVE  /\ \A j \in Server \ {i} : matchIndex'[i][j] + 1 <= Len(log'[i])
             /\ \A m \in rpcs' : m.src = i /\ m.term = currentTerm'[i] =>
                  /\ m.type = "AE" => /\ nextIndex'[i][m.dst] = Lo(m)
                                      /\ matchIndex'[i][m.dst] + 1 <= End(m)
                  /\ m.type = "AEReply" /\ m.success = TRUE =>
                        /\ m.last + 1 <= Len(log'[i])
                        /\ nextIndex'[i][m.dst] <= m.last + 1
                        /\ matchIndex'[i][m.dst] <= m.last
  <2>1. PICK have \in Nat, new \in Nat : have = Len(log[i]) /\ new = Len(log'[i]) /\ new >= have
    BY <1>0, <1>2, LogView, NextViews, LeaderGrows
  <2>2. ASSUME NEW j \in Server, j # i
        PROVE  matchIndex'[i][j] + 1 <= Len(log'[i])
    <3>1. CASE matchIndex'[i][j] = matchIndex[i][j]
      <4>1. matchIndex[i][j] \in Nat /\ matchIndex[i][j] + 1 <= have
        BY <1>0, <1>2, <2>1, <2>2 DEF TypeOK, ProgressInv
      <4> QED
        BY <2>1, <3>1, <4>1
    <3>2. ASSUME NEW m \in rpcs, m.src = i, m.term = currentTerm[i], m.type = "AEReply",
                 m.success = TRUE, matchIndex'[i][j] = m.last
          PROVE  matchIndex'[i][j] + 1 <= Len(log'[i])
      <4>1. m.last \in Nat /\ m.last + 1 <= have
        BY <1>0, <1>2, <2>1, <3>2, ReplyMessage DEF ProgressInv
      <4> QED
        BY <2>1, <3>2, <4>1
    <3>3. CASE matchIndex'[i][j] # matchIndex[i][j]
      <4>2. PICK m \in rpcs : /\ Acknowledged(m) /\ m.src = i /\ m.dst = j /\ m.term = currentTerm[i]
                              /\ m.type = "AEReply" /\ m.success = TRUE /\ rpcs' = rpcs \ {m}
                              /\ matchIndex'[i][j] = m.last
        BY <1>2, <3>3, MatchStep
      <4> QED
        BY <3>2, <4>2
    <3> QED
      BY <3>1, <3>3
  <2>9. ASSUME NEW j \in Server, matchIndex'[i][j] # matchIndex[i][j]
        PROVE  \E n \in rpcs : /\ n.src = i /\ n.dst = j /\ n.term = currentTerm[i]
                               /\ n.type = "AEReply" /\ rpcs' = rpcs \ {n}
    BY <1>2, <2>9, MatchStep
  <2>3. ASSUME NEW m \in rpcs', m.src = i, m.term = currentTerm'[i], m.type \in {"AE", "AEReply"},
               NEW c \in rpcs, IsCall(c), SameKey(m, c), c.type = "AE" \/ c = m
        PROVE  matchIndex'[i][m.dst] = matchIndex[i][m.dst]
    <3>1. m.dst \in Server
      BY <1>0, <2>3 DEF TypeOK, Message
    <3>2. ASSUME NEW n \in rpcs, n.src = i, n.dst = m.dst, n.term = currentTerm[i],
                 n.type = "AEReply", rpcs' = rpcs \ {n}
          PROVE  FALSE
      <4>1. n = c
        BY <1>0, <1>2, <2>3, <3>2 DEF OneCall, IsCall, SameKey
      <4> QED
        BY <2>3, <3>2, <4>1
    <3>3. ASSUME NEW j \in Server, j = m.dst, matchIndex'[i][j] # matchIndex[i][j]
          PROVE  FALSE
      <4>1. PICK n \in rpcs : /\ n.src = i /\ n.dst = j /\ n.term = currentTerm[i]
                              /\ n.type = "AEReply" /\ rpcs' = rpcs \ {n}
        BY <2>9, <3>3
      <4> QED
        BY <3>2, <3>3, <4>1
    <3> QED
      BY <3>1, <3>3
  <2>4. ASSUME NEW m \in rpcs', m.src = i, m.term = currentTerm'[i], m.type = "AE"
        PROVE  nextIndex'[i][m.dst] = Lo(m) /\ matchIndex'[i][m.dst] + 1 <= End(m)
    <3>1. m \in AECalls'
      BY <2>4 DEF AECalls
    <3>2. ASSUME NEW j \in Server, SendAppendEntries(i, j), m = Sent(i, j)
          PROVE  nextIndex'[i][m.dst] = Lo(m) /\ matchIndex'[i][m.dst] + 1 <= End(m)
      <4>1. m.dst = j /\ j # i
        BY <3>2, SentCall DEF Sent, MaySend
      <4>2. Lo(m) = Next1(i, j) /\ End(m) = have
        BY <1>0, <2>1, <3>2, SentPart
      <4>3. nextIndex' = [nextIndex EXCEPT ![i][j] = Next1(i, j)] /\ matchIndex' = matchIndex
        BY <3>2 DEF SendAppendEntries
      <4>4. nextIndex'[i][j] = Next1(i, j)
        BY <1>0, <4>3 DEF TypeOK
      <4>5. matchIndex[i][j] + 1 <= have
        BY <1>2, <2>1, <4>1 DEF ProgressInv
      <4> QED
        BY <4>1, <4>2, <4>3, <4>4, <4>5
    <3>3. ASSUME NEW c \in AECalls, SameCall(m, c), ~\E j \in Server : SendAppendEntries(i, j) /\ m = Sent(i, j)
          PROVE  nextIndex'[i][m.dst] = Lo(m) /\ matchIndex'[i][m.dst] + 1 <= End(m)
      <4>1. c \in rpcs /\ c.type = "AE" /\ IsCall(c) /\ SameKey(m, c) /\ Lo(m) = Lo(c) /\ End(m) = End(c)
        BY <3>3 DEF AECalls, IsCall, SameKey, SameCall
      <4>2. c.src = i /\ c.dst = m.dst /\ c.term = currentTerm[i]
        BY <1>2, <2>4, <4>1 DEF SameKey
      <4>3. nextIndex[i][m.dst] = Lo(m) /\ matchIndex[i][m.dst] + 1 <= End(m)
        BY <1>2, <4>1, <4>2 DEF ProgressInv
      <4>4. matchIndex'[i][m.dst] = matchIndex[i][m.dst]
        BY <2>3, <2>4, <4>1
      <4>5. nextIndex'[i][m.dst] = nextIndex[i][m.dst]
        BY <1>2, <2>4, <3>3, NextStep
      <4> QED
        BY <4>3, <4>4, <4>5
    <3>4. ASSUME NEW a \in Server, NEW j \in Server, SendAppendEntries(a, j), m = Sent(a, j)
          PROVE  a = i
      BY <2>4, <3>4 DEF Sent
    <3> QED
      BY <3>1, <3>2, <3>3, <3>4, CallOrigin
  <2>5. ASSUME NEW m \in rpcs', m.src = i, m.term = currentTerm'[i], m.type = "AEReply", m.success = TRUE
        PROVE  /\ m.last + 1 <= Len(log'[i])
               /\ nextIndex'[i][m.dst] <= m.last + 1
               /\ matchIndex'[i][m.dst] <= m.last
    <3>0. nextIndex'[i][m.dst] = nextIndex[i][m.dst]
      <4>1. ASSUME NEW j \in Server, m = Sent(i, j)
            PROVE  FALSE
        BY <2>5, <4>1 DEF Sent
      <4> QED
        BY <1>2, <2>5, <4>1, NextStep
    <3>1. CASE m \in rpcs
      <4>1. /\ m.last \in Nat /\ m.last + 1 <= have
            /\ nextIndex[i][m.dst] <= m.last + 1
            /\ matchIndex[i][m.dst] <= m.last
        BY <1>0, <1>2, <2>1, <2>5, <3>1, ReplyMessage DEF ProgressInv
      <4>2. IsCall(m) /\ SameKey(m, m)
        BY <2>5 DEF IsCall, SameKey
      <4>3. matchIndex'[i][m.dst] = matchIndex[i][m.dst]
        BY <2>3, <2>5, <3>1, <4>2
      <4> QED
        BY <2>1, <3>0, <4>1, <4>3
    <3>2. CASE m \notin rpcs
      <4>1. PICK c \in AECalls : /\ Accepted(c) /\ m.last + 1 = End(c) /\ m.src = c.src
                                 /\ m.dst = c.dst /\ m.term = c.term
        BY <2>5, <3>2, AckOrigin
      <4>2. c \in rpcs /\ c.type = "AE" /\ c.term = currentTerm[i]
        BY <1>2, <2>5, <4>1 DEF AECalls
      <4>3. PICK end \in Nat, lo \in Nat, match \in Nat :
                   /\ end = End(c) /\ lo = Lo(c) /\ lo <= end /\ match = matchIndex[i][m.dst]
        <5>1. m.dst \in Server
          BY <1>0, <4>1, <4>2, VoteMessage
        <5>2. matchIndex[i][m.dst] \in Nat
          BY <1>0, <5>1 DEF TypeOK
        <5> QED
          BY <1>0, <5>2, ViewFacts
      <4>4. nextIndex[i][m.dst] = lo /\ match + 1 <= end
        BY <1>2, <2>5, <4>1, <4>2, <4>3 DEF ProgressInv
      <4>5. end <= have
        BY <1>2, <2>1, <4>1, <4>2, <4>3 DEF LeaderOwns, PartOf
      <4>6. matchIndex' = matchIndex
        BY <4>1 DEF Accepted, leaderVars
      <4>7. m.last \in Nat
        BY <1>0, <2>5 DEF TypeOK, Message
      <4> QED
        BY <2>1, <3>0, <4>1, <4>3, <4>4, <4>5, <4>6, <4>7
    <3> QED
      BY <3>1, <3>2
  <2> QED
    BY <2>2, <2>4, <2>5
<1> QED
  BY <1>1, <1>2, LeaderKinds DEF ProgressInv

-----------------------------------------------------------------------------
(* Logs that match.                                                        *)

\* A step makes at most one new log or part of one.
LEMMA NewView ==
    ASSUME Base, Moved
    PROVE  \/ Views' \subseteq Views
           \/ \E i, j \in Server : /\ SendAppendEntries(i, j)
                                   /\ Views' \subseteq Views \cup {View(Sent(i, j))}
           \/ \E i \in Server : \E c \in Command : /\ Start(i, c)
                                                   /\ Views' \subseteq Views \cup {log'[i]}
           \/ \E m \in AECalls : \E c \in Nat : /\ Accepted(m) /\ Merged(m, c)
                                                /\ Views' \subseteq Views \cup {log'[m.dst]}
<1>0. TypeOK /\ TypeOK' /\ Plain /\ StepKind
  BY DEF Base, Moved
<1>1. CASE Still
  BY <1>0, <1>1, StillViews
<1>2. ASSUME NEW i \in Server, NEW j \in Server, GetVote(i, j)
      PROVE  Views' \subseteq Views
  <2>1. log' = log /\ AECalls' = AECalls
    BY <1>2 DEF GetVote, persistent, AECalls
  <2> QED
    BY <2>1 DEF Views
<1>3. ASSUME NEW i \in Server, NEW j \in Server, SendAppendEntries(i, j)
      PROVE  Views' \subseteq Views \cup {View(Sent(i, j))}
  <2>1. log' = log /\ AECalls' = AECalls \cup {Sent(i, j)}
    BY <1>0, <1>3, SentPart DEF SendAppendEntries, persistent
  <2> QED
    BY <2>1 DEF Views
<1>4. ASSUME NEW i \in Server, NEW c \in Command, Start(i, c)
      PROVE  Views' \subseteq Views \cup {log'[i]}
  <2>1. AECalls' = AECalls /\ \A j \in Server : j # i => log'[j] = log[j]
    BY <1>0, <1>4, StartLog
  <2> QED
    BY <2>1 DEF Views
<1>5. ASSUME NEW m \in rpcs, Accepted(m)
      PROVE  m \in AECalls /\ \E c \in Nat : Merged(m, c) /\ Views' \subseteq Views \cup {log'[m.dst]}
  <2>1. m \in AECalls
    BY <1>0, <1>5, AcceptedMerges
  <2>2. PICK c \in Nat : Merged(m, c)
    BY <1>0, <1>5, AcceptedMerges
  <2>3. AECalls' \subseteq AECalls /\ \A j \in Server : j # m.dst => log'[j] = log[j]
    BY <1>5, <2>1, <2>2, AcceptedCalls DEF Merged
  <2>4. Views' \subseteq Views \cup {log'[m.dst]}
    BY <2>3 DEF Views
  <2> QED
    BY <2>1, <2>2, <2>4
<1> QED
  BY <1>0, <1>1, <1>2, <1>3, <1>4, <1>5, LogKinds

LEMMA MatchSymmetric ==
    ASSUME NEW f, NEW g, Match(f, g)
    PROVE  Match(g, f)
  BY DEF Match

\* A new log that is sorted and matches the others keeps all of them matching.
LEMMA NewMatching ==
    ASSUME Matching, NEW f, Views' \subseteq Views \cup {f}, Sorted(f),
           \A g \in Views : Match(f, g)
    PROVE  Matching'
<1>1. \A g \in Views' : Sorted(g)
  BY DEF Matching
<1>2. Match(f, f)
  BY DEF Match
<1>3. \A g, h \in Views' : Match(g, h)
  BY <1>2, MatchSymmetric DEF Matching
<1> QED
  BY <1>1, <1>3 DEF Matching

\* A part of a log matches what the log matches.
LEMMA PartMatches ==
    ASSUME NEW f, NEW s, NEW g, DOMAIN f \subseteq DOMAIN s,
           \A p \in DOMAIN f : TermAt(f, p) = TermAt(s, p),
           \A p \in DOMAIN f : p - 1 \in DOMAIN f => f[p] = s[p],
           Match(s, g)
    PROVE  Match(f, g)
<1> SUFFICES ASSUME NEW k \in DOMAIN f \cap DOMAIN g, TermAt(f, k) = TermAt(g, k),
                    NEW h \in DOMAIN f \cap DOMAIN g, h <= k
             PROVE  /\ TermAt(f, h) = TermAt(g, h)
                    /\ h - 1 \in DOMAIN f /\ h - 1 \in DOMAIN g => f[h] = g[h]
  BY DEF Match
<1>1. k \in DOMAIN s \cap DOMAIN g /\ h \in DOMAIN s \cap DOMAIN g /\ TermAt(s, k) = TermAt(g, k)
  OBVIOUS
<1>2. /\ TermAt(s, h) = TermAt(g, h)
      /\ h - 1 \in DOMAIN s /\ h - 1 \in DOMAIN g => s[h] = g[h]
  BY <1>1 DEF Match
<1> QED
  BY <1>2

\* A call that is not outdated has the entries that its receiver holds and that
\* are known to be everywhere beyond them.
LEMMA CallHas ==
    ASSUME TypeOK, CallOwns, NEW m \in AECalls, NEW p \in Nat, p >= 1, NEW T \in Nat,
           InViews(p, T), InCalls(p, T), HasAt(m.dst, p, T), m.term >= currentTerm[m.dst],
           currentTerm[m.dst] >= T
    PROVE  p <= End(m) /\ (p >= Lo(m) => TermAt(View(m), p) = T)
<1>0. m \in rpcs /\ m.dst \in Server /\ m.term \in Nat
  BY ViewFacts, VoteMessage
<1>1. PICK lo \in Nat, end \in Nat : /\ lo = Lo(m) /\ end = End(m) /\ DOMAIN View(m) = lo .. end
                                    /\ View(m) \in Views
  BY ViewFacts
<1>2. PICK have \in Nat : /\ have = Len(log[m.dst]) /\ DOMAIN log[m.dst] = 1 .. have
                          /\ log[m.dst] \in Views
  BY <1>0, LogView
<1>3. p \in 1 .. have /\ TermAt(log[m.dst], p) = T
  BY <1>2 DEF HasAt
<1>4. PICK high \in Nat : high = MaxOf(p, lo) /\ (p >= lo => high = p)
  BY DEF MaxOf
<1>5. CASE m.term > T
  <2>1. p <= end /\ TermAt(View(m), high) >= T
    BY <1>1, <1>4, <1>5 DEF InCalls
  <2>2. CASE p >= lo
    <3>1. p \in DOMAIN View(m) /\ TermAt(View(m), p) >= T /\ TermAt(View(m), p) \in Nat
      BY <1>1, <1>4, <2>1, <2>2, ViewFacts
    <3>2. Beyond(TermAt(View(m), p), p, p, T)
      BY <3>1 DEF Beyond
    <3> QED
      BY <1>1, <2>1, <3>1, <3>2 DEF InViews
  <2> QED
    BY <1>1, <2>1, <2>2
<1>6. CASE m.term = T
  <2>1. p <= end
    <3>1. currentTerm[m.dst] <= m.term
      BY <1>0, <1>6 DEF TypeOK
    <3> QED
      BY <1>1, <1>2, <1>3, <1>6, <3>1 DEF CallOwns
  <2>2. TermAt(View(m), high) = T
    BY <1>1, <1>2, <1>3, <1>4, <1>6, <2>1 DEF CallOwns
  <2> QED
    BY <1>1, <1>4, <2>1, <2>2
<1>7. currentTerm[m.dst] \in Nat
  BY <1>0 DEF TypeOK
<1> QED
  BY <1>0, <1>5, <1>6, <1>7

\* Where AppendEntries joins a log and the new entries, both have the same
\* term: the handler checks PrevLogTerm only, but keeps what is committed.
LEMMA AcceptAgree ==
    ASSUME Base, TermsInv, CallOwns, Matching, CommitInv, NEW m \in AECalls, NEW c \in Nat,
           Accepted(m), Merged(m, c)
    PROVE  TermAt(log[m.dst], c) = TermAt(View(m), c)
<1>0. TypeOK /\ Plain /\ m \in rpcs /\ m.dst \in Server
  BY ViewFacts, VoteMessage DEF Base
<1> DEFINE v == m.dst
<1>1. PICK lo \in Nat, end \in Nat, have \in Nat, P \in Nat :
             /\ lo = Lo(m) /\ end = End(m) /\ have = Len(log[v]) /\ P = commitIndex[v] + 1
             /\ DOMAIN View(m) = lo .. end /\ DOMAIN log[v] = 1 .. have
             /\ lo >= 1 /\ View(m) \in Views /\ log[v] \in Views
  BY <1>0, ViewFacts, LogView, LogNumbers
<1>2. c \in lo .. end /\ c <= have /\ (c = lo \/ c <= P)
  BY <1>1 DEF Merged
<1>3. CASE c = lo
  BY <1>0, <1>1, <1>3, PrevMatched DEF Accepted
<1>4. CASE c > lo /\ c <= P
  <2>1. P \in 1 .. have
    <3>1. P <= have
      BY <1>0, <1>1 DEF Plain
    <3> QED
      BY <1>4, <3>1
  <2>2. PICK T \in Nat : T = TermAt(log[v], P) /\ T <= currentTerm[v]
    BY <1>0, <1>1, <2>1, LogView DEF TermsInv
  <2>3. commitIndex[v] # 0
    BY <1>1, <1>4
  <2>4. InViews(P, T) /\ InCalls(P, T)
    BY <1>0, <1>1, <2>2, <2>3 DEF CommitInv, Secure
  <2>5. HasAt(v, P, T) /\ m.term >= currentTerm[v] /\ currentTerm[v] >= T /\ P >= 1
    BY <1>0, <1>1, <2>1, <2>2 DEF HasAt, Accepted, TypeOK
  <2>6. P <= end /\ P >= lo /\ TermAt(View(m), P) = T
    BY <1>0, <1>1, <1>4, <2>4, <2>5, CallHas
  <2>7. Match(log[v], View(m))
    BY <1>1 DEF Matching
  <2>8. P \in DOMAIN log[v] \cap DOMAIN View(m) /\ c \in DOMAIN log[v] \cap DOMAIN View(m)
    BY <1>1, <1>2, <1>4, <2>1, <2>6
  <2> HIDE DEF v
  <2> QED
    BY <1>4, <2>2, <2>6, <2>7, <2>8 DEF Match, v
<1> QED
  BY <1>2, <1>3, <1>4

\* So the log afterwards has the terms of the call.
LEMMA MergedAgree ==
    ASSUME Base, Moved, TermsInv, CallOwns, Matching, CommitInv, NEW m \in AECalls, NEW c \in Nat,
           Accepted(m), Merged(m, c)
    PROVE  /\ End(m) <= Len(log'[m.dst])
           /\ \A q \in Lo(m) .. End(m) : TermAt(log'[m.dst], q) = TermAt(View(m), q)
<1>0. TypeOK /\ Plain /\ m \in rpcs /\ m.dst \in Server
  BY ViewFacts, VoteMessage DEF Base
<1> DEFINE v == m.dst
<1>1. PICK lo \in Nat, end \in Nat, have \in Nat :
             /\ lo = Lo(m) /\ end = End(m) /\ have = Len(log[v])
             /\ DOMAIN View(m) = lo .. end /\ DOMAIN log[v] = 1 .. have
             /\ lo >= 1 /\ View(m) \in Views /\ log[v] \in Views
  BY <1>0, ViewFacts, LogView
<1>2. c \in lo .. end /\ c <= have
  BY <1>1 DEF Merged
<1>3. end <= Len(log'[v])
  <2>1. CASE log' = log /\ c = end
    BY <1>1, <1>2, <2>1
  <2>2. CASE Len(log'[v]) = end
    BY <2>2
  <2> QED
    BY <1>1, <2>1, <2>2 DEF Merged
<1>4. ASSUME NEW q \in lo .. end
      PROVE  TermAt(log'[v], q) = TermAt(View(m), q)
  <2>1. CASE q <= c
    <3>1. q \in 1 .. c /\ q \in DOMAIN log[v] \cap DOMAIN View(m)
          /\ c \in DOMAIN log[v] \cap DOMAIN View(m)
      BY <1>1, <1>2, <2>1
    <3>2. log'[v][q] = log[v][q]
      BY <3>1 DEF Merged
    <3>3. TermAt(log[v], c) = TermAt(View(m), c)
      BY AcceptAgree
    <3>4. Match(log[v], View(m))
      BY <1>1 DEF Matching
    <3> HIDE DEF v
    <3>5. TermAt(log[v], q) = TermAt(View(m), q)
      BY <2>1, <3>1, <3>3, <3>4 DEF Match
    <3> QED
      BY <3>2, <3>5 DEF TermAt
  <2>2. CASE q > c
    <3>1. q \in c + 1 .. end /\ c # end
      BY <1>2, <2>2
    <3>2. log'[v][q] = View(m)[q]
      BY <1>1, <3>1 DEF Merged
    <3> QED
      BY <3>2 DEF TermAt
  <2> QED
    BY <1>2, <2>1, <2>2
<1> QED
  BY <1>1, <1>3, <1>4

LEMMA SentMatches ==
    ASSUME Base, Moved, Matching, NEW i \in Server, NEW j \in Server, SendAppendEntries(i, j)
    PROVE  Sorted(View(Sent(i, j))) /\ \A g \in Views : Match(View(Sent(i, j)), g)
<1>0. TypeOK /\ TypeOK' /\ Plain
  BY DEF Base, Moved
<1>a. PICK m, f, s : m = Sent(i, j) /\ f = View(m) /\ s = log[i]
  OBVIOUS
<1>b. PICK lo \in Nat, have \in Nat :
             /\ have = Len(log[i]) /\ lo = Lo(m) /\ DOMAIN s = 1 .. have /\ s \in Views
  <2>1. Lo(Sent(i, j)) \in Nat
    BY <1>0, SentPart
  <2> QED
    BY <1>0, <1>a, <2>1, LogView
<1>1. /\ m = Sent(i, j) /\ f = View(m) /\ s = log[i] /\ have = Len(log[i]) /\ lo = Lo(m)
      /\ DOMAIN s = 1 .. have /\ s \in Views
  BY <1>a, <1>b
<1>2. End(m) = have /\ lo \in 1 .. have /\ DOMAIN f = lo .. have /\ PartOf(m, i)
      /\ \A p \in lo .. have : TermAt(f, p) = TermAt(s, p)
  BY <1>0, <1>1, SentPart
<1>3. \A p \in lo + 1 .. have : f[p] = s[p]
  BY <1>1, <1>2 DEF PartOf
<1>4. DOMAIN f \subseteq DOMAIN s /\ \A p \in DOMAIN f : p - 1 \in DOMAIN f => p \in lo + 1 .. have
  BY <1>1, <1>2
<1>5. Sorted(s)
  BY <1>1 DEF Matching
<1>6. Sorted(f)
  BY <1>2, <1>4, <1>5 DEF Sorted
<1>7. ASSUME NEW g \in Views
      PROVE  Match(f, g)
  <2>1. Match(s, g)
    BY <1>1 DEF Matching
  <2>2. \A p \in DOMAIN f : TermAt(f, p) = TermAt(s, p)
    BY <1>2
  <2>3. \A p \in DOMAIN f : p - 1 \in DOMAIN f => f[p] = s[p]
    BY <1>3, <1>4
  <2> QED
    BY <1>4, <2>1, <2>2, <2>3, PartMatches
<1> QED
  BY <1>1, <1>6, <1>7

LEMMA StartMatches ==
    ASSUME Base, Moved, TermsInv, LeaderOwns, Matching, NEW i \in Server, NEW c \in Command, Start(i, c)
    PROVE  Sorted(log'[i]) /\ \A g \in Views : Match(log'[i], g)
<1>0. TypeOK /\ TypeOK' /\ Plain
  BY DEF Base, Moved
<1>a. PICK f, s : f = log'[i] /\ s = log[i]
  OBVIOUS
<1>b. PICK have \in Nat, t \in Nat :
             /\ have = Len(log[i]) /\ t = currentTerm[i]
             /\ DOMAIN s = 1 .. have /\ s \in Views /\ DOMAIN f = 1 .. Len(log'[i])
  <2>1. currentTerm[i] \in Nat
    BY <1>0 DEF TypeOK
  <2> QED
    BY <1>0, <1>a, <2>1, LogView, NextViews
<1>1. /\ f = log'[i] /\ s = log[i] /\ have = Len(log[i]) /\ t = currentTerm[i]
      /\ DOMAIN s = 1 .. have /\ s \in Views /\ DOMAIN f = 1 .. Len(log'[i])
  BY <1>a, <1>b
<1>2. /\ DOMAIN f = 1 .. have + 1 /\ TermAt(f, have + 1) = t /\ state[i] = "Leader"
      /\ \A p \in 1 .. have : f[p] = s[p]
  BY <1>0, <1>1, StartLog
<1>3. \A p \in 1 .. have : TermAt(f, p) = TermAt(s, p) /\ TermAt(s, p) <= t
  <2>1. \A p \in 1 .. have : TermAt(s, p) <= t
    BY <1>1 DEF TermsInv
  <2> QED
    BY <1>2, <2>1 DEF TermAt
<1>4. Sorted(f)
  <2> SUFFICES ASSUME NEW p \in 1 .. have + 1, NEW q \in 1 .. have + 1, p <= q
               PROVE  TermAt(f, p) <= TermAt(f, q)
    BY <1>2 DEF Sorted
  <2>1. Sorted(s)
    BY <1>1 DEF Matching
  <2>2. CASE q <= have
    <3>1. p \in 1 .. have /\ q \in 1 .. have
      BY <2>2
    <3>2. TermAt(s, p) <= TermAt(s, q)
      BY <1>1, <2>1, <3>1 DEF Sorted
    <3> QED
      BY <1>3, <3>1, <3>2
  <2>3. CASE q = have + 1 /\ p = have + 1
    BY <1>2, <2>3
  <2>4. CASE q = have + 1 /\ p <= have
    <3>1. p \in 1 .. have
      BY <2>4
    <3> QED
      BY <1>2, <1>3, <2>4, <3>1
  <2> QED
    BY <2>2, <2>3, <2>4
<1>5. ASSUME NEW g \in Views
      PROVE  Match(f, g)
  <2> SUFFICES ASSUME NEW k \in DOMAIN f \cap DOMAIN g, TermAt(f, k) = TermAt(g, k),
                      NEW h \in DOMAIN f \cap DOMAIN g, h <= k
               PROVE  /\ TermAt(f, h) = TermAt(g, h)
                      /\ h - 1 \in DOMAIN f /\ h - 1 \in DOMAIN g => f[h] = g[h]
    BY DEF Match
  <2>1. k # have + 1
    <3>1. ASSUME k = have + 1
          PROVE  k <= have
      BY <1>1, <1>2, <3>1 DEF LeaderOwns, OwnsTerm
    <3> QED
      BY <3>1
  <2>2. k \in 1 .. have /\ h \in 1 .. have /\ (h - 1 \in DOMAIN f => h - 1 \in 1 .. have)
    BY <1>2, <2>1
  <2>3. Match(s, g)
    BY <1>1 DEF Matching
  <2>4. /\ TermAt(s, h) = TermAt(g, h)
        /\ h - 1 \in DOMAIN s /\ h - 1 \in DOMAIN g => s[h] = g[h]
    BY <1>1, <1>3, <2>2, <2>3 DEF Match
  <2> QED
    BY <1>1, <1>2, <1>3, <2>2, <2>4
<1> QED
  BY <1>1, <1>4, <1>5

\* f is s up to position c, then u, which has the same term there.
Splice(f, s, u, c, have, lo, end) ==
    /\ c \in Nat /\ have \in Nat /\ lo \in Nat /\ end \in Nat
    /\ DOMAIN f = 1 .. end /\ DOMAIN s = 1 .. have /\ DOMAIN u = lo .. end
    /\ lo >= 1 /\ c \in lo .. end /\ c <= have /\ TermAt(s, c) = TermAt(u, c)
    /\ \A p \in 1 .. c : f[p] = s[p]
    /\ \A p \in c + 1 .. end : f[p] = u[p]

LEMMA SpliceMatches ==
    ASSUME NEW f, NEW s, NEW u, NEW g, NEW c, NEW have, NEW lo, NEW end,
           Splice(f, s, u, c, have, lo, end), \E a, b \in Nat : DOMAIN g = a .. b,
           Match(s, g), Match(u, g)
    PROVE  Match(f, g)
<1> USE DEF Splice
<1> SUFFICES ASSUME NEW k \in DOMAIN f \cap DOMAIN g, TermAt(f, k) = TermAt(g, k),
                    NEW h \in DOMAIN f \cap DOMAIN g, h <= k
             PROVE  /\ TermAt(f, h) = TermAt(g, h)
                    /\ h - 1 \in DOMAIN f /\ h - 1 \in DOMAIN g => f[h] = g[h]
  BY DEF Match
<1>0. /\ \A p \in 1 .. c : TermAt(f, p) = TermAt(s, p)
      /\ \A p \in c + 1 .. end : TermAt(f, p) = TermAt(u, p)
  BY DEF TermAt
<1>a. PICK a, b \in Nat : DOMAIN g = a .. b
  OBVIOUS
<1>1. k \in 1 .. end /\ h \in 1 .. end /\ k \in a .. b /\ h \in a .. b
  BY <1>a
<1>2. CASE k <= c
  <2>1. /\ k \in 1 .. c /\ h \in 1 .. c /\ k \in DOMAIN s \cap DOMAIN g /\ h \in DOMAIN s \cap DOMAIN g
        /\ h - 1 \in DOMAIN f => h - 1 \in DOMAIN s
    BY <1>1, <1>2
  <2>2. /\ TermAt(s, h) = TermAt(g, h)
        /\ h - 1 \in DOMAIN s /\ h - 1 \in DOMAIN g => s[h] = g[h]
    BY <1>0, <2>1 DEF Match
  <2> QED
    BY <1>0, <2>1, <2>2
<1>3. CASE k > c /\ h > c
  <2>1. /\ k \in c + 1 .. end /\ h \in c + 1 .. end
        /\ k \in DOMAIN u \cap DOMAIN g /\ h \in DOMAIN u \cap DOMAIN g
        /\ h - 1 \in DOMAIN u
    BY <1>1, <1>3
  <2>2. /\ TermAt(u, h) = TermAt(g, h)
        /\ h - 1 \in DOMAIN u /\ h - 1 \in DOMAIN g => u[h] = g[h]
    BY <1>0, <2>1 DEF Match
  <2> QED
    BY <1>0, <2>1, <2>2
<1>4. CASE k > c /\ h <= c
  <2>1. /\ k \in c + 1 .. end /\ h \in 1 .. c
        /\ k \in DOMAIN u \cap DOMAIN g /\ c \in DOMAIN u \cap DOMAIN g
        /\ c \in DOMAIN s \cap DOMAIN g /\ h \in DOMAIN s \cap DOMAIN g
        /\ h - 1 \in DOMAIN f => h - 1 \in DOMAIN s
    BY <1>a, <1>1, <1>4
  <2>2. TermAt(u, c) = TermAt(g, c)
    BY <1>0, <1>4, <2>1 DEF Match
  <2>3. /\ TermAt(s, h) = TermAt(g, h)
        /\ h - 1 \in DOMAIN s /\ h - 1 \in DOMAIN g => s[h] = g[h]
    BY <1>4, <2>1, <2>2 DEF Match
  <2> QED
    BY <1>0, <2>1, <2>3
<1> QED
  BY <1>1, <1>2, <1>3, <1>4

LEMMA SpliceSorted ==
    ASSUME NEW f, NEW s, NEW u, NEW c, NEW have, NEW lo, NEW end,
           Splice(f, s, u, c, have, lo, end),
           \A p \in 1 .. have : TermAt(s, p) \in Nat, \A p \in lo .. end : TermAt(u, p) \in Nat,
           Sorted(s), Sorted(u)
    PROVE  Sorted(f)
<1> USE DEF Splice
<1> SUFFICES ASSUME NEW p \in 1 .. end, NEW q \in 1 .. end, p <= q
             PROVE  TermAt(f, p) <= TermAt(f, q)
  BY DEF Sorted
<1>0. /\ \A x \in 1 .. c : TermAt(f, x) = TermAt(s, x)
      /\ \A x \in c + 1 .. end : TermAt(f, x) = TermAt(u, x)
  BY DEF TermAt
<1>s. /\ \A x, y \in 1 .. have : x <= y => TermAt(s, x) <= TermAt(s, y)
      /\ \A x, y \in lo .. end : x <= y => TermAt(u, x) <= TermAt(u, y)
  BY DEF Sorted
<1>1. CASE q <= c
  <2>1. p \in 1 .. c /\ q \in 1 .. c /\ p \in 1 .. have /\ q \in 1 .. have
    BY <1>1
  <2> QED
    BY <1>0, <1>s, <2>1
<1>2. CASE p > c
  <2>1. p \in c + 1 .. end /\ q \in c + 1 .. end /\ p \in lo .. end /\ q \in lo .. end
    BY <1>2
  <2> QED
    BY <1>0, <1>s, <2>1
<1>3. CASE p <= c /\ q > c
  <2>1. p \in 1 .. c /\ p \in 1 .. have /\ c \in 1 .. have /\ q \in c + 1 .. end /\ q \in lo .. end
    BY <1>3
  <2>2. TermAt(s, p) <= TermAt(s, c) /\ TermAt(u, c) <= TermAt(u, q)
    BY <1>s, <2>1
  <2>3. TermAt(s, p) \in Nat /\ TermAt(s, c) \in Nat /\ TermAt(u, q) \in Nat
    BY <2>1
  <2>4. TermAt(s, p) <= TermAt(u, q)
    BY <2>2, <2>3
  <2> QED
    BY <1>0, <2>1, <2>4
<1> QED
  BY <1>1, <1>2, <1>3

LEMMA AcceptMatches ==
    ASSUME Base, Moved, TermsInv, CallOwns, Matching, CommitInv, NEW m \in AECalls, NEW c \in Nat,
           Accepted(m), Merged(m, c), log' # log
    PROVE  Sorted(log'[m.dst]) /\ \A g \in Views : Match(log'[m.dst], g)
<1>0. TypeOK /\ TypeOK' /\ Plain /\ m \in rpcs /\ m.dst \in Server
  BY ViewFacts, VoteMessage DEF Base, Moved
<1>1. PICK f, s, u : f = log'[m.dst] /\ s = log[m.dst] /\ u = View(m)
  OBVIOUS
<1>2. PICK have \in Nat, lo \in Nat, end \in Nat :
             /\ have = Len(log[m.dst]) /\ lo = Lo(m) /\ end = End(m) /\ lo >= 1
             /\ DOMAIN s = 1 .. have /\ DOMAIN u = lo .. end /\ s \in Views /\ u \in Views
             /\ \A p \in 1 .. have : TermAt(s, p) \in Nat
             /\ \A p \in lo .. end : TermAt(u, p) \in Nat
  BY <1>0, <1>1, LogView, ViewFacts
<1>3. /\ c \in lo .. end /\ c <= have /\ DOMAIN f = 1 .. end
      /\ \A p \in 1 .. c : f[p] = s[p]
      /\ \A p \in c + 1 .. end : f[p] = u[p]
  <2>1. DOMAIN f = 1 .. Len(log'[m.dst])
    BY <1>0, <1>1, NextViews
  <2> QED
    BY <1>1, <1>2, <2>1 DEF Merged
<1>4. TermAt(s, c) = TermAt(u, c)
  BY <1>1, AcceptAgree
<1>5. Sorted(s) /\ Sorted(u)
  BY <1>2 DEF Matching
<1>8. Splice(f, s, u, c, have, lo, end)
  BY <1>2, <1>3, <1>4 DEF Splice
<1>6. Sorted(f)
  BY <1>2, <1>5, <1>8, SpliceSorted
<1>7. ASSUME NEW g \in Views
      PROVE  Match(f, g)
  <2>1. \E a, b \in Nat : DOMAIN g = a .. b
    BY <1>0, ViewShape
  <2>2. Match(s, g) /\ Match(u, g)
    BY <1>2 DEF Matching
  <2> QED
    BY <1>8, <2>1, <2>2, SpliceMatches
<1> QED
  BY <1>1, <1>6, <1>7

LEMMA MatchingStep ==
    ASSUME Base, Moved, TermsInv, LeaderOwns, CallOwns, Matching, CommitInv
    PROVE  Matching'
<1>1. CASE Views' \subseteq Views
  BY <1>1 DEF Matching
<1>2. ASSUME NEW i \in Server, NEW j \in Server, SendAppendEntries(i, j),
             Views' \subseteq Views \cup {View(Sent(i, j))}
      PROVE  Matching'
  BY <1>2, SentMatches, NewMatching
<1>3. ASSUME NEW i \in Server, NEW c \in Command, Start(i, c), Views' \subseteq Views \cup {log'[i]}
      PROVE  Matching'
  BY <1>3, StartMatches, NewMatching
<1>4. ASSUME NEW m \in AECalls, NEW c \in Nat, Accepted(m), Merged(m, c),
             Views' \subseteq Views \cup {log'[m.dst]}
      PROVE  Matching'
  <2>1. CASE log' = log
    <3>1. m.dst \in Server /\ TypeOK
      BY ViewFacts, VoteMessage DEF Base
    <3>2. Views' \subseteq Views
      BY <1>4, <2>1, <3>1, LogView
    <3> QED
      BY <1>1, <3>2
  <2>2. CASE log' # log
    BY <1>4, <2>2, AcceptMatches, NewMatching
  <2> QED
    BY <2>1, <2>2
<1> QED
  BY <1>1, <1>2, <1>3, <1>4, NewView

-----------------------------------------------------------------------------
(* Acknowledgements.                                                       *)

\* The reply r tells leader i that j has stored entries.
Acking(r, i, j) == /\ r.type = "AEReply" /\ r.success = TRUE /\ r.src = i /\ r.dst = j
                   /\ r.term = currentTerm[i]

LEMMA AcksMember ==
    ASSUME NEW i, NEW j, NEW a
    PROVE  a \in Acks(i, j) <=> a = matchIndex[i][j] \/ \E r \in rpcs : Acking(r, i, j) /\ a = r.last
  BY DEF Acks, Acking

\* The same after a step of a leader that stays in its term.
LEMMA NextAcks ==
    ASSUME NEW i, NEW j, NEW a \in Acks(i, j)', currentTerm'[i] = currentTerm[i]
    PROVE  a = matchIndex'[i][j] \/ \E r \in rpcs' : Acking(r, i, j) /\ a = r.last
  BY DEF Acks, Acking

LEMMA AcksType ==
    ASSUME TypeOK, NEW i \in Server, NEW j \in Server, NEW a \in Acks(i, j)
    PROVE  a \in Nat
<1>1. matchIndex[i][j] \in Nat
  BY DEF TypeOK
<1>2. \A r \in rpcs : Acking(r, i, j) => r.last \in Nat
  BY ReplyMessage DEF Acking
<1> QED
  BY <1>1, <1>2, AcksMember

\* Where an acknowledgement comes from.
LEMMA AckSource ==
    ASSUME Calm, Base, Moved, ProgressInv, NEW i \in Server, NEW j \in Server,
           state[i] = "Leader", state'[i] = "Leader", currentTerm'[i] = currentTerm[i],
           NEW a \in Acks(i, j)'
    PROVE  \/ a \in Acks(i, j)
           \/ \E c \in AECalls : /\ Accepted(c) /\ a + 1 = End(c) /\ c.src = i /\ c.dst = j
                                 /\ c.term = currentTerm[i]
<1>1. CASE a = matchIndex'[i][j]
  <2>1. CASE matchIndex'[i][j] = matchIndex[i][j]
    BY <1>1, <2>1, AcksMember
  <2>2. CASE matchIndex'[i][j] # matchIndex[i][j]
    <3>1. PICK m \in rpcs : /\ Acknowledged(m) /\ m.src = i /\ m.dst = j /\ m.term = currentTerm[i]
                            /\ m.type = "AEReply" /\ m.success = TRUE /\ rpcs' = rpcs \ {m}
                            /\ matchIndex'[i][j] = m.last
      BY <2>2, MatchStep
    <3> QED
      BY <1>1, <3>1, AcksMember DEF Acking
  <2> QED
    BY <2>1, <2>2
<1>2. ASSUME NEW r \in rpcs', Acking(r, i, j), a = r.last
      PROVE  \/ a \in Acks(i, j)
             \/ \E c \in AECalls : /\ Accepted(c) /\ a + 1 = End(c) /\ c.src = i /\ c.dst = j
                                   /\ c.term = currentTerm[i]
  <2>1. CASE r \in rpcs
    BY <1>2, <2>1, AcksMember
  <2>2. CASE r \notin rpcs
    <3>1. r.type = "AEReply" /\ r.success = TRUE /\ r.src = i /\ r.dst = j /\ r.term = currentTerm[i]
      BY <1>2 DEF Acking
    <3>2. PICK m \in AECalls :
             /\ Accepted(m) /\ r.last + 1 = End(m) /\ r.src = m.src /\ r.dst = m.dst /\ r.term = m.term
      BY <2>2, <3>1, AckOrigin
    <3> QED
      BY <1>2, <3>1, <3>2
  <2> QED
    BY <2>1, <2>2
<1> QED
  BY <1>1, <1>2, NextAcks

\* A server that is in a leader's term gets no call of that term from others,
\* and none that ends before what it has acknowledged.
LEMMA AckedCall ==
    ASSUME Base, LeaderOwns, ProgressInv, NEW i \in Server, state[i] = "Leader",
           NEW m \in AECalls, m.term = currentTerm[i], NEW a \in Acks(i, m.dst)
    PROVE  m.src = i /\ a + 1 <= End(m) /\ PartOf(m, i)
<1>0. TypeOK /\ VotesSound /\ CallsElected /\ OneCall /\ m \in rpcs /\ m.type = "AE" /\ IsCall(m)
  BY DEF Base, CallsInv, AECalls, IsCall
<1>1. m.src = i
  BY <1>0, NoRival
<1>2. matchIndex[i][m.dst] + 1 <= End(m)
  BY <1>0, <1>1 DEF ProgressInv
<1>3. a = matchIndex[i][m.dst]
  <2>1. ASSUME NEW r \in rpcs, Acking(r, i, m.dst)
        PROVE  FALSE
    <3>1. r = m
      BY <1>0, <1>1, <2>1 DEF OneCall, IsCall, Acking
    <3> QED
      BY <1>0, <2>1, <3>1 DEF Acking
  <2> QED
    BY <2>1, AcksMember
<1> QED
  BY <1>1, <1>2, <1>3 DEF LeaderOwns

\* A new leader has not heard of anything stored.
LEMMA WinsNoAck ==
    ASSUME Calm, Base, Moved, TermsInv, NEW i \in Server, NEW j \in Server, Wins(i), state'[i] = "Leader",
           NEW a \in Acks(i, j)'
    PROVE  a = 0
<1>1. state[i] # "Leader" /\ currentTerm' = currentTerm /\ matchIndex'[i][j] = 0
  BY DEF Wins, Counting
<1>2. ASSUME NEW r \in rpcs', Acking(r, i, j)
      PROVE  FALSE
  <2>1. CASE r \in rpcs
    BY <1>2, <2>1, WinsFresh DEF Acking, IsCall
  <2>2. CASE r \notin rpcs
    <3>1. r.type = "AEReply" /\ r.success = TRUE /\ r.src = i
      BY <1>2 DEF Acking
    <3> QED
      BY <1>1, <2>2, <3>1, AckOrigin
  <2> QED
    BY <2>1, <2>2
<1> QED
  BY <1>1, <1>2, NextAcks

\* j has the log of i up to position e.
Agree(i, j, e) == e <= Len(log[j]) /\ \A p \in 1 .. e : log[j][p] = log[i][p]

\* What a follower has of the leader's log it keeps while it stays in its term.
LEMMA AgreeKept ==
    ASSUME Base, Moved, LeaderOwns, ProgressInv, NEW i \in Server, NEW j \in Server, j # i,
           state[i] = "Leader", state'[i] = "Leader", currentTerm'[i] = currentTerm[i],
           currentTerm'[j] = currentTerm[i], NEW a \in Acks(i, j), Agree(i, j, a + 1),
           a + 1 <= Len(log[i])
    PROVE  Agree(i, j, a + 1)'
<1>0. TypeOK /\ TypeOK' /\ Plain /\ StepKind
  BY DEF Base, Moved
<1>1. PICK e \in Nat, have \in Nat, lead \in Nat :
             e = a + 1 /\ have = Len(log[j]) /\ lead = Len(log[i]) /\ e <= have /\ e <= lead
  <2>1. a \in Nat /\ a + 1 <= Len(log[j])
    BY <1>0, AcksType DEF Agree
  <2>2. Len(log[j]) \in Nat /\ Len(log[i]) \in Nat
    BY <1>0, LogView
  <2>3. a + 1 \in Nat /\ a + 1 <= Len(log[i])
    BY <2>1
  <2> QED
    BY <2>1, <2>2, <2>3
<1>2. \A p \in 1 .. e : p \in 1 .. have /\ p \in 1 .. lead
  BY <1>1
<1>3. \A p \in 1 .. e : log'[i][p] = log[i][p] /\ log[j][p] = log[i][p]
  BY <1>1, <1>2, LeaderGrows DEF Agree
<1>4. e <= Len(log'[j]) /\ \A p \in 1 .. e : log'[j][p] = log[j][p] \/ log'[j][p] = log[i][p]
  <2>1. CASE log'[j] = log[j]
    BY <1>1, <2>1
  <2>2. ASSUME NEW k \in Server, NEW c \in Command, Start(k, c), k = j
        PROVE  e <= Len(log'[j]) /\ \A p \in 1 .. e : log'[j][p] = log[j][p]
    <3>1. Len(log'[j]) = have + 1 /\ \A p \in 1 .. have : log'[j][p] = log[j][p]
      BY <1>0, <1>1, <2>2, StartLog
    <3> QED
      BY <1>1, <1>2, <3>1
  <2>3. ASSUME NEW m \in rpcs, Accepted(m), m.dst = j
        PROVE  e <= Len(log'[j]) /\ \A p \in 1 .. e : log'[j][p] = log[j][p] \/ log'[j][p] = log[i][p]
    <3>1. m \in AECalls
      BY <1>0, <2>3, AcceptedMerges
    <3>2. PICK c \in Nat : Merged(m, c)
      BY <1>0, <2>3, AcceptedMerges
    <3>3. m.term = currentTerm[i]
      BY <1>0, <2>3 DEF Accepted, Follow, TypeOK
    <3>4. e <= End(m) /\ PartOf(m, i)
      BY <1>1, <2>3, <3>1, <3>3, AckedCall
    <3>5. PICK lo \in Nat, end \in Nat : lo = Lo(m) /\ end = End(m)
      BY <1>0, <3>1, ViewFacts
    <3>6. \A p \in lo + 1 .. end : View(m)[p] = log[i][p]
      BY <3>4, <3>5 DEF PartOf
    <3>7. c \in lo .. end /\ \A p \in 1 .. c : log'[j][p] = log[j][p]
      BY <2>3, <3>2, <3>5 DEF Merged
    <3>8. CASE Len(log'[j]) = end /\ \A p \in c + 1 .. end : log'[j][p] = View(m)[p]
      <4>1. ASSUME NEW p \in 1 .. e
            PROVE  log'[j][p] = log[j][p] \/ log'[j][p] = log[i][p]
        <5>1. p \in 1 .. c \/ (p \in c + 1 .. end /\ p \in lo + 1 .. end)
          BY <3>4, <3>5, <3>7
        <5> QED
          BY <3>6, <3>7, <3>8, <5>1
      <4> QED
        BY <3>4, <3>5, <3>8, <4>1
    <3> QED
      BY <2>1, <2>3, <3>2, <3>5, <3>8 DEF Merged
  <2>4. ASSUME NEW m \in rpcs, Accepted(m), m.dst # j
        PROVE  log'[j] = log[j]
    BY <1>0, <2>4, AcceptedMerges DEF Merged
  <2>5. ASSUME NEW k \in Server, NEW c \in Command, Start(k, c), k # j
        PROVE  log'[j] = log[j]
    BY <1>0, <2>5, StartLog
  <2>6. ASSUME NEW k \in Server, NEW l \in Server, GetVote(k, l) \/ SendAppendEntries(k, l)
        PROVE  log'[j] = log[j]
    BY <2>6 DEF GetVote, SendAppendEntries, persistent
  <2>7. Still => log'[j] = log[j]
    BY DEF Still
  <2> QED
    BY <1>0, <2>1, <2>2, <2>3, <2>4, <2>5, <2>6, <2>7, LogKinds
<1> QED
  BY <1>1, <1>3, <1>4 DEF Agree

\* What leader i of term t knows that j acknowledged is true while j is in t.
LEMMA AckStep ==
    ASSUME Calm, Base, Moved, TermsInv, LeaderOwns, CallOwns, ProgressInv, Matching, Matching',
           CommitInv, AckInv
    PROVE  AckInv'
<1>0. TypeOK /\ TypeOK' /\ Plain /\ Plain' /\ StepKind
  BY DEF Base, Moved
<1> SUFFICES ASSUME NEW i \in Server, state'[i] = "Leader", NEW j \in Server, j # i,
                    NEW a \in Acks(i, j)'
             PROVE  /\ a > 0 => currentTerm'[j] >= currentTerm'[i]
                    /\ currentTerm'[j] = currentTerm'[i] => Agree(i, j, a + 1)'
  BY DEF AckInv, Agree
<1>1. CASE a = 0
  <2>1. log'[i][1] = log'[j][1] /\ Len(log'[j]) >= 1 /\ Len(log'[j]) \in Nat
    BY <1>0, NextViews DEF Plain
  <2>2. \A p \in 1 .. 1 : p = 1
    OBVIOUS
  <2>3. Agree(i, j, 1)'
    BY <2>1, <2>2 DEF Agree
  <2> QED
    BY <1>1, <2>3
<1>2. CASE Wins(i)
  BY <1>1, <1>2, WinsNoAck
<1>3. CASE state[i] = "Leader" /\ currentTerm'[i] = currentTerm[i] /\ a # 0
  <2>1. PICK t \in Nat, s \in Nat, new \in Nat :
               /\ t = currentTerm[i] /\ s = currentTerm[j] /\ new = currentTerm'[j] /\ new >= s
    BY TermsGrow
  <2>2. CASE a \in Acks(i, j)
    <3>1. a \in Nat /\ a > 0
      BY <1>0, <1>3, <2>2, AcksType
    <3>2. s >= t /\ (s = t => Agree(i, j, a + 1))
      BY <1>3, <2>1, <2>2, <3>1 DEF AckInv, Agree
    <3>3. a + 1 <= Len(log[i])
      <4>1. matchIndex[i][j] + 1 <= Len(log[i])
        BY <1>3 DEF ProgressInv
      <4>2. ASSUME NEW r \in rpcs, Acking(r, i, j)
            PROVE  r.last + 1 <= Len(log[i])
        BY <1>3, <4>2 DEF Acking, ProgressInv
      <4> QED
        BY <2>2, <4>1, <4>2, AcksMember
    <3>4. new >= t
      BY <2>1, <3>2
    <3>5. ASSUME new = t
          PROVE  Agree(i, j, a + 1)'
      <4>1. Agree(i, j, a + 1)
        BY <2>1, <3>2, <3>5
      <4> QED
        BY <1>3, <2>1, <2>2, <3>3, <3>5, <4>1, AgreeKept
    <3> QED
      BY <1>3, <2>1, <3>4, <3>5
  <2>3. ASSUME NEW m \in AECalls, Accepted(m), a + 1 = End(m), m.src = i, m.dst = j,
               m.term = currentTerm[i]
        PROVE  new = t /\ Agree(i, j, a + 1)'
    <3>1. new = t
      BY <1>0, <2>1, <2>3 DEF Accepted, Follow, TypeOK
    <3>2. PICK c \in Nat : Merged(m, c)
      BY <1>0, <2>3, ViewFacts, AcceptedMerges
    <3>3. PICK lo \in Nat, end \in Nat, lead \in Nat :
                 /\ lo = Lo(m) /\ end = End(m) /\ lead = Len(log[i]) /\ lo >= 1 /\ end >= lo
                 /\ end <= lead
      <4>1. End(m) <= Len(log[i])
        BY <1>3, <2>3 DEF LeaderOwns, PartOf
      <4>2. Len(log[i]) \in Nat
        BY <1>0, LogView
      <4> QED
        BY <1>0, <4>1, <4>2, ViewFacts
    <3>4. end <= Len(log'[j]) /\ TermAt(log'[j], end) = TermAt(View(m), end)
      <4>1. end \in lo .. end
        BY <3>3
      <4> QED
        BY <2>3, <3>2, <3>3, <4>1, MergedAgree
    <3>5. log'[i] = log[i] /\ TermAt(View(m), end) = TermAt(log[i], end)
      <4>1. PartOf(m, i) /\ end \in lo .. end
        BY <1>3, <2>3, <3>3 DEF LeaderOwns
      <4> QED
        BY <1>0, <2>3, <3>2, <3>3, <4>1, PartTerms DEF Merged
    <3>6. PICK f, g : f = log'[j] /\ g = log'[i] /\ Match(f, g)
      BY NextViews DEF Matching
    <3>7. PICK have \in Nat : have = Len(log'[j]) /\ DOMAIN f = 1 .. have /\ DOMAIN g = 1 .. lead
      BY <1>0, <3>3, <3>5, <3>6, NextViews
    <3>8. ASSUME NEW h \in 1 .. end
          PROVE  f[h] = g[h]
      <4>1. CASE h = 1
        BY <1>0, <3>6, <4>1 DEF Plain
      <4>2. CASE h > 1
        <5>1. /\ end \in DOMAIN f \cap DOMAIN g /\ h \in DOMAIN f \cap DOMAIN g /\ h <= end
              /\ h - 1 \in DOMAIN f /\ h - 1 \in DOMAIN g
          BY <3>3, <3>4, <3>7, <4>2
        <5>2. TermAt(f, end) = TermAt(g, end)
          BY <3>4, <3>5, <3>6
        <5> QED
          BY <3>6, <5>1, <5>2 DEF Match
      <4> QED
        BY <3>3, <4>1, <4>2
    <3> QED
      BY <2>3, <3>1, <3>3, <3>4, <3>6, <3>8 DEF Agree
  <2> QED
    BY <1>3, <2>1, <2>2, <2>3, AckSource
<1> QED
  BY <1>1, <1>2, <1>3, LeaderKinds

-----------------------------------------------------------------------------
(* Entries that stay.                                                      *)

LEMMA HasType ==
    ASSUME TypeOK, NEW v \in Server, NEW p \in Nat, p >= 1, NEW T, HasAt(v, p, T)
    PROVE  p \in DOMAIN log[v] /\ log[v] \in Views
<1>1. PICK have \in Nat : have = Len(log[v]) /\ DOMAIN log[v] = 1 .. have /\ log[v] \in Views
  BY LogView
<1> QED
  BY <1>1 DEF HasAt

\* A server in term T or later that has the entry keeps it.
LEMMA HasKept ==
    ASSUME Base, Moved, CallOwns, NEW v \in Server, NEW p \in Nat, p >= 1, NEW T \in Nat,
           InViews(p, T), InCalls(p, T), HasAt(v, p, T), currentTerm[v] >= T
    PROVE  HasAt(v, p, T)'
<1>0. TypeOK /\ TypeOK' /\ Plain /\ StepKind
  BY DEF Base, Moved
<1>1. CASE log'[v] = log[v]
  BY <1>1 DEF HasAt
<1>2. PICK have \in Nat : have = Len(log[v]) /\ p \in 1 .. have /\ TermAt(log[v], p) = T
  BY <1>0, LogView DEF HasAt
<1>3. ASSUME NEW c \in Command, Start(v, c)
      PROVE  HasAt(v, p, T)'
  <2>1. Len(log'[v]) = have + 1 /\ log'[v][p] = log[v][p]
    BY <1>0, <1>2, <1>3, StartLog
  <2> QED
    BY <1>2, <2>1 DEF HasAt, TermAt
<1>4. ASSUME NEW m \in rpcs, Accepted(m), m.dst = v
      PROVE  HasAt(v, p, T)'
  <2>1. m \in AECalls
    BY <1>0, <1>4, AcceptedMerges
  <2>2. PICK c \in Nat : Merged(m, c)
    BY <1>0, <1>4, AcceptedMerges
  <2>3. PICK lo \in Nat, end \in Nat : lo = Lo(m) /\ end = End(m)
    BY <1>0, <2>1, ViewFacts
  <2>4. p <= end /\ (p >= lo => TermAt(View(m), p) = T)
    BY <1>0, <1>4, <2>1, <2>3, CallHas DEF Accepted
  <2>5. c \in lo .. end /\ \A x \in 1 .. c : log'[v][x] = log[v][x]
    BY <1>4, <2>2, <2>3 DEF Merged
  <2>6. CASE Len(log'[v]) = end /\ \A x \in c + 1 .. end : log'[v][x] = View(m)[x]
    <3>1. CASE p <= c
      <4>1. p \in 1 .. c
        BY <3>1
      <4> QED
        BY <1>2, <2>4, <2>5, <2>6, <4>1 DEF HasAt, TermAt
    <3>2. CASE p > c
      <4>1. p \in c + 1 .. end /\ p >= lo
        BY <2>4, <2>5, <3>2
      <4> QED
        BY <2>4, <2>6, <4>1 DEF HasAt, TermAt
    <3> QED
      BY <2>5, <3>1, <3>2
  <2> QED
    BY <1>1, <1>4, <2>2, <2>3, <2>6 DEF Merged
<1>5. ASSUME NEW m \in rpcs, Accepted(m), m.dst # v
      PROVE  log'[v] = log[v]
  BY <1>0, <1>5, AcceptedMerges DEF Merged
<1>6. ASSUME NEW k \in Server, NEW c \in Command, Start(k, c), k # v
      PROVE  log'[v] = log[v]
  BY <1>0, <1>6, StartLog
<1>7. ASSUME NEW k \in Server, NEW l \in Server, GetVote(k, l) \/ SendAppendEntries(k, l)
      PROVE  log'[v] = log[v]
  BY <1>7 DEF GetVote, SendAppendEntries, persistent
<1>8. Still => log'[v] = log[v]
  BY DEF Still
<1> QED
  BY <1>0, <1>1, <1>3, <1>4, <1>5, <1>6, <1>7, <1>8, LogKinds

LEMMA HoldersStep ==
    ASSUME Base, Moved, CallOwns, NEW p \in Nat, p >= 1, NEW T \in Nat, NEW Q \in SUBSET Server,
           Secure(p, T, Q)
    PROVE  Holders(p, T, Q)'
<1> SUFFICES ASSUME NEW v \in Q
             PROVE  currentTerm'[v] >= T /\ HasAt(v, p, T)'
  BY DEF Holders
<1>1. v \in Server /\ currentTerm[v] >= T /\ HasAt(v, p, T)
  BY DEF Secure, Holders
<1>2. HasAt(v, p, T)'
  BY <1>1, HasKept DEF Secure
<1>3. currentTerm[v] \in Nat /\ currentTerm'[v] \in Nat /\ currentTerm'[v] >= currentTerm[v]
  BY <1>1, TermsGrow
<1> QED
  BY <1>1, <1>2, <1>3

\* A leader of a later term keeps the entry, and a new one has it, unless a
\* majority outside Q has left term T.
LEMMA InLeadersStep ==
    ASSUME Base, Moved, NEW p \in Nat, p >= 1, NEW T \in Nat, NEW Q \in SUBSET Server,
           Secure(p, T, Q)
    PROVE  \/ InLeaders(p, T)'
           \/ \E W \in SUBSET Server : /\ Majority(W) /\ W \cap Q = {}
                                       /\ \A v \in W : currentTerm'[v] > T
<1>0. TypeOK /\ VotesSound
  BY DEF Base
<1>1. ASSUME NEW s \in Server, state'[s] = "Leader", state[s] = "Leader", currentTerm'[s] = currentTerm[s],
             currentTerm'[s] > T
      PROVE  HasAt(s, p, T)'
  <2>1. HasAt(s, p, T)
    BY <1>1 DEF Secure, InLeaders
  <2>2. PICK have \in Nat, new \in Nat : /\ have = Len(log[s]) /\ new = Len(log'[s]) /\ new >= have
                                        /\ p \in 1 .. have
    BY <1>0, <1>1, <2>1, LogView, NextViews, LeaderGrows DEF HasAt
  <2>3. log'[s][p] = log[s][p]
    BY <1>1, <2>2, LeaderGrows
  <2> QED
    BY <2>1, <2>2, <2>3 DEF HasAt, TermAt
<1>2. ASSUME NEW s \in Server, Wins(s), currentTerm'[s] > T
      PROVE  \/ HasAt(s, p, T)'
             \/ \E W \in SUBSET Server : /\ Majority(W) /\ W \cap Q = {}
                                         /\ \A v \in W : currentTerm'[v] > T
  <2>0. currentTerm' = currentTerm /\ log' = log /\ Counting(s)
    BY <1>2 DEF Wins
  <2>1. PICK W \in SUBSET Server :
               /\ Majority(W)
               /\ \A v \in W : [voter |-> v, term |-> currentTerm[s], candidate |-> s] \in Votes
    BY <1>2 DEF Wins, Backed
  <2>2. CASE W \cap Q # {}
    <3>1. PICK v \in Q : [voter |-> v, term |-> currentTerm[s], candidate |-> s] \in Votes
      BY <2>1, <2>2
    <3>2. HasAt(s, p, T)
      BY <1>2, <2>0, <3>1 DEF Secure, InVoted
    <3> QED
      BY <2>0, <3>2 DEF HasAt
  <2>3. CASE W \cap Q = {}
    <3>1. ASSUME NEW v \in W
          PROVE  currentTerm'[v] > T
      <4>1. currentTerm[s] <= currentTerm[v]
        BY <1>0, <2>1, <3>1 DEF VotesSound, VotesRemembered
      <4>2. currentTerm[s] \in Nat /\ currentTerm[v] \in Nat
        BY <1>0 DEF TypeOK
      <4> QED
        BY <1>2, <2>0, <4>1, <4>2
    <3> QED
      BY <2>1, <2>3, <3>1
  <2> QED
    BY <2>2, <2>3
<1> QED
  BY <1>1, <1>2, LeaderKinds DEF InLeaders

\* A call of term T or later that reaches the entry is at least as new there.
LEMMA CallReaches ==
    ASSUME TypeOK, CallOwns, NEW p \in Nat, p >= 1, NEW T \in Nat, NEW Q \in SUBSET Server, Q # {},
           Secure(p, T, Q), NEW m \in AECalls, m.term >= T, p <= End(m)
    PROVE  TermAt(View(m), MaxOf(p, Lo(m))) >= T
<1>0. m.term \in Nat
  BY ViewFacts, VoteMessage
<1>1. CASE m.term > T
  BY <1>1 DEF Secure, InCalls
<1>2. CASE m.term = T
  <2>1. PICK v \in Q : v \in Server /\ HasAt(v, p, T)
    BY DEF Secure, Holders
  <2>2. p \in DOMAIN log[v] /\ log[v] \in Views /\ TermAt(log[v], p) = m.term
    BY <1>2, <2>1, HasType DEF HasAt
  <2>3. TermAt(View(m), MaxOf(p, Lo(m))) = m.term
    BY <2>2 DEF CallOwns
  <2> QED
    BY <1>0, <1>2, <2>3
<1> QED
  BY <1>0, <1>1, <1>2

\* f has the entry of term T at position p as far as it goes beyond it.
InView(f, p, T) ==
    \A q \in DOMAIN f :
      Beyond(TermAt(f, q), q, p, T) => p <= q /\ (p \in DOMAIN f => TermAt(f, p) = T)

LEMMA InViewSent ==
    ASSUME Base, Moved, NEW p \in Nat, p >= 1, NEW T \in Nat, InViews(p, T),
           NEW i \in Server, NEW j \in Server, SendAppendEntries(i, j)
    PROVE  InView(View(Sent(i, j)), p, T)
<1>0. TypeOK /\ TypeOK' /\ Plain
  BY DEF Base, Moved
<1>1. PICK f, s : f = View(Sent(i, j)) /\ s = log[i]
  OBVIOUS
<1>2. DOMAIN f \subseteq DOMAIN s /\ s \in Views /\ \A q \in DOMAIN f : TermAt(f, q) = TermAt(s, q)
  <2>1. PICK lo \in Nat, have \in Nat : lo = Lo(Sent(i, j)) /\ have = Len(log[i])
    BY <1>0, SentPart, LogView
  <2>2. DOMAIN s = 1 .. have /\ DOMAIN f = lo .. have /\ lo \in 1 .. have /\ s \in Views
        /\ \A q \in lo .. have : TermAt(f, q) = TermAt(s, q)
    BY <1>0, <1>1, <2>1, SentPart, LogView
  <2> QED
    BY <2>2
<1> QED
  BY <1>1, <1>2 DEF InViews, InView

LEMMA InViewStart ==
    ASSUME Base, Moved, LeaderOwns, NEW p \in Nat, p >= 1, NEW T \in Nat, NEW Q \in SUBSET Server, Q # {},
           Secure(p, T, Q), NEW i \in Server, NEW c \in Command, Start(i, c)
    PROVE  InView(log'[i], p, T)
<1>0. TypeOK /\ TypeOK'
  BY DEF Base, Moved
<1>1. PICK f, s : f = log'[i] /\ s = log[i]
  OBVIOUS
<1>2. PICK have \in Nat, t \in Nat :
             have = Len(log[i]) /\ t = currentTerm[i] /\ DOMAIN s = 1 .. have /\ s \in Views
  <2>1. currentTerm[i] \in Nat
    BY <1>0 DEF TypeOK
  <2> QED
    BY <1>0, <1>1, <2>1, LogView
<1>3. /\ DOMAIN f = 1 .. have + 1 /\ TermAt(f, have + 1) = t /\ state[i] = "Leader"
      /\ \A x \in 1 .. have : TermAt(f, x) = TermAt(s, x)
  <2>1. DOMAIN f = 1 .. Len(log'[i])
    BY <1>1, NextViews
  <2> QED
    BY <1>0, <1>1, <1>2, <2>1, StartLog DEF TermAt
<1> SUFFICES ASSUME NEW q \in DOMAIN f, Beyond(TermAt(f, q), q, p, T)
             PROVE  p <= q /\ (p \in DOMAIN f => TermAt(f, p) = T)
  BY <1>1 DEF InView
<1>4. CASE q <= have
  <2>1. q \in 1 .. have
    BY <1>3, <1>4
  <2>2. p <= q /\ (p \in DOMAIN s => TermAt(s, p) = T)
    BY <1>2, <1>3, <2>1 DEF Secure, InViews
  <2>3. p \in 1 .. have
    BY <2>1, <2>2
  <2> QED
    BY <1>2, <1>3, <2>2, <2>3
<1>5. CASE q = have + 1
  <2>1. t > T \/ t = T
    BY <1>3, <1>5 DEF Beyond
  <2>2. p \in 1 .. have /\ TermAt(s, p) = T
    <3>1. CASE t > T
      <4>1. HasAt(i, p, T)
        BY <1>2, <1>3, <3>1 DEF Secure, InLeaders
      <4> QED
        BY <1>1, <1>2, <4>1 DEF HasAt
    <3>2. CASE t = T
      <4>1. PICK v \in Q : v \in Server /\ HasAt(v, p, T)
        BY DEF Secure, Holders
      <4>2. p \in DOMAIN log[v] /\ log[v] \in Views /\ TermAt(log[v], p) = t
        BY <1>0, <3>2, <4>1, HasType DEF HasAt
      <4>3. OwnsTerm(i)
        BY <1>3 DEF LeaderOwns
      <4> QED
        BY <1>1, <1>2, <3>2, <4>2, <4>3 DEF OwnsTerm
    <3> QED
      BY <2>1, <3>1, <3>2
  <2> QED
    BY <1>3, <1>5, <2>2
<1>6. q \in 1 .. have + 1
  BY <1>3
<1> QED
  BY <1>4, <1>5, <1>6

LEMMA InViewAccept ==
    ASSUME Base, Moved, TermsInv, CallOwns, Matching, CommitInv, NEW p \in Nat, p >= 1, NEW T \in Nat,
           NEW Q \in SUBSET Server, Q # {}, Secure(p, T, Q),
           NEW m \in AECalls, NEW c \in Nat, Accepted(m), Merged(m, c), log' # log
    PROVE  InView(log'[m.dst], p, T)
<1>0. TypeOK /\ TypeOK' /\ Plain /\ m \in rpcs /\ m.dst \in Server
  BY ViewFacts, VoteMessage DEF Base, Moved
<1>1. PICK f, s, u : f = log'[m.dst] /\ s = log[m.dst] /\ u = View(m)
  OBVIOUS
<1>2. PICK have \in Nat, lo \in Nat, end \in Nat :
             /\ have = Len(log[m.dst]) /\ lo = Lo(m) /\ end = End(m) /\ lo >= 1
             /\ DOMAIN s = 1 .. have /\ DOMAIN u = lo .. end /\ s \in Views /\ u \in Views
             /\ \A x \in 1 .. have : TermAt(s, x) \in Nat
             /\ \A x \in lo .. end : TermAt(u, x) \in Nat
  BY <1>0, <1>1, LogView, ViewFacts
<1>3. /\ c \in lo .. end /\ c <= have /\ DOMAIN f = 1 .. end
      /\ \A x \in 1 .. c : TermAt(f, x) = TermAt(s, x)
      /\ \A x \in c + 1 .. end : TermAt(f, x) = TermAt(u, x)
  <2>1. DOMAIN f = 1 .. Len(log'[m.dst])
    BY <1>0, <1>1, NextViews
  <2> QED
    BY <1>1, <1>2, <2>1 DEF Merged, TermAt
<1> SUFFICES ASSUME NEW q \in DOMAIN f, Beyond(TermAt(f, q), q, p, T)
             PROVE  p <= q /\ (p \in DOMAIN f => TermAt(f, p) = T)
  BY <1>1 DEF InView
<1>4. CASE q <= c
  <2>1. q \in 1 .. c /\ q \in 1 .. have
    BY <1>3, <1>4
  <2>2. p <= q /\ (p \in DOMAIN s => TermAt(s, p) = T)
    BY <1>2, <1>3, <2>1 DEF Secure, InViews
  <2>3. p \in 1 .. c /\ p \in 1 .. have
    BY <2>1, <2>2
  <2> QED
    BY <1>2, <1>3, <2>2, <2>3
<1>5. CASE q > c
  <2>1. q \in c + 1 .. end /\ q \in lo .. end
    BY <1>3, <1>5
  <2>2. p <= q /\ (p \in DOMAIN u => TermAt(u, p) = T)
    BY <1>2, <1>3, <2>1 DEF Secure, InViews
  <2>3. CASE p > c
    <3>1. p \in c + 1 .. end /\ p \in DOMAIN u
      BY <1>2, <1>3, <2>1, <2>2, <2>3
    <3> QED
      BY <1>3, <2>2, <3>1
  <2>4. CASE p <= c
    <3>1. PICK high \in Nat : high = MaxOf(p, lo) /\ high \in lo .. c /\ high \in lo .. end
      BY <1>3, <2>4 DEF MaxOf
    <3>2. TermAt(u, high) >= T
      <4>1. TermAt(u, q) >= T /\ TermAt(u, q) \in Nat
        BY <1>2, <1>3, <2>1 DEF Beyond
      <4>2. TermAt(u, q) <= m.term /\ m.term \in Nat
        BY <1>0, <1>1, <1>2, <2>1, VoteMessage DEF TermsInv
      <4>3. m.term >= T
        BY <4>1, <4>2
      <4>4. p <= End(m)
        BY <1>2, <1>3, <2>4
      <4> QED
        BY <1>0, <1>1, <1>2, <3>1, <4>3, <4>4, CallReaches
    <3>3. Sorted(u)
      BY <1>2 DEF Matching
    <3>4. TermAt(u, high) <= TermAt(u, c)
      BY <1>2, <1>3, <3>1, <3>3 DEF Sorted
    <3>5. TermAt(s, c) = TermAt(u, c)
      BY <1>1, AcceptAgree
    <3>6. TermAt(u, high) \in Nat /\ TermAt(u, c) \in Nat
      BY <1>2, <1>3, <3>1
    <3>7. TermAt(s, c) >= T /\ TermAt(s, c) \in Nat
      BY <3>2, <3>4, <3>5, <3>6
    <3>8. Beyond(TermAt(s, c), c, p, T) /\ c \in DOMAIN s /\ p \in DOMAIN s /\ p \in 1 .. c
      BY <1>2, <1>3, <2>4, <3>7 DEF Beyond
    <3>9. TermAt(s, p) = T
      BY <1>2, <3>8 DEF Secure, InViews
    <3> QED
      BY <1>3, <2>2, <3>8, <3>9
  <2> QED
    BY <1>3, <2>3, <2>4
<1>6. q \in Nat
  BY <1>3
<1> QED
  BY <1>3, <1>4, <1>5, <1>6

LEMMA InViewsStep ==
    ASSUME Base, Moved, TermsInv, LeaderOwns, CallOwns, Matching, CommitInv, NEW p \in Nat, p >= 1,
           NEW T \in Nat, NEW Q \in SUBSET Server, Q # {}, Secure(p, T, Q)
    PROVE  InViews(p, T)'
<1>0. TypeOK
  BY DEF Base
<1> SUFFICES \A f \in Views' : InView(f, p, T)
  BY DEF InViews, InView
<1>1. \A f \in Views : InView(f, p, T)
  BY DEF Secure, InViews, InView
<1>2. CASE Views' \subseteq Views
  BY <1>1, <1>2
<1>3. ASSUME NEW i \in Server, NEW j \in Server, SendAppendEntries(i, j)
      PROVE  InView(View(Sent(i, j)), p, T)
  BY <1>3, InViewSent DEF Secure
<1>4. ASSUME NEW i \in Server, NEW c \in Command, Start(i, c)
      PROVE  InView(log'[i], p, T)
  BY <1>4, InViewStart
<1>5. ASSUME NEW m \in AECalls, NEW c \in Nat, Accepted(m), Merged(m, c)
      PROVE  InView(log'[m.dst], p, T)
  <2>1. CASE log' # log
    BY <1>5, <2>1, InViewAccept
  <2>2. CASE log' = log
    <3>1. m.dst \in Server
      BY <1>0, ViewFacts, VoteMessage
    <3> QED
      BY <1>0, <1>1, <2>2, <3>1, LogView
  <2> QED
    BY <2>1, <2>2
<1>6. ASSUME NEW g, Views' \subseteq Views \cup {g}, InView(g, p, T)
      PROVE  \A f \in Views' : InView(f, p, T)
  BY <1>1, <1>6
<1> QED
  BY <1>2, <1>3, <1>4, <1>5, <1>6, NewView

LEMMA InCallsStep ==
    ASSUME Base, Moved, Matching, NEW p \in Nat, p >= 1, NEW T \in Nat, InCalls(p, T), InLeaders(p, T)
    PROVE  InCalls(p, T)'
<1>0. TypeOK /\ TypeOK' /\ Plain
  BY DEF Base, Moved
<1> SUFFICES ASSUME NEW m \in AECalls', m.term > T
             PROVE  p <= End(m) /\ TermAt(View(m), MaxOf(p, Lo(m))) >= T
  BY DEF InCalls
<1>1. ASSUME NEW c \in AECalls, SameCall(m, c)
      PROVE  p <= End(m) /\ TermAt(View(m), MaxOf(p, Lo(m))) >= T
  <2>1. c.term > T /\ View(m) = View(c) /\ Lo(m) = Lo(c) /\ End(m) = End(c)
    BY <1>1 DEF SameCall
  <2> QED
    BY <2>1 DEF InCalls
<1>2. ASSUME NEW i \in Server, NEW j \in Server, SendAppendEntries(i, j), m = Sent(i, j)
      PROVE  p <= End(m) /\ TermAt(View(m), MaxOf(p, Lo(m))) >= T
  <2>1. state[i] = "Leader" /\ currentTerm[i] > T
    BY <1>2, SentCall DEF MaySend, Sent
  <2>2. HasAt(i, p, T)
    BY <2>1 DEF InLeaders
  <2>3. PICK lo \in Nat, have \in Nat, high \in Nat :
               /\ lo = Lo(m) /\ have = Len(log[i]) /\ high = MaxOf(p, lo)
               /\ End(m) = have /\ lo \in 1 .. have /\ DOMAIN log[i] = 1 .. have /\ log[i] \in Views
    <3>1. Lo(m) \in Nat /\ Lo(m) \in 1 .. Len(log[i]) /\ End(m) = Len(log[i])
      BY <1>0, <1>2, SentPart
    <3>2. MaxOf(p, Lo(m)) \in Nat
      BY <3>1 DEF MaxOf
    <3> QED
      BY <1>0, <3>1, <3>2, LogView
  <2>4. p \in 1 .. have /\ TermAt(log[i], p) = T
    BY <2>2, <2>3 DEF HasAt
  <2>5. high \in lo .. have /\ high \in 1 .. have /\ p <= high
    BY <2>3, <2>4 DEF MaxOf
  <2>6. TermAt(log[i], p) <= TermAt(log[i], high) /\ TermAt(log[i], high) \in Nat
    <3>1. Sorted(log[i])
      BY <2>3 DEF Matching
    <3>2. p \in DOMAIN log[i] /\ high \in DOMAIN log[i]
      BY <2>3, <2>4, <2>5
    <3> QED
      BY <1>0, <2>3, <2>5, <3>1, <3>2, LogView DEF Sorted
  <2>7. TermAt(View(m), high) = TermAt(log[i], high)
    BY <1>0, <1>2, <2>3, <2>5, SentPart
  <2> QED
    BY <2>3, <2>4, <2>6, <2>7
<1> QED
  BY <1>1, <1>2, CallOrigin

\* A new vote is one of a candidate for itself or an answer.
LEMMA VoteOrigin ==
    ASSUME Base, Moved, NEW w \in Votes', w \notin Votes
    PROVE  /\ log' = log
           /\ \/ w.voter = w.candidate
              \/ \E m \in RVCalls : /\ Casts(m) /\ UpToDate(m.dst, m) /\ w.voter = m.dst
                                    /\ w.term = m.term /\ w.candidate = m.src
<1>0. TypeOK /\ StepKind
  BY DEF Base, Moved
<1>1. ~OldVotes
  BY DEF OldVotes
<1>2. ASSUME NEW i \in Server, StartElection(i)
      PROVE  log' = log /\ w.voter = w.candidate
  <2>1. w = [voter |-> i, term |-> currentTerm'[i], candidate |-> i]
    BY <1>0, <1>2, StartElectionVoters
  <2> QED
    BY <1>2, <2>1 DEF StartElection
<1>3. ASSUME NEW i \in Server, Wins(i) \/ \E j \in Server : GetVote(i, j)
      PROVE  FALSE
  BY <1>0, <1>1, <1>3, GetVoteElection DEF Wins, NoElectionStep
<1>4. ASSUME NEW m \in rpcs, Casts(m)
      PROVE  log' = log /\ m \in RVCalls /\ UpToDate(m.dst, m) /\ w.voter = m.dst
             /\ w.term = m.term /\ w.candidate = m.src
  BY <1>4 DEF Casts, NoLogStep, RVCalls
<1>5. ~NoElectionStep
  BY <1>1 DEF NoElectionStep
<1> QED
  BY <1>0, <1>2, <1>3, <1>4, <1>5, ElectionKinds

\* A voter that has the entry votes for a candidate that asks with a log beyond
\* it.
LEMMA UpToDateBeyond ==
    ASSUME TypeOK, Plain, Matching, NEW m \in RVCalls, UpToDate(m.dst, m), NEW p \in Nat, p >= 1,
           NEW T \in Nat, HasAt(m.dst, p, T)
    PROVE  Beyond(m.lastTerm, m.lastIndex + 1, p, T)
<1>0. m \in rpcs /\ m.dst \in Server /\ snapshotIndex[m.dst] = 0 /\ m.lastTerm \in Nat /\ m.lastIndex \in Nat
  <2>1. m \in rpcs /\ m.type = "RV"
    BY DEF RVCalls
  <2> QED
    BY <2>1 DEF TypeOK, Message, Plain
<1>1. PICK have \in Nat : /\ have = Len(log[m.dst]) /\ p \in 1 .. have /\ TermAt(log[m.dst], p) = T
                          /\ have >= 1 /\ DOMAIN log[m.dst] = 1 .. have /\ log[m.dst] \in Views
  BY <1>0, LogView DEF HasAt
<1>2. PICK last \in Nat : last = TermAt(log[m.dst], have) /\ T <= last
  <2>1. Sorted(log[m.dst])
    BY <1>1 DEF Matching
  <2>2. p \in DOMAIN log[m.dst] /\ have \in DOMAIN log[m.dst] /\ p <= have
    BY <1>1
  <2>3. TermAt(log[m.dst], have) \in Nat
    BY <1>0, <1>1, LogView
  <2> QED
    BY <1>1, <2>1, <2>2, <2>3 DEF Sorted
<1>3. m.lastTerm > last \/ (m.lastTerm = last /\ m.lastIndex >= have - 1)
  <2>1. Loglen(m.dst) = have
    BY <1>0, <1>1 DEF Loglen
  <2> QED
    BY <1>1, <1>2, <2>1 DEF UpToDate, TermAt
<1> QED
  BY <1>0, <1>1, <1>2, <1>3 DEF Beyond

\* A candidate that counts votes of term t counted them before, if it was in t.
LEMMA StillCounting ==
    ASSUME Base, Moved, NEW k \in Server, NEW t \in Nat, Counting(k)', currentTerm'[k] = t, t <= currentTerm[k]
    PROVE  Counting(k) /\ currentTerm[k] = t
<1>1. currentTerm[k] \in Nat /\ currentTerm'[k] >= currentTerm[k] /\ currentTerm'[k] \in Nat
  BY TermsGrow
<1>2. ~(currentTerm'[k] > currentTerm[k])
  BY <1>1
<1> QED
  BY <1>1, <1>2 DEF Moved, CountingKept

LEMMA InVotedStep ==
    ASSUME Base, Moved, CallOwns, Matching, NEW p \in Nat, p >= 1, NEW T \in Nat, NEW Q \in SUBSET Server,
           Secure(p, T, Q)
    PROVE  InVoted(p, T, Q)'
<1>0. TypeOK /\ TypeOK' /\ Plain /\ VotesOwn
  BY DEF Base, Moved, CallsInv
<1> SUFFICES ASSUME NEW w \in Votes', w.voter \in Q, w.term > T,
                    Counting(w.candidate)', currentTerm'[w.candidate] = w.term
             PROVE  HasAt(w.candidate, p, T)'
  BY DEF InVoted
<1>1. PICK k \in Server, t \in Nat : k = w.candidate /\ t = w.term
  <2>1. (\A v \in Votes : v.voter \in Server /\ v.term \in Nat /\ v.candidate \in Server)'
    BY <1>0, VotesType, PTL
  <2> QED
    BY <2>1
<1>2. CASE w \in Votes
  <2>1. t <= currentTerm[k]
    BY <1>0, <1>1, <1>2 DEF VotesOwn
  <2>2. Counting(k) /\ currentTerm[k] = t
    BY <1>1, <2>1, StillCounting
  <2>3. HasAt(k, p, T) /\ currentTerm[k] >= T
    BY <1>1, <1>2, <2>2 DEF Secure, InVoted
  <2>4. HasAt(k, p, T)'
    BY <2>3, HasKept DEF Secure
  <2> QED
    BY <1>1, <2>4
<1>3. CASE w \notin Votes
  <2>1. log' = log
    BY <1>3, VoteOrigin
  <2>2. CASE w.voter = w.candidate
    <3>1. HasAt(k, p, T)
      BY <1>1, <2>2 DEF Secure, Holders
    <3> QED
      BY <1>1, <2>1, <3>1 DEF HasAt
  <2>3. ASSUME NEW m \in RVCalls, Casts(m), UpToDate(m.dst, m), w.voter = m.dst,
               w.term = m.term, w.candidate = m.src
        PROVE  HasAt(k, p, T)'
    <3>1. HasAt(m.dst, p, T)
      BY <2>3 DEF Secure, Holders
    <3>2. Beyond(m.lastTerm, m.lastIndex + 1, p, T)
      BY <1>0, <2>3, <3>1, UpToDateBeyond
    <3>3. Counting(k) /\ currentTerm[k] = t
      BY <1>1, <2>3 DEF Casts, OldCounting
    <3>4. HasAt(k, p, T)
      BY <1>1, <2>3, <3>2, <3>3 DEF Secure, InAsked
    <3> QED
      BY <2>1, <3>4 DEF HasAt
  <2> QED
    BY <1>1, <1>3, <2>2, <2>3, VoteOrigin
<1> QED
  BY <1>2, <1>3

LEMMA InAskedStep ==
    ASSUME Base, Moved, CallOwns, NEW p \in Nat, p >= 1, NEW T \in Nat, NEW Q \in SUBSET Server,
           Secure(p, T, Q)
    PROVE  InAsked(p, T)'
<1>0. TypeOK /\ TypeOK' /\ Plain /\ VotesOwn
  BY DEF Base, Moved, CallsInv
<1> SUFFICES ASSUME NEW m \in RVCalls', m.term > T, Counting(m.src)', currentTerm'[m.src] = m.term,
                    Beyond(m.lastTerm, m.lastIndex + 1, p, T)
             PROVE  HasAt(m.src, p, T)'
  BY DEF InAsked
<1>1. CASE m \in RVCalls
  <2>1. m \in rpcs /\ m.type = "RV"
    BY <1>1 DEF RVCalls
  <2>2. m.src \in Server /\ m.term \in Nat /\ m.term <= currentTerm[m.src]
    BY <1>0, <2>1, VoteMessage DEF VotesOwn
  <2>3. Counting(m.src) /\ currentTerm[m.src] = m.term
    BY <2>2, StillCounting
  <2>4. HasAt(m.src, p, T) /\ currentTerm[m.src] >= T
    BY <1>1, <2>2, <2>3 DEF Secure, InAsked
  <2> QED
    BY <2>2, <2>4, HasKept DEF Secure
<1>2. CASE m \notin RVCalls
  <2>1. PICK i, j \in Server :
             /\ GetVote(i, j) /\ m.src = i /\ m.term = currentTerm[i]
             /\ m.lastTerm = TermAt(log[i], Len(log[i])) /\ m.lastIndex + 1 = Len(log[i])
    BY <1>2, AskOrigin
  <2>2. PICK have \in Nat : /\ have = Len(log[i]) /\ have >= 1 /\ DOMAIN log[i] = 1 .. have
                            /\ log[i] \in Views
    BY <1>0, LogView
  <2>3. have \in DOMAIN log[i] /\ Beyond(TermAt(log[i], have), have, p, T)
    BY <2>1, <2>2
  <2>4. p <= have /\ (p \in DOMAIN log[i] => TermAt(log[i], p) = T)
    BY <2>2, <2>3 DEF Secure, InViews
  <2>5. HasAt(i, p, T)
    BY <2>2, <2>4 DEF HasAt
  <2>6. log' = log
    BY <2>1 DEF GetVote, persistent
  <2> QED
    BY <2>1, <2>5, <2>6 DEF HasAt
<1> QED
  BY <1>1, <1>2

\* What is secure stays secure, unless a majority outside Q has left term T.
LEMMA SecureKept ==
    ASSUME Base, Moved, TermsInv, LeaderOwns, CallOwns, Matching, CommitInv, NEW p \in Nat, p >= 1,
           NEW T \in Nat, NEW Q \in SUBSET Server, Q # {}, Secure(p, T, Q)
    PROVE  \/ Secure(p, T, Q)'
           \/ \E W \in SUBSET Server : /\ Majority(W) /\ W \cap Q = {}
                                       /\ \A v \in W : currentTerm'[v] > T
<1>1. Holders(p, T, Q)'
  BY HoldersStep
<1>2. InViews(p, T)'
  BY InViewsStep
<1>3. InCalls(p, T)'
  BY InCallsStep DEF Secure
<1>4. InVoted(p, T, Q)'
  BY InVotedStep
<1>5. InAsked(p, T)'
  BY InAskedStep
<1>6. CASE InLeaders(p, T)'
  BY <1>1, <1>2, <1>3, <1>4, <1>5, <1>6 DEF Secure
<1> QED
  BY <1>6, InLeadersStep

\* What a majority has stays secure.
LEMMA MajoritySecure ==
    ASSUME Base, Moved, TermsInv, LeaderOwns, CallOwns, Matching, CommitInv, NEW p \in Nat, p >= 1,
           NEW T \in Nat, NEW Q \in SUBSET Server, Majority(Q), Secure(p, T, Q)
    PROVE  Secure(p, T, Q)'
<1>1. Q # {}
  BY MajoritiesMeet
<1>2. ASSUME NEW W \in SUBSET Server, Majority(W)
      PROVE  W \cap Q # {}
  BY <1>2, MajoritiesMeet
<1> QED
  BY <1>1, <1>2, SecureKept

-----------------------------------------------------------------------------
(* The entries of a leader.                                                *)

LEMMA AcksNat == TypeOK => \A k, l \in Server : \A b \in Acks(k, l) : b \in Nat
  BY AcksType

LEMMA AckSetMember ==
    ASSUME NEW i \in Server, NEW p, NEW j
    PROVE  j \in AckSet(i, p) <=> j = i \/ (j \in Server /\ j # i /\ \E a \in Acks(i, j) : a + 1 >= p)
  BY DEF AckSet

\* The leader hears from another server only by a call of its term.
LEMMA AckSetSource ==
    ASSUME Calm, Base, Moved, ProgressInv, NEW i \in Server, NEW p \in Nat,
           state[i] = "Leader", state'[i] = "Leader", currentTerm'[i] = currentTerm[i],
           NEW j \in AckSet(i, p)', j \notin AckSet(i, p)
    PROVE  /\ j \in Server /\ j # i /\ currentTerm'[j] = currentTerm[i] /\ currentTerm[j] <= currentTerm[i]
           /\ \E a \in Acks(i, j)' : a + 1 >= p
<1>0. TypeOK
  BY DEF Base
<1>1. j = i \/ (j \in Server /\ j # i /\ \E a \in Acks(i, j)' : a + 1 >= p)
  BY DEF AckSet
<1>2. j # i
  BY AckSetMember
<1>3. PICK a \in Acks(i, j)' : a + 1 >= p
  BY <1>1, <1>2
<1>4. a \notin Acks(i, j) /\ j \in Server
  BY <1>1, <1>2, <1>3, AckSetMember
<1>5. PICK c \in AECalls : Accepted(c) /\ c.dst = j /\ c.term = currentTerm[i]
  BY <1>3, <1>4, AckSource
<1>6. currentTerm'[j] = c.term
  BY <1>0, <1>4, <1>5 DEF Accepted, Follow, TypeOK
<1>7. c.term >= currentTerm[j] /\ currentTerm[j] \in Nat /\ currentTerm[i] \in Nat
  BY <1>0, <1>4, <1>5 DEF Accepted, TypeOK
<1> QED
  BY <1>2, <1>3, <1>4, <1>5, <1>6, <1>7

\* A majority that has left the term of leader i, and that i has not heard of.
LEMMA BlockedNext ==
    ASSUME Calm, Base, Moved, ProgressInv, NEW i \in Server, NEW p \in Nat,
           state[i] = "Leader", state'[i] = "Leader", currentTerm'[i] = currentTerm[i],
           NEW W \in SUBSET Server, Majority(W), W \cap AckSet(i, p) = {},
           \A v \in W : currentTerm'[v] > currentTerm[i]
    PROVE  Blocked(i, p)'
<1>1. ASSUME NEW j \in W, j \in AckSet(i, p)'
      PROVE  FALSE
  <2>1. currentTerm'[j] = currentTerm[i] /\ currentTerm[i] \in Nat
    BY <1>1, AckSetSource, TermsGrow
  <2> QED
    BY <1>1, <2>1
<1>2. W \cap AckSet(i, p)' = {}
  BY <1>1
<1>3. Majority(W)'
  BY DEF Majority
<1> QED
  BY <1>2, <1>3 DEF Blocked

\* An entry that the leader had before the step.
LEMMA OldEntrySecure ==
    ASSUME Calm, Base, Moved, TermsInv, LeaderOwns, CallOwns, ProgressInv, Matching, CommitInv, AckInv',
           LeaderSecure, NEW i \in Server,
           state[i] = "Leader", state'[i] = "Leader", currentTerm'[i] = currentTerm[i],
           NEW p \in 1 .. Len(log[i]), TermAt(log[i], p) = currentTerm[i]
    PROVE  Blocked(i, p)' \/ Secure(p, currentTerm[i], AckSet(i, p))'
<1>0. TypeOK /\ TypeOK' /\ VotesSound'
  BY DEF Base, Moved
<1>1. PICK t \in Nat, have \in Nat : t = currentTerm[i] /\ have = Len(log[i]) /\ p \in 1 .. have
  BY <1>0, LogView DEF TypeOK
<1>2. p \in Nat /\ p >= 1
  BY <1>1
<1>3. CASE Blocked(i, p)
  <2>1. PICK W \in SUBSET Server : /\ Majority(W) /\ W \cap AckSet(i, p) = {}
                                  /\ \A v \in W : currentTerm[v] > currentTerm[i]
    BY <1>3 DEF Blocked
  <2>2. ASSUME NEW v \in W
        PROVE  currentTerm'[v] > currentTerm[i]
    <3>1. currentTerm[v] > t /\ currentTerm[v] \in Nat /\ currentTerm'[v] \in Nat
          /\ currentTerm'[v] >= currentTerm[v]
      BY <1>1, <2>1, TermsGrow
    <3> QED
      BY <1>1, <3>1
  <2> QED
    BY <1>2, <2>1, <2>2, BlockedNext
<1>4. CASE Secure(p, t, AckSet(i, p))
  <2>1. PICK Q \in SUBSET Server : Q = AckSet(i, p) /\ Q # {}
    BY DEF AckSet
  <2>2. ASSUME NEW W \in SUBSET Server, Majority(W), W \cap Q = {},
               \A v \in W : currentTerm'[v] > t
        PROVE  Blocked(i, p)'
    BY <1>1, <1>2, <2>1, <2>2, BlockedNext
  <2>3. CASE Secure(p, t, Q)'
    <3>1. ASSUME NEW j \in AckSet(i, p)'
          PROVE  j \in Q \/ (j \in Server /\ currentTerm'[j] = t /\ HasAt(j, p, t)')
      <4>1. CASE j \notin Q
        <5>1. j \in Server /\ j # i /\ currentTerm'[j] = t
          BY <1>1, <1>2, <2>1, <3>1, <4>1, AckSetSource
        <5>2. PICK a \in Acks(i, j)' : a + 1 >= p
          BY <1>2, <2>1, <3>1, <4>1, AckSetSource
        <5>3. a + 1 <= Len(log'[j]) /\ \A x \in 1 .. a + 1 : log'[j][x] = log'[i][x]
          BY <1>1, <5>1, <5>2 DEF AckInv
        <5>4. a \in Nat
          <6>1. (\A k, l \in Server : \A b \in Acks(k, l) : b \in Nat)'
            BY <1>0, AcksNat, PTL
          <6> QED
            BY <5>1, <6>1
        <5>5. p \in 1 .. a + 1 /\ Len(log'[j]) \in Nat
          BY <1>2, <5>1, <5>2, <5>4, NextViews
        <5>6. log'[i][p] = log[i][p]
          BY LeaderGrows
        <5>7. log'[j][p] = log[i][p] /\ p <= Len(log'[j])
          BY <1>2, <5>3, <5>4, <5>5, <5>6
        <5> QED
          BY <1>1, <5>1, <5>7 DEF HasAt, TermAt
      <4> QED
        BY <4>1
    <3>2. PICK A : A = AckSet(i, p)'
      OBVIOUS
    <3>3. Holders(p, t, A)'
      <4>1. ASSUME NEW j \in A
            PROVE  currentTerm'[j] >= t /\ HasAt(j, p, t)'
        BY <2>3, <3>1, <3>2, <4>1 DEF Secure, Holders
      <4> QED
        BY <4>1 DEF Holders
    <3>4. InVoted(p, t, A)'
      <4> SUFFICES ASSUME NEW w \in Votes', w.voter \in A, w.term > t,
                          Counting(w.candidate)', currentTerm'[w.candidate] = w.term
                   PROVE  HasAt(w.candidate, p, t)'
        BY DEF InVoted
      <4>1. CASE w.voter \in Q
        BY <2>3, <4>1 DEF Secure, InVoted
      <4>2. CASE w.voter \notin Q
        <5>1. currentTerm'[w.voter] = t
          BY <3>1, <3>2, <4>2
        <5>2. w.term <= currentTerm'[w.voter]
          BY <1>0 DEF VotesSound, VotesRemembered
        <5>3. w.term \in Nat
          <6>1. (\A v \in Votes : v.voter \in Server /\ v.term \in Nat /\ v.candidate \in Server)'
            BY <1>0, VotesType, PTL
          <6> QED
            BY <6>1
        <5> QED
          BY <5>1, <5>2, <5>3
      <4> QED
        BY <4>1, <4>2
    <3>5. Secure(p, t, A)'
      BY <2>3, <3>3, <3>4 DEF Secure
    <3> QED
      BY <1>1, <3>2, <3>5
  <2>4. Secure(p, t, Q)
    BY <1>4, <2>1
  <2> QED
    BY <1>2, <2>1, <2>2, <2>3, <2>4, SecureKept
<1> QED
  BY <1>1, <1>3, <1>4 DEF LeaderSecure

\* An entry that the leader appends in this step: there is no later leader, or
\* a majority has left the term for it.
LEMMA NewEntrySecure ==
    ASSUME Base, Moved, TermsInv, LeaderOwns, ProgressInv, NEW i \in Server, NEW c \in Command,
           Start(i, c), NEW p, p = Len(log[i]) + 1
    PROVE  Blocked(i, p)' \/ Secure(p, currentTerm[i], AckSet(i, p))'
<1>0. TypeOK /\ TypeOK' /\ VotesSound /\ VotesSound' /\ CallsElected
  BY DEF Base, Moved, CallsInv
<1>1. PICK t \in Nat, have \in Nat :
             /\ t = currentTerm[i] /\ have = Len(log[i]) /\ p = have + 1
             /\ currentTerm' = currentTerm /\ state' = state /\ rpcs' = rpcs
             /\ state[i] = "Leader" /\ Len(log'[i]) = have + 1 /\ TermAt(log'[i], p) = t
             /\ AECalls' = AECalls /\ RVCalls' = RVCalls
             /\ \A j \in Server : j # i => log'[j] = log[j]
  BY <1>0, StartLog, LogNumbers
<1>2. AckSet(i, p)' = {i}
  <2>1. ASSUME NEW j \in Server, j # i, NEW a \in Acks(i, j)
        PROVE  a \in Nat /\ a + 1 <= have
    <3>1. matchIndex[i][j] + 1 <= have
      BY <1>1, <2>1 DEF ProgressInv
    <3>2. \A r \in rpcs : Acking(r, i, j) => r.last + 1 <= have
      BY <1>1 DEF ProgressInv, Acking
    <3> QED
      BY <1>0, <2>1, <3>1, <3>2, AcksType, AcksMember
  <2>2. matchIndex' = matchIndex
    BY DEF Start, leaderVars
  <2>3. \A j \in Server : Acks(i, j)' = Acks(i, j)
    BY <1>1, <2>2 DEF Acks
  <2>4. ASSUME NEW j \in Server, j # i, NEW a \in Acks(i, j)', a + 1 >= p
        PROVE  FALSE
    <3>1. a \in Nat /\ a + 1 <= have
      BY <2>1, <2>3, <2>4
    <3> QED
      BY <1>1, <2>4, <3>1
  <2> QED
    BY <2>4 DEF AckSet
<1>3. ASSUME NEW s \in Server, NEW u \in Nat, u > t, Elected(s, u)'
      PROVE  Blocked(i, p)'
  <2>1. PICK W \in SUBSET Server : Majority(W)' /\ \A v \in W : u <= currentTerm'[v]
    BY <1>3 DEF Elected
  <2>2. ASSUME NEW v \in W
        PROVE  currentTerm'[v] > currentTerm'[i]
    <3>1. currentTerm'[v] \in Nat /\ currentTerm'[i] = t /\ u <= currentTerm'[v]
      BY <1>0, <1>1, <2>1 DEF TypeOK
    <3> QED
      BY <1>3, <3>1
  <2>3. i \notin W
    BY <1>1, <2>2
  <2> QED
    BY <1>2, <2>1, <2>2, <2>3 DEF Blocked
<1>4. CASE \A s \in Server : \A u \in Nat : Elected(s, u)' => ~(u > t)
  <2>1. ASSUME NEW u \in Nat, Known(u)'
        PROVE  u <= t
    BY <1>1, <1>4, <2>1 DEF Known
  <2>2. Holders(p, t, {i})'
    BY <1>1 DEF Holders, HasAt
  <2>3. InViews(p, t)'
    <3> SUFFICES ASSUME NEW f \in Views', NEW q \in DOMAIN f, Beyond(TermAt(f, q), q, p, t)
                 PROVE  p <= q /\ (p \in DOMAIN f => TermAt(f, p) = t)
      BY DEF InViews
    <3>1. Known(TermAt(f, q))'
      BY KnownStep
    <3>2. CASE f = log'[i]
      <4>1. DOMAIN f = 1 .. have + 1 /\ \A x \in 1 .. have + 1 : TermAt(f, x) \in Nat
        BY <1>1, <3>2, NextViews
      <4>2. TermAt(f, q) <= t /\ TermAt(f, q) \in Nat
        BY <2>1, <3>1, <4>1
      <4>3. q >= p
        BY <1>1, <4>2 DEF Beyond
      <4>4. q = p
        BY <1>1, <4>1, <4>3
      <4> QED
        BY <1>1, <3>2, <4>4
    <3>3. CASE f \in Views
      <4>1. TermAt(f, q) \in Nat /\ q \in Nat
        BY <1>0, <3>3, ViewAt
      <4>2. TermAt(f, q) = t /\ q >= p
        BY <1>1, <2>1, <3>1, <4>1 DEF Beyond
      <4>3. q <= have
        BY <1>1, <3>3, <4>2 DEF LeaderOwns, OwnsTerm
      <4> QED
        BY <1>1, <4>1, <4>2, <4>3
    <3>4. f = log'[i] \/ f \in Views
      BY <1>1 DEF Views
    <3> QED
      BY <3>2, <3>3, <3>4
  <2>4. InLeaders(p, t)'
    <3> SUFFICES ASSUME NEW s \in Server, state[s] = "Leader", currentTerm[s] > t
                 PROVE  FALSE
      BY <1>1 DEF InLeaders
    <3>1. PICK u \in Nat : u = currentTerm[s]
      BY <1>0 DEF TypeOK
    <3>2. Elected(s, u)
      BY <1>0, <3>1, LeaderElected
    <3>3. Elected(s, u)'
      BY <3>2, ElectedKept DEF Base, Moved
    <3> QED
      BY <1>4, <3>1, <3>3
  <2>5. InCalls(p, t)'
    <3> SUFFICES ASSUME NEW m \in AECalls, m.term > t
                 PROVE  FALSE
      BY <1>1 DEF InCalls
    <3>1. PICK u \in Nat : u = m.term /\ m.src \in Server
      BY <1>0, VoteMessage DEF AECalls
    <3>2. Elected(m.src, u)
      BY <1>0, <3>1 DEF CallsElected, AECalls, IsCall
    <3>3. Elected(m.src, u)'
      BY <3>2, ElectedKept DEF Base, Moved
    <3> QED
      BY <1>4, <3>1, <3>3
  <2>6. InVoted(p, t, {i})'
    <3> SUFFICES ASSUME NEW w \in Votes', w.voter = i, w.term > t
                 PROVE  FALSE
      BY DEF InVoted
    <3>1. w.term <= currentTerm'[i]
      BY <1>0 DEF VotesSound, VotesRemembered
    <3>2. w.term \in Nat
      <4>1. (\A v \in Votes : v.voter \in Server /\ v.term \in Nat /\ v.candidate \in Server)'
        BY <1>0, VotesType, PTL
      <4> QED
        BY <4>1
    <3> QED
      BY <1>1, <3>1, <3>2
  <2>7. InAsked(p, t)'
    <3> SUFFICES ASSUME NEW m \in RVCalls, Beyond(m.lastTerm, m.lastIndex + 1, p, t)
                 PROVE  FALSE
      BY <1>1 DEF InAsked
    <3>1. PICK u \in Nat, x \in Nat : u = m.lastTerm /\ x = m.lastIndex
      BY <1>0, VoteMessage DEF RVCalls
    <3>2. Known(u)'
      BY <3>1, KnownKept DEF TermsInv
    <3>3. u = t /\ x + 1 >= p
      BY <1>1, <2>1, <3>1, <3>2 DEF Beyond
    <3>4. x + 1 <= have
      BY <1>1, <3>1, <3>3 DEF LeaderOwns, OwnsTerm
    <3> QED
      BY <1>1, <3>1, <3>3, <3>4
  <2>8. Secure(p, t, {i})'
    BY <2>2, <2>3, <2>4, <2>5, <2>6, <2>7 DEF Secure
  <2> QED
    BY <1>1, <1>2, <2>8
<1> QED
  BY <1>3, <1>4

LEMMA LeaderSecureStep ==
    ASSUME Calm, Base, Moved, TermsInv, LeaderOwns, CallOwns, ProgressInv, Matching, CommitInv, AckInv',
           LeaderSecure
    PROVE  LeaderSecure'
<1> SUFFICES ASSUME NEW i \in Server, state'[i] = "Leader", NEW p \in 1 .. Len(log'[i]),
                    TermAt(log'[i], p) = currentTerm'[i]
             PROVE  (Blocked(i, p) \/ Secure(p, currentTerm[i], AckSet(i, p)))'
  BY DEF LeaderSecure
<1>0. TypeOK /\ TypeOK'
  BY DEF Base, Moved
<1>1. CASE Wins(i)
  <2>1. log'[i] = log[i] /\ currentTerm'[i] = currentTerm[i]
    BY <1>1 DEF Wins, NoLogStep
  <2>2. log[i] \in Views /\ p \in DOMAIN log[i]
    BY <1>0, <2>1, LogView
  <2> QED
    BY <1>1, <2>1, <2>2, WinsFresh
<1>2. CASE state[i] = "Leader" /\ currentTerm'[i] = currentTerm[i]
  <2>1. PICK have \in Nat : have = Len(log[i])
    BY <1>0, LogView
  <2>2. CASE p \in 1 .. have
    <3>1. TermAt(log[i], p) = currentTerm[i]
      BY <1>2, <2>1, <2>2, LeaderGrows DEF TermAt
    <3> QED
      BY <1>2, <2>1, <2>2, <3>1, OldEntrySecure
  <2>3. CASE p \notin 1 .. have
    <3>1. p \in Nat /\ p >= 1
      BY <1>0, NextViews
    <3>2. PICK c \in Command : Start(i, c)
      BY <2>1, <2>3, LeaderGrows
    <3>3. p = have + 1
      BY <1>0, <2>1, <2>3, <3>1, <3>2, StartLog
    <3> QED
      BY <1>2, <2>1, <3>2, <3>3, NewEntrySecure
  <2> QED
    BY <2>2, <2>3
<1> QED
  BY <1>1, <1>2, LeaderKinds

-----------------------------------------------------------------------------
(* Commitment.                                                             *)

\* The servers that reach the median are a majority, as their number is odd,
\* and the leader knows that they have the entry.
LEMMA MedianMajority ==
    ASSUME Calm, Base, NEW i \in Server, Commits(i)
    PROVE  \E Q \in SUBSET Server :
             /\ Majority(Q) /\ Q \subseteq AckSet(i, Median(i) + 1)
<1>0. TypeOK
  BY DEF Base
<1> DEFINE k == Median(i)
           Q == {j \in Server : Stored(i, j) >= k}
<1>1. k \in Nat /\ Cardinality(Q) >= Cardinality(Server) - Cardinality(Server) \div 2
  BY <1>0, MedianType
<1>2. Cardinality(Server) \in Nat /\ Cardinality(Q) \in Nat
  BY ServerAssumption, FS_Subset, FS_CardinalityType
<1>3. 2 * Cardinality(Q) > Cardinality(Server)
  <2>1. PICK n \in Nat, q \in Nat : /\ n = Cardinality(Server) /\ q = Cardinality(Q)
                                    /\ q >= n - n \div 2 /\ n % 2 = 1
    BY <1>1, <1>2 DEF Calm
  <2> HIDE DEF Q
  <2>2. 2 * q > n
    BY <2>1
  <2> QED
    BY <2>1, <2>2
<1>4. ASSUME NEW j \in Q
      PROVE  j \in AckSet(i, k + 1)
  <2>1. CASE j = i
    BY <2>1 DEF AckSet
  <2>2. CASE j # i
    <3>1. matchIndex[i][j] >= k /\ matchIndex[i][j] \in Acks(i, j) /\ matchIndex[i][j] \in Nat
      BY <1>0, <2>2 DEF Stored, Acks, TypeOK
    <3>2. matchIndex[i][j] + 1 >= k + 1
      BY <1>1, <3>1
    <3> HIDE DEF k
    <3> QED
      BY <2>2, <3>1, <3>2, AckSetMember
  <2> QED
    BY <2>1, <2>2
<1> QED
  BY <1>3, <1>4 DEF Majority

LEMMA SecureSubset ==
    ASSUME NEW p, NEW T, NEW Q, NEW A, Q \subseteq A, Secure(p, T, A)
    PROVE  Secure(p, T, Q)
  BY DEF Secure, Holders, InVoted

\* So what it commits is secure.
LEMMA MedianSecure ==
    ASSUME Calm, Base, LeaderSecure, NEW i \in Server, Commits(i)
    PROVE  /\ Median(i) \in Nat /\ TermAt(log[i], Median(i) + 1) \in Nat
           /\ \E Q \in SUBSET Server :
                Majority(Q) /\ Secure(Median(i) + 1, TermAt(log[i], Median(i) + 1), Q)
<1>0. TypeOK /\ Plain
  BY DEF Base
<1>1. PICK k \in Nat, p \in Nat, have \in Nat : k = Median(i) /\ p = k + 1 /\ have = Len(log[i])
  <2>1. Median(i) \in Nat
    BY <1>0, MedianType
  <2>2. Len(log[i]) \in Nat
    BY <1>0, LogView
  <2> QED
    BY <2>1, <2>2
<1>2. p \in 1 .. have /\ log[i][k - 0 + 1].term = currentTerm[i]
  BY <1>0, <1>1 DEF Commits, Plain, InLog, Committable, At
<1>3. TermAt(log[i], p) = currentTerm[i] /\ currentTerm[i] \in Nat
  <2>1. k - 0 + 1 = p
    BY <1>1
  <2> QED
    BY <1>0, <1>2, <2>1 DEF TermAt, TypeOK
<1>4. PICK Q \in SUBSET Server : Majority(Q) /\ Q \subseteq AckSet(i, p)
  BY <1>1, MedianMajority
<1>5. ASSUME Blocked(i, p)
      PROVE  FALSE
  <2>1. PICK W \in SUBSET Server : Majority(W) /\ W \cap AckSet(i, p) = {}
    BY <1>5 DEF Blocked
  <2> QED
    BY <1>4, <2>1, MajoritiesMeet
<1>6. Secure(p, currentTerm[i], AckSet(i, p))
  BY <1>1, <1>2, <1>3, <1>5 DEF LeaderSecure, Commits
<1>7. Secure(p, currentTerm[i], Q)
  BY <1>4, <1>6, SecureSubset
<1> QED
  BY <1>1, <1>3, <1>4, <1>7

\* A follower that stored the entries of a call learns what the call says is
\* committed, which the call covers.
LEMMA InformedCommit ==
    ASSUME Base, Moved, TermsInv, CallOwns, Matching, CommitInv, NEW m \in AECalls, Accepted(m)
    PROVE  commitIndex'[m.dst] \in {commitIndex[m.dst], m.commit}
<1>0. TypeOK /\ Plain /\ m \in rpcs /\ m.type = "AE" /\ m.dst \in Server
  BY ViewFacts, VoteMessage DEF Base, AECalls
<1>1. PICK c \in Nat : Merged(m, c)
  BY <1>0, AcceptedMerges
<1>2. PICK end \in Nat, have \in Nat, x \in Nat, y \in Nat :
             /\ end = End(m) /\ have = Len(log'[m.dst]) /\ end <= have
             /\ x = m.commit /\ y = commitIndex[m.dst]
  <2>1. End(m) \in Nat /\ m.commit \in Nat
    BY <1>0, CallNumbers
  <2>2. Len(log'[m.dst]) \in Nat
    BY <1>0, NextViews
  <2>3. End(m) <= Len(log'[m.dst])
    BY <1>1, MergedAgree
  <2>4. commitIndex[m.dst] \in Nat
    BY <1>0, LogNumbers
  <2> QED
    BY <2>1, <2>2, <2>3, <2>4
<1>3. CASE UNCHANGED commitIndex
  BY <1>3
<1>4. CASE Informed(m.dst, m)
  <2>1. commitIndex'[m.dst] = IF x > y THEN MinOf(x, have - 1) ELSE y
    BY <1>0, <1>2, <1>4 DEF Informed, TypeOK
  <2>2. CASE x > y
    <3>1. x + 1 <= end
      BY <1>2, <2>2 DEF CommitInv
    <3> QED
      BY <1>2, <2>1, <2>2, <3>1 DEF MinOf
  <2> QED
    BY <1>2, <2>1, <2>2
<1> QED
  BY <1>3, <1>4 DEF Accepted

\* What a step may do to the commit index of j.
LEMMA CommitKinds ==
    ASSUME Base, Moved, TermsInv, CallOwns, Matching, CommitInv, NEW j \in Server
    PROVE  \/ commitIndex'[j] \in {commitIndex[j], 0}
           \/ Commits(j) /\ commitIndex'[j] = Median(j)
           \/ \E m \in AECalls : Accepted(m) /\ m.dst = j /\ commitIndex'[j] = m.commit
<1>0. TypeOK /\ Plain /\ StepKind
  BY DEF Base, Moved
<1>1. CASE OldCommits
  BY <1>1 DEF OldCommits
<1>2. ASSUME NEW i \in Server, Commits(i)
      PROVE  commitIndex'[j] = commitIndex[j] \/ (i = j /\ commitIndex'[j] = Median(j))
  BY <1>0, <1>2 DEF Commits, TypeOK
<1>3. ASSUME NEW m \in rpcs, Accepted(m)
      PROVE  /\ m \in AECalls
             /\ \/ commitIndex'[j] = commitIndex[j]
                \/ m.dst = j /\ commitIndex'[j] = m.commit
  <2>1. m \in AECalls
    BY <1>0, <1>3, AcceptedMerges
  <2>2. CASE m.dst = j
    BY <1>3, <2>1, <2>2, InformedCommit
  <2>3. ASSUME m.dst # j
        PROVE  commitIndex'[j] = commitIndex[j]
    <3>1. UNCHANGED commitIndex \/ Informed(m.dst, m)
      BY <1>3 DEF Accepted
    <3> QED
      BY <1>0, <2>3, <3>1 DEF Informed, TypeOK
  <2> QED
    BY <2>1, <2>2, <2>3
<1>4. ASSUME UNCHANGED commitIndex
      PROVE  OldCommits
  BY <1>4 DEF OldCommits
<1>5. ASSUME NEW i \in Server,
             \/ StartElection(i) \/ \E c \in Command : Start(i, c)
             \/ \E l \in Server : GetVote(i, l) \/ SendAppendEntries(i, l)
      PROVE  UNCHANGED commitIndex
  BY <1>5 DEF StartElection, Start, GetVote, SendAppendEntries
<1>6. ASSUME NEW m \in rpcs, Acknowledged(m)
      PROVE  UNCHANGED commitIndex
  BY <1>6 DEF Acknowledged
<1> QED
  BY <1>0, <1>1, <1>2, <1>3, <1>4, <1>5, <1>6 DEF StepKind, NoLogStep, Wins, Casts

\* A majority has the entry of term T at position p, for good.
Settled(p, T) == \E Q \in SUBSET Server : Majority(Q) /\ Secure(p, T, Q)

LEMMA SettledStep ==
    ASSUME Base, Moved, TermsInv, LeaderOwns, CallOwns, Matching, CommitInv, NEW p \in Nat, p >= 1,
           NEW T \in Nat, Settled(p, T)
    PROVE  Settled(p, T)'
<1>1. PICK Q \in SUBSET Server : Majority(Q) /\ Secure(p, T, Q)
  BY DEF Settled
<1>2. Secure(p, T, Q)'
  BY <1>1, MajoritySecure
<1>3. Majority(Q)'
  BY <1>1 DEF Majority
<1> QED
  BY <1>2, <1>3 DEF Settled

\* What a call says is committed is what its receiver has there.
LEMMA InformedSettled ==
    ASSUME Base, Moved, TermsInv, LeaderOwns, CallOwns, Matching, CommitInv, NEW m \in AECalls,
           Accepted(m), m.commit # 0
    PROVE  Settled(m.commit + 1, TermAt(log[m.dst], m.commit + 1))'
<1>0. TypeOK /\ Plain /\ m \in rpcs /\ m.type = "AE" /\ m.dst \in Server
  BY ViewFacts, VoteMessage DEF Base, AECalls
<1>1. PICK p \in Nat, lo \in Nat, end \in Nat, high \in Nat :
             /\ p = m.commit + 1 /\ lo = Lo(m) /\ end = End(m) /\ high = MaxOf(p, lo)
             /\ p >= 1 /\ lo >= 1 /\ end >= lo
  <2>1. PICK x \in Nat : x = m.commit
    BY <1>0, CallNumbers
  <2>2. Lo(m) \in Nat /\ End(m) \in Nat /\ Lo(m) >= 1 /\ End(m) >= Lo(m) /\ x + 1 \in Nat /\ x + 1 >= 1
    BY <1>0, <2>1, CallNumbers
  <2>3. MaxOf(x + 1, Lo(m)) \in Nat
    BY <2>2 DEF MaxOf
  <2> QED
    BY <2>1, <2>2, <2>3
<1>2. p <= end
  BY <1>1 DEF CommitInv
<1>3. high \in lo .. end /\ high >= p
  BY <1>1, <1>2 DEF MaxOf
<1>4. TermAt(View(m), high) \in Nat
  BY <1>0, <1>1, <1>3, ViewFacts
<1>5. PICK T \in 0 .. TermAt(View(m), high) : Settled(p, T)
  BY <1>1 DEF CommitInv, Settled
<1>6. T \in Nat /\ T <= TermAt(View(m), high)
  BY <1>4
<1>7. Settled(p, T)'
  BY <1>1, <1>5, <1>6, SettledStep
<1>8. InViews(p, T)'
  BY <1>7 DEF Settled, Secure
<1>9. PICK c \in Nat : Merged(m, c)
  BY <1>0, AcceptedMerges
<1>10. PICK have \in Nat : /\ have = Len(log'[m.dst]) /\ end <= have /\ log'[m.dst] \in Views'
                           /\ DOMAIN log'[m.dst] = 1 .. have
  BY <1>0, <1>1, <1>9, MergedAgree, NextViews
<1>11. TermAt(log'[m.dst], high) = TermAt(View(m), high)
  BY <1>1, <1>3, <1>9, MergedAgree
<1>12. high \in 1 .. have /\ p \in 1 .. have
  BY <1>1, <1>2, <1>3, <1>10
<1>13. Beyond(TermAt(log'[m.dst], high), high, p, T)
  BY <1>3, <1>4, <1>6, <1>11 DEF Beyond
<1>14. TermAt(log'[m.dst], p) = T
  BY <1>8, <1>10, <1>12, <1>13 DEF InViews
<1> QED
  BY <1>1, <1>7, <1>14

LEMMA CommitPosition ==
    ASSUME TypeOK, Plain, NEW i \in Server
    PROVE  commitIndex[i] + 1 \in 1 .. Len(log[i]) /\ Len(log[i]) \in Nat
<1>1. PICK x \in Nat, have \in Nat : x = commitIndex[i] /\ have = Len(log[i])
  BY LogNumbers
<1>2. x + 1 <= have
  BY <1>1 DEF Plain
<1> QED
  BY <1>1, <1>2

\* What j has at its commit index is settled.
LEMMA CommittedSettled ==
    ASSUME Calm, Base, Moved, TermsInv, LeaderOwns, CallOwns, Matching, CommitInv, LeaderSecure,
           NEW j \in Server, commitIndex'[j] # 0
    PROVE  Settled(commitIndex[j] + 1, TermAt(log[j], commitIndex[j] + 1))'
<1>0. TypeOK /\ TypeOK' /\ Plain /\ CommittedKept
  BY DEF Base, Moved
<1>1. CASE commitIndex'[j] = commitIndex[j]
  <2>1. PICK p \in Nat, have \in Nat :
               /\ p = commitIndex[j] + 1 /\ p >= 1 /\ have = Len(log[j]) /\ p \in 1 .. have
    <3>1. commitIndex[j] + 1 \in 1 .. Len(log[j]) /\ Len(log[j]) \in Nat
      BY <1>0, CommitPosition
    <3> QED
      BY <3>1
  <2>2. PICK T \in Nat : T = TermAt(log[j], p)
    BY <1>0, <2>1, LogView
  <2>3. Settled(p, T)'
    BY <1>1, <2>1, <2>2, SettledStep DEF CommitInv, Settled
  <2>4. TermAt(log'[j], p) = T
    BY <1>0, <2>1, <2>2 DEF CommittedKept, TermAt
  <2> QED
    BY <1>1, <2>1, <2>3, <2>4
<1>2. CASE Commits(j) /\ commitIndex'[j] = Median(j)
  <2>1. PICK p \in Nat, T \in Nat : p = Median(j) + 1 /\ p >= 1 /\ T = TermAt(log[j], p)
    BY <1>2, MedianSecure
  <2>2. Settled(p, T)
    BY <1>2, <2>1, MedianSecure DEF Settled
  <2>3. Settled(p, T)'
    BY <2>1, <2>2, SettledStep
  <2>4. log' = log
    BY <1>2 DEF Commits
  <2> QED
    BY <1>2, <2>1, <2>3, <2>4
<1>3. ASSUME NEW m \in AECalls, Accepted(m), m.dst = j, commitIndex'[j] = m.commit
      PROVE  Settled(commitIndex[j] + 1, TermAt(log[j], commitIndex[j] + 1))'
  BY <1>3, InformedSettled
<1> QED
  BY <1>1, <1>2, <1>3, CommitKinds

\* What a call says is committed.
LEMMA CallSettled ==
    ASSUME Base, Moved, TermsInv, LeaderOwns, CallOwns, Matching, CommitInv, NEW m \in AECalls',
           m.commit # 0
    PROVE  /\ m.commit + 1 <= End(m)
           /\ \E T \in 0 .. TermAt(View(m), MaxOf(m.commit + 1, Lo(m))) : Settled(m.commit + 1, T)'
<1>0. TypeOK /\ TypeOK' /\ Plain
  BY DEF Base, Moved
<1>1. ASSUME NEW c \in AECalls, SameCall(m, c)
      PROVE  /\ m.commit + 1 <= End(m)
             /\ \E T \in 0 .. TermAt(View(m), MaxOf(m.commit + 1, Lo(m))) : Settled(m.commit + 1, T)'
  <2>1. /\ m.commit = c.commit /\ c.commit # 0 /\ View(m) = View(c) /\ Lo(m) = Lo(c)
        /\ End(m) = End(c)
    BY <1>1 DEF SameCall
  <2>2. PICK p \in Nat : p = c.commit + 1 /\ p >= 1
    BY <1>0, CallNumbers DEF AECalls
  <2>3. p <= End(c) /\ \E T \in 0 .. TermAt(View(c), MaxOf(p, Lo(c))) : Settled(p, T)
    BY <2>1, <2>2 DEF CommitInv, Settled
  <2>4. PICK T \in 0 .. TermAt(View(c), MaxOf(p, Lo(c))) : Settled(p, T)
    BY <2>3
  <2>5. Settled(p, T)'
    BY <2>2, <2>4, SettledStep
  <2> QED
    BY <2>1, <2>2, <2>3, <2>4, <2>5
<1>2. ASSUME NEW i \in Server, NEW j \in Server, SendAppendEntries(i, j), m = Sent(i, j)
      PROVE  /\ m.commit + 1 <= End(m)
             /\ \E T \in 0 .. TermAt(View(m), MaxOf(m.commit + 1, Lo(m))) : Settled(m.commit + 1, T)'
  <2>1. m.commit = commitIndex[i]
    BY <1>2 DEF Sent
  <2>2. PICK p \in Nat, lo \in Nat, have \in Nat :
               /\ p = commitIndex[i] + 1 /\ p >= 1 /\ lo = Lo(m) /\ have = Len(log[i])
               /\ p \in 1 .. have /\ lo \in 1 .. have /\ End(m) = have
               /\ DOMAIN log[i] = 1 .. have /\ log[i] \in Views
    <3>1. commitIndex[i] + 1 \in 1 .. Len(log[i]) /\ Len(log[i]) \in Nat
      BY <1>0, CommitPosition
    <3>2. Lo(m) \in 1 .. Len(log[i]) /\ End(m) = Len(log[i])
      BY <1>0, <1>2, SentPart
    <3>3. DOMAIN log[i] = 1 .. Len(log[i]) /\ log[i] \in Views
      BY <1>0, LogView
    <3> QED
      BY <3>1, <3>2, <3>3
  <2>3. PICK high \in Nat : high = MaxOf(p, lo) /\ high \in 1 .. have /\ high \in lo .. have /\ p <= high
    BY <2>2 DEF MaxOf
  <2>4. PICK T \in Nat : T = TermAt(log[i], p)
    BY <1>0, <2>2, LogView
  <2>5. TermAt(View(m), high) = TermAt(log[i], high)
    BY <1>0, <1>2, <2>2, <2>3, SentPart
  <2>6. T <= TermAt(log[i], high) /\ TermAt(log[i], high) \in Nat
    <3>1. Sorted(log[i]) /\ p \in DOMAIN log[i] /\ high \in DOMAIN log[i]
      BY <2>2, <2>3 DEF Matching
    <3> QED
      BY <1>0, <2>2, <2>3, <2>4, <3>1, LogView DEF Sorted
  <2>7. Settled(p, T)
    BY <2>1, <2>2, <2>4 DEF CommitInv, Settled
  <2>8. Settled(p, T)'
    BY <2>2, <2>7, SettledStep
  <2>9. T \in 0 .. TermAt(View(m), high) /\ p <= End(m)
    BY <2>2, <2>5, <2>6
  <2> QED
    BY <2>1, <2>2, <2>3, <2>8, <2>9
<1> QED
  BY <1>1, <1>2, CallOrigin

LEMMA CommitStep ==
    ASSUME Calm, Base, Moved, TermsInv, LeaderOwns, CallOwns, Matching, CommitInv, LeaderSecure
    PROVE  CommitInv'
  BY CommittedSettled, CallSettled DEF CommitInv, Settled

-----------------------------------------------------------------------------
(* The invariant, and what it says of the log.                             *)

SafeInv ==
    /\ Plain /\ inside = {} /\ CallsInv
    /\ TermsInv /\ LeaderOwns /\ CallOwns /\ ProgressInv
    /\ Matching /\ AckInv /\ LeaderSecure /\ CommitInv

LEMMA InitSafe == Init => SafeInv
<1> SUFFICES ASSUME Init PROVE SafeInv
  OBVIOUS
<1>1. /\ rpcs = {} /\ inside = {}
      /\ \A i \in Server : state[i] # "Leader" /\ commitIndex[i] = 0 /\ currentTerm[i] = 0
                           /\ election[i].votes = {}
  BY DEF Init, NoElection
<1>2. PICK f : f = <<Dummy>> /\ \A i \in Server : log[i] = f
  BY DEF Init, Dummy
<1>3. DOMAIN f = 1 .. 1 /\ Len(f) = 1 /\ TermAt(f, 1) = 0
  BY <1>2 DEF TermAt, Dummy
<1>4. \A g \in Views : g = f
  BY <1>1, <1>2 DEF Views, AECalls
<1>5. AECalls = {} /\ RVCalls = {} /\ Votes = {}
  BY <1>1, VotesMember DEF AECalls, RVCalls
<1>6. CallsInv
  BY <1>1, <1>5 DEF CallsInv, CallsElected, OneCall, CallsLive, VotesOwn
<1>7. TermsInv
  <2>1. ASSUME NEW i \in Server, NEW p \in 1 .. Len(log[i])
        PROVE  Known(TermAt(log[i], p)) /\ TermAt(log[i], p) <= currentTerm[i]
    <3>1. log[i] = f /\ currentTerm[i] = 0
      BY <1>1, <1>2, <2>1
    <3>2. p \in 1 .. 1
      BY <1>3, <2>1, <3>1
    <3>3. p = 1
      BY <3>2
    <3> QED
      BY <1>3, <3>1, <3>3 DEF Known
  <2> QED
    BY <1>5, <2>1 DEF TermsInv
<1>8. LeaderOwns /\ CallOwns /\ ProgressInv /\ AckInv /\ LeaderSecure /\ CommitInv
  BY <1>1, <1>5 DEF LeaderOwns, CallOwns, ProgressInv, AckInv, LeaderSecure, CommitInv
<1>9. Sorted(f)
  BY <1>3 DEF Sorted
<1>10. Match(f, f)
  BY DEF Match
<1>11. Matching
  BY <1>4, <1>9, <1>10 DEF Matching
<1> QED
  BY <1>1, <1>6, <1>7, <1>8, <1>11, InitPlain DEF SafeInv

LEMMA SafeStep ==
    ASSUME Calm, TypeOK, TypeOK', VotesSound, VotesSound', PersistedInTime, SafeInv, [Next]_vars
    PROVE  SafeInv'
<1>1. Plain' /\ CommittedKept /\ inside' = {}
  BY PlainStep, InsideStep DEF SafeInv, Calm
<1>2. VoteKept /\ NewVotesCast
  BY VoteStep, ElectionStep DEF VotesSound, GoodElectionStep
<1>3. CallsInv'
  BY <1>2, CallsStep DEF SafeInv
<1>4. StepKind
  BY StepKinds DEF SafeInv, CallsInv
<1>5. CountingKept
  BY RoleKinds, CountingStep DEF SafeInv, CallsInv, Calm
<1>6. Base
  BY DEF Base, SafeInv
<1>7. Moved
  BY <1>1, <1>2, <1>3, <1>4, <1>5 DEF Moved, Base
<1>8. TermsInv' /\ LeaderOwns' /\ CallOwns'
  BY <1>6, <1>7, TermsStep, LeaderOwnsStep, CallOwnsStep DEF SafeInv
<1>9. ProgressInv'
  BY <1>6, <1>7, ProgressStep DEF SafeInv
<1>10. Matching'
  BY <1>6, <1>7, MatchingStep DEF SafeInv
<1>11. AckInv'
  BY <1>6, <1>7, <1>10, AckStep DEF SafeInv
<1>12. LeaderSecure'
  BY <1>6, <1>7, <1>11, LeaderSecureStep DEF SafeInv
<1>13. CommitInv'
  BY <1>6, <1>7, CommitStep DEF SafeInv
<1> QED
  BY <1>1, <1>3, <1>8, <1>9, <1>10, <1>11, <1>12, <1>13 DEF SafeInv

\* SafeCorrect: the invariant from which the safety of the log follows.  What a
\* server or a call considers committed is secure (CommitInv), because the
\* entries of every leader are, or can never be counted on a majority any more
\* (LeaderSecure).
THEOREM SafeCorrect ==
    ASSUME Calm
    PROVE  Spec => []SafeInv
<1>1. Init => SafeInv
  BY InitSafe
<1>2. TypeOK /\ TypeOK' /\ VotesSound /\ VotesSound' /\ PersistedInTime /\ SafeInv /\ [Next]_vars
        => SafeInv'
  BY SafeStep
<1> QED
  BY <1>1, <1>2, TypeCorrect, PersistedCorrect, VotesCorrect, PTL DEF Spec

\* Without snapshots, index k is position k + 1 of the log.
LEMMA HoldsPlain ==
    ASSUME Plain, NEW i \in Server, NEW k \in Nat, k >= 1
    PROVE  Holds(i, k) = log[i][k + 1] /\ At(i, k) = log[i][k + 1]
<1>1. snapshotIndex[i] = 0
  BY DEF Plain
<1>2. ~(k <= 0) /\ k - 0 + 1 = k + 1
  OBVIOUS
<1> QED
  BY <1>1, <1>2 DEF Holds, At

LEMMA LoglenPlain ==
    ASSUME TypeOK, Plain, NEW i \in Server
    PROVE  Loglen(i) = Len(log[i]) /\ Len(log[i]) \in Nat /\ Len(log[i]) >= 1
  BY LocalType DEF Plain

\* Two logs that have the same term at position p are the same up to it.
LEMMA SamePrefix ==
    ASSUME TypeOK, Plain, Matching, NEW i \in Server, NEW j \in Server,
           NEW p \in Nat, p >= 1, p <= Len(log[i]), p <= Len(log[j]),
           TermAt(log[i], p) = TermAt(log[j], p)
    PROVE  \A k \in Nat : k >= 1 /\ k + 1 <= p => SameAt(i, j, k)
<1> SUFFICES ASSUME NEW k \in Nat, k >= 1, k + 1 <= p
             PROVE  SameAt(i, j, k)
  OBVIOUS
<1>1. PICK a \in Nat, b \in Nat :
             /\ a = Len(log[i]) /\ b = Len(log[j]) /\ log[i] \in Views /\ log[j] \in Views
             /\ DOMAIN log[i] = 1 .. a /\ DOMAIN log[j] = 1 .. b
  BY LogView
<1>2. /\ p \in 1 .. a /\ p \in 1 .. b /\ k + 1 \in 1 .. a /\ k + 1 \in 1 .. b
      /\ (k + 1) - 1 \in 1 .. a /\ (k + 1) - 1 \in 1 .. b /\ k + 1 <= p
  BY <1>1
<1>3. Match(log[i], log[j])
  BY <1>1 DEF Matching
<1>4. log[i][k + 1] = log[j][k + 1]
  BY <1>1, <1>2, <1>3 DEF Match
<1> QED
  BY <1>4, HoldsPlain DEF SameAt

\* What i has at its commit index, and that it is settled.
LEMMA CommitTerm ==
    ASSUME TypeOK, Plain, CommitInv, NEW i \in Server, commitIndex[i] # 0
    PROVE  \E p, T \in Nat :
             /\ p = commitIndex[i] + 1 /\ p >= 1 /\ p <= Len(log[i]) /\ p \in DOMAIN log[i]
             /\ T = TermAt(log[i], p) /\ Settled(p, T)
<1>1. PICK p \in Nat : /\ p = commitIndex[i] + 1 /\ p >= 1 /\ p \in 1 .. Len(log[i])
                       /\ p <= Len(log[i])
  BY CommitPosition
<1>2. TermAt(log[i], p) \in Nat /\ p \in DOMAIN log[i]
  BY <1>1, LogView
<1>3. Settled(p, TermAt(log[i], p))
  BY <1>1 DEF CommitInv, Settled
<1> QED
  BY <1>1, <1>2, <1>3

\* A server that has committed further has the entry at the commit index of i.
LEMMA CommittedTogether ==
    ASSUME TypeOK, Plain, Matching, CommitInv, NEW i \in Server, NEW j \in Server,
           commitIndex[i] # 0, commitIndex[i] <= commitIndex[j]
    PROVE  \A k \in Nat : k >= 1 /\ k <= commitIndex[i] => SameAt(i, j, k)
<1>1. PICK p, T \in Nat :
             /\ p = commitIndex[i] + 1 /\ p >= 1 /\ p <= Len(log[i]) /\ p \in DOMAIN log[i]
             /\ T = TermAt(log[i], p) /\ Settled(p, T)
  BY CommitTerm
<1>2. commitIndex[i] \in Nat /\ commitIndex[j] \in Nat
  BY LogNumbers
<1>3. commitIndex[j] # 0
  BY <1>2
<1>4. PICK q, U \in Nat :
             /\ q = commitIndex[j] + 1 /\ q >= 1 /\ q <= Len(log[j]) /\ q \in DOMAIN log[j]
             /\ U = TermAt(log[j], q) /\ Settled(q, U)
  BY <1>3, CommitTerm
<1>5. p <= q
  BY <1>1, <1>2, <1>4
<1>6. PICK b \in Nat : /\ b = Len(log[j]) /\ DOMAIN log[j] = 1 .. b /\ log[j] \in Views
                       /\ log[i] \in Views
  BY LogView
<1>7. p \in 1 .. b /\ p <= b
  BY <1>1, <1>4, <1>5, <1>6
<1>8. TermAt(log[j], p) = T
  <2>1. CASE U >= T
    <3>1. Beyond(U, q, p, T) /\ InViews(p, T)
      BY <1>1, <1>5, <2>1 DEF Beyond, Settled, Secure
    <3> QED
      BY <1>4, <1>6, <1>7, <3>1 DEF InViews
  <2>2. CASE U < T
    <3>1. Beyond(T, p, q, U) /\ InViews(q, U)
      BY <1>4, <2>2 DEF Beyond, Settled, Secure
    <3>2. q <= p /\ (q \in DOMAIN log[i] => TermAt(log[i], q) = U)
      BY <1>1, <1>6, <3>1 DEF InViews
    <3>3. q = p
      BY <1>5, <3>2
    <3> QED
      BY <1>1, <2>2, <3>2, <3>3
  <2> QED
    BY <2>1, <2>2
<1>9. \A k \in Nat : k >= 1 /\ k + 1 <= p => SameAt(i, j, k)
  BY <1>1, <1>6, <1>7, <1>8, SamePrefix
<1> QED
  BY <1>1, <1>2, <1>9

LEMMA SafeLogMatching == TypeOK /\ SafeInv => LogMatching
<1> SUFFICES ASSUME TypeOK, SafeInv, NEW i \in Server, NEW j \in Server,
                    NEW k \in MaxOf(snapshotIndex[i], snapshotIndex[j]) + 1
                                .. MinOf(Loglen(i), Loglen(j)) - 1,
                    At(i, k).term = At(j, k).term, NEW h \in 1 .. k
             PROVE  SameAt(i, j, h)
  BY DEF LogMatching
<1>0. Plain /\ Matching
  BY DEF SafeInv
<1>1. PICK a \in Nat, b \in Nat : a = Loglen(i) /\ b = Loglen(j) /\ a = Len(log[i]) /\ b = Len(log[j])
  BY <1>0, LoglenPlain
<1>2. MaxOf(snapshotIndex[i], snapshotIndex[j]) = 0
  BY <1>0 DEF Plain, MaxOf
<1>3. k \in 0 + 1 .. MinOf(a, b) - 1
  BY <1>1, <1>2
<1>4. k \in Nat /\ k >= 1 /\ k + 1 <= a /\ k + 1 <= b
  BY <1>1, <1>3 DEF MinOf
<1>5. TermAt(log[i], k + 1) = TermAt(log[j], k + 1)
  BY <1>0, <1>4, HoldsPlain DEF TermAt
<1>6. PICK p \in Nat : p = k + 1 /\ p >= 1
  BY <1>4
<1>7. \A x \in Nat : x >= 1 /\ x + 1 <= p => SameAt(i, j, x)
  BY <1>0, <1>1, <1>4, <1>5, <1>6, SamePrefix
<1>8. h \in Nat /\ h >= 1 /\ h + 1 <= p
  BY <1>4, <1>6
<1> QED
  BY <1>7, <1>8

LEMMA SafeStateMachines == TypeOK /\ SafeInv => StateMachineSafety
<1> SUFFICES ASSUME TypeOK, SafeInv, NEW i \in Server, NEW j \in Server,
                    NEW k \in 1 .. MinOf(MinOf(commitIndex[i], Loglen(i) - 1),
                                         MinOf(commitIndex[j], Loglen(j) - 1))
             PROVE  SameAt(i, j, k)
  BY DEF StateMachineSafety
<1>0. Plain /\ Matching /\ CommitInv
  BY DEF SafeInv
<1>1. PICK a \in Nat, b \in Nat, x \in Nat, y \in Nat :
             /\ a = Loglen(i) /\ b = Loglen(j) /\ x = commitIndex[i] /\ y = commitIndex[j]
  BY <1>0, LoglenPlain, LogNumbers
<1>2. k \in 1 .. MinOf(MinOf(x, a - 1), MinOf(y, b - 1))
  BY <1>1
<1>3. k \in Nat /\ k >= 1 /\ k <= x /\ k <= y /\ x # 0 /\ y # 0
  BY <1>2 DEF MinOf
<1>4. CASE x <= y
  BY <1>0, <1>1, <1>3, <1>4, CommittedTogether
<1>5. CASE y <= x
  <2>1. SameAt(j, i, k)
    BY <1>0, <1>1, <1>3, <1>5, CommittedTogether
  <2> QED
    BY <2>1 DEF SameAt
<1> QED
  BY <1>4, <1>5

LEMMA SafeLeaders == TypeOK /\ SafeInv => LeaderCompleteness
<1> SUFFICES ASSUME TypeOK, SafeInv, NEW i \in Server, NEW j \in Server,
                    state[i] = "Leader", currentTerm[i] >= currentTerm[j],
                    NEW k \in 1 .. commitIndex[j]
             PROVE  k <= Loglen(i) - 1 /\ SameAt(i, j, k)
  BY DEF LeaderCompleteness
<1>0. Plain /\ Matching /\ CommitInv /\ TermsInv /\ LeaderOwns
  BY DEF SafeInv
<1>1. PICK x \in Nat : x = commitIndex[j] /\ x # 0 /\ k \in Nat /\ k >= 1 /\ k <= x
  BY LogNumbers
<1>2. PICK p, T \in Nat :
             /\ p = commitIndex[j] + 1 /\ p >= 1 /\ p <= Len(log[j]) /\ p \in DOMAIN log[j]
             /\ T = TermAt(log[j], p) /\ Settled(p, T)
  BY <1>0, <1>1, CommitTerm
<1>3. PICK t \in Nat, u \in Nat, a \in Nat :
             t = currentTerm[i] /\ u = currentTerm[j] /\ t >= u /\ a = Len(log[i]) /\ Loglen(i) = a
  BY <1>0, LogNumbers, LoglenPlain
<1>4. T <= u
  <2>1. p \in 1 .. Len(log[j]) /\ log[j] \in Views
    BY <1>2, LogView
  <2> QED
    BY <1>0, <1>2, <1>3, <2>1 DEF TermsInv
<1>5. HasAt(i, p, T)
  <2>1. CASE t > T
    BY <1>2, <1>3, <2>1 DEF Settled, Secure, InLeaders
  <2>2. CASE t = T
    <3>1. log[j] \in Views
      BY LogView
    <3> QED
      BY <1>0, <1>2, <1>3, <2>2, <3>1 DEF LeaderOwns, OwnsTerm, HasAt
  <2> QED
    BY <1>3, <1>4, <2>1, <2>2
<1>6. p <= a /\ \A h \in Nat : h >= 1 /\ h + 1 <= p => SameAt(i, j, h)
  BY <1>0, <1>2, <1>3, <1>5, SamePrefix DEF HasAt
<1>7. p \in Nat /\ k + 1 <= p
  BY <1>1, <1>2
<1>8. SameAt(i, j, k)
  BY <1>1, <1>6, <1>7
<1>9. k <= a - 1
  BY <1>1, <1>6, <1>7
<1> QED
  BY <1>3, <1>8, <1>9

LEMMA SafeMatchIndex == TypeOK /\ SafeInv => MatchIndexSound
<1> SUFFICES ASSUME TypeOK, SafeInv, NEW i \in Server, NEW j \in Server,
                    state[i] = "Leader", i # j, currentTerm[j] = currentTerm[i],
                    NEW k \in 1 .. matchIndex[i][j]
             PROVE  k <= MinOf(Loglen(i), Loglen(j)) - 1 /\ SameAt(i, j, k)
  BY DEF MatchIndexSound
<1>0. Plain /\ AckInv /\ ProgressInv
  BY DEF SafeInv
<1>1. PICK a \in Nat, b \in Nat, x \in Nat :
             /\ a = Loglen(i) /\ b = Loglen(j) /\ a = Len(log[i]) /\ b = Len(log[j])
             /\ x = matchIndex[i][j]
  BY <1>0, LoglenPlain DEF TypeOK
<1>2. x + 1 <= a
  BY <1>0, <1>1 DEF ProgressInv
<1>3. x \in Acks(i, j)
  BY <1>1 DEF Acks
<1>4. x + 1 <= b /\ \A p \in 1 .. x + 1 : log[j][p] = log[i][p]
  BY <1>0, <1>1, <1>3 DEF AckInv
<1>5. k \in Nat /\ k >= 1 /\ k <= x /\ k + 1 \in 1 .. x + 1
  BY <1>1
<1>6. SameAt(i, j, k)
  BY <1>0, <1>4, <1>5, HoldsPlain DEF SameAt
<1>7. k <= MinOf(a, b) - 1
  BY <1>2, <1>4, <1>5 DEF MinOf
<1> QED
  BY <1>1, <1>6, <1>7

LEMMA SafeMajorities == TypeOK /\ SafeInv => Durable
<1> SUFFICES ASSUME TypeOK, SafeInv, NEW i \in Server,
                    NEW k \in 1 .. MinOf(commitIndex[i], Loglen(i) - 1)
             PROVE  2 * Cardinality({j \in Server : k <= Loglen(j) - 1 /\ SameAt(i, j, k)})
                      > Cardinality(Server)
  BY DEF Durable
<1>0. Plain /\ Matching /\ CommitInv
  BY DEF SafeInv
<1>1. PICK x \in Nat, a \in Nat : x = commitIndex[i] /\ a = Loglen(i)
  BY <1>0, LoglenPlain, LogNumbers
<1>2. k \in Nat /\ k >= 1 /\ k <= x /\ x # 0
  BY <1>1 DEF MinOf
<1>3. PICK p, T \in Nat :
             /\ p = commitIndex[i] + 1 /\ p >= 1 /\ p <= Len(log[i]) /\ p \in DOMAIN log[i]
             /\ T = TermAt(log[i], p) /\ Settled(p, T)
  BY <1>0, <1>1, <1>2, CommitTerm
<1>4. k + 1 <= p
  BY <1>1, <1>2, <1>3
<1>5. PICK Q \in SUBSET Server : Majority(Q) /\ Holders(p, T, Q)
  BY <1>3 DEF Settled, Secure
<1> DEFINE H == {j \in Server : k <= Loglen(j) - 1 /\ SameAt(i, j, k)}
<1>6. ASSUME NEW v \in Q
      PROVE  v \in H
  <2>1. v \in Server /\ p <= Len(log[v]) /\ TermAt(log[v], p) = T
    BY <1>5 DEF Holders, HasAt
  <2>2. PICK b \in Nat : b = Loglen(v) /\ b = Len(log[v])
    BY <1>0, <2>1, LoglenPlain
  <2>3. SameAt(i, v, k)
    BY <1>0, <1>2, <1>3, <1>4, <2>1, SamePrefix
  <2>4. k <= b - 1
    BY <1>2, <1>4, <2>1, <2>2
  <2> QED
    BY <2>1, <2>2, <2>3, <2>4
<1>7. Q \subseteq H /\ H \subseteq Server
  BY <1>6
<1> HIDE DEF H
<1>8. /\ IsFiniteSet(H) /\ IsFiniteSet(Q) /\ Cardinality(Q) <= Cardinality(H)
      /\ Cardinality(Q) \in Nat /\ Cardinality(H) \in Nat /\ Cardinality(Server) \in Nat
  BY <1>7, ServerAssumption, FS_Subset, FS_CardinalityType
<1>9. 2 * Cardinality(H) > Cardinality(Server)
  BY <1>5, <1>8 DEF Majority
<1> QED
  BY <1>9 DEF H

LEMMA SafeCalls == TypeOK /\ SafeInv => CommitCovered
<1> SUFFICES ASSUME TypeOK, SafeInv, NEW m \in rpcs, m.type = "AE"
             PROVE  m.commit <= m.prev + Len(m.entries)
  BY DEF CommitCovered
<1>1. PICK x \in Nat, prev \in Nat, len \in Nat :
             x = m.commit /\ prev = m.prev /\ len = Len(m.entries)
  BY EntriesMessage, LenProperties
<1>2. x # 0 => x + 1 <= prev + 1 + len
  BY <1>1 DEF SafeInv, CommitInv, AECalls, End
<1>3. x <= prev + len
  BY <1>2
<1> QED
  BY <1>1, <1>3

-----------------------------------------------------------------------------
(* The indexes that a leader keeps, in a compacted log.  Snapshots are taken *)
(* and installed here, at any moment and on any server; only the late calls  *)
(* and the lock that is given up are left out.                               *)

\* The snapshot of i does not reach beyond its commit index.  After a restart
\* it may: readPersist sets the commit index to 0.
Covered(i) == snapshotIndex[i] <= commitIndex[i]

\* Index k is in the log of i, or is so low that nothing will commit it.
Bounded(i, k) == k < Loglen(i) /\ (Covered(i) \/ k >= snapshotIndex[i])

\* nextIndex and matchIndex of i.
Indexes(i) ==
    \A j \in Server : /\ nextIndex[i][j] <= Loglen(i)
                      /\ matchIndex[i][j] = 0 \/ Bounded(i, matchIndex[i][j])

\* What a call of i, or its answer, will make of them.
CallBounded(i, m) ==
    /\ m.type = "AE" => Bounded(i, m.prev + Len(m.entries))
    /\ m.type = "AEReply" => /\ Bounded(i, m.last)
                             /\ m.xindex <= Loglen(i) /\ m.xlength <= Loglen(i)

LeaderIndexes ==
    \A i \in Server : state[i] = "Leader" =>
      /\ Indexes(i)
      /\ \A m \in rpcs : m.src = i /\ m.term = currentTerm[i] => CallBounded(i, m)

IndexInv == /\ inside = {} /\ CallsElected /\ OneCall /\ CallsLive
            /\ LeaderIndexes

\* The log and the commit index of i grow, and so does its snapshot, up to the
\* commit index.
Grown(i) ==
    /\ currentTerm'[i] = currentTerm[i]
    /\ Loglen(i) <= Loglen(i)' /\ commitIndex[i] <= commitIndex'[i]
    /\ snapshotIndex'[i] = snapshotIndex[i] \/ snapshotIndex'[i] <= commitIndex'[i]

LEMMA LoglenType ==
    ASSUME TypeOK, TypeOK', NEW i \in Server
    PROVE  Loglen(i) \in Nat /\ Loglen(i)' \in Nat
<1>1. Loglen(i) \in Nat
  BY LocalType
<1>2. log'[i] \in Seq(Entry) /\ snapshotIndex'[i] \in Nat
  BY DEF TypeOK
<1>3. Len(log'[i]) \in Nat
  BY <1>2, LenProperties
<1>4. Loglen(i)' \in Nat
  BY <1>2, <1>3 DEF Loglen
<1> QED
  BY <1>1, <1>4

LEMMA BoundedKept ==
    ASSUME TypeOK, TypeOK', NEW i \in Server, Grown(i), NEW k \in Nat, Bounded(i, k)
    PROVE  Bounded(i, k)'
<1>1. PICK a \in Nat, b \in Nat, x \in Nat, y \in Nat, s \in Nat, t \in Nat :
             /\ a = Loglen(i) /\ b = Loglen(i)' /\ x = commitIndex[i] /\ y = commitIndex'[i]
             /\ s = snapshotIndex[i] /\ t = snapshotIndex'[i]
  BY LoglenType DEF TypeOK
<1>2. /\ a <= b /\ x <= y /\ (t = s \/ t <= y) /\ k < a /\ (s <= x \/ k >= s)
  BY <1>1 DEF Grown, Bounded, Covered
<1>3. k < b /\ (t <= y \/ k >= t)
  BY <1>2
<1> QED
  BY <1>1, <1>3 DEF Bounded, Covered

LEMMA CallBoundedKept ==
    ASSUME TypeOK, TypeOK', NEW i \in Server, Grown(i), NEW m \in rpcs, CallBounded(i, m)
    PROVE  CallBounded(i, m)'
<1>1. PICK a \in Nat, b \in Nat : a = Loglen(i) /\ b = Loglen(i)' /\ a <= b
  BY LoglenType DEF Grown
<1>2. CASE m.type = "AE"
  <2>1. PICK k \in Nat : k = m.prev + Len(m.entries)
    BY <1>2, EntriesMessage, LenProperties
  <2>2. Bounded(i, k)'
    BY <1>2, <2>1, BoundedKept DEF CallBounded
  <2> QED
    BY <1>2, <2>1, <2>2 DEF CallBounded
<1>3. CASE m.type = "AEReply"
  <2>1. PICK k \in Nat, x \in Int, l \in Nat : k = m.last /\ x = m.xindex /\ l = m.xlength
    BY <1>3, EntriesMessage
  <2>2. Bounded(i, k)'
    BY <1>3, <2>1, BoundedKept DEF CallBounded
  <2>3. x <= b /\ l <= b
    BY <1>1, <1>3, <2>1 DEF CallBounded
  <2> QED
    BY <1>1, <1>3, <2>1, <2>2, <2>3 DEF CallBounded
<1> QED
  BY <1>2, <1>3 DEF CallBounded

LEMMA IndexesKept ==
    ASSUME TypeOK, TypeOK', NEW i \in Server, Grown(i), Indexes(i),
           nextIndex'[i] = nextIndex[i], matchIndex'[i] = matchIndex[i]
    PROVE  Indexes(i)'
<1>1. PICK a \in Nat, b \in Nat : a = Loglen(i) /\ b = Loglen(i)' /\ a <= b
  BY LoglenType DEF Grown
<1>2. ASSUME NEW j \in Server
      PROVE  /\ nextIndex'[i][j] <= Loglen(i)'
             /\ matchIndex'[i][j] = 0 \/ (matchIndex[i][j] \in Nat /\ Bounded(i, matchIndex[i][j]))
  <2>1. PICK n \in Nat, k \in Nat : n = nextIndex[i][j] /\ k = matchIndex[i][j]
    <3>1. nextIndex \in [Server -> [Server -> Nat]] /\ matchIndex \in [Server -> [Server -> Nat]]
      BY DEF TypeOK
    <3> QED
      BY <3>1
  <2>2. n <= a /\ (k = 0 \/ Bounded(i, k))
    BY <1>1, <2>1 DEF Indexes
  <2>3. n <= b
    BY <1>1, <2>2
  <2> QED
    BY <1>1, <2>1, <2>2, <2>3
<1>3. \A k \in Nat : Bounded(i, k) => Bounded(i, k)'
  BY BoundedKept
<1> QED
  BY <1>2, <1>3 DEF Indexes, Bounded, Covered

\* The log of a server that stays leader is its own.
LEMMA StaysGrown ==
    ASSUME LateDelivery = FALSE, TypeOK, TypeOK', VotesSound, inside = {}, CallsElected, RoleKind,
           [Next]_vars, NEW l \in Server, state[l] = "Leader", state'[l] = "Leader"
    PROVE  Grown(l)
<1>0. PICK a \in Nat, s \in Nat, x \in Nat :
             a = Loglen(l) /\ s = snapshotIndex[l] /\ x = commitIndex[l]
  BY LocalType
<1>1. currentTerm'[l] = currentTerm[l]
  BY StartElectionCounting DEF RoleKind, NoElectionStep, OldLeaders, Wins, Casts
<1>2. ASSUME log'[l] = log[l], snapshotIndex'[l] = snapshotIndex[l], commitIndex'[l] = commitIndex[l]
      PROVE  Grown(l)
  <2>1. Loglen(l)' = a
    BY <1>0, <1>2 DEF Loglen
  <2> QED
    BY <1>0, <1>1, <1>2, <2>1 DEF Grown
<1>3. ASSUME NEW i \in Server, i # l,
             \A k \in Server : k # i => /\ log'[k] = log[k] /\ snapshotIndex'[k] = snapshotIndex[k]
                                        /\ commitIndex'[k] = commitIndex[k]
      PROVE  Grown(l)
  BY <1>2, <1>3
<1>4. ASSUME NEW i \in Server,
             \/ StartElection(i) \/ AbortElection(i)
             \/ \E j \in Server : \/ GetVote(i, j)
                                  \/ SendAppendEntries(i, j)
                                  \/ SendInstallSnapshot(i, j)
      PROVE  Grown(l)
  BY <1>2, <1>4 DEF StartElection, AbortElection, GetVote, SendAppendEntries,
                    SendInstallSnapshot, persistent
<1>5. ASSUME NEW i \in Server, AdvanceCommit(i)
      PROVE  Grown(l)
  <2>1. UNCHANGED <<log, snapshotIndex>>
    BY <1>5 DEF AdvanceCommit, persistent
  <2>2. CASE i # l
    <3>1. commitIndex'[l] = commitIndex[l]
      BY <1>5, <2>2 DEF AdvanceCommit, TypeOK
    <3> QED
      BY <1>2, <2>1, <3>1
  <2>3. CASE i = l
    <3>1. PICK k \in Nat : k = Median(i)
      BY MedianType
    <3>2. commitIndex'[l] \in {k, x} /\ k > x
      BY <1>0, <1>5, <2>3, <3>1 DEF AdvanceCommit, TypeOK
    <3>3. x <= commitIndex'[l] /\ Loglen(l)' = a
      BY <1>0, <2>1, <3>2 DEF Loglen
    <3> QED
      BY <1>0, <1>1, <2>1, <3>3 DEF Grown
  <2> QED
    BY <2>2, <2>3
<1>6. ASSUME NEW i \in Server, NEW d, Reload(i, d)
      PROVE  Grown(l)
  <2>1. state'[i] # "Leader"
    BY <1>6 DEF Reload, TypeOK
  <2> QED
    BY <1>3, <1>6, <2>1 DEF Reload, TypeOK
<1>7. ASSUME NEW i \in Server, NEW c \in Command, Start(i, c)
      PROVE  Grown(l)
  <2>1. PICK e \in Entry : log' = [log EXCEPT ![i] = Append(log[i], e)]
    <3>1. [term |-> currentTerm[i], cmd |-> c] \in Entry
      BY LocalType DEF Entry
    <3> QED
      BY <1>7, <3>1 DEF Start
  <2>2. UNCHANGED <<snapshotIndex, commitIndex>>
    BY <1>7 DEF Start
  <2>3. CASE i # l
    BY <1>2, <2>1, <2>2, <2>3 DEF TypeOK
  <2>4. CASE i = l
    <3>1. PICK have \in Nat : have = Len(log[l]) /\ a = have + s /\ log[l] \in Seq(Entry)
      BY <1>0, LocalType
    <3>2. log'[l] = Append(log[l], e)
      BY <2>1, <2>4 DEF TypeOK
    <3>3. Len(log'[l]) = have + 1
      BY <3>1, <3>2, AppendProperties
    <3>4. Loglen(l)' = have + 1 + s
      BY <1>0, <2>2, <3>3 DEF Loglen
    <3>5. a <= have + 1 + s /\ x <= x
      BY <3>1
    <3> QED
      BY <1>0, <1>1, <2>2, <3>4, <3>5 DEF Grown
  <2> QED
    BY <2>3, <2>4
<1>8. ASSUME NEW i \in Server, NEW index \in SnapshotAt, Snapshot(i, index)
      PROVE  Grown(l)
  <2>1. index \in Nat
    BY BoundAssumption
  <2>2. CASE i # l
    BY <1>2, <1>8, <2>2 DEF Snapshot, TypeOK
  <2>3. CASE i = l
    <3>1. PICK have \in Nat : have = Len(log[l]) /\ a = have + s /\ log[l] \in Seq(Entry)
      BY <1>0, LocalType
    <3>2. a = have + s
      BY <3>1
    <3>3. s < index /\ index <= a - 1
      BY <1>0, <1>8, <2>3 DEF Snapshot
    <3>4. /\ index <= x /\ commitIndex'[l] = x
          /\ snapshotIndex'[l] = index /\ log'[l] = SubSeq(log[l], index - s + 1, have)
      BY <1>0, <1>8, <2>3, <3>1 DEF Snapshot, Trimmed, Skip, TypeOK
    <3>5. PICK from \in Nat : from = index - s + 1 /\ from >= 1 /\ from <= have
      <4>1. s < index /\ index <= have + s - 1
        BY <3>2, <3>3
      <4>2. index - s + 1 \in Nat /\ index - s + 1 >= 1 /\ index - s + 1 <= have
        BY <2>1, <4>1, FirstKept
      <4> QED
        BY <4>2
    <3>6. Len(log'[l]) = have - from + 1
      BY <3>1, <3>4, <3>5, SubSeqProperties
    <3>7. Loglen(l)' = have - from + 1 + index
      BY <3>4, <3>6 DEF Loglen
    <3>8. have - from + 1 + index = a
      BY <2>1, <3>2, <3>5
    <3> QED
      BY <1>0, <1>1, <2>1, <3>3, <3>4, <3>7, <3>8 DEF Grown
  <2> QED
    BY <2>2, <2>3
<1>9. ASSUME NEW m \in rpcs,
             \/ RequestVote(m.dst, m) \/ HandleVoteReply(m.src, m) \/ LoseVote(m.src, m)
             \/ HandleAppendEntriesReply(m.src, m) \/ HandleInstallSnapshotReply(m.src, m)
             \/ Lose(m)
      PROVE  Grown(l)
  <2>1. UNCHANGED <<log, snapshotIndex, commitIndex>>
    BY <1>9 DEF RequestVote, RequestVoteStale, RequestVoteSameTerm, RequestVoteNewTerm,
                HandleVoteReply, LoseVote, StepDown, Tally, HandleAppendEntriesReply,
                AppendEntriesSucceeded, ReplyOfNewerTerm, BackUp, ReplyIgnored,
                HandleInstallSnapshotReply, InstallSnapshotDone, Lose, persistent
  <2> QED
    BY <1>2, <2>1
<1>10. ASSUME NEW m \in rpcs, AppendEntries(m.dst, m)
       PROVE  Grown(l)
  <2>1. m.dst \in Server
    BY VoteMessage
  <2>2. CASE UNCHANGED <<log, snapshotIndex, commitIndex>>
    BY <1>2, <2>2
  <2>3. CASE Follow(m.dst, m.term) /\ (Heartbeat(m.dst, m) \/ StoreEntries(m.dst, m))
             /\ UNCHANGED snapshotIndex
    <3>1. state'[m.dst] # "Leader"
      BY <2>1, <2>3 DEF Follow, TypeOK
    <3>2. \A k \in Server : k # m.dst => commitIndex'[k] = commitIndex[k]
      BY <2>1, <2>3 DEF Heartbeat, StoreEntries, AppendFrom, AlreadyCommitted, TypeOK
    <3>3. CASE UNCHANGED log
      BY <1>3, <2>1, <2>3, <3>1, <3>2, <3>3
    <3>4. CASE StoreEntries(m.dst, m)
      <4>1. \A k \in Server : k # m.dst => log'[k] = log[k]
        BY <2>1, <3>4 DEF StoreEntries, AppendFrom, AlreadyCommitted, TypeOK
      <4> QED
        BY <1>3, <2>1, <2>3, <3>1, <3>2, <4>1
    <3> QED
      BY <1>10, <2>3, <3>3, <3>4
         DEF AppendEntries, AppendEntriesStale, AppendEntriesRefuse, AppendEntriesAccept, persistent
  <2> QED
    BY <1>10, <2>1, <2>2, <2>3, StoreEntriesWhole
       DEF AppendEntries, AppendEntriesStale, AppendEntriesRefuse, AppendEntriesAccept, persistent
<1>11. ASSUME NEW m \in rpcs, InstallSnapshot(m.dst, m)
       PROVE  Grown(l)
  <2>1. m.dst \in Server
    BY VoteMessage
  <2>2. CASE UNCHANGED <<log, snapshotIndex, commitIndex>>
    BY <1>2, <2>2
  <2>3. CASE InstallSnapshotTake(m.dst, m)
    <3>1. state'[m.dst] # "Leader"
      BY <2>1, <2>3 DEF InstallSnapshotTake, Follow, TypeOK
    <3>2. \A k \in Server : k # m.dst => /\ log'[k] = log[k] /\ snapshotIndex'[k] = snapshotIndex[k]
                                         /\ commitIndex'[k] = commitIndex[k]
      BY <2>1, <2>3 DEF InstallSnapshotTake, TypeOK
    <3> QED
      BY <1>3, <2>1, <3>1, <3>2
  <2> QED
    BY <1>11, <2>2, <2>3 DEF InstallSnapshot, InstallSnapshotStale, InstallSnapshotKnown, persistent
<1>12. ASSUME NEW m \in rpcs, AppendEntriesResume(m.dst, m) \/ Timeout(m)
       PROVE  FALSE
  BY <1>12 DEF AppendEntriesResume, Timeout
<1>13. CASE UNCHANGED vars
  BY <1>2, <1>13 DEF vars
<1>14. CASE Next
  BY <1>4, <1>5, <1>6, <1>7, <1>8, <1>9, <1>10, <1>11, <1>12, <1>14, VoteMessage
     DEF Next, Restart, RestartInHandler
<1> QED
  BY <1>13, <1>14

\* A position that findFirstIndex or findLastIndex returns is not beyond the
\* one it starts from, but for the 1 that stands for the dummy entry.
LEMMA FindFirstBound ==
    ASSUME TypeOK, NEW i \in Server, NEW pos \in 0 .. Len(log[i]) - 1
    PROVE  \/ findFirstIndex(i, log[i][pos + 1].term, pos) <= pos
           \/ findFirstIndex(i, log[i][pos + 1].term, pos) = 1 /\ snapshotIndex[i] = 0
<1> DEFINE term == log[i][pos + 1].term
           hits == {p \in 0 .. pos : log[i][p + 1].term >= term}
           low  == CHOOSE p \in hits : \A q \in hits : p <= q
<1>1. pos \in Nat /\ term \in Nat
  <2>1. log[i] \in Seq(Entry) /\ Len(log[i]) \in Nat
    BY LocalType
  <2>2. pos + 1 \in 1 .. Len(log[i])
    BY <2>1
  <2>3. log[i][pos + 1] \in Entry
    BY <2>1, <2>2, ElementOfSeq
  <2> QED
    BY <2>1, <2>3 DEF Entry
<1>2. pos \in hits
  BY <1>1
<1>3. hits \in SUBSET Int /\ hits # {} /\ hits \subseteq 0 .. pos
  BY <1>1, <1>2
<1>4. IsFiniteSet(hits)
  <2>1. IsFiniteSet(0 .. pos)
    BY <1>1, FS_Interval
  <2> QED
    BY <1>3, <2>1, FS_Subset
<1> HIDE DEF hits
<1>5. low \in hits
  BY <1>3, <1>4, FiniteMinimum
<1>6. low \in 0 .. pos
  BY <1>3, <1>5
<1>7. findFirstIndex(i, term, pos) =
        IF snapshotTerm[i] >= term THEN -1
        ELSE IF low = 0 /\ snapshotIndex[i] = 0 THEN 1 ELSE low
  BY DEF findFirstIndex, hits
<1> HIDE DEF low, term
<1>8. \/ findFirstIndex(i, term, pos) <= pos
      \/ findFirstIndex(i, term, pos) = 1 /\ snapshotIndex[i] = 0
  BY <1>1, <1>6, <1>7
<1> QED
  BY <1>8 DEF term

LEMMA FindLastBound ==
    ASSUME TypeOK, NEW i \in Server, NEW term \in Nat
    PROVE  findLastIndex(i, term) \in Int /\ findLastIndex(i, term) <= Len(log[i]) - 1
<1> DEFINE hits == {0} \cup {p \in 0 .. Len(log[i]) - 1 : log[i][p + 1].term <= term}
           high == CHOOSE p \in hits : \A q \in hits : q <= p
<1>1. PICK have \in Nat : have = Len(log[i]) /\ have >= 1
  BY LocalType
<1>2. hits \subseteq 0 .. have - 1 /\ 0 \in hits
  BY <1>1
<1> HIDE DEF hits
<1>3. hits \in SUBSET Int /\ hits # {}
  BY <1>1, <1>2
<1>4. IsFiniteSet(hits)
  <2>1. IsFiniteSet(0 .. have - 1)
    BY <1>1, FS_Interval
  <2> QED
    BY <1>2, <2>1, FS_Subset
<1>5. high \in hits
  BY <1>3, <1>4, FiniteMaximum
<1>6. findLastIndex(i, term) = IF snapshotTerm[i] > term THEN -1 ELSE high
  BY DEF findLastIndex, hits
<1> HIDE DEF high
<1>7. high \in Int /\ high <= have - 1
  BY <1>1, <1>2, <1>5
<1>8. findLastIndex(i, term) \in Int /\ findLastIndex(i, term) <= have - 1
  BY <1>1, <1>6, <1>7
<1> QED
  BY <1>1, <1>8

\* r is an answer to the AppendEntries call c that does not point beyond it.
Answers(r, c) ==
    /\ c.type = "AE" /\ r.type = "AEReply" /\ SameKey(r, c)
    /\ r.last = c.prev + Len(c.entries)
    /\ r.xlength <= c.prev /\ (r.xindex <= c.prev \/ r.xindex <= 1)

LEMMA ReplyAnswers ==
    ASSUME TypeOK, NEW c \in rpcs, c.type = "AE", NEW rt, NEW su, NEW xt, NEW xi, NEW xl,
           xl <= c.prev, xi <= c.prev \/ xi <= 1
    PROVE  Answers(AEReply(c, rt, su, xt, xi, xl), c)
  BY DEF Answers, AEReply, SameKey

LEMMA AppendEntriesAnswers ==
    ASSUME TypeOK, NEW c \in rpcs, AppendEntries(c.dst, c), NEW r \in rpcs', r \notin rpcs
    PROVE  Answers(r, c)
<1> DEFINE i == c.dst
<1>0. i \in Server /\ c.type = "AE"
  BY VoteMessage DEF AppendEntries
<1>1. PICK prev \in Nat, s \in Nat, have \in Nat :
             prev = c.prev /\ s = snapshotIndex[i] /\ have = Len(log[i]) /\ Loglen(i) = have + s
  BY <1>0, EntriesMessage, LocalType
<1>2. ASSUME NEW rt, NEW su, Reply(c, AEReply(c, rt, su, 0, 0, 0))
      PROVE  Answers(r, c)
  <2>1. r = AEReply(c, rt, su, 0, 0, 0)
    BY <1>2 DEF Reply
  <2>2. 0 <= c.prev
    BY <1>1
  <2> QED
    BY <1>0, <2>1, <2>2, ReplyAnswers
<1>3. CASE AppendEntriesStale(i, c)
  BY <1>2, <1>3 DEF AppendEntriesStale
<1>4. CASE AppendEntriesRefuse(i, c)
  <2>1. CASE c.prev >= Loglen(i) /\ Reply(c, AEReply(c, c.term, FALSE, 0, 0, Loglen(i)))
    <3>1. r = AEReply(c, c.term, FALSE, 0, 0, Loglen(i))
      BY <2>1 DEF Reply
    <3>2. Loglen(i) <= c.prev /\ 0 <= c.prev
      BY <1>1, <2>1
    <3> QED
      BY <1>0, <3>1, <3>2, ReplyAnswers
  <2>2. CASE rpcs' = rpcs \ {c}
    BY <2>2
  <2>3. CASE /\ InLog(i, c.prev)
             /\ Reply(c, AEReply(c, c.term, FALSE, At(i, c.prev).term,
                                 findFirstIndex(i, At(i, c.prev).term, c.prev - snapshotIndex[i])
                                   + snapshotIndex[i], 0))
    <3>1. PICK pos \in Nat : pos = prev - s /\ pos \in 0 .. have - 1 /\ prev = pos + s
      BY <1>1, <2>3 DEF InLog
    <3>2. PICK x \in Int : x = findFirstIndex(i, log[i][pos + 1].term, pos)
      BY <1>0, <1>1, <3>1, FindFirstType
    <3>3. x <= pos \/ (x = 1 /\ s = 0)
      BY <1>0, <1>1, <3>1, <3>2, FindFirstBound
    <3>4. r = AEReply(c, c.term, FALSE, At(i, c.prev).term, x + s, 0)
      BY <1>1, <2>3, <3>1, <3>2 DEF Reply, At
    <3>5. 0 <= prev /\ (x + s <= prev \/ x + s <= 1)
      BY <3>1, <3>3
    <3> QED
      BY <1>0, <1>1, <3>4, <3>5, ReplyAnswers
  <2> QED
    BY <1>4, <2>1, <2>2, <2>3 DEF AppendEntriesRefuse
<1>5. CASE AppendEntriesAccept(i, c)
  BY <1>2, <1>5 DEF AppendEntriesAccept, Heartbeat, StoreEntries, AppendFrom, AlreadyCommitted
<1> QED
  BY <1>3, <1>4, <1>5 DEF AppendEntries

\* Where a call of a leader, or its answer, comes from.
LEMMA NewCalls ==
    ASSUME LateDelivery = FALSE, TypeOK, TypeOK', inside = {}, [Next]_vars,
           NEW r \in rpcs', r.type \in {"AE", "AEReply"}, state'[r.src] = "Leader", r \notin rpcs
    PROVE  \/ \E i, j \in Server : SendAppendEntries(i, j) /\ r = Sent(i, j)
           \/ \E c \in rpcs : Answers(r, c)
<1>1. ASSUME NEW i \in Server, NEW cs \in SUBSET rpcs, state'[i] # "Leader",
             rpcs' = CallsAfterStop(i, cs)
      PROVE  FALSE
  <2>1. PICK c \in rpcs : r = IF c.type \in {"AE", "IS"} /\ c.src = i THEN GiveUp(c) ELSE c
    BY <1>1 DEF CallsAfterStop
  <2>2. c.src = i /\ r = GiveUp(c) /\ c.type \in {"AE", "IS"}
    BY <2>1
  <2>3. Same(r, c)
    BY <2>2 DEF Same
  <2>4. r.src = i
    BY <2>2, <2>3, SameFields
  <2> QED
    BY <1>1, <2>4
<1>2. ASSUME NEW i \in Server,
             \/ StartElection(i) \/ AbortElection(i) \/ AdvanceCommit(i)
             \/ \E c \in Command : Start(i, c)
             \/ \E index \in SnapshotAt : Snapshot(i, index)
             \/ \E j \in Server : GetVote(i, j) \/ SendInstallSnapshot(i, j)
      PROVE  FALSE
  <2>1. CASE rpcs' = rpcs
    BY <2>1
  <2>2. CASE \E j \in Server : GetVote(i, j) \/ SendInstallSnapshot(i, j)
    BY <2>2 DEF GetVote, SendInstallSnapshot
  <2> QED
    BY <1>2, <2>1, <2>2 DEF StartElection, AbortElection, AdvanceCommit, Start, Snapshot
<1>3. ASSUME NEW i \in Server, NEW d, Reload(i, d)
      PROVE  state'[i] # "Leader"
  BY <1>3 DEF Reload, TypeOK
<1>4. ASSUME NEW i \in Server, Restart(i)
      PROVE  FALSE
  BY <1>1, <1>3, <1>4 DEF Restart
<1>5. ASSUME NEW m \in rpcs, RestartInHandler(m.dst, m)
      PROVE  FALSE
  BY <1>1, <1>3, <1>5, VoteMessage DEF RestartInHandler
<1>6. ASSUME NEW m \in rpcs, RequestVote(m.dst, m)
      PROVE  FALSE
  <2>1. PICK rt, g : VoteReply(m, rt, g)
    BY <1>6 DEF RequestVote, RequestVoteStale, RequestVoteSameTerm, RequestVoteNewTerm
  <2> QED
    BY <2>1 DEF VoteReply
<1>7. ASSUME NEW m \in rpcs,
             \/ HandleVoteReply(m.src, m) \/ LoseVote(m.src, m)
             \/ HandleAppendEntriesReply(m.src, m) \/ HandleInstallSnapshotReply(m.src, m)
             \/ Lose(m)
      PROVE  FALSE
  BY <1>7 DEF HandleVoteReply, LoseVote, HandleAppendEntriesReply, HandleInstallSnapshotReply, Lose
<1>8. ASSUME NEW m \in rpcs, InstallSnapshot(m.dst, m)
      PROVE  FALSE
  BY <1>8 DEF InstallSnapshot, InstallSnapshotStale, InstallSnapshotKnown, InstallSnapshotTake,
              Reply, ISReply
<1>9. ASSUME NEW m \in rpcs, AppendEntries(m.dst, m)
      PROVE  \E c \in rpcs : Answers(r, c)
  BY <1>9, AppendEntriesAnswers
<1>10. ASSUME NEW i \in Server, NEW j \in Server, SendAppendEntries(i, j)
       PROVE  r = Sent(i, j)
  BY <1>10, SentCall
<1>11. ASSUME NEW m \in rpcs, AppendEntriesResume(m.dst, m) \/ Timeout(m)
       PROVE  FALSE
  BY <1>11 DEF AppendEntriesResume, Timeout
<1>12. CASE UNCHANGED vars
  BY <1>12 DEF vars
<1>13. CASE Next
  BY <1>2, <1>4, <1>5, <1>6, <1>7, <1>8, <1>9, <1>10, <1>11, <1>13 DEF Next
<1> QED
  BY <1>12, <1>13

\* The calls of a server that stays leader.
LEMMA CallsBoundedStep ==
    ASSUME LateDelivery = FALSE, TypeOK, TypeOK', inside = {}, [Next]_vars,
           NEW l \in Server, state'[l] = "Leader", Grown(l),
           \A m \in rpcs : m.src = l /\ m.term = currentTerm[l] => CallBounded(l, m),
           NEW r \in rpcs', r.src = l, r.term = currentTerm'[l]
    PROVE  CallBounded(l, r)'
<1>0. r.term = currentTerm[l]
  BY DEF Grown
<1>1. CASE r \in rpcs
  BY <1>0, <1>1, CallBoundedKept
<1>2. PICK a \in Nat, b \in Nat : a = Loglen(l) /\ b = Loglen(l)' /\ a <= b
  BY LoglenType DEF Grown
<1>3. ASSUME NEW i \in Server, NEW j \in Server, SendAppendEntries(i, j), r = Sent(i, j)
      PROVE  CallBounded(l, r)'
  <2>1. i = l /\ r.type = "AE" /\ r.prev = Next1(i, j) - 1
        /\ r.entries = SubSeq(log[i], Next1(i, j) - snapshotIndex[i] + 1, Len(log[i]))
    BY <1>3 DEF Sent, EntriesFrom, Skip
  <2>2. PICK n \in Nat, s \in Nat, have \in Nat :
               /\ n = Next1(i, j) /\ s = snapshotIndex[i] /\ have = Len(log[i]) /\ a = have + s
               /\ n <= a /\ n > s /\ have >= 1
    <3>1. Next1(i, j) \in 0 .. a /\ Next1(i, j) > snapshotIndex[i]
      BY <1>2, <1>3, <2>1, Next1Type DEF SendAppendEntries
    <3>2. Next1(i, j) \in Nat /\ Next1(i, j) <= a
      BY <1>2, <3>1
    <3> QED
      BY <1>2, <2>1, <3>1, <3>2, LocalType
  <2>3. PICK from \in Nat : from = n - s + 1 /\ from >= 1 /\ from <= have + 1
    <3>1. n - s + 1 \in Nat /\ n - s + 1 >= 1 /\ n - s + 1 <= have + 1
      BY <2>2
    <3> QED
      BY <3>1
  <2>4. Len(r.entries) = have - from + 1
    <3>1. r.entries = SubSeq(log[i], from, have) /\ log[i] \in Seq(Entry)
      BY <2>1, <2>2, <2>3, LocalType
    <3>2. Len(SubSeq(log[i], from, have)) = IF from <= have THEN have - from + 1 ELSE 0
      BY <2>2, <2>3, <3>1, SubSeqProperties
    <3> QED
      BY <2>3, <3>1, <3>2
  <2>5. r.prev + Len(r.entries) = have + s - 1
    <3>1. r.prev + Len(r.entries) = (n - 1) + (have - from + 1)
      BY <2>1, <2>2, <2>4
    <3>2. from = n - s + 1
      BY <2>3
    <3>3. (n - 1) + (have - from + 1) = have + s - 1
      BY <3>2, LastSent
    <3> QED
      BY <3>1, <3>3
  <2>6. PICK k \in Nat : k = have + s - 1 /\ k < a /\ k >= s
    <3>1. a = have + s /\ have >= 1
      BY <2>2
    <3>2. have + s - 1 \in Nat /\ have + s - 1 < a /\ have + s - 1 >= s
      BY <3>1
    <3> QED
      BY <3>2
  <2>7. Bounded(l, k)
    BY <1>2, <2>1, <2>2, <2>6 DEF Bounded
  <2>8. Bounded(l, k)'
    BY <2>7, BoundedKept
  <2> QED
    BY <2>1, <2>5, <2>6, <2>8 DEF CallBounded
<1>4. ASSUME NEW c \in rpcs, Answers(r, c)
      PROVE  CallBounded(l, r)'
  <2>1. c.type = "AE" /\ c.src = l /\ c.term = currentTerm[l] /\ r.type = "AEReply"
    BY <1>0, <1>4 DEF Answers, SameKey
  <2>2. PICK prev \in Nat, len \in Nat, k \in Nat :
               prev = c.prev /\ len = Len(c.entries) /\ k = prev + len
    BY <2>1, EntriesMessage, LenProperties
  <2>3. Bounded(l, k)
    BY <2>1, <2>2 DEF CallBounded
  <2>4. Bounded(l, k)' /\ k < a /\ prev <= k
    BY <1>2, <2>2, <2>3, BoundedKept DEF Bounded
  <2>5. PICK xl \in Nat, xi \in Int : xl = r.xlength /\ xi = r.xindex
    BY <2>1 DEF TypeOK, Message
  <2>6. xl <= prev /\ (xi <= prev \/ xi <= 1) /\ r.last = k
    BY <1>4, <2>2, <2>5 DEF Answers
  <2>7. xl <= b /\ xi <= b
    BY <1>2, <2>4, <2>6
  <2> QED
    BY <1>2, <2>1, <2>4, <2>5, <2>6, <2>7 DEF CallBounded
<1>5. CASE r \notin rpcs /\ r.type \in {"AE", "AEReply"}
  BY <1>3, <1>4, <1>5, NewCalls
<1> QED
  BY <1>1, <1>5 DEF CallBounded

LEMMA IndexType ==
    ASSUME TypeOK, TypeOK', NEW i \in Server, NEW j \in Server
    PROVE  /\ nextIndex[i][j] \in Nat /\ matchIndex[i][j] \in Nat
           /\ nextIndex'[i][j] \in Nat /\ matchIndex'[i][j] \in Nat
<1>1. nextIndex[i][j] \in Nat /\ matchIndex[i][j] \in Nat
  BY DEF TypeOK
<1>2. nextIndex'[i][j] \in Nat /\ matchIndex'[i][j] \in Nat
  BY DEF TypeOK
<1> QED
  BY <1>1, <1>2

\* Leader l gives follower j the indexes next and stored.
LEMMA OneIndex ==
    ASSUME TypeOK, TypeOK', NEW l \in Server, Grown(l), Indexes(l), NEW j \in Server,
           NEW next \in Nat, next <= Loglen(l), NEW stored \in Nat, stored = 0 \/ Bounded(l, stored),
           nextIndex' = [nextIndex EXCEPT ![l][j] = next],
           matchIndex' = [matchIndex EXCEPT ![l][j] = stored]
    PROVE  Indexes(l)'
<1>1. PICK a \in Nat, b \in Nat : a = Loglen(l) /\ b = Loglen(l)' /\ a <= b
  BY LoglenType DEF Grown
<1>2. ASSUME NEW i \in Server
      PROVE  /\ nextIndex'[l][i] <= Loglen(l)'
             /\ matchIndex'[l][i] = 0
                \/ (matchIndex'[l][i] \in Nat /\ Bounded(l, matchIndex'[l][i]))
  <2>1. PICK n \in Nat, k \in Nat : n = nextIndex'[l][i] /\ k = matchIndex'[l][i]
    BY IndexType
  <2>2. n <= a /\ (k = 0 \/ Bounded(l, k))
    <3>1. CASE i = j
      BY <1>1, <2>1, <3>1 DEF TypeOK
    <3>2. CASE i # j
      <4>1. nextIndex'[l][i] = nextIndex[l][i] /\ matchIndex'[l][i] = matchIndex[l][i]
        BY <3>2 DEF TypeOK
      <4> QED
        BY <1>1, <2>1, <4>1 DEF Indexes
    <3> QED
      BY <3>1, <3>2
  <2>3. n <= b
    BY <1>1, <2>2
  <2> QED
    BY <1>1, <2>1, <2>2, <2>3
<1>3. \A k \in Nat : Bounded(l, k) => Bounded(l, k)'
  BY BoundedKept
<1> QED
  BY <1>2, <1>3 DEF Indexes, Bounded, Covered

\* The reply to an AppendEntries call moves the indexes of its receiver.
LEMMA AcknowledgedIndexes ==
    ASSUME TypeOK, TypeOK', NEW m \in rpcs, m.type = "AEReply", state[m.src] = "Leader",
           m.term = currentTerm[m.src], Grown(m.src), Indexes(m.src), CallBounded(m.src, m),
           AppendEntriesSucceeded(m.src, m)
    PROVE  Indexes(m.src)'
<1> DEFINE l == m.src
           j == m.dst
<1>0. l \in Server /\ j \in Server
  BY VoteMessage
<1>1. PICK a \in Nat, n \in Nat, s \in Nat, x \in Nat, k \in Nat :
             /\ a = Loglen(l) /\ n = nextIndex[l][j] /\ s = snapshotIndex[l]
             /\ x = commitIndex[l] /\ k = m.last
  BY <1>0, LocalType, LoglenType, EntriesMessage, IndexType
<1>2. n <= a /\ k < a /\ (s <= x \/ k >= s)
  BY <1>0, <1>1 DEF Indexes, CallBounded, Bounded, Covered
<1>3. PICK next \in Nat : next = MaxOf(n, k + 1) /\ next >= k + 1 /\ next <= a
  <2>1. MaxOf(n, k + 1) \in Nat /\ MaxOf(n, k + 1) >= k + 1 /\ MaxOf(n, k + 1) <= a
    BY <1>2 DEF MaxOf
  <2> QED
    BY <2>1
<1>4. PICK stored \in Nat : stored = next - 1 /\ stored >= k /\ stored < a
  <2>1. next - 1 \in Nat /\ next - 1 >= k /\ next - 1 < a
    BY <1>3
  <2> QED
    BY <2>1
<1>5. nextIndex' = [nextIndex EXCEPT ![l][j] = next]
  BY <1>1, <1>3 DEF AppendEntriesSucceeded, Acked
<1>6. nextIndex'[l][j] = next
  BY <1>0, <1>5 DEF TypeOK
<1>7. matchIndex' = [matchIndex EXCEPT ![l][j] = stored]
  BY <1>4, <1>6 DEF AppendEntriesSucceeded
<1>8. s <= x \/ stored >= s
  BY <1>2, <1>4
<1>9. Bounded(l, stored)
  BY <1>1, <1>4, <1>8 DEF Bounded, Covered
<1> QED
  BY <1>0, <1>1, <1>3, <1>5, <1>7, <1>9, OneIndex

LEMMA BackedUpIndexes ==
    ASSUME TypeOK, TypeOK', NEW m \in rpcs, m.type = "AEReply", Grown(m.src), Indexes(m.src),
           CallBounded(m.src, m), BackUp(m.src, m)
    PROVE  Indexes(m.src)'
<1> DEFINE l == m.src
           j == m.dst
<1>0. l \in Server /\ j \in Server
  BY VoteMessage
<1>1. PICK s \in Nat, have \in Nat, k \in Nat, xi \in Int, xl \in Nat, last \in Int :
             /\ s = snapshotIndex[l] /\ have = Len(log[l]) /\ Loglen(l) = have + s /\ have >= 1
             /\ k = matchIndex[l][j] /\ xi = m.xindex /\ xl = m.xlength
             /\ last = findLastIndex(l, m.xterm) /\ last <= have - 1
  <2>1. matchIndex[l][j] \in Nat
    BY <1>0 DEF TypeOK
  <2>2. m.xterm \in Nat /\ m.xindex \in Int /\ m.xlength \in Nat
    BY EntriesMessage
  <2> QED
    BY <1>0, <2>1, <2>2, LocalType, FindLastBound
<1>2. xi <= have + s /\ xl <= have + s
  BY <1>1 DEF CallBounded
<1>3. PICK next : /\ next \in {MaxOf(xl, s), s, last + 1, MaxOf(xi, s)}
                  /\ nextIndex' = [nextIndex EXCEPT ![l][j] = next]
  BY <1>1 DEF BackUp
<1>4. next \in Int /\ next <= have + s
  BY <1>1, <1>2, <1>3 DEF MaxOf
<1>5. nextIndex'[l][j] = next /\ nextIndex'[l][j] \in Nat
  <2>1. nextIndex'[l][j] = next
    BY <1>0, <1>3 DEF TypeOK
  <2> QED
    BY <1>0, <2>1, IndexType
<1>6. matchIndex' = [matchIndex EXCEPT ![l][j] = k]
  <2>1. matchIndex' = matchIndex
    BY DEF BackUp
  <2> QED
    BY <1>0, <1>1, <2>1 DEF TypeOK
<1>7. k = 0 \/ Bounded(l, k)
  BY <1>0, <1>1 DEF Indexes
<1>8. next \in Nat /\ next <= Loglen(l)
  BY <1>1, <1>4, <1>5
<1> QED
  BY <1>0, <1>3, <1>6, <1>7, <1>8, OneIndex

\* The reply to an InstallSnapshot call: the leader's present snapshot counts.
LEMMA InstalledIndexes ==
    ASSUME TypeOK, TypeOK', NEW m \in rpcs, Grown(m.src), Indexes(m.src),
           InstallSnapshotDone(m.src, m)
    PROVE  Indexes(m.src)'
<1> DEFINE l == m.src
           j == m.dst
<1>0. l \in Server /\ j \in Server
  BY VoteMessage
<1>1. PICK s \in Nat, have \in Nat, k \in Nat :
             /\ s = snapshotIndex[l] /\ have = Len(log[l]) /\ Loglen(l) = have + s /\ have >= 1
             /\ k = matchIndex[l][j]
  <2>1. matchIndex[l][j] \in Nat
    BY <1>0 DEF TypeOK
  <2> QED
    BY <1>0, <2>1, LocalType
<1>2. k = 0 \/ k < have + s
  BY <1>0, <1>1 DEF Indexes, Bounded
<1>3. PICK stored \in Nat : stored = MaxOf(k, s) /\ stored >= s /\ stored < have + s
  <2>1. MaxOf(k, s) \in Nat /\ MaxOf(k, s) >= s /\ MaxOf(k, s) < have + s
    BY <1>1, <1>2 DEF MaxOf
  <2> QED
    BY <2>1
<1>4. PICK next \in Nat : next = s + 1 /\ next <= Loglen(l)
  <2>1. s + 1 \in Nat /\ s + 1 <= have + s
    BY <1>1
  <2> QED
    BY <1>1, <2>1
<1>5. /\ nextIndex' = [nextIndex EXCEPT ![l][j] = next]
      /\ matchIndex' = [matchIndex EXCEPT ![l][j] = stored]
  BY <1>1, <1>3, <1>4 DEF InstallSnapshotDone
<1>6. Bounded(l, stored)
  BY <1>1, <1>3 DEF Bounded
<1> QED
  BY <1>0, <1>4, <1>5, <1>6, OneIndex

\* The indexes of a server that stays leader.
LEMMA IndexesStep ==
    ASSUME LateDelivery = FALSE, TypeOK, TypeOK', inside = {}, [Next]_vars,
           NEW l \in Server, state[l] = "Leader", state'[l] = "Leader", Grown(l), Indexes(l),
           \A m \in rpcs : m.src = l /\ m.term = currentTerm[l] => CallBounded(l, m)
    PROVE  Indexes(l)'
<1>1. ASSUME nextIndex'[l] = nextIndex[l], matchIndex'[l] = matchIndex[l]
      PROVE  Indexes(l)'
  BY <1>1, IndexesKept
<1>2. ASSUME UNCHANGED leaderVars
      PROVE  Indexes(l)'
  BY <1>1, <1>2 DEF leaderVars
<1>3. ASSUME NEW i \in Server,
             \/ StartElection(i) \/ AbortElection(i) \/ AdvanceCommit(i)
             \/ \E c \in Command : Start(i, c)
             \/ \E index \in SnapshotAt : Snapshot(i, index)
             \/ \E j \in Server : GetVote(i, j)
      PROVE  UNCHANGED leaderVars
  BY <1>3 DEF StartElection, AbortElection, AdvanceCommit, Start, Snapshot, GetVote
<1>4. ASSUME NEW i \in Server, NEW j \in Server, SendAppendEntries(i, j) \/ SendInstallSnapshot(i, j)
      PROVE  Indexes(l)'
  <2>1. UNCHANGED matchIndex /\ nextIndex' = [nextIndex EXCEPT ![i][j] = Next1(i, j)]
    BY <1>4 DEF SendAppendEntries, SendInstallSnapshot
  <2>2. CASE i # l
    BY <1>1, <2>1, <2>2 DEF TypeOK
  <2>3. CASE i = l
    <3>1. PICK a \in Nat, k \in Nat : a = Loglen(l) /\ k = matchIndex[l][j]
      BY LoglenType, IndexType
    <3>2. PICK next \in Nat : next = Next1(l, j) /\ next <= Loglen(l)
      <4>1. Next1(l, j) \in 0 .. a
        BY <3>1, Next1Type
      <4> QED
        BY <3>1, <4>1
    <3>3. matchIndex' = [matchIndex EXCEPT ![l][j] = k]
      BY <2>1, <3>1 DEF TypeOK
    <3>4. k = 0 \/ Bounded(l, k)
      BY <3>1 DEF Indexes
    <3> QED
      BY <2>1, <2>3, <3>2, <3>3, <3>4, OneIndex
  <2> QED
    BY <2>2, <2>3
<1>5. ASSUME NEW i \in Server, NEW d, Reload(i, d)
      PROVE  Indexes(l)'
  <2>1. i # l
    BY <1>5 DEF Reload, TypeOK
  <2> QED
    BY <1>1, <1>5, <2>1 DEF Reload, TypeOK
<1>6. ASSUME NEW m \in rpcs,
             \/ RequestVote(m.dst, m) \/ AppendEntries(m.dst, m) \/ InstallSnapshot(m.dst, m)
             \/ Lose(m)
      PROVE  UNCHANGED leaderVars
  BY <1>6 DEF RequestVote, AppendEntries, InstallSnapshot, Lose
<1>7. ASSUME NEW m \in rpcs, HandleVoteReply(m.src, m) \/ LoseVote(m.src, m)
      PROVE  Indexes(l)'
  <2>1. CASE UNCHANGED leaderVars
    BY <1>2, <2>1
  <2>2. ASSUME NEW g, Counting(m.src), Tally(m.src, m, g)
        PROVE  Indexes(l)'
    <3>1. m.src # l /\ m.src \in Server
      BY <2>2, VoteMessage DEF Counting
    <3>2. \/ UNCHANGED leaderVars
          \/ \E n, k : /\ nextIndex' = [nextIndex EXCEPT ![m.src] = n]
                       /\ matchIndex' = [matchIndex EXCEPT ![m.src] = k]
      BY <2>2 DEF Tally
    <3>3. CASE \E n, k : /\ nextIndex' = [nextIndex EXCEPT ![m.src] = n]
                         /\ matchIndex' = [matchIndex EXCEPT ![m.src] = k]
      BY <1>1, <3>1, <3>3 DEF TypeOK
    <3> QED
      BY <1>2, <3>2, <3>3
  <2> QED
    BY <1>7, <2>1, <2>2 DEF HandleVoteReply, LoseVote
<1>8. ASSUME NEW m \in rpcs,
             HandleAppendEntriesReply(m.src, m) \/ HandleInstallSnapshotReply(m.src, m)
      PROVE  Indexes(l)'
  <2>0. m.src \in Server /\ m.dst \in Server
    BY VoteMessage
  <2>1. CASE UNCHANGED leaderVars
    BY <1>2, <2>1
  <2>2. CASE m.src # l
    <3>1. nextIndex'[l] = nextIndex[l] /\ matchIndex'[l] = matchIndex[l]
      BY <1>8, <2>0, <2>2 DEF HandleAppendEntriesReply, HandleInstallSnapshotReply,
           AppendEntriesSucceeded, ReplyOfNewerTerm, BackUp, ReplyIgnored, InstallSnapshotDone,
           leaderVars, TypeOK
    <3> QED
      BY <1>1, <3>1
  <2>3. CASE m.src = l /\ m.type = "AEReply" /\ AppendEntriesSucceeded(l, m)
    <3>1. m.term = currentTerm[l]
      BY <2>3 DEF AppendEntriesSucceeded
    <3> QED
      BY <2>3, <3>1, AcknowledgedIndexes
  <2>4. CASE m.src = l /\ m.type = "AEReply" /\ BackUp(l, m)
    <3>1. m.term = currentTerm[l]
      BY <2>4 DEF BackUp
    <3> QED
      BY <2>4, <3>1, BackedUpIndexes
  <2>5. CASE m.src = l /\ InstallSnapshotDone(l, m)
    BY <2>5, InstalledIndexes
  <2> QED
    BY <1>8, <2>1, <2>2, <2>3, <2>4, <2>5 DEF HandleAppendEntriesReply, HandleInstallSnapshotReply,
         ReplyOfNewerTerm, ReplyIgnored
<1>9. ASSUME NEW m \in rpcs, AppendEntriesResume(m.dst, m) \/ Timeout(m)
      PROVE  FALSE
  BY <1>9 DEF AppendEntriesResume, Timeout
<1>10. CASE UNCHANGED vars
  BY <1>2, <1>10 DEF vars, leaderVars
<1>11. CASE Next
  BY <1>2, <1>3, <1>4, <1>5, <1>6, <1>7, <1>8, <1>9, <1>11, VoteMessage
     DEF Next, Restart, RestartInHandler
<1> QED
  BY <1>10, <1>11

\* A server that becomes leader starts with fresh indexes and has no call of its
\* term under way.
LEMMA NewLeaderIndexes ==
    ASSUME LateDelivery = FALSE, TypeOK, TypeOK', VotesSound, inside = {}, CallsElected, RoleKind,
           [Next]_vars, NEW l \in Server, state[l] # "Leader", state'[l] = "Leader"
    PROVE  /\ Indexes(l)'
           /\ \A m \in rpcs' : m.src = l /\ m.term = currentTerm'[l] => CallBounded(l, m)'
<1>1. Wins(l)
  BY StartElectionCounting DEF RoleKind, NoElectionStep, OldLeaders, Casts, Wins
<1>2. ASSUME NEW m \in rpcs, m.src = l, m.term = currentTerm[l], IsCall(m)
      PROVE  FALSE
  BY <1>1, <1>2 DEF CallsElected, Elected, Wins
<1>3. \E m \in rpcs, g \in BOOLEAN : rpcs' = rpcs \ {m} /\ Tally(l, m, g)
  <2>1. ASSUME NEW i \in Server,
               \/ AdvanceCommit(i) \/ \E c \in Command : Start(i, c)
               \/ \E index \in SnapshotAt : Snapshot(i, index)
               \/ \E j \in Server : \/ GetVote(i, j)
                                    \/ SendAppendEntries(i, j)
                                    \/ SendInstallSnapshot(i, j)
        PROVE  UNCHANGED state
    BY <2>1 DEF AdvanceCommit, Start, Snapshot, GetVote, SendAppendEntries, SendInstallSnapshot
  <2>2. ASSUME NEW i \in Server,
               \/ StartElection(i) \/ AbortElection(i) \/ \E d : Reload(i, d)
        PROVE  FALSE
    <3>1. PICK role \in {"Candidate", "Follower"} : state' = [state EXCEPT ![i] = role]
      BY <2>2 DEF StartElection, AbortElection, Reload
    <3> QED
      BY <3>1 DEF TypeOK
  <2>3. ASSUME NEW m \in rpcs, RequestVote(m.dst, m) \/ AppendEntries(m.dst, m)
                               \/ InstallSnapshot(m.dst, m)
        PROVE  FALSE
    <3>1. state' = state \/ state' = [state EXCEPT ![m.dst] = "Follower"]
      BY <2>3 DEF RequestVote, RequestVoteStale, RequestVoteSameTerm, RequestVoteNewTerm,
           AppendEntries, AppendEntriesStale, AppendEntriesRefuse, AppendEntriesAccept,
           InstallSnapshot, InstallSnapshotStale, InstallSnapshotKnown, InstallSnapshotTake, Follow
    <3> QED
      BY <3>1 DEF TypeOK
  <2>4. ASSUME NEW m \in rpcs,
               HandleAppendEntriesReply(m.src, m) \/ HandleInstallSnapshotReply(m.src, m) \/ Lose(m)
        PROVE  FALSE
    <3>1. state' = state \/ state' = [state EXCEPT ![m.src] = "Follower"]
      BY <2>4 DEF HandleAppendEntriesReply, HandleInstallSnapshotReply, AppendEntriesSucceeded,
           ReplyOfNewerTerm, StepDown, BackUp, ReplyIgnored, InstallSnapshotDone, Lose
    <3> QED
      BY <3>1 DEF TypeOK
  <2>5. ASSUME NEW m \in rpcs, HandleVoteReply(m.src, m) \/ LoseVote(m.src, m)
        PROVE  \E g \in BOOLEAN : rpcs' = rpcs \ {m} /\ m.src = l /\ Tally(l, m, g)
    <3>1. CASE state' = state \/ state' = [state EXCEPT ![m.src] = "Follower"]
      BY <3>1 DEF TypeOK
    <3>2. ASSUME NEW g \in BOOLEAN, Tally(m.src, m, g)
          PROVE  m.src = l
      BY <3>2 DEF Tally, TypeOK
    <3>3. m.type = "RVReply" => m.granted \in BOOLEAN
      BY VoteMessage
    <3> QED
      BY <2>5, <3>1, <3>2, <3>3 DEF HandleVoteReply, LoseVote, StepDown
  <2>6. ASSUME NEW m \in rpcs, AppendEntriesResume(m.dst, m) \/ Timeout(m)
        PROVE  FALSE
    BY <2>6 DEF AppendEntriesResume, Timeout
  <2>7. CASE UNCHANGED vars
    BY <2>7 DEF vars
  <2>8. CASE Next
    BY <2>1, <2>2, <2>3, <2>4, <2>5, <2>6, <2>8, VoteMessage DEF Next, Restart, RestartInHandler
  <2> QED
    BY <2>7, <2>8
<1>4. PICK m \in rpcs, g \in BOOLEAN : rpcs' = rpcs \ {m} /\ Tally(l, m, g)
  BY <1>3
<1>5. /\ nextIndex'[l] = [j \in Server |-> IF j = l THEN 0 ELSE Loglen(l)]
      /\ matchIndex'[l] = [j \in Server |-> 0]
      /\ UNCHANGED <<log, snapshotIndex, currentTerm>>
  BY <1>4 DEF Tally, TypeOK, persistent
<1>6. PICK a \in Nat : a = Loglen(l) /\ a = Loglen(l)'
  BY <1>5, LocalType DEF Loglen
<1>7. Indexes(l)'
  BY <1>5, <1>6 DEF Indexes
<1>8. ASSUME NEW r \in rpcs', r.src = l, r.term = currentTerm'[l]
      PROVE  CallBounded(l, r)'
  <2>1. ~IsCall(r)
    BY <1>2, <1>4, <1>5, <1>8
  <2> QED
    BY <2>1 DEF CallBounded, IsCall
<1> QED
  BY <1>7, <1>8

LEMMA IndexStep ==
    ASSUME LateDelivery = FALSE, Preempt = FALSE, TypeOK, TypeOK', VotesSound, PersistedInTime,
           IndexInv, [Next]_vars
    PROVE  IndexInv'
<1>1. VoteKept /\ NewVotesCast /\ inside' = {}
  BY VoteStep, ElectionStep, InsideStep DEF VotesSound, GoodElectionStep, IndexInv
<1>2. RoleKind /\ CountingKept
  BY RoleKinds, CountingStep DEF IndexInv
<1>3. CallsElected' /\ OneCall' /\ CallsLive'
  BY <1>1, <1>2, CallsElectedStep, CallsLiveStep DEF IndexInv
<1>4. ASSUME NEW l \in Server, state'[l] = "Leader"
      PROVE  /\ Indexes(l)'
             /\ \A m \in rpcs' : m.src = l /\ m.term = currentTerm'[l] => CallBounded(l, m)'
  <2>1. CASE state[l] = "Leader"
    <3>1. Grown(l)
      BY <1>2, <1>4, <2>1, StaysGrown DEF IndexInv
    <3>2. /\ Indexes(l)
          /\ \A m \in rpcs : m.src = l /\ m.term = currentTerm[l] => CallBounded(l, m)
      BY <2>1 DEF IndexInv, LeaderIndexes
    <3>3. Indexes(l)'
      BY <1>4, <2>1, <3>1, <3>2, IndexesStep DEF IndexInv
    <3>4. \A m \in rpcs' : m.src = l /\ m.term = currentTerm'[l] => CallBounded(l, m)'
      BY <1>4, <3>1, <3>2, CallsBoundedStep DEF IndexInv
    <3> QED
      BY <3>3, <3>4
  <2>2. CASE state[l] # "Leader"
    BY <1>2, <1>4, <2>2, NewLeaderIndexes DEF IndexInv
  <2> QED
    BY <2>1, <2>2
<1>5. LeaderIndexes'
  BY <1>4 DEF LeaderIndexes
<1> QED
  BY <1>1, <1>3, <1>5 DEF IndexInv

\* The median is one of the indexes, and beyond the commit index it is in the log.
LEMMA IndexMedian ==
    ASSUME TypeOK, IndexInv
    PROVE  MedianInLog
<1> SUFFICES ASSUME NEW i \in Server, state[i] = "Leader", Median(i) > commitIndex[i]
             PROVE  InLog(i, Median(i))
  BY DEF MedianInLog
<1>1. PICK k \in Nat, j \in Server, s \in Nat, have \in Nat, x \in Nat :
             /\ k = Median(i) /\ k = Stored(i, j) /\ s = snapshotIndex[i] /\ have = Len(log[i])
             /\ have >= 1 /\ Loglen(i) = have + s /\ x = commitIndex[i]
  BY MedianType, LocalType
<1>2. k < have + s /\ k >= s
  <2>1. CASE j = i
    BY <1>1, <2>1 DEF Stored
  <2>2. CASE j # i
    <3>1. k = matchIndex[i][j] /\ k > x
      BY <1>1, <2>2 DEF Stored
    <3>2. k = 0 \/ Bounded(i, k)
      BY <3>1 DEF IndexInv, LeaderIndexes, Indexes
    <3>3. k < have + s /\ (s <= x \/ k >= s)
      BY <1>1, <3>1, <3>2 DEF Bounded, Covered
    <3> QED
      BY <1>1, <3>1, <3>3
  <2> QED
    BY <2>1, <2>2
<1>3. k - s \in 0 .. have - 1
  BY <1>1, <1>2
<1> QED
  BY <1>1, <1>3 DEF InLog

-----------------------------------------------------------------------------
(* The theorems.                                                           *)

\* LogMatchingCorrect: if two logs have an entry of the same term at the same
\* index, they are the same up to it.  The consistency check of AppendEntries
\* and the truncation after it (raft.go:383-410) maintain this together, with
\* calls that are lost, overtaken by others or answered by a restarted server.
THEOREM LogMatchingCorrect ==
    ASSUME Calm
    PROVE  Spec => []LogMatching
  BY SafeLogMatching, SafeCorrect, TypeCorrect, PTL

\* MatchIndexCorrect: what a leader finds in matchIndex is stored on the
\* follower as long as that is in the leader's term, although replies arrive
\* late and nextIndex moves meanwhile.
THEOREM MatchIndexCorrect ==
    ASSUME Calm
    PROVE  Spec => []MatchIndexSound
  BY SafeMatchIndex, SafeCorrect, TypeCorrect, PTL

\* CommitCoveredCorrect: no AppendEntries call says that more is committed than
\* the log has up to the entries it carries, so the min(LeaderCommit, Loglen()-1)
\* of the handler never commits an entry that the leader does not have.
THEOREM CommitCoveredCorrect ==
    ASSUME Calm
    PROVE  Spec => []CommitCovered
  BY SafeCalls, SafeCorrect, TypeCorrect, PTL

\* DurableCorrect: what a server knows to be committed is stored on a majority
\* ("must not overwrite a committed entry", raft.go:386), through elections and
\* restarts.
THEOREM DurableCorrect ==
    ASSUME Calm
    PROVE  Spec => []Durable
  BY SafeMajorities, SafeCorrect, TypeCorrect, PTL

\* StateMachineSafetyCorrect: two servers never consider different entries
\* committed at the same index, however elections, replication, losses and
\* restarts interleave; the services that apply the entries stay the same.
THEOREM StateMachineSafetyCorrect ==
    ASSUME Calm
    PROVE  Spec => []StateMachineSafety
  BY SafeStateMachines, SafeCorrect, TypeCorrect, PTL

\* LeaderCompletenessCorrect: what a server knows to be committed is in the log
\* of every leader of its term or of a later one: a leader counts replies for
\* the entries of its own term only (raft.go, applyLogEntries), and a voter
\* compares the last entries (raft.go, RequestVote).
THEOREM LeaderCompletenessCorrect ==
    ASSUME Calm
    PROVE  Spec => []LeaderCompleteness
  BY SafeLeaders, SafeCorrect, TypeCorrect, PTL
-----------------------------------------------------------------------------

\* MedianInLogCorrect: with snapshots that any server takes or is sent at any
\* moment, lost and overtaken calls and restarts, the median of matchIndex that
\* applyLogEntries looks up (raft.go:480) is in the leader's compacted log. In
\* between, the leader compacts its log while calls and replies with indexes of
\* the old one travel, takes its present snapshot for the one it has sent, uses
\* a position of the slice as an index, and begins with commitIndex 0 after a
\* restart although its snapshot reaches further.
THEOREM MedianInLogCorrect ==
    ASSUME LateDelivery = FALSE, Preempt = FALSE
    PROVE  Spec => []MedianInLog
<1>1. Init => IndexInv
  BY DEF Init, IndexInv, CallsElected, OneCall, CallsLive, LeaderIndexes
<1>2. /\ TypeOK /\ TypeOK' /\ VotesSound /\ PersistedInTime /\ IndexInv /\ [Next]_vars
        => IndexInv'
  BY IndexStep
<1>3. TypeOK /\ IndexInv => MedianInLog
  BY IndexMedian
<1> QED
  BY <1>1, <1>2, <1>3, TypeCorrect, PersistedCorrect, VotesCorrect, PTL DEF Spec
=============================================================================
