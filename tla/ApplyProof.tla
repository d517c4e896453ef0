----------------------------- MODULE ApplyProof -----------------------------
(***************************************************************************)
(* InOrder and Forward of ApplyWorker, for every length of the log and     *)
(* every snapshot interval.  The argument is about one number, how far the *)
(* service has been told, and how lastApplied of the Raft server follows   *)
(* it through the stretches in which rf.mu is released.                    *)
(***************************************************************************)
EXTENDS ApplyWorker, TLAPS

\* The last index that has reached the service, be it still to be checked.
Told == IF service = "check" THEN got ELSE applied

Types ==
    /\ snap \in BOOLEAN
    /\ lastIndex \in Nat /\ commitIndex \in Nat /\ lastApplied \in Nat
    /\ snapshotIndex \in Nat /\ saved \in Nat
    /\ got \in Nat /\ applied \in Nat /\ logs \in Nat
    /\ msg \in [snapshot : BOOLEAN, index : Nat]

\* The reader: it handles the entry after the last one; its log has no gap.
ReaderInv ==
    /\ snap = FALSE => snapshotIndex = 0
    /\ service = "check" => got = applied + 1
    /\ service = "snapshot" => snap = TRUE /\ got = applied
    /\ kill # "replaced" => applied <= logs

\* The worker, when it sends nothing: lastApplied is what the service has been
\* told, or both are within a snapshot that waits to be sent.
RestInv ==
    worker \in {"wait", "lock"} =>
      Told = lastApplied \/ (lastApplied <= Told /\ Told <= snapshotIndex)

\* The worker sends a snapshot: no newer entry can overtake it.
SnapshotInv ==
    worker \in {"send", "sent"} /\ msg.snapshot = TRUE =>
      /\ snap = TRUE
      /\ lastApplied <= Told /\ Told <= msg.index /\ msg.index <= snapshotIndex
      /\ worker = "sent" => Told = msg.index

\* The worker sends an entry: lastApplied counts it already.
EntryInv ==
    worker \in {"send", "sent"} /\ msg.snapshot = FALSE =>
      /\ lastApplied = msg.index
      /\ msg.index = IF worker = "send" THEN Told + 1 ELSE Told

\* The inductive invariant; nothing is claimed of a process that has ended.
Inv ==
    /\ Types
    /\ Running => ReaderInv /\ RestInv /\ SnapshotInv /\ EntryInv
    /\ InOrder

-----------------------------------------------------------------------------
\* The larger of two numbers, for the assignments "if x < y { x = y }".
LEMMA MaxOfTwo ==
    ASSUME NEW a \in Nat, NEW b \in Nat
    PROVE  /\ Max({a, b}) \in Nat
           /\ a <= b => Max({a, b}) = b
           /\ b <= a => Max({a, b}) = a
<1>1. \E x \in {a, b} : \A y \in {a, b} : x >= y
  OBVIOUS
<1>2. Max({a, b}) \in {a, b} /\ \A y \in {a, b} : Max({a, b}) >= y
  BY <1>1 DEF Max
<1> QED
  BY <1>2

\* The smaller of two numbers, for min(LeaderCommit, last index).
LEMMA MinOfTwo ==
    ASSUME NEW a \in Nat, NEW b \in Nat
    PROVE  Min({a, b}) \in Nat
<1>1. \E x \in {a, b} : \A y \in {a, b} : x <= y
  OBVIOUS
<1>2. Min({a, b}) \in {a, b}
  BY <1>1 DEF Min
<1> QED
  BY <1>2

\* A new or restarted server.
LEMMA InitInv == Init => Inv
<1> SUFFICES ASSUME Init PROVE Inv
  OBVIOUS
<1>1. Snapshots \subseteq Nat
  BY IndexAssumption DEF Snapshots
<1>2. snapshotIndex \in Nat /\ lastIndex \in Nat /\ (~snap => snapshotIndex = 0)
  BY <1>1, IndexAssumption DEF Init
<1>3. Types
  BY <1>2 DEF Init, Types
<1> QED
  BY <1>2, <1>3 DEF Init, Inv, ReaderInv, RestInv, SnapshotInv, EntryInv, InOrder, Told

\* The loop over the entries, entered with what the service has been told.
LEMMA EntriesInv ==
    ASSUME Types, Running, InOrder, ReaderInv,
           NEW last \in Nat, NEW commit \in Nat, last = Told,
           Entries(last, commit), UNCHANGED <<snapshotIndex, reader, kill, snap>>
    PROVE  /\ lastApplied' \in Nat /\ msg' \in [snapshot : BOOLEAN, index : Nat]
           /\ Running' => RestInv' /\ SnapshotInv' /\ EntryInv'
           /\ InOrder'
<1> USE DEF Types, Running, InOrder, Told, reader, Send
<1>1. Told' = Told /\ snapshotIndex' = snapshotIndex
  OBVIOUS
<1>2. CASE last >= commit /\ Again /\ lastApplied' = last /\ UNCHANGED <<msg, fatal>>
  BY <1>2, <1>1 DEF Again, RestInv, SnapshotInv, EntryInv
<1>3. CASE worker' = "spin" /\ lastApplied' = last /\ UNCHANGED <<msg, fatal>>
  BY <1>3 DEF RestInv, SnapshotInv, EntryInv
<1>4. CASE /\ lastApplied' = last + 1
           /\ IF last < lastIndex THEN Send(FALSE, last + 1) /\ UNCHANGED fatal
              ELSE fatal' = "outOfRange" /\ UNCHANGED <<worker, msg>>
  <2>1. lastApplied' \in Nat /\ msg' \in [snapshot : BOOLEAN, index : Nat] /\ InOrder'
    <3>1. CASE last < lastIndex
      <4>1. /\ msg' = [snapshot |-> FALSE, index |-> last + 1]
            /\ lastApplied' = last + 1 /\ fatal' = fatal
        BY <1>4, <3>1
      <4>2. InOrder' /\ last + 1 \in Nat
        BY <4>1
      <4> HIDE DEF InOrder, Types, Told
      <4> QED
        BY <4>1, <4>2
    <3>2. CASE ~(last < lastIndex)
      BY <1>4, <3>2
    <3> QED
      BY <3>1, <3>2
  <2>2. SUFFICES ASSUME Running'
                 PROVE  RestInv' /\ SnapshotInv' /\ EntryInv'
    BY <2>1
  <2>3. worker' = "send" /\ msg' = [snapshot |-> FALSE, index |-> last + 1]
    BY <1>4, <2>2
  <2> QED
    BY <1>1, <1>4, <2>3 DEF RestInv, SnapshotInv, EntryInv
<1> QED
  BY <1>2, <1>3, <1>4 DEF Entries

\* The rest of a pass of the worker.
LEMMA PassInv ==
    ASSUME Types, Running, InOrder, ReaderInv,
           NEW last \in Nat, last = Told,
           Pass(last), UNCHANGED <<snapshotIndex, reader, kill, snap>>
    PROVE  /\ lastApplied' \in Nat /\ commitIndex' \in Nat
           /\ msg' \in [snapshot : BOOLEAN, index : Nat]
           /\ Running' => RestInv' /\ SnapshotInv' /\ EntryInv'
           /\ InOrder'
<1>0. commitIndex \in Nat /\ snapshotIndex \in Nat /\ lastIndex \in Nat /\ commitIndex + 1 \in Nat
  BY DEF Types
<1>1. CASE Entries(last, commitIndex) /\ UNCHANGED commitIndex
  BY <1>0, <1>1, EntriesInv
<1>2. CASE \E median \in Max({commitIndex + 1, snapshotIndex})..lastIndex :
             commitIndex' = median /\ Entries(last, median)
  <2>1. Max({commitIndex + 1, snapshotIndex}) \in Nat
    BY <1>0, MaxOfTwo
  <2>2. PICK median \in Max({commitIndex + 1, snapshotIndex})..lastIndex :
             commitIndex' = median /\ Entries(last, median)
    BY <1>2
  <2>3. median \in Nat
    BY <2>1, <1>0
  <2> QED
    BY <2>2, <2>3, EntriesInv
<1>3. CASE Again /\ lastApplied' = last /\ UNCHANGED <<commitIndex, msg, fatal>>
  BY <1>0, <1>3 DEF Again, Types, Running, InOrder, Told, reader, RestInv, SnapshotInv, EntryInv
<1> QED
  BY <1>1, <1>2, <1>3 DEF Pass


\* Every step of the program keeps the invariant, and the service does not go
\* back.
LEMMA StepInv ==
    ASSUME Inv, [Next]_vars
    PROVE  Inv' /\ applied' >= applied
<1>1. CASE UNCHANGED vars
  <2> USE <1>1 DEF vars, Inv
  <2>1. Types' /\ InOrder' /\ Told' = Told /\ applied' >= applied
    BY DEF Types, InOrder, Told
  <2>2. ReaderInv => ReaderInv'
    BY DEF ReaderInv
  <2>3. RestInv => RestInv'
    BY <2>1 DEF RestInv
  <2>4. SnapshotInv => SnapshotInv'
    BY <2>1 DEF SnapshotInv
  <2>5. EntryInv => EntryInv'
    BY <2>1 DEF EntryInv
  <2> QED
    BY <2>1, <2>2, <2>3, <2>4, <2>5 DEF Running
<1>2. CASE Ended
  BY <1>2, <1>1 DEF Ended
<1> SUFFICES ASSUME Running, Next, ~Ended
             PROVE  Inv' /\ applied' >= applied
  BY <1>1, <1>2 DEF Next
<1>3. Types /\ ReaderInv /\ RestInv /\ SnapshotInv /\ EntryInv /\ InOrder
  BY DEF Inv
<1>w. CASE WorkerWake
  BY <1>3, <1>w DEF WorkerWake, log, reader, tester, Inv, Types, Running, ReaderInv, RestInv,
     SnapshotInv, EntryInv, InOrder, Told
<1>l. CASE WorkerLock
  <2>1. UNCHANGED <<lastIndex, snapshotIndex, reader, kill, snap, saved>>
    BY <1>l DEF WorkerLock, tester
  <2>2. CASE lastApplied < snapshotIndex
    <3>1. /\ worker = "lock" /\ worker' = "send" /\ UNCHANGED <<lastApplied, commitIndex, fatal>>
          /\ msg' = [snapshot |-> TRUE, index |-> snapshotIndex]
      BY <1>l, <2>2 DEF WorkerLock, Send
    <3>2. Types' /\ InOrder' /\ ReaderInv' /\ Told' = Told /\ applied' >= applied
      BY <1>3, <2>1, <3>1 DEF reader, Types, InOrder, ReaderInv, Told
    <3>3. snap = TRUE
      BY <1>3, <2>2 DEF Types, ReaderInv
    <3>4. SnapshotInv' /\ EntryInv' /\ RestInv'
      BY <1>3, <2>1, <2>2, <3>1, <3>2, <3>3 DEF Types, RestInv, SnapshotInv, EntryInv
    <3> QED
      BY <3>2, <3>4 DEF Inv
  <2>3. CASE ~(lastApplied < snapshotIndex)
    <3>1. lastApplied = Told /\ lastApplied \in Nat
      BY <1>3, <1>l, <2>3 DEF WorkerLock, RestInv, Types, Told
    <3>2. Pass(lastApplied)
      BY <1>l, <2>3 DEF WorkerLock
    <3>3. /\ lastApplied' \in Nat /\ commitIndex' \in Nat
          /\ msg' \in [snapshot : BOOLEAN, index : Nat]
          /\ Running' => RestInv' /\ SnapshotInv' /\ EntryInv'
          /\ InOrder'
      BY <1>3, <2>1, <3>1, <3>2, PassInv
    <3> QED
      BY <1>3, <2>1, <3>3 DEF reader, Inv, Types, ReaderInv
  <2> QED
    BY <2>2, <2>3
<1>a. CASE WorkerAbort
  BY <1>3, <1>a DEF WorkerAbort, log, reader, tester, Inv, Types, Running, ReaderInv, RestInv,
     SnapshotInv, EntryInv, InOrder, Told
<1>s. CASE WorkerSent
  <2>1. UNCHANGED <<lastIndex, snapshotIndex, reader, kill, snap, saved>>
    BY <1>s DEF WorkerSent, tester
  <2>2. /\ lastApplied' \in Nat /\ commitIndex' \in Nat
        /\ msg' \in [snapshot : BOOLEAN, index : Nat]
        /\ Running' => RestInv' /\ SnapshotInv' /\ EntryInv'
        /\ InOrder'
    <3>1. CASE msg.snapshot
      <4>1. lastApplied \in Nat /\ msg.index \in Nat
        BY <1>3 DEF Types
      <4>2. Max({lastApplied, msg.index}) = Told /\ Told \in Nat
        BY <1>3, <1>s, <3>1, <4>1, MaxOfTwo DEF WorkerSent, SnapshotInv
      <4>3. Pass(Told)
        BY <1>s, <3>1, <4>2 DEF WorkerSent
      <4> QED
        BY <1>3, <2>1, <4>2, <4>3, PassInv
    <3>2. CASE ~msg.snapshot
      <4>1. lastApplied = Told /\ lastApplied \in Nat /\ commitIndex \in Nat
        BY <1>3, <1>s, <3>2 DEF WorkerSent, EntryInv, Types
      <4>2. Entries(lastApplied, commitIndex) /\ UNCHANGED commitIndex
        BY <1>s, <3>2 DEF WorkerSent
      <4> QED
        BY <1>3, <2>1, <4>1, <4>2, EntriesInv
    <3> QED
      BY <3>1, <3>2
  <2> QED
    BY <1>3, <2>1, <2>2 DEF reader, Inv, Types, ReaderInv
<1>t. CASE TryApply
  BY <1>3, <1>t DEF TryApply, log, reader, tester, Inv, Types, Running, ReaderInv, RestInv,
     SnapshotInv, EntryInv, InOrder, Told
<1>c. CASE ServiceCheck
  <2>1. Max({logs, got}) \in Nat /\ logs <= Max({logs, got}) /\ got <= Max({logs, got})
    BY <1>3, MaxOfTwo DEF Types
  <2>2. /\ service = "check" /\ Told' = Told /\ got = Told /\ got = applied + 1
        /\ service' \in {"snapshot", "idle"} /\ applied' = got /\ got' = got
        /\ logs' = Max({logs, got})
        /\ service' = "snapshot" => snap = TRUE
        /\ UNCHANGED <<lastIndex, commitIndex, lastApplied, snapshotIndex, worker, msg,
                       snap, kill, saved>>
    BY <1>3, <1>c DEF ServiceCheck, Told, ReaderInv, Types, log, tester
  <2>3. InOrder'
    <3>1. fatal' = fatal \/ (fatal' = "outOfOrder" /\ got > 1 /\ logs < got - 1)
      BY <1>3, <1>c, <2>2 DEF ServiceCheck, Types
    <3> QED
      BY <1>3, <2>2, <3>1 DEF InOrder, ReaderInv, Types
  <2>4. Types' /\ applied' >= applied
    BY <1>3, <2>1, <2>2 DEF Types
  <2>5. ReaderInv'
    BY <1>3, <2>1, <2>2 DEF ReaderInv, Types
  <2>6. RestInv' /\ SnapshotInv' /\ EntryInv'
    BY <1>3, <2>2 DEF RestInv, SnapshotInv, EntryInv
  <2> QED
    BY <2>3, <2>4, <2>5, <2>6 DEF Inv
<1>n. CASE ServiceSnapshot
  <2>1. /\ Max({lastApplied, got}) \in Nat /\ Max({commitIndex, got}) \in Nat
        /\ lastApplied <= got => Max({lastApplied, got}) = got
        /\ got <= lastApplied => Max({lastApplied, got}) = lastApplied
    BY <1>3, MaxOfTwo DEF Types
  <2>2. /\ Told' = Told /\ got = Told /\ snap = TRUE /\ service' \in {"snapshot", "idle"}
        /\ UNCHANGED <<got, applied, logs, worker, msg, kill, snap, saved>>
        /\ fatal' \in {fatal, "nilRaft"}
    BY <1>3, <1>n DEF ServiceSnapshot, Told, ReaderInv, tester
  <2>3. \/ UNCHANGED log
        \/ /\ snapshotIndex < got /\ snapshotIndex' = got /\ lastIndex' = lastIndex
           /\ lastApplied' = Max({lastApplied, got}) /\ commitIndex' = Max({commitIndex, got})
    BY <1>3, <1>n DEF ServiceSnapshot, Types
  <2>4. Types' /\ InOrder' /\ applied' >= applied
    BY <1>3, <2>1, <2>2, <2>3 DEF Types, InOrder, log
  <2>5. ReaderInv'
    BY <1>3, <2>2, <1>n DEF ReaderInv, ServiceSnapshot
  <2>6. CASE UNCHANGED log
    BY <1>3, <2>2, <2>4, <2>5, <2>6 DEF Inv, RestInv, SnapshotInv, EntryInv, log
  <2>7. CASE snapshotIndex < got /\ snapshotIndex' = got /\ lastApplied' = Max({lastApplied, got})
    <3>1. RestInv'
      BY <1>3, <2>1, <2>2, <2>7 DEF Types, RestInv
    <3>2. SnapshotInv'
      BY <1>3, <2>1, <2>2, <2>7 DEF Types, SnapshotInv
    <3>3. EntryInv'
      BY <1>3, <2>1, <2>2, <2>7 DEF Types, EntryInv
    <3> QED
      BY <2>4, <2>5, <3>1, <3>2, <3>3 DEF Inv
  <2> QED
    BY <2>3, <2>6, <2>7
<1>e. CASE AppendEntries
  <2>1. UNCHANGED <<lastApplied, snapshotIndex, worker, msg, service, got, applied, logs, snap, kill, saved>>
    BY <1>e DEF AppendEntries, reader, tester
  <2>2. Max({commitIndex, snapshotIndex}) \in Nat
    BY <1>3, MaxOfTwo DEF Types
  <2>3. lastIndex' \in Nat /\ fatal' \in {fatal, "sliceBounds"}
    BY <1>3, <1>e, <2>2, IndexAssumption DEF AppendEntries, Types
  <2>4. PICK c \in commitIndex..MaxIndex :
              commitIndex' = IF c > commitIndex THEN Min({c, lastIndex'}) ELSE commitIndex
    BY <1>e DEF AppendEntries
  <2>5. Min({c, lastIndex'}) \in Nat
    BY <1>3, <2>3, MinOfTwo, IndexAssumption DEF Types
  <2>6. Types' /\ InOrder' /\ Told' = Told /\ applied' >= applied
    BY <1>3, <2>1, <2>3, <2>4, <2>5 DEF Types, InOrder, Told
  <2>7. ReaderInv' /\ RestInv' /\ SnapshotInv' /\ EntryInv'
    BY <1>3, <2>1, <2>6 DEF ReaderInv, RestInv, SnapshotInv, EntryInv
  <2> QED
    BY <2>6, <2>7 DEF Inv
<1>i. CASE InstallSnapshot
  <2>1. UNCHANGED <<lastApplied, worker, msg, service, got, applied, logs, snap, kill, saved, fatal>>
    BY <1>i DEF InstallSnapshot, reader, tester
  <2>2. snap = TRUE
    BY <1>i, <1>3 DEF InstallSnapshot, Types
  <2>3. \E k \in Nat : Max({k, lastIndex}) \in Nat /\ Max({commitIndex, k}) \in Nat
          /\ \/ UNCHANGED <<lastIndex, snapshotIndex, commitIndex>>
             \/ /\ k > snapshotIndex /\ snapshotIndex' = k
                /\ lastIndex' \in {k, Max({k, lastIndex})}
                /\ commitIndex' = Max({commitIndex, k})
    <3>1. PICK k \in Snapshots :
          IF k <= snapshotIndex THEN UNCHANGED <<lastIndex, snapshotIndex, commitIndex>>
          ELSE /\ lastIndex' \in {k, Max({k, lastIndex})}
               /\ snapshotIndex' = k
               /\ commitIndex' = Max({commitIndex, k})
      BY <1>i DEF InstallSnapshot
    <3>2. k \in Nat
      BY IndexAssumption DEF Snapshots
    <3>3. Max({k, lastIndex}) \in Nat /\ Max({commitIndex, k}) \in Nat
      BY <1>3, <3>2, MaxOfTwo DEF Types
    <3>4. CASE k <= snapshotIndex
      BY <3>1, <3>2, <3>3, <3>4
    <3>5. CASE ~(k <= snapshotIndex)
      <4>1. k > snapshotIndex
        BY <1>3, <3>2, <3>5 DEF Types
      <4> QED
        BY <3>1, <3>2, <3>3, <3>5, <4>1
    <3> QED
      BY <3>4, <3>5
  <2>4. /\ lastIndex' \in Nat /\ snapshotIndex' \in Nat /\ commitIndex' \in Nat
        /\ snapshotIndex <= snapshotIndex'
    BY <1>3, <2>3 DEF Types
  <2>5. Types' /\ InOrder' /\ Told' = Told /\ Told \in Nat /\ applied' >= applied
    BY <1>3, <2>1, <2>4 DEF Types, InOrder, Told
  <2>6. ReaderInv'
    BY <1>3, <2>1, <2>2 DEF ReaderInv
  <2>7. RestInv' /\ SnapshotInv' /\ EntryInv'
    BY <1>3, <2>1, <2>4, <2>5 DEF Types, RestInv, SnapshotInv, EntryInv
  <2> QED
    BY <2>5, <2>6, <2>7 DEF Inv
<1>r. CASE ChangeRole
  BY <1>3, <1>r DEF ChangeRole, log, reader, tester, Inv, Types, Running, ReaderInv, RestInv,
     SnapshotInv, EntryInv, InOrder, Told
<1>x. CASE Start
  BY <1>3, <1>x DEF Start, reader, tester, Inv, Types, Running, ReaderInv, RestInv,
     SnapshotInv, EntryInv, InOrder, Told
<1>y. CASE SeeLeader \/ Notify
  BY <1>3, <1>y DEF SeeLeader, Notify, log, reader, tester, Inv, Types, Running, ReaderInv, RestInv,
     SnapshotInv, EntryInv, InOrder, Told
<1>z. CASE TesterStep
  BY <1>3, <1>z DEF TesterStep, RfsrvKill, RaftKill, RaftKillReturn, Replace, ReplacementApplies,
     log, reader, tester, Inv, Types, Running, ReaderInv, RestInv,
     SnapshotInv, EntryInv, InOrder, Told
<1> QED
  BY <1>w, <1>l, <1>a, <1>s, <1>t, <1>c, <1>n, <1>e, <1>i, <1>r, <1>x, <1>y, <1>z
     DEF Next, WorkerStep, ServiceStep

-----------------------------------------------------------------------------
\* For every length of the log and every snapshot interval: the tester's check
\* of the order (server.go) fails only for a message of a server that has been
\* replaced.
THEOREM InOrderCorrect == Spec => []InOrder
<1>1. Inv /\ [Next]_vars => Inv'
  BY StepInv
<1>2. Inv => InOrder
  BY DEF Inv
<1> QED
  BY <1>1, <1>2, InitInv, PTL DEF Spec

\* In the same generality: no message of the worker takes the service back,
\* although ingestSnap does not compare.
THEOREM ForwardCorrect == Spec => Forward
<1>1. Inv /\ [Next]_vars => Inv'
  BY StepInv
<1>2. Inv /\ [Next]_vars => [applied' >= applied]_vars
  BY StepInv
<1> QED
  BY <1>1, <1>2, InitInv, PTL DEF Spec, Forward
=============================================================================
