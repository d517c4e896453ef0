# A TLA+ verification of the 6.5840 labs in this repository

This project specifies, model-checks and proves properties of the Go code under
`src/src` (paths below are relative to that directory): the Raft library
`raft1` with the service its tests put on top, the versioned key/value service
with its lock in `kvsrv1`, the MapReduce library `mr`, the shard configurations
of `shardkv1/shardcfg`, and the simulated network `labrpc` with the server
groups of `tester1` that all tests run on. It is kept beside the code; every definition names, in `PROJECT.json` ("map"), the
lines it stands for.

## 1. Inventory

| Component | State | Operations | Interacts with |
|---|---|---|---|
| **Raft peer** `raft1/raft.go` | `CurrentTerm`, `VotedFor`, `Log`, `SnapshotIndex`, `SnapshotByte` (persistent); `SnapshotTerm`, `State`, `commitIndex`, `lastApplied`, `nextIndex`, `matchIndex`, `retry`; one election in `ElectionWorker` | `RequestVote`, `AppendEntries`, `InstallSnapshot`, `Start`, `Snapshot`, `ticker`, `ElectionWorker`, `GetVote`, `sendAppendEntries`, `HeartbeatMaintain`, `applyLogEntries`, `Make`, `readPersist`, `Kill` | its peers by RPC, the Persister, the service through `applyCh` |
| **Persister** `tester1/persister.go` | Raft state and snapshot bytes | `Save`, `ReadRaftState`, `ReadSnapshot`, `Copy` | Raft; the tester copies it at shutdown |
| **Test service** `raft1/server.go`, `raft1/test.go` | `logs`, `lastApplied` | `applier`, `applierSnap`, `ingestSnap`, `checkLogs`, `Kill` | `applyCh`, `Start`, `Snapshot` |
| **Network** `labrpc/labrpc.go` | ends, servers, enabled and reliable flags | `Call`, `processReq`, `dispatch`, `AddServer`, `DeleteServer`, `Enable`, `Cleanup` | everything |
| **Server group** `tester1/group.go`, `tester1/srv.go` | instances, `connected`, saved Persisters | `ConnectAll`, `Partition`, `ShutdownServer`, `StartServer` | the network, the servers it starts and kills |
| **Key/value server** `kvsrv1/server.go` | `kvStore`: value and version per key | `Get`, `Put` | Clerks by RPC |
| **Clerk** `kvsrv1/client.go` | `retry` of the call at hand | `Get`, `Put` (resend until answered, `ErrMaybe`) | server, network |
| **Lock** `kvsrv1/lock/lock.go` | `owned`, `myID` | `Acquire`, `Release` | a Clerk |
| **MapReduce** `mr/*.go` | tasks, running maps, counters; files | `GetTask`, `FinishTask`, `TaskMonitor`, `Done`, `Worker` | workers by RPC, the file system |
| **Shard configurations** `shardkv1/shardcfg` | `Num`, `Shards`, `Groups` | `JoinBalance`, `LeaveBalance`, `Rebalance` | none (pure) |
| **labgob**, rest of **tester1**, **kvtest1**, **models1** | test harness | | |
| **kvraft1**, **shardkv1** (rest) | skeletons with empty methods | | |

What is hard in this code, and what correctness means:

* *Raft*: votes, heartbeats, log entries and snapshots of several terms overlap;
  a caller gives up after 100 ms while its call is still travelling; a handler
  releases the lock in the middle; a server may be stopped between two
  `persist()` calls. Correct means: one leader per term, committed entries stay
  on a majority and in every later leader's log, no two servers commit different
  entries at one index, and no index into the compacted log is out of range.
* *Key/value service and lock*: a `Put` whose reply was lost is sent again while
  others write. Correct means: the Clerk's verdict is never wrong about what the
  server did, and at most one client believes it holds the lock.
* *MapReduce*: a task's monitor races its worker's report; workers crash while
  writing. Correct means: every task is counted once, reduce starts after the
  last map, the coordinator terminates.
* *Raft's goroutines*: `ticker`, `ElectionWorker`, the `GetVote`s, the handlers and
  `applyLogEntries` of one server share a mutex and one-slot channels; tokens are
  left over, sends block, the mutex is released in the middle of a delivery.
  Correct means: the server keeps standing for election, `rf.mu` is released,
  what is committed is delivered in order, and `Kill` ends everything.
* *Network and server groups*: servers are replaced while their handlers run.
  Correct means: a positive answer survives the next restart, a negative one has
  a cause, `Call` returns, and a partition is what it says.
* *Shard configurations*: balance within one, each shard moved once at most, also
  after operations that failed half-way.

`PROJECT.json` ("hazards") lists these one by one, at the line where each bites.

## 2. Plan

Done, in this order:

1. `Raft`: the peer and its RPC traffic; `MCRaft` instantiates it for TLC.
2. `RaftProof`: types, persistence, votes and elections of `Raft`; `SafetyProof`
   extends it with the theorems about the log.
3. `KvModel`, `KvClerk`: the key/value server with its Clerks, and the sequential
   model that it implements.
4. `LockService`, `Lock`, `LockProof`: the lock on top of `KvClerk`, the abstract
   lock that it implements; the theorems about these four modules.
5. `Job`, `MapReduce`, `MapReduceProof`: coordinator, monitors and workers, what
   a job promises, and the theorems.
6. `ElectionTimer` with `TimerProof`, `ApplyWorker` with `ApplyProof`: the goroutines and
   channels inside one Raft server.
7. `ShardCfg`, `ShardProof`: shard configurations.
8. `Labrpc`, `ServerGroup`, `ServerGroupProof`: the simulated network, the server
   groups on it, and the theorems about calls and links.

Worth proving next, in this order:

1. The log of Raft with snapshots, as far as it holds: `LogMatching` and
   `StateMachineSafety` on what `Holds` gives for indexes inside snapshots, with
   `InstallSnapshot` and `Snapshot` as two more sources of `Matching`. The parts about
   elections and calls (`RoleKinds`, `CallsElectedStep`) hold with snapshots already.
2. `CommittedStays` with snapshots, restricted to the indexes that
   `InstallSnapshot` does not drop.
3. `LogMatching` and `StateMachineSafety` with late calls: only what is acknowledged is
   lost by them, and it would be good to know exactly how much.

## 3. Raft

### 3.1 What the module says

One action of `Raft.tla` is one critical section of `rf.mu`:

| Action | Code |
|---|---|
| `StartElection`, `GetVote`, `HandleVoteReply`, `LoseVote`, `AbortElection` | `ElectionWorker` on `start`, the `GetVote` goroutines, the loop over `replyChan`, a failed call, a token on `abortElectionChan` |
| `RequestVote` (stale, same term, new term) | the handler, with both of its `persist()` calls |
| `SendAppendEntries`, `SendInstallSnapshot` | one pass of `sendAppendEntries(j)` up to the call |
| `AppendEntries` (stale, refuse, accept), `AppendEntriesResume` | the handler; the second action is the part after raft.go:381-383, where the lock is released and taken again |
| `HandleAppendEntriesReply`, `HandleInstallSnapshotReply` | the rest of the pass: success, newer term, back-up, too late |
| `InstallSnapshot`, `Snapshot`, `Start` | the handler and the two calls of the service |
| `AdvanceCommit` | the leader's part of `applyLogEntries` |
| `Restart`, `RestartInHandler` | the tester copies the Persister and calls `Make`; the second one copies it between the two `persist()` calls of a handler |
| `Timeout`, `Lose` | the 100 ms timer of `sendAppendEntries`; a lost request or reply |

`log[i]` is the slice `rf.Log`; its first element is the dummy entry at
`SnapshotIndex`. All other indexes are absolute. A snapshot is the sequence of
entries it stands for, so that two servers' snapshots can be compared. `disk[i]`
is what the Persister holds. `rpcs` is the set of calls under way; a reply
record also carries what the caller remembers of its request. A Go panic (index
out of range) puts the server into `down`. Re-slicing beyond the length of
`rf.Log` panics or uncovers what the backing array still holds: the action
chooses.

Deliberate abstractions:

* Timers and notification channels decide only *when* a worker runs; here a
  worker may run whenever its guard holds. What they can do wrong (lost tokens,
  blocked sends) is the subject of `ElectionTimer` (section 4).
* `lastApplied` and `applyCh` are the subject of `ApplyWorker` (section 4). The
  service snapshots only what it was given, hence `index <= commitIndex`.
* A `GetVote` goroutine that first gets the lock after its election is over, and
  a sender goroutine that outlives its term without a call under way, are not
  modelled; a *reply* that outlives its election or term is.
* A reply for which nobody waits any more is dropped at once. Two identical
  requests whose callers have given up are one record. `labrpc` never delivers
  a request twice, and neither does the model.
* The end of an election (raft.go:1195-1205), which takes the lock once more
  after the last reply, is part of the step that counts this reply.
* With `Lossy = FALSE` a call may still be delayed arbitrarily or left unsent.

Five constants turn the faults on and off (`CanRestart`, `Lossy`,
`LateDelivery`, `Preempt`, `SnapshotAt`), so that a property that fails under
one fault can still be checked under the others. `MaxTerm`, `MaxIndex` and
`MaxCalls` bound the instance; every action but `StartElection`, `Start` and
the sends is unbounded by them, and `StaleEntry` uses `MaxTerm` as the range of
terms. Deadlock checking is off because these bounds stop the system.

### 3.2 Runs

All instances have three servers: two of them are the smallest majority that is
not all, and the smallest number where two candidates compete for a third vote.
`Symmetry` permutes them (nothing names a server); `View` drops `nextIndex` and
`matchIndex` of servers that do not lead and what a leader's finished election
had asked and heard, which nothing reads again.

| Run | Faults and bounds | Checks |
|---|---|---|
| `faults` | 2 terms, 1 entry, 1 call, all faults at once: loss, late calls, preempted handlers, snapshots, restarts, crashes inside handlers | `TypeOK`, `ElectionSafety`, `VotesSound`, `PersistedInTime`, `VoteStable`: two candidates compete while a voter forgets what it did not save. `MedianInLog`: a reply arrives at a leader that has compacted its log meanwhile, or was restarted and elected again |
| `commit` | 4 terms, 1 entry per log, 1 call | `LeaderCompleteness`, `StateMachineSafety`: the Figure 8 situation needs a leader of the old entry, a competing one, and its return, and shows with one index |
| `replication` | 3 terms, 2 entries, 1 call | `LogMatching`, `MatchIndexSound`, `Durable`, `CommitCovered`: with two terms a leader never appends after an entry that a follower holds in another term, with three it does; the second entry makes prefixes that are acknowledged separately |

With its one index `faults` can show a median beyond the log, and none below
`SnapshotIndex`. The other side is in the theorem, which has no bounds but no late or
preempted calls, and in `RaftCompaction.cfg` below. Late calls are excluded from the theorem
for a reason: a reply that a cancelled sender of an old term has in
hand already may set `nextIndex` of the leader of a new term to the `XLength` of that
time (raft.go:890), beyond its own log. The reset at the top of `sendAppendEntries`
(raft.go:680) repairs this before the index is used to send, but an acknowledgement in
between would copy it into `matchIndex`. It takes four terms with the same server leading
twice, out of reach of a run; `PROJECT.json` lists it as a hazard.

Two runs state what a comment or the design notes (`log.md`) demand and show
that the code does something else:

| Run | Property | What happens |
|---|---|---|
| `late_call` | `Durable` | `AppendEntries` cuts the log at `PrevLogIndex` even if nothing conflicts (raft.go:393). A short call that its sender gave up on arrives after a longer one; an entry that was acknowledged and committed is left on one server. |
| `snapshot_overlap` | `NoPanic` | The follower compacted on its own beyond `PrevLogIndex`; `rf.Log[idxInLog(PrevLogIndex)]` has a negative index (raft.go:372). |

Configurations beside the runs, for `tlc -config <file> MCRaft`; the first two pass,
the others end with a counterexample:

| File | Property | What it shows |
|---|---|---|
| `RaftCommitted.cfg` | `CommittedStays` | 1 term, 2 entries, 2 calls, all faults but snapshots: an outdated call arrives, or goes on, after a longer one and reaches behind the commit index, and nothing committed is lost. The theorem has this without bounds. |
| `RaftCompaction.cfg` | `MedianInLog` | 2 terms, 2 entries, loss, snapshots at index 2, restarts: a leader is elected after a restart with `commitIndex` 0 below its `SnapshotIndex` and finds entries below it acknowledged. |
| `RaftPreempted.cfg` | `Durable` | `AppendEntries` gives up `rf.mu` at raft.go:381-383 and does not look at the term again. The follower votes in a later term meanwhile, then stores and acknowledges the old leader's entry; the old leader commits what the new one overwrites. |
| `RaftSnapshotDropsLog.cfg` | `CommittedStays` | `InstallSnapshot` compares the term of the old dummy entry (raft.go:563) and drops committed entries after `LastIncludedIndex` that do not conflict; the comment at raft.go:567 wants this on a conflict only. |

In the configurations with a counterexample each fault is the only one, apart from loss
where a second call is needed to reach the state.

### 3.3 Proofs

`RaftProof` proves, for every finite set of servers, every bound and with every
fault switched on or off:

| Theorem | Statement |
|---|---|
| `TypeCorrect` | `Spec => [](TypeOK /\ SnapshotsWhole)` |
| `PersistedCorrect` | `Spec => []PersistedInTime` |
| `VoteStableCorrect` | `Spec => VoteStable` |
| `VotesCorrect` | `Spec => []VotesSound` |
| `ElectionSafetyCorrect` | `Spec => []ElectionSafety` |

Assumptions: `ServerAssumption` (the peers are a finite set, `Nil` is not one of
them), `CommandAssumption` (`Nil` is no command) and `BoundAssumption` (the
bounds are naturals, the switches Booleans).

The argument. The inductive invariant is `TypeOK /\ SnapshotsWhole /\
PersistedInTime /\ VotesSound`.

* `TypeOK` alone is not inductive: `InstallSnapshot` trims the log by
  `LastIncludedIndex - SnapshotIndex`, and the dummy entry survives this only
  because a snapshot under way never covers less than nothing and has exactly as
  many entries as its index says. `SnapshotsWhole` states this for memory, disk
  and messages.
* `PersistedInTime` is needed for restarts: a server comes back with what the
  Persister holds, so a vote is remembered only if it was saved. In
  `RestartInHandler` the new term is on disk and the vote is not; the proof goes
  through because the reply is never sent.
* `ElectionSafety` says nothing about candidates and is not inductive.
  `VotesSound` talks of every vote counted or under way: the voter remembers it
  or has moved to a later term, one voter names one candidate per term, and a
  leader has a majority. Two leaders of a term then share a voter
  (`MajorityDecides`), who chose one candidate.
* `VoteStable` is an action property and follows from the same invariant, one
  case per action.

The first lemmas of `RaftProof` are about maxima and minima of finite sets of
integers, which `Median`, `findFirstIndex` and `findLastIndex` need.

`SafetyProof` is about the log. Each theorem assumes those faults away that break
its property, and no others:

| Theorem | Assumes | Statement |
|---|---|---|
| `CommittedStaysCorrect` | `SnapshotAt = {}` | `Spec => CommittedStays` |
| `SafeCorrect` | `Calm` | `Spec => []SafeInv`, the inductive invariant |
| `LogMatchingCorrect` | `Calm` | `Spec => []LogMatching` |
| `MatchIndexCorrect` | `Calm` | `Spec => []MatchIndexSound` |
| `CommitCoveredCorrect` | `Calm` | `Spec => []CommitCovered` |
| `DurableCorrect` | `Calm` | `Spec => []Durable` |
| `StateMachineSafetyCorrect` | `Calm` | `Spec => []StateMachineSafety` |
| `LeaderCompletenessCorrect` | `Calm` | `Spec => []LeaderCompleteness` |
| `MedianInLogCorrect` | `LateDelivery = FALSE`, `Preempt = FALSE` | `Spec => []MedianInLog` |

`Calm` is `LateDelivery = FALSE`, `Preempt = FALSE`, `SnapshotAt = {}` and an odd number
of servers. Messages may still be lost, delayed and reordered (a call of an old
leader may arrive in any later term), servers may be restarted at any time and
inside a handler, and terms, entries and calls are not bounded by more than
naturals. Each part of `Calm` is there for a reason in the code:

* *Late calls*: run `late_call` violates `Durable`. With `LateDelivery = FALSE` a
  sender waits for the answer of its call or for its loss before it sends the next,
  as it does unless the answer takes more than 100 ms.
* *Preemption*: `RaftPreempted.cfg` violates `Durable`.
* *Snapshots*: `RaftSnapshotDropsLog.cfg` violates `CommittedStays`, and after that a
  majority need not hold what was committed.
* *Odd number*: a leader commits up to `tmpMatchIndex[len/2]` of the sorted slice
  (raft.go:478), which n - n/2 servers have reached: a majority of an odd group, and
  half of an even one. All groups of the tests are odd.

The argument for `SafeInv`, part by part:

* `CallsInv`: who calls `AppendEntries` in a term has won its election (`Elected`: a
  majority voted for it in that term or is beyond it), and goes on having won it
  after it has been deposed or restarted. So a term has one sender.
* `LeaderOwns`, `CallOwns`, `TermsInv`: the entries of a term, in any log and in any call
  under way, come from the log of that term's leader, and no term in a log is
  ahead of its server's term.
* `Matching`: two *views* (logs, or the pieces of a log that calls carry) that agree
  on the term at a position agree on everything before it that both reach.
* `ProgressInv`, `AckInv`: `nextIndex` is within the log, and what a follower has
  acknowledged to the leader of its term, in `matchIndex` or in a reply under way, is
  in its log, as long as it stays in the term. This is where a late call would
  cut off what was acknowledged.
* `LeaderSecure`: an entry of the leader's own term is blocked or secure. Blocked: a
  majority has left the term without acknowledging it, so it will never be
  counted. Secure: the servers that acknowledged it hold it, and every log, call,
  vote and leader beyond its term has it. The disjunction is needed because a server
  becomes a candidate's voter before it is known whether the leader will count it.
* `CommitInv`: every `commitIndex`, in a server or in a call, is of an entry that is
  secure with a majority. Hence Figure 8: `applyLogEntries` commits only an entry of
  the current term (raft.go:479), which is secure and not blocked.

The properties follow: `Durable` is the majority of `CommitInv`, `LeaderCompleteness`
its part about leaders, and `StateMachineSafety` follows from both with `Matching`.
`SafeInv` is not kept as a run; TLC finds it true in all 1.08 million states of three
servers with two terms, two entries, one call, losses and restarts (in a module that
extends `SafetyProof`).

`MedianInLogCorrect` has an invariant of its own, `IndexInv`, because snapshots are allowed
in it. The parts of `CallsInv` about senders are needed again and hold with snapshots:
a server that becomes leader has no call of its new term under way. The rest,
`LeaderIndexes`, says of each leader

* that `nextIndex` is within the log, and `matchIndex` is 0 or `Bounded`: inside the log,
  and not below the snapshot unless the snapshot is covered by `commitIndex`. The
  exception is needed both ways: after a restart `commitIndex` is 0 and the snapshot is
  not covered, so an index below it would be looked up; later the leader compacts
  beyond what old replies name, and these are not looked up because they are not
  beyond `commitIndex`;
* that its calls, and the replies to them with their `XIndex` and `XLength`, keep this. A
  follower never answers with more than `PrevLogIndex`, except for the 1 of
  `findFirstIndex`, and the leader's log does not shrink while it leads (`Grown`).

## 4. Inside one Raft server

`Raft` lets a worker run whenever its guard holds. Whether it ever runs again,
and what happens to what it says, is decided by goroutines, one-slot channels
and `rf.mu` inside each server. Two modules look at one server, with everything
that other servers may send as its environment.

### 4.1 `ElectionTimer`

| Definitions | Code |
|---|---|
| `TickerReset`, `TickerExpired`, `TickerLook`, `TickerAbort`, `TickerStart` | `ticker`: the two cases of its select, the look at the role, the two sends that do not block |
| `WorkerStart` to `WorkerGivesUp` | `ElectionWorker`, cut where it takes `rf.mu` or waits for a channel |
| `GetVote`, `GotVote` | a `GetVote` goroutine up to its call, and from its return on |
| `AppendEntries`, `RequestVote`, `InstallSnapshot`, `StepDown`, `Kill` | the handlers and the others as far as they touch role, term and timer |

A mutex and channels of one slot are modelled as they are; `mu` is not free only
while `InstallSnapshot` blocks on `rst`, because no other critical section can
block. Terms are reduced to `moved`: has the term changed since the election began?

Run `timer`: 3 peers, so that a majority needs one answer of two and an
election can be won, lost and left half-way. Fairness: every goroutine runs,
timers expire, `Call` returns; steps that take `rf.mu` have strong fairness, since
`sync.Mutex` hands itself to a waiter that starves. Nobody is made to send anything.

`Stands`, `LockReleased` and `KilledEnds` name the states in which the code does
stop. For each of them there is a configuration beside the run, for `tlc -config <file>
ElectionTimer`, that states what the comments at that place promise, without the
exception, and ends with a counterexample:

* `TakenForDead`: `ticker` saw a Candidate, the election ended, and the abort sent
  then ends the worker, which waits for `start` and returns (raft.go:1075), although
  raft.go:1240 speaks of an election in progress and raft.go:1247 of a new one that
  follows. `TimerLateAbort.cfg`, property `AbortStartsAnew`.
* `WaitsForNobody`: the role changed before the `GetVote`s took the lock, they return
  without a reply, and `ticker` aborts only Candidates (raft.go:1043); the
  send on `start` (raft.go:1247) then starts nothing. `TimerNoReply.cfg`, property
  `ExpiryStartsAnew`.
* `Deadlocked`: `InstallSnapshot` sends on a full `rst` with `rf.mu` held
  (raft.go:549) and `ticker` waits for `rf.mu` or has ended; raft.go:1018-1019
  demands that every long-running loop looks at `killed()`. `TimerKilled.cfg`, property
  `KilledStops`.

`TimerProof` proves `TypeCorrect` and `CandidateCountsCorrect` for any number of peers
(`PeersAssumption`). `TypeOK` holds the bound that matters here: `replyChan` has room for
all answers of an election, so no `GetVote` goroutine blocks. It is not inductive; a
reply that was received and is not counted yet keeps its place (`ReplyRoom`).
`CandidateCounts` needs that the term changes only together with the role
(`MovedMeansDown`), so that an election given up leaves no Candidate behind.

### 4.2 `ApplyWorker`

| Definitions | Code |
|---|---|
| `WorkerWake`, `WorkerLock`, `Pass`, `Entries`, `WorkerSent` | `applyLogEntries`: the select, the snapshot that goes first, the choice by role, the loop over entries, and its continuation after a send |
| `TryApply`, `WorkerAbort` | `tryApply`: the send meets the reader, or `killCh` |
| `ServiceCheck`, `ServiceSnapshot` | `applier` and `applierSnap` with `checkLogs`, and the call of `Snapshot` |
| `AppendEntries`, `InstallSnapshot`, `ChangeRole`, `Start`, `SeeLeader`, `Notify` | the handlers and goroutines that move the indexes or notify |
| `RfsrvKill`, `RaftKill`, `RaftKillReturn`, `Replace`, `ReplacementApplies` | the tester stops the server and puts another into `ts.srvs` |

An entry is its index. Which quorum a leader counts is arbitrary. A panic or
`log.Fatalf` of the test process is a value of `fatal`.

Run `apply`: 4 indexes and a snapshot interval of 2 (10 in the code), so that two
snapshots and entries between and after them exist. Fairness: the worker, the reader
and a `Kill` that has begun go on. `InOrder` and `Forward` hold without exception for
a server's own messages. `Delivers` excepts what the code does not deliver: a leader
without a newly committed entry of its own term (raft.go:479), entries that
`InstallSnapshot` threw away (`commitIndex` goes back at raft.go:399, or the process
panics at raft.go:389 or raft.go:461), a worker that holds `rf.mu` for ever, a killed
server. `rs.raft` may be nil at server.go:155, which ends the test process.

`ApplyProof` proves `InOrderCorrect` and `ForwardCorrect` for any log, any number of
snapshots and any interval. `InOrder` speaks of a check that failed and is far from
inductive. The invariant relates `lastApplied` to what the service has been told
(`Told`) at each place where the worker may stand. At rest the two are equal,
or both are within a snapshot that is still to be sent (`RestInv`: the window
that `InstallSnapshot` opens while the worker does not hold `rf.mu`). While a snapshot is
sent nothing beyond it has been told (`SnapshotInv`), and while an entry is sent it is
the next one, and counted already (`EntryInv`).

Run `apply_stuck` violates `SkipsToSnapshot`: a snapshot arrives while an entry below it is
being sent; the `continue` that the comment at raft.go:454-455 explains then repeats with
`rf.mu` held, and nothing can change what the loop tests.

Two configurations beside the runs, for `tlc -config <file> ApplyWorker`, end with a
counterexample to what comments and notes say:

| File | Property | What happens |
|---|---|---|
| `ApplyStale.cfg` | `NoStaleMessage` | `select` may send although `killCh` is closed, so the order check of the replacement sees a message of the killed server, which the comment at raft.go:412-416 rules out. |
| `ApplyOutOfRange.cfg` | `ApplyInRange` | A snapshot that arrives during a send drops entries up to `commitIndex`; the loop goes on to the next of them and indexes beyond `rf.Log` (raft.go:461), although log.md:78 asks for a second look. |

## 5. The key/value service and the lock

### 5.1 What the modules say

| Definition | Code |
|---|---|
| `KvClerk!Get`, `KvClerk!Put` | the handlers in `kvsrv1/server.go`, each under `kv.mu` |
| `StartGet`, `StartPut`, `Lose`, `Verdict`, `Return` | `Clerk.Get` and `Clerk.Put`: the first send, the resend after `Call` returned false, the answer |
| `KvModel` | the sequential model in `models1/kv.go` that the porcupine checker uses; `StepGet`, `StepPut`, `Outputs` are its `Step` function |
| `StepPutNoKey` | the answer `ErrNoKey` of `kvsrv1/server.go`, which that `Step` function does not know |
| `Acquire`, `AcquireGot`, `AcquirePut` | the loop of `Lock.Acquire`: the first `Get`, what follows a `Get`, what follows a `Put` |
| `Release`, `ReleaseGot`, `ReleasePut` | the loop of `Lock.Release` in the same way |
| `LockService` | what a lock promises; there is no code for it |

Abstractions:

* Version 0 stands for a key that is not in `kvStore`: the server never stores
  version 0, since a `Put` that creates a key writes version 1.
* `Lose` is `Call` returning false. `labrpc` drops a request before it is
  delivered or a reply after the handler ran; a Clerk cannot tell the two apart.
  It never delivers a request that it has reported as lost.
* `times` counts how often the server performed the present `Put`. It is a
  history variable that no guard reads.
* Versions are natural numbers; the code's `uint64` does not wrap in any run a
  machine could do.
* A client's random `myID` is the client itself: two clients with one id would
  share the lock, which happens with the probability of a collision of
  `RandValue(8)`.
* The sleeps between two calls belong to the call that follows.
* `StepPut` is `models1/kv.go` to the letter: a `Put` with a version on a key that does
  not exist gets `ErrVersion` or `ErrMaybe` there. `server.go` answers `ErrNoKey`, as its
  comment and that of `client.go` say, so the specification has `StepPutNoKey` as a
  step of its own (no test passes such a call to the checker). An operation that
  changed nothing may be tried again in the model, which a resent `Get` or a
  refused `Put` needs; the last try before the return is the one that counts.

### 5.2 Runs

| Run | Instance | Checks |
|---|---|---|
| `lock` | 2 clients, one key, nobody starts to acquire at version 5 | `VerdictSound`, `Linearizable`, `MutualExclusion`, `ImplementsLock`, `Available`, `ReleaseReturns` |

Two Clerks are enough for a `Put` of another client between a `Put` and its
resend. The versions that clients pass go up to 7, since a client that began before
the bound goes on. Keys are independent, in the code and in `KvClerk`; Clerks that
pass any version to `Put` (`KvClerk!Next`) are what the theorems are about. A lock that is taken
and given back raises the version by two, so version 5 lets two clients each
take the lock, with one of them taking it twice. In the lock run nobody starts
to acquire at the bound, so the system stops there and deadlock is not checked;
the theorems need no bound.

Fairness. `labrpc` drops one request and one reply in ten, independently, so a
call repeated for ever is delivered and answered in the end: strong fairness of
the handlers and of `Return`, which `Lose` disables again and again. A client's
own steps get weak fairness, because nothing disables them. Nothing makes the
application call `Release`, so `Available` only says that *somebody* gets a
wanted lock; the code gives no client a turn, and no such property is claimed.

### 5.3 Proofs (`LockProof`)

| Theorem | Statement |
|---|---|
| `KvCorrect` | `Spec => []KvInv` |
| `VerdictCorrect` | `Spec => []VerdictSound` |
| `LinearizableCorrect` | `Spec => Linearizable` |
| `LockCorrect` | `LockSpec => []LockInv` |
| `MutualExclusionCorrect` | `LockSpec => []MutualExclusion` |
| `ImplementsLockCorrect` | `LockSpec => ImplementsLock` |

They hold for any sets of clients, keys, values and versions. Assumptions:
`VersionAssumption` (versions are naturals) and `LockAssumption` (the lock's name
is a key, client ids are values, the empty string is a value and no id).

* `KvInv`. `VerdictSound` looks only at calls that returned. What makes it true
  is that a performed `Put` has raised the version of its key above its own, so
  it cannot be performed again (`PerformedOnce`), and that a first reply
  of `ErrVersion` or `ErrNoKey` means that nothing happened (`RepliesTrue`).
* `Linearizable` maps a `Put` that was performed, and is being sent again, to an
  operation that has its `OK` already: a resend and the `ErrVersion` it earns are
  stutters, and `ErrMaybe` is one of the answers the model may give.
* `LockInv` says for each place where a client may wait what its last reply still
  tells: what was read is true unless the version has changed since, what a
  client has read of itself stays true, a `Put` that Acquire sends can only
  succeed on a free lock, and the `Put` that Release sends succeeds the first
  time that it arrives. Mutual exclusion alone is not inductive: a client about
  to write its name on the word of an old `Get` has to be known to fail.
* `ImplementsLock` maps the lock's holder to the name in the store, so the lock
  is granted at the server's `Put`, not when Acquire learns of it.

`Available` and `ReleaseReturns`, which also say that resent calls return, need fairness and are checked by
TLC only.

## 6. MapReduce

### 6.1 What the module says

| Action | Code |
|---|---|
| `GetTask` (`Assign`, `Wait`, `Dismiss`) | the handler, and what the worker does with "wait" and "done" |
| `FinishTask` (`Counted`, `MarkDone`) | the handler |
| `Expire`, `TimeOut`, `Cancel` | `TaskMonitor`: `select` takes the timer; the rest of that branch, under `c.mu`; `select` takes the closed channel |
| `MainReturns` | `mrcoordinator`'s main sees `Done` |
| `MapRename`, `ReduceRead`, `ReduceRename` | the two branches of `Worker` |
| `Unanswered`, `Crash` | `log.Fatal` once the coordinator is gone; a crash anywhere |

* `MapTask` and `ReduceTask` are the two task slices. `GetTask` takes the first
  idle task; the module takes any, and renames in any order, which includes what
  the code does.
* A cancel channel is closed exactly when its task is removed from the map of
  running tasks, in one critical section, so `Closed` is defined and not stored.
* If the loop of `GetTask` found no task its reply would name none; `AssignSound`
  shows that this does not happen, so there is no action for it.
* `Done` reads the counters without `c.mu`. They only grow; a stale read delays
  the end and does nothing else, which an action that may happen later covers.
* Temporary files belong to one attempt (see the hazard about `timeStr`). Map and
  reduce functions are deterministic, so a file written twice is the same file.
* Calls travel over a Unix socket and are synchronous: handler and return are
  one action; the delay between them is a delay of the worker's next action.

### 6.2 Run and fairness

`mapreduce` has 2 map tasks, 2 reduce tasks (two renames to crash between), 2
workers one of which may crash, and `MaxSlow = 2` time-outs of attempts whose
worker is alive, so that one task is attempted three times. It checks
`AssignSound`, `TimeOutOwn`, `ImplementsJob` and `JobFinishes`. Deadlock is not
checked: the job ends, and `JobFinishes` says that it does.

`JobFinishes` assumes weak fairness of every live worker, of main, of the
time-out branch, and of timers of attempts that nobody works on: operating
system processes, goroutines and timers. It needs a worker that does not crash,
and that only finitely many attempts are too slow: a report that arrives after
its time-out is thrown away.

### 6.3 Proofs

`JobCorrect` (`Spec => []JobInv`), `AssignCorrect`, `TimeOutCorrect` and
`ImplementsJobCorrect` hold for any finite sets of tasks, any workers and any
`MaxSlow` (`TaskAssumption`, `WorkerAssumption`). `JobInv` has three parts:

* `CountsExact`: the counters are the numbers of done tasks, and no done task is
  running. From this the arithmetic of `GetTask` finds an idle task (`CountLeft`).
* `MonitorsOwn`: an unfinished task with a monitor is running, and has one
  monitor. This is why `TaskMonitor` need not compare channels: a task leaves the
  map only through its own monitor or through `FinishTask`, which marks it done.
* `FilesThere` and `WorkSound`: files of counted tasks exist, a worker at a reduce
  task started after the last map was counted. `ImplementsJob` alone is not
  inductive, since `Job` knows nothing of workers that have read and not written.

## 7. Shard configurations, network and server groups

### 7.1 `ShardCfg`

`JoinBalance` and `LeaveBalance` with one action per iteration of their loops:
`JoinOne` and `LeaveOne` in any order of the arguments (a Go map), `Assign` and
`Move` of `Rebalance` with `Most` and `Least` as `analyze` finds them. An operation
that is refused leaves the groups as it has made them. The run `shardcfg` has 5
shards and 4 groups, two of which share a server, and up to 4 new configurations:
shards divide evenly over neither 2 nor 3 groups, and a group can leave, join
again and be refused. It checks `Balanced` (what `CheckConfig` demands, also after
refused operations), `MovedOnce` and, with weak fairness of the loop, `Completes`.

`ShardProof` proves `BalancedCorrect` and `MovedOnceCorrect` for any number of shards and
any groups. `Balanced` holds at the end because of how the loops end; its inductive
form `ShardInv` says that all shards before the loop's index, and all of them in the
second loop, have a group of the configuration (`Assigned`). `MovedOnce` needs that a
group which was given a shard has at most one more than any other from then on
(`GivenToLeast`): it got the shard when it had the least, and the least only grows.
So it is never a group that `Move` takes from.

### 7.2 `Labrpc` and `ServerGroup`

`Labrpc` is a call on its way through `processReq`: `CallSend`, `ReadEndnameInfo`,
`DropRequest`, `Dispatch`, `Handle`, `TakeReply`, `Poll`, `Check`, `TimeOut`. A handler
runs in a goroutine of its own and may outlive its call or never return. `ServerGroup`
extends it with the test: `connect` and `disconnect` as the code's loops over ends,
`Partition` and `ConnectAll` as loops with one iteration an action (`BeginLoop`,
`Iterate`), `ShutdownServer` in its three steps, `StartServer` and `restart`. Calls go on
between the iterations. Within one an end is switched at most once, so that a call
cannot tell it from the switches one after another. `disk[s][k]` is the Persister of the k-th instance of server `s`.
`broken` is a history of each call that no guard reads. Delays are the freedom to be
late. What a call returns is decided at `Check`; a reply that `longReordering` holds
back afterwards is already `true`, and since the properties are invariants they
speak of the time until it arrives, too.

The run `network` has 3 servers (two sides of a partition, one of them with a link
inside; `PartitionExact` is about the last iteration), one of which is shut down and restarted, a client, and one call: calls do
not interact except through handlers. Fairness: the goroutines of the network run;
handlers and the test need not.

### 7.3 Proofs

`ServerGroupProof` proves `ReplyMeansSavedAlways`, `FalseMeansBrokenAlways`,
`LinksSoundAlways` and `PartitionExactAlways` for any servers, clients, calls and restarts (`NetworkAssumption`, `CanStopAssumption`).
The first two are not inductive: `Check` trusts `isServerDead`, which compares instances. The
invariant `IInv` adds that only the present instance is registered, and none between
`DeleteServer` and the next start (`Registered`); that a handler that returned left its
effect in the Persister of the instance it was sent to (`Effect`); where a call's
handler can be while the call is on its way (`Sent`); and that a call that found no
server is broken (`UnreachedBroken`). A positive answer then comes from the instance
whose Persister is still the one that counts, because `ShutdownServer` deletes the
server before it copies.

The links have an invariant of their own, `LinkInv`. A link needs two connected servers
(`LinksConnected`), links are symmetric except for a server that was just started and
that `ConnectAll` has not reached (`Symmetric`), and no end of a future instance is
enabled (`NoFuture`), which is why new ends start without links. Inside a loop
(`LoopInv`) two servers of one side that have both been visited are linked, and
servers of different sides are not once one of them has been visited. A later
iteration keeps this, because `connect` is only given the server's own side.

## 8. What is only model-checked, and what is left out

* Every safety invariant and action property of the passing runs is also proved. The log
  of Raft only under the assumptions of section 3.3: what the theorems say of it with
  snapshots is `MedianInLog`, and nothing is proved or checked of it with an even number
  of servers.
* What the violation runs violate is a demand of the repository's comments and notes, so
  it is not proved, except under the conditions that exclude the violation.
* Liveness under fairness is out of the reach of the prover and stays with TLC:
  `Stands`, `LockReleased`, `KilledEnds`, `Delivers`, `KillEnds`, `Available`,
  `ReleaseReturns`, `JobFinishes`, `Completes` and `CallReturns`. So does everything about `ENABLED`, and what a recursive
  definition computes for every input (no module has one).
* Not modelled: `labgob` (reflection over Go types), of `tester1` the annotations,
  the configuration's bookkeeping and `Clnt.ConnectTo`/`Disconnect`, of `raft1` the
  checks its tests make between operations, `kvtest1`, the command-line drivers and MapReduce plugins, and the
  skeletons `kvraft1`, `shardkv1/client.go`, `shardctrler`, `shardgrp`, whose
  methods are empty. `PROJECT.json` ("components") has the reasons one by one.
