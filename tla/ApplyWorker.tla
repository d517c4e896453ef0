---------------------------- MODULE ApplyWorker ----------------------------
(***************************************************************************)
(* How committed entries reach the service above one Raft server: the      *)
(* goroutine applyLogEntries (raft1/raft.go), which sends on applyCh with  *)
(* rf.mu released, and the goroutine of the rfsrv (raft1/server.go) that   *)
(* reads the channel, checks the order and calls Snapshot.  Between them   *)
(* come InstallSnapshot, AppendEntries and changes of role, and the        *)
(* tester's Kill and replacement of the server.                            *)
(*                                                                         *)
(* An entry is its index; Raft says which command an index holds.  What    *)
(* other servers send is arbitrary within the conditions of the handlers,  *)
(* and so are the acknowledgements a leader counts.  A critical section of *)
(* rf.mu is one action; the mutex is held longer only by the worker that   *)
(* repeats "continue" (pc "spin"), which never lets go of it.              *)
(***************************************************************************)
EXTENDS Integers, FiniteSetsExt

CONSTANTS MaxIndex,   \* bound: the last index of any log
          Interval    \* SnapShotInterval

ASSUME IndexAssumption == MaxIndex \in Nat \ {0} /\ Interval \in Nat \ {0}

VARIABLES
    leader,         \* rf.state = Leader
    lastIndex,      \* rf.Loglen() - 1
    commitIndex, lastApplied, snapshotIndex,
    notify,         \* is the slot of notifyApply full?
    beat,           \* a goroutine that saw a leader has yet to notify
    worker, msg,    \* applyLogEntries: where it is, what it sends
    skipped,        \* its last pass found a leader and left committed entries
    snap,           \* does the service take snapshots (applierSnap)?
    service, got,   \* the reader of applyCh: where it is, the index it handles
    applied,        \* the lastApplied of the rfsrv
    logs,           \* ts.srvs[me].logs holds the indices up to this one
    kill,           \* how far the tester has got in shutting the server down
    saved,          \* SnapshotIndex in the tester's copy of the Persister
    fatal           \* why the test process has ended, or "no"

log == <<lastIndex, commitIndex, lastApplied, snapshotIndex>>
reader == <<service, got, applied, logs>>
tester == <<snap, kill, saved>>
vars == <<leader, lastIndex, commitIndex, lastApplied, snapshotIndex, notify, beat,
          worker, msg, skipped, snap, service, got, applied, logs, kill, saved, fatal>>

\* The indices after which the service makes a snapshot.
Due(i) == (i + 1) % Interval = 0
Snapshots == {i \in 1..MaxIndex : Due(i)}

Running == fatal = "no"
\* rf.mu can be taken.
Free == worker # "spin"
killed == kill \in {"closed", "done", "replaced"}

\* Make, readPersist and newRfsrv: a new server, or one restarted from what
\* the Persister holds.  The service reads a saved snapshot by itself.
Init ==
    /\ snap \in BOOLEAN
    /\ snapshotIndex \in {0} \union (IF snap THEN Snapshots ELSE {})
    /\ lastIndex \in snapshotIndex..MaxIndex
    /\ leader = FALSE /\ commitIndex = 0 /\ lastApplied = 0
    /\ notify = (snapshotIndex > 0) /\ beat = FALSE
    /\ worker = "wait" /\ msg = [snapshot |-> FALSE, index |-> 0] /\ skipped = FALSE
    /\ service = "idle" /\ got = 0
    /\ applied = snapshotIndex /\ logs = snapshotIndex
    /\ kill = "no" /\ saved = 0 /\ fatal = "no"

-----------------------------------------------------------------------------
(* applyLogEntries.                                                        *)

\* The head of the loop over notifications.
Again == worker' = IF killed THEN "ended" ELSE "wait"

\* Mutant: a waiting worker does not hear of Kill.
WorkerWakeDeaf ==
    /\ worker = "wait" /\ notify
    /\ notify' = FALSE /\ worker' = "lock"
    /\ UNCHANGED <<leader, log, beat, msg, skipped, reader, tester, fatal>>

WorkerWake ==
    /\ worker = "wait"
    /\ \/ killed /\ worker' = "ended" /\ UNCHANGED notify
       \/ notify /\ notify' = FALSE /\ worker' = "lock"
    /\ UNCHANGED <<leader, log, beat, msg, skipped, reader, tester, fatal>>

Send(snapshot, index) ==
    /\ worker' = "send"
    /\ msg' = [snapshot |-> snapshot, index |-> index]

\* The head of the loop over the entries, with rf.mu held.
Entries(last, commit) ==
    \/ /\ last >= commit
       /\ Again /\ lastApplied' = last
       /\ UNCHANGED <<msg, fatal>>
    \/ /\ last < commit /\ last < snapshotIndex
       /\ worker' = "spin" /\ lastApplied' = last
       /\ UNCHANGED <<msg, fatal>>
    \/ /\ last < commit /\ last >= snapshotIndex
       /\ lastApplied' = last + 1
       /\ IF last < lastIndex THEN Send(FALSE, last + 1) /\ UNCHANGED fatal
          ELSE fatal' = "outOfRange" /\ UNCHANGED <<worker, msg>>

\* From the test of rf.state on, with lastApplied = last: a follower sends what
\* is committed, a leader only when more of its own term has become committed.
Pass(last) ==
    \/ /\ ~leader
       /\ Entries(last, commitIndex)
       /\ skipped' = FALSE /\ UNCHANGED commitIndex
    \/ /\ leader
       /\ \E median \in Max({commitIndex + 1, snapshotIndex})..lastIndex :
             commitIndex' = median /\ Entries(last, median)
       /\ skipped' = FALSE
    \/ /\ leader
       /\ Again
       /\ lastApplied' = last /\ skipped' = (last < commitIndex)
       /\ UNCHANGED <<commitIndex, msg, fatal>>

\* Mutant: the snapshot is sent even when the service is past it.
WorkerLockResends ==
    /\ worker = "lock"
    /\ IF snapshotIndex > 0
       THEN Send(TRUE, snapshotIndex) /\ UNCHANGED <<lastApplied, commitIndex, skipped, fatal>>
       ELSE Pass(lastApplied)
    /\ UNCHANGED <<leader, lastIndex, snapshotIndex, notify, beat, reader, tester>>

\* A snapshot the service does not have goes first.
WorkerLock ==
    /\ worker = "lock"
    /\ IF lastApplied < snapshotIndex
       THEN Send(TRUE, snapshotIndex) /\ UNCHANGED <<lastApplied, commitIndex, skipped, fatal>>
       ELSE Pass(lastApplied)
    /\ UNCHANGED <<leader, lastIndex, snapshotIndex, notify, beat, reader, tester>>

\* tryApply gives up.
WorkerAbort ==
    /\ worker = "send" /\ killed
    /\ worker' = "ended"
    /\ UNCHANGED <<leader, log, notify, beat, msg, skipped, reader, tester, fatal>>

\* tryApply returned TRUE; rf.mu is taken again.
WorkerSent ==
    /\ worker = "sent"
    /\ IF msg.snapshot THEN Pass(Max({lastApplied, msg.index}))
       ELSE Entries(lastApplied, commitIndex) /\ UNCHANGED <<commitIndex, skipped>>
    /\ UNCHANGED <<leader, lastIndex, snapshotIndex, notify, beat, reader, tester>>

\* The send on applyCh meets the receive; a closed killCh does not prevent it,
\* since select takes either of two ready cases.  A snapshot is read at once.
TryApply ==
    /\ worker = "send" /\ service = "idle"
    /\ worker' = "sent"
    /\ IF msg.snapshot
       THEN /\ applied' = IF snap THEN msg.index ELSE applied
            /\ logs' = IF snap /\ kill # "replaced" THEN msg.index ELSE logs
            /\ UNCHANGED <<service, got>>
       ELSE service' = "check" /\ got' = msg.index /\ UNCHANGED <<applied, logs>>
    /\ UNCHANGED <<leader, log, notify, beat, msg, skipped, tester, fatal>>

WorkerStep == WorkerWake \/ WorkerLock \/ WorkerAbort \/ WorkerSent \/ TryApply

-----------------------------------------------------------------------------
(* The reader of applyCh: applier, or applierSnap with snapshots.          *)

\* checkLogs looks for the previous index in ts.srvs[me], which is the
\* replacement when the server has been replaced.  An error is reported at once
\* and not after the snapshot that may be due; the process ends either way.
ServiceCheck ==
    /\ service = "check"
    /\ LET inOrder == (snap => got = applied + 1) /\ (got > 1 => got - 1 <= logs)
       IN  fatal' = IF inOrder THEN fatal ELSE "outOfOrder"
    /\ logs' = Max({logs, got}) /\ applied' = got
    /\ service' = IF snap /\ Due(got) THEN "snapshot" ELSE "idle"
    /\ UNCHANGED <<leader, log, notify, beat, worker, msg, skipped, got, tester>>

\* rs.raft.Snapshot, where rs.raft may be gone.
ServiceSnapshot ==
    /\ service = "snapshot"
    /\ IF kill # "no"
       THEN fatal' = "nilRaft" /\ UNCHANGED <<log, service>>
       ELSE /\ Free
            /\ IF snapshotIndex >= got \/ got > lastIndex
               THEN UNCHANGED log
               ELSE /\ snapshotIndex' = got
                    /\ lastApplied' = Max({lastApplied, got})
                    /\ commitIndex' = Max({commitIndex, got})
                    /\ UNCHANGED lastIndex
            /\ service' = "idle" /\ UNCHANGED fatal
    /\ UNCHANGED <<leader, notify, beat, worker, msg, skipped, got, applied, logs, tester>>

ServiceStep == ServiceCheck \/ ServiceSnapshot

-----------------------------------------------------------------------------
(* The RPC handlers and the rest of the server.                            *)

\* Mutant: the worker is not told.
AppendEntriesQuietly ==
    /\ Free /\ leader' = FALSE
    /\ \/ UNCHANGED <<lastIndex, fatal>>
       \/ \E last \in (Max({commitIndex, snapshotIndex}) + 1)..MaxIndex :
             IF commitIndex > lastIndex THEN fatal' = "sliceBounds" /\ UNCHANGED lastIndex
             ELSE lastIndex' = last /\ UNCHANGED fatal
    /\ \E c \in commitIndex..MaxIndex :
          IF c > commitIndex THEN commitIndex' = Min({c, lastIndex'}) ELSE UNCHANGED commitIndex
    /\ UNCHANGED <<lastApplied, snapshotIndex, notify, beat, worker, msg, skipped, reader, tester>>

\* Entries that pass the checks replace the log above commitIndex; LeaderCommit
\* is c.  The slice up to commitIndex is out of bounds when InstallSnapshot has
\* cut the log below it.
AppendEntries ==
    /\ Free /\ leader' = FALSE
    /\ \/ UNCHANGED <<lastIndex, fatal>>
       \/ \E last \in (Max({commitIndex, snapshotIndex}) + 1)..MaxIndex :
             IF commitIndex > lastIndex THEN fatal' = "sliceBounds" /\ UNCHANGED lastIndex
             ELSE lastIndex' = last /\ UNCHANGED fatal
    /\ \E c \in commitIndex..MaxIndex :
          IF c > commitIndex
          THEN commitIndex' = Min({c, lastIndex'}) /\ notify' = TRUE
          ELSE UNCHANGED <<commitIndex, notify>>
    /\ UNCHANGED <<lastApplied, snapshotIndex, beat, worker, msg, skipped, reader, tester>>

\* Mutant: the snapshot counts as applied as soon as it has arrived.
InstallSnapshotApplies ==
    /\ snap /\ Free /\ leader' = FALSE /\ notify' = TRUE
    /\ \E k \in Snapshots :
          /\ k > snapshotIndex
          /\ lastIndex' \in {k, Max({k, lastIndex})}
          /\ snapshotIndex' = k
          /\ commitIndex' = Max({commitIndex, k})
          /\ lastApplied' = Max({lastApplied, k})
    /\ UNCHANGED <<beat, worker, msg, skipped, reader, tester, fatal>>

\* A snapshot up to k arrives.  A log that goes further is kept or, when the
\* terms of the two snapshots differ, thrown away.
InstallSnapshot ==
    /\ snap /\ Free /\ leader' = FALSE /\ notify' = TRUE
    /\ \E k \in Snapshots :
          IF k <= snapshotIndex THEN UNCHANGED <<lastIndex, snapshotIndex, commitIndex>>
          ELSE /\ lastIndex' \in {k, Max({k, lastIndex})}
               /\ snapshotIndex' = k
               /\ commitIndex' = Max({commitIndex, k})
    /\ UNCHANGED <<lastApplied, beat, worker, msg, skipped, reader, tester, fatal>>

\* ElectionWorker wins; a later term is seen (RequestVote or a reply).
ChangeRole ==
    /\ Free
    /\ leader' = ~leader
    /\ UNCHANGED <<log, notify, beat, worker, msg, skipped, reader, tester, fatal>>

\* A leader's Start.
Start ==
    /\ Free /\ leader /\ ~killed /\ lastIndex < MaxIndex
    /\ lastIndex' = lastIndex + 1
    /\ UNCHANGED <<leader, commitIndex, lastApplied, snapshotIndex, notify, beat, worker, msg,
                   skipped, reader, tester, fatal>>

\* HeartbeatMaintain, boardcastLogEntries and sendAppendEntries after a reply:
\* the role is read with rf.mu held, the notification follows after its release.
SeeLeader ==
    /\ Free /\ leader /\ ~beat
    /\ beat' = TRUE
    /\ UNCHANGED <<leader, log, notify, worker, msg, skipped, reader, tester, fatal>>

Notify ==
    /\ beat
    /\ beat' = FALSE /\ notify' = TRUE
    /\ UNCHANGED <<leader, log, worker, msg, skipped, reader, tester, fatal>>

-----------------------------------------------------------------------------
(* The tester stops the server and starts another in its place.            *)

\* shutdownServer copies the Persister and calls rfsrv.Kill: rs.raft = nil.
RfsrvKill ==
    /\ kill = "no"
    /\ kill' = "begun" /\ saved' = snapshotIndex
    /\ UNCHANGED <<leader, log, notify, beat, worker, msg, skipped, snap, reader, fatal>>

\* Raft.Kill: dead = 1, killCh is closed ...
RaftKill ==
    /\ kill = "begun"
    /\ kill' = "closed"
    /\ UNCHANGED <<leader, log, notify, beat, worker, msg, skipped, snap, saved, reader, fatal>>

\* ... and rf.mu is taken once.
RaftKillReturn ==
    /\ kill = "closed" /\ Free
    /\ kill' = "done"
    /\ UNCHANGED <<leader, log, notify, beat, worker, msg, skipped, snap, saved, reader, fatal>>

\* mksrv puts a new rfsrv, restarted from the copy, into ts.srvs.
Replace ==
    /\ kill = "done"
    /\ kill' = "replaced" /\ logs' = saved
    /\ UNCHANGED <<leader, log, notify, beat, worker, msg, skipped, snap, saved,
                   service, got, applied, fatal>>

\* The new server applies an entry.
ReplacementApplies ==
    /\ kill = "replaced" /\ logs < MaxIndex
    /\ logs' = logs + 1
    /\ UNCHANGED <<leader, log, notify, beat, worker, msg, skipped, tester,
                   service, got, applied, fatal>>

TesterStep == RfsrvKill \/ RaftKill \/ RaftKillReturn \/ Replace \/ ReplacementApplies

-----------------------------------------------------------------------------
\* The test process has ended: log.Fatalf or a panic.
Ended == ~Running /\ UNCHANGED vars

Next ==
    \/ Running /\ \/ WorkerStep \/ ServiceStep
                  \/ AppendEntries \/ InstallSnapshot \/ ChangeRole \/ Start
                  \/ SeeLeader \/ Notify \/ TesterStep
    \/ Ended

Spec == Init /\ [][Next]_vars

\* Every goroutine that can run does: the worker, the reader, and the tester in
\* the middle of a Kill.  Nothing is assumed of the other servers.
FairSpec ==
    /\ Spec
    /\ WF_vars(Running /\ WorkerStep)
    /\ WF_vars(Running /\ ServiceStep)
    /\ WF_vars(Running /\ (RaftKill \/ RaftKillReturn))

-----------------------------------------------------------------------------
(* Properties.                                                             *)

\* The tester reports "apply out of order" (server.go) only for a message of a
\* server it has already replaced: whatever snapshots and entries arrive while
\* the worker sends with rf.mu released, a server's own messages are in order.
InOrder == fatal = "outOfOrder" => kill = "replaced"

\* The service never goes back: ingestSnap assigns lastApplied without a
\* comparison and relies on the worker not to send it an old snapshot.
Forward == [][applied' >= applied]_vars

\* What excuses an entry that is committed and does not reach the service: the
\* last pass of the worker found a leader with nothing new of its own term
\* (raft.go:479); the worker holds rf.mu for ever (raft.go:456); InstallSnapshot
\* threw the entry away and commitIndex went back with the log (raft.go:399); the
\* server has been killed, or the process has ended.
Excused(i) ==
    \/ skipped /\ ~notify
    \/ commitIndex < i
    \/ worker = "spin"
    \/ kill # "no"
    \/ fatal # "no"

\* Every other committed entry reaches the service: no notification is lost
\* between the slot of notifyApply, the release of rf.mu and the next pass.
Delivers == \A i \in 1..MaxIndex : i <= commitIndex ~> (applied >= i \/ Excused(i))

\* Raft.Kill returns and ends the worker, wherever it is, unless the worker
\* holds rf.mu for ever.
KillEnds ==
    killed ~> \/ worker = "ended" /\ kill \in {"done", "replaced"}
              \/ worker = "spin"
              \/ fatal # "no"

\* A snapshot that arrives while the worker sends makes it skip the entries the
\* snapshot covers (raft.go:454-455), so that it releases rf.mu again.
SkipsToSnapshot == worker = "spin" ~> (worker # "spin" \/ fatal # "no")

\* No message of a killed server reaches its replacement and makes the tester
\* report "apply out of order": the reason given for the select of tryApply
\* (raft.go:412-416).
NoStaleMessage == fatal # "outOfOrder"

\* The worker finds every entry up to commitIndex that the service lacks in
\* rf.Log, also when a snapshot replaced the log during a delivery (log.md:78).
ApplyInRange == fatal # "outOfRange"
=============================================================================
