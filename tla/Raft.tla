-------------------------------- MODULE Raft --------------------------------
(***************************************************************************)
(* The Raft peer of raft1/raft.go and the RPC traffic between peers.       *)
(*                                                                         *)
(* One action is one critical section of rf.mu: an RPC handler, the        *)
(* handling of one RPC result by the goroutine that waits for it, a call   *)
(* of the service, or one pass of a worker.  The only handler that drops   *)
(* the lock in the middle is AppendEntries (raft.go:381-383); it is two    *)
(* actions.                                                                *)
(*                                                                         *)
(* An index is an absolute log index; log[i] is the slice rf.Log, whose    *)
(* element 0 in Go (element 1 here) is the dummy that stands for the entry *)
(* at snapshotIndex[i].  lastApplied and the delivery to applyCh, and the  *)
(* timers and channels that decide WHEN a worker runs, are left out: here  *)
(* a worker may run whenever its guard holds.                              *)
(***************************************************************************)
EXTENDS Integers, Sequences, FiniteSets

CONSTANTS
    Server,        \* the peers
    Command,       \* what the service passes to Start
    Nil,           \* VotedFor = -1, and the nil Command of a dummy entry
    MaxTerm,       \* bound: no election starts a term above it
    MaxIndex,      \* bound: no entry is appended above this index
    MaxCalls,      \* bound: RPCs under way at a time
    SnapshotAt,    \* the indexes at which the service calls Snapshot
    CanRestart,    \* the servers that may be shut down and restarted
    Lossy,         \* may the network lose requests and replies?
    LateDelivery,  \* may a call be handled after its caller gave up on it?
    Preempt        \* may the lock change hands at raft.go:381-383?

ASSUME ServerAssumption == IsFiniteSet(Server) /\ Nil \notin Server
ASSUME CommandAssumption == Nil \notin Command
ASSUME BoundAssumption ==
    /\ MaxTerm \in Nat /\ MaxIndex \in Nat /\ MaxCalls \in Nat
    /\ SnapshotAt \subseteq Nat \ {0}
    /\ CanRestart \subseteq Server
    /\ Lossy \in BOOLEAN /\ LateDelivery \in BOOLEAN /\ Preempt \in BOOLEAN

VARIABLES
    currentTerm, votedFor, log, snapshotIndex, snapshotByte, \* written by persist()
    disk,                             \* what the Persister holds
    snapshotTerm, state, commitIndex, \* volatile
    election,                         \* what the ElectionWorker knows of its election
    nextIndex, matchIndex,            \* volatile, of leaders
    down,                             \* the servers stopped by a run-time panic
    rpcs,                             \* RPCs under way
    inside                            \* AppendEntries handlers between unlock and lock

persistent == <<currentTerm, votedFor, log, snapshotIndex, snapshotByte, disk>>
leaderVars == <<nextIndex, matchIndex>>
vars == <<currentTerm, votedFor, log, snapshotIndex, snapshotByte, disk,
          snapshotTerm, state, commitIndex, election, nextIndex, matchIndex,
          down, rpcs, inside>>

Roles == {"Follower", "Candidate", "Leader"}

-----------------------------------------------------------------------------
(* Helpers of raft.go, and arithmetic on slices.                           *)

MaxOf(a, b) == IF a >= b THEN a ELSE b
MinOf(a, b) == IF a <= b THEN a ELSE b

Entry == [term : Nat, cmd : Command \cup {Nil}]

\* rf.Loglen(): one more than the last index of the log.
Loglen(i) == Len(log[i]) + snapshotIndex[i]

\* rf.Log[rf.idxInLog(k)], for an index k that the slice holds.
InLog(i, k) == k - snapshotIndex[i] \in 0 .. Len(log[i]) - 1
At(i, k) == log[i][k - snapshotIndex[i] + 1]

\* s[:n] and s[n:] of Go.
Take(s, n) == SubSeq(s, 1, n)
Skip(s, n) == SubSeq(s, n + 1, Len(s))

\* rf.findFirstIndex: the first position of the slice, up to position pos,
\* whose term is at least term.
findFirstIndex(i, term, pos) ==
    LET hits == {p \in 0 .. pos : log[i][p + 1].term >= term}
        low  == CHOOSE p \in hits : \A q \in hits : p <= q
    IN  IF snapshotTerm[i] >= term THEN -1
        ELSE IF low = 0 /\ snapshotIndex[i] = 0 THEN 1 ELSE low

\* rf.findLastIndex: the last position of the slice whose term is at most
\* term.
findLastIndex(i, term) ==
    LET hits == {0} \cup {p \in 0 .. Len(log[i]) - 1 : log[i][p + 1].term <= term}
    IN  IF snapshotTerm[i] > term THEN -1
        ELSE CHOOSE p \in hits : \A q \in hits : q <= p

\* Mutant: the vote is saved before it is cast.
persistOldVote(i) ==
    disk' = [disk EXCEPT ![i] =
               [term |-> currentTerm'[i], vote |-> votedFor[i], log |-> log'[i],
                index |-> snapshotIndex'[i], snapshot |-> snapshotByte'[i]]]

\* rf.persist(): the values this step leaves in memory reach the Persister.
persist(i) ==
    disk' = [disk EXCEPT ![i] =
               [term |-> currentTerm'[i], vote |-> votedFor'[i], log |-> log'[i],
                index |-> snapshotIndex'[i], snapshot |-> snapshotByte'[i]]]

\* Mutant: only the lengths are compared.
UpToDateByLength(i, m) == m.lastIndex >= Loglen(i) - 1

\* The log comparison of RequestVote.
UpToDate(i, m) ==
    LET last == log[i][Len(log[i])]
    IN  \/ m.lastTerm > last.term
        \/ m.lastTerm = last.term /\ m.lastIndex >= Loglen(i) - 1

-----------------------------------------------------------------------------
(* The network: labrpc loses requests and replies and may reorder calls;   *)
(* it never delivers a request twice.  A reply record carries what the     *)
(* caller remembers of its request.  "live" says that the goroutine that   *)
(* made the call still waits for it.                                       *)

Up(i) == i \notin down
Room == Cardinality(rpcs) < MaxCalls

\* The goroutine sendAppendEntries(j) of term t waits for this call.
Awaited(i, j, t) ==
    \E m \in rpcs : /\ m.src = i /\ m.dst = j /\ m.term = t
                    /\ \/ m.type \in {"AE", "IS"} /\ m.live
                       \/ m.type \in {"AEReply", "ISReply"}

\* The caller of m waits for the reply: it has not given up, and its context
\* is not cancelled (a cancelled goroutine that has the reply in hand already
\* is late).
Waits(m) == m.live /\ \/ LateDelivery
                      \/ state[m.src] = "Leader" /\ currentTerm[m.src] = m.term

\* The handler of m is done: its reply travels to the caller, if it waits.
Reply(m, r) == rpcs' = (rpcs \ {m}) \cup (IF Waits(m) THEN {r} ELSE {})

\* The answer to an AppendEntries call, with the fields of AppendEntriesReply.
AEReply(m, rterm, success, xterm, xindex, xlength) ==
    [type |-> "AEReply", src |-> m.src, dst |-> m.dst, term |-> m.term,
     last |-> m.prev + Len(m.entries), rterm |-> rterm, success |-> success,
     xterm |-> xterm, xindex |-> xindex, xlength |-> xlength]

\* The ElectionWorker waits for "<-start".
NoElection == [term |-> 0, votes |-> {}, asked |-> {}, heard |-> {}]

-----------------------------------------------------------------------------
Init ==
    /\ currentTerm = [i \in Server |-> 0]
    /\ votedFor = [i \in Server |-> Nil]
    /\ log = [i \in Server |-> <<[term |-> 0, cmd |-> Nil]>>]
    /\ snapshotIndex = [i \in Server |-> 0]
    /\ snapshotByte = [i \in Server |-> <<>>]
    /\ disk = [i \in Server |-> [term |-> 0, vote |-> Nil, log |-> log[i],
                                 index |-> 0, snapshot |-> <<>>]]
    /\ snapshotTerm = [i \in Server |-> 0]
    /\ state = [i \in Server |-> "Follower"]
    /\ commitIndex = [i \in Server |-> 0]
    /\ election = [i \in Server |-> NoElection]
    /\ nextIndex = [i \in Server |-> [j \in Server |-> 0]]
    /\ matchIndex = [i \in Server |-> [j \in Server |-> 0]]
    /\ down = {}
    /\ rpcs = {}
    /\ inside = {}

-----------------------------------------------------------------------------
(* Elections.                                                              *)

\* The ElectionWorker counts the votes of its election: it is past "<-start",
\* has not won, and has not seen another term.
Counting(i) == /\ state[i] # "Leader"
               /\ election[i].votes # {}
               /\ election[i].term = currentTerm[i]

\* The ElectionWorker of i finds that the term is no longer its own
\* (raft.go:1108, 1116) and forgets the election.
TermMoved(i) == election' = [election EXCEPT ![i] = NoElection]

\* ElectionWorker receives on start.
StartElection(i) ==
    /\ Up(i) /\ state[i] # "Leader" /\ ~Counting(i)
    /\ currentTerm[i] < MaxTerm
    /\ currentTerm' = [currentTerm EXCEPT ![i] = @ + 1]
    /\ votedFor' = [votedFor EXCEPT ![i] = i]
    /\ state' = [state EXCEPT ![i] = "Candidate"]
    /\ UNCHANGED <<log, snapshotIndex, snapshotByte>>
    /\ persist(i)
    /\ election' = [election EXCEPT ![i] = [term |-> currentTerm[i] + 1, votes |-> {i},
                                            asked |-> {}, heard |-> {}]]
    /\ UNCHANGED <<snapshotTerm, commitIndex, leaderVars, down, rpcs, inside>>

\* The goroutine GetVote(j) takes the lock, finds a candidate and calls j.
GetVote(i, j) ==
    /\ Up(i) /\ state[i] = "Candidate" /\ Counting(i)
    /\ j # i /\ j \notin election[i].asked /\ Room
    /\ election' = [election EXCEPT ![i].asked = @ \cup {j}]
    /\ rpcs' = rpcs \cup
         {[type |-> "RV", src |-> i, dst |-> j, term |-> currentTerm[i],
           lastIndex |-> Loglen(i) - 1, lastTerm |-> log[i][Len(log[i])].term]}
    /\ UNCHANGED <<persistent, snapshotTerm, state, commitIndex, leaderVars, down, inside>>

\* The ticker fired during an election: ElectionWorker receives on
\* abortElectionChan.  The token may be older than the present role.
AbortElection(i) ==
    /\ Up(i) /\ Counting(i)
    /\ state' = [state EXCEPT ![i] = "Follower"]
    /\ election' = [election EXCEPT ![i] = NoElection]
    /\ UNCHANGED <<persistent, snapshotTerm, commitIndex, leaderVars, down, rpcs, inside>>

\* The voter's answer to m, if the election is not over yet.
VoteReply(m, rterm, granted) ==
    rpcs' = (rpcs \ {m}) \cup
              (IF Counting(m.src) /\ currentTerm[m.src] = m.term
                 THEN {[type |-> "RVReply", src |-> m.src, dst |-> m.dst, term |-> m.term,
                        rterm |-> rterm, granted |-> granted]}
                 ELSE {})

\* RequestVote, args.Term < rf.CurrentTerm.
RequestVoteStale(i, m) ==
    /\ m.term < currentTerm[i]
    /\ VoteReply(m, currentTerm[i], FALSE)
    /\ UNCHANGED <<persistent, state, election>>

\* Mutant: the vote of this term is not looked at.
VoteAgain(i, m) == TRUE

\* No vote in this term yet, or one for this candidate.
VoteFree(i, m) == votedFor[i] \in {Nil, m.src}

\* RequestVote, args.Term = rf.CurrentTerm.
RequestVoteSameTerm(i, m) ==
    /\ m.term = currentTerm[i]
    /\ LET grant == UpToDate(i, m) /\ VoteFree(i, m)
       IN  /\ votedFor' = [votedFor EXCEPT ![i] = IF grant THEN m.src ELSE @]
           /\ VoteReply(m, currentTerm[i], grant)
    /\ UNCHANGED <<currentTerm, log, snapshotIndex, snapshotByte, state, election>>
    /\ persist(i)

\* RequestVote, a new term.  A refused candidate leaves VotedFor as it was
\* in the old term, and gets the old term in the reply.
RequestVoteNewTerm(i, m) ==
    /\ m.term > currentTerm[i]
    /\ currentTerm' = [currentTerm EXCEPT ![i] = m.term]
    /\ state' = [state EXCEPT ![i] = "Follower"]
    /\ votedFor' = [votedFor EXCEPT ![i] = IF UpToDate(i, m) THEN m.src ELSE @]
    /\ VoteReply(m, IF UpToDate(i, m) THEN m.term ELSE currentTerm[i], UpToDate(i, m))
    /\ TermMoved(i)
    /\ UNCHANGED <<log, snapshotIndex, snapshotByte>>
    /\ persist(i)

RequestVote(i, m) ==
    /\ Up(i) /\ m.type = "RV" /\ m.dst = i
    /\ \/ RequestVoteStale(i, m)
       \/ RequestVoteSameTerm(i, m)
       \/ RequestVoteNewTerm(i, m)
    /\ UNCHANGED <<snapshotTerm, commitIndex, leaderVars, down, inside>>

\* Step down to the newer term t that a reply carries.
StepDown(i, t) ==
    /\ currentTerm' = [currentTerm EXCEPT ![i] = t]
    /\ votedFor' = [votedFor EXCEPT ![i] = Nil]
    /\ state' = [state EXCEPT ![i] = "Follower"]
    /\ TermMoved(i)
    /\ UNCHANGED <<log, snapshotIndex, snapshotByte>>
    /\ persist(i)

\* The ElectionWorker counts one answer to call m; a failed call counts as a
\* refusal.  It becomes leader at the first majority, without looking at its
\* role, and Follower when the last answer leaves it short of one.
Tally(i, m, granted) ==
    LET votes == election[i].votes \cup (IF granted THEN {m.dst} ELSE {})
        heard == election[i].heard \cup {m.dst}
        won   == granted /\ Cardinality(votes) >= Cardinality(Server) \div 2 + 1
        lost  == ~won /\ heard = Server \ {i}
    IN  /\ election' = [election EXCEPT ![i] =
                          IF lost THEN NoElection
                          ELSE [@ EXCEPT !.votes = votes, !.heard = heard]]
        /\ state' = [state EXCEPT ![i] = IF won THEN "Leader"
                                         ELSE IF lost THEN "Follower" ELSE @]
        /\ IF won
           THEN /\ nextIndex' = [nextIndex EXCEPT ![i] =
                                   [j \in Server |-> IF j = i THEN 0 ELSE Loglen(i)]]
                /\ matchIndex' = [matchIndex EXCEPT ![i] = [j \in Server |-> 0]]
           ELSE UNCHANGED leaderVars
        /\ UNCHANGED persistent

\* ElectionWorker receives on replyChan.
HandleVoteReply(i, m) ==
    /\ Up(i) /\ m.type = "RVReply" /\ m.src = i
    /\ rpcs' = rpcs \ {m}
    /\ \/ /\ ~(Counting(i) /\ m.term = currentTerm[i])
          /\ UNCHANGED <<persistent, state, election, leaderVars>>
       \/ /\ Counting(i) /\ m.term = currentTerm[i] /\ m.rterm > currentTerm[i]
          /\ StepDown(i, m.rterm)
          /\ UNCHANGED leaderVars
       \/ /\ Counting(i) /\ m.term = currentTerm[i] /\ m.rterm <= currentTerm[i]
          /\ Tally(i, m, m.granted)
    /\ UNCHANGED <<snapshotTerm, commitIndex, down, inside>>

\* The request or the reply is lost: Call returns false in GetVote.
LoseVote(i, m) ==
    /\ Lossy /\ Up(i) /\ m.type \in {"RV", "RVReply"} /\ m.src = i
    /\ rpcs' = rpcs \ {m}
    /\ \/ /\ ~(Counting(i) /\ m.term = currentTerm[i])
          /\ UNCHANGED <<persistent, state, election, leaderVars>>
       \/ /\ Counting(i) /\ m.term = currentTerm[i]
          /\ Tally(i, m, FALSE)
    /\ UNCHANGED <<snapshotTerm, commitIndex, down, inside>>

-----------------------------------------------------------------------------
(* Replication: the goroutine sendAppendEntries(j) of leader i.            *)

\* The goroutine may send: it is of the present term and has no call out.
MaySend(i, j) == /\ Up(i) /\ state[i] = "Leader" /\ j # i
                 /\ ~Awaited(i, j, currentTerm[i]) /\ Room

\* nextIndex[j] after the "illegal state" reset at the top of the pass.
Next1(i, j) == MinOf(nextIndex[i][j], Loglen(i))

\* The follower needs entries that only the snapshot still has.
SendInstallSnapshot(i, j) ==
    /\ MaySend(i, j)
    /\ Next1(i, j) <= snapshotIndex[i]
    /\ nextIndex' = [nextIndex EXCEPT ![i][j] = Next1(i, j)]
    /\ rpcs' = rpcs \cup
         {[type |-> "IS", src |-> i, dst |-> j, term |-> currentTerm[i],
           lastIndex |-> snapshotIndex[i], lastTerm |-> snapshotTerm[i],
           data |-> snapshotByte[i], live |-> TRUE]}
    /\ UNCHANGED <<persistent, snapshotTerm, state, commitIndex, election,
                   matchIndex, down, inside>>

\* Mutant: one entry at a time.
OneEntryFrom(i, k) == SubSeq(log[i], k - snapshotIndex[i] + 1,
                             MinOf(k - snapshotIndex[i] + 1, Len(log[i])))

\* The copy of rf.Log[nextIdx:].
EntriesFrom(i, k) == Skip(log[i], k - snapshotIndex[i])

\* Every entry from nextIndex[j] on, none for a heartbeat.
SendAppendEntries(i, j) ==
    /\ MaySend(i, j)
    /\ Next1(i, j) > snapshotIndex[i]
    /\ nextIndex' = [nextIndex EXCEPT ![i][j] = Next1(i, j)]
    /\ rpcs' = rpcs \cup
         {[type |-> "AE", src |-> i, dst |-> j, term |-> currentTerm[i],
           prev |-> Next1(i, j) - 1, prevTerm |-> At(i, Next1(i, j) - 1).term,
           entries |-> EntriesFrom(i, Next1(i, j)),
           commit |-> commitIndex[i], live |-> TRUE]}
    /\ UNCHANGED <<persistent, snapshotTerm, state, commitIndex, election,
                   matchIndex, down, inside>>

-----------------------------------------------------------------------------
(* Replication: the AppendEntries handler of follower i.                   *)

\* What a slice re-extended beyond its length may uncover: entries that were
\* cut off earlier and are still in the backing array.
StaleEntry == [term : 1 .. MaxTerm, cmd : Command]

\* From the second lock to the end (raft.go:383-410), on the state of that
\* moment: rf.Log[:keep] and the entries beyond it, then LeaderCommit.  A keep
\* that is negative panics; one beyond the length panics or uncovers what the
\* backing array still holds.
AppendFrom(i, m, from) ==
    LET keep == from + 1 - snapshotIndex[i]
    IN  \/ /\ keep \notin 0 .. Len(log[i])
           /\ down' = down \cup {i}
           /\ rpcs' = rpcs \ {m}
           /\ UNCHANGED <<log, snapshotIndex, snapshotByte, commitIndex>>
           /\ persist(i)
        \/ /\ keep >= 0
           /\ \E junk \in [1 .. MaxOf(0, keep - Len(log[i])) -> StaleEntry] :
                log' = [log EXCEPT ![i] = Take(@ \o junk, keep)
                                            \o Skip(m.entries, from - m.prev)]
           /\ commitIndex' = [commitIndex EXCEPT ![i] =
                  IF m.commit > @ THEN MinOf(m.commit, Len(log'[i]) + snapshotIndex[i] - 1)
                                  ELSE @]
           /\ UNCHANGED <<snapshotIndex, snapshotByte, down>>
           /\ persist(i)
           /\ Reply(m, AEReply(m, m.term, TRUE, 0, 0, 0))

\* Entries that commitIndex covers already: a success, and nothing changes.
AlreadyCommitted(i, m) ==
    /\ UNCHANGED <<log, snapshotIndex, snapshotByte, commitIndex, down>>
    /\ persist(i)
    /\ Reply(m, AEReply(m, m.term, TRUE, 0, 0, 0))

\* What is committed is not written again.
StoreEntries(i, m) ==
    \/ /\ commitIndex[i] > m.prev /\ Len(m.entries) <= commitIndex[i] - m.prev
       /\ AlreadyCommitted(i, m)
    \/ /\ commitIndex[i] > m.prev /\ Len(m.entries) > commitIndex[i] - m.prev
       /\ AppendFrom(i, m, commitIndex[i])
    \/ /\ commitIndex[i] <= m.prev
       /\ AppendFrom(i, m, m.prev)

\* A heartbeat: only the commit index may move.
Heartbeat(i, m) ==
    /\ commitIndex' = [commitIndex EXCEPT ![i] =
           IF m.commit > @ THEN MinOf(m.commit, Loglen(i) - 1) ELSE @]
    /\ Reply(m, AEReply(m, m.term, TRUE, 0, 0, 0))

\* args.Term is not stale: follow the sender in its term.
Follow(i, t) ==
    /\ currentTerm' = [currentTerm EXCEPT ![i] = t]
    /\ votedFor' = [votedFor EXCEPT ![i] = IF t > currentTerm[i] THEN Nil ELSE @]
    /\ state' = [state EXCEPT ![i] = "Follower"]
    /\ IF t > currentTerm[i] THEN TermMoved(i) ELSE UNCHANGED election

\* Mutant: the term at PrevLogIndex is not looked at.
PrevAny(i, m) == InLog(i, m.prev)

\* The consistency check: the log has the entry that precedes the new ones.
PrevMatches(i, m) == InLog(i, m.prev) /\ At(i, m.prev).term = m.prevTerm

AppendEntriesStale(i, m) ==
    /\ m.term < currentTerm[i]
    /\ Reply(m, AEReply(m, currentTerm[i], FALSE, 0, 0, 0))
    /\ UNCHANGED <<persistent, state, commitIndex, election, down, inside>>

\* The log is too short, or holds another term at PrevLogIndex, or has no
\* such entry any more because a snapshot took its place: the index into
\* rf.Log is then negative and the program panics.
AppendEntriesRefuse(i, m) ==
    /\ m.term >= currentTerm[i]
    /\ Follow(i, m.term)
    /\ UNCHANGED <<log, snapshotIndex, snapshotByte, commitIndex, inside>>
    /\ persist(i)
    /\ \/ /\ m.prev >= Loglen(i)
          /\ Reply(m, AEReply(m, m.term, FALSE, 0, 0, Loglen(i)))
          /\ UNCHANGED down
       \/ /\ m.prev < snapshotIndex[i]
          /\ rpcs' = rpcs \ {m}
          /\ down' = down \cup {i}
       \/ /\ InLog(i, m.prev) /\ ~PrevMatches(i, m)
          /\ LET xterm == At(i, m.prev).term
                 pos   == m.prev - snapshotIndex[i]
             IN  Reply(m, AEReply(m, m.term, FALSE, xterm,
                                  findFirstIndex(i, xterm, pos) + snapshotIndex[i], 0))
          /\ UNCHANGED down

AppendEntriesAccept(i, m) ==
    /\ m.term >= currentTerm[i]
    /\ PrevMatches(i, m)
    /\ Follow(i, m.term)
    /\ \/ /\ m.entries = <<>>
          /\ UNCHANGED <<log, snapshotIndex, snapshotByte, down, inside>>
          /\ persist(i)
          /\ Heartbeat(i, m)
       \/ /\ m.entries # <<>> /\ ~Preempt
          /\ StoreEntries(i, m)
          /\ UNCHANGED inside
       \/ /\ m.entries # <<>> /\ Preempt
          /\ UNCHANGED <<log, snapshotIndex, snapshotByte, commitIndex, down, rpcs>>
          /\ persist(i)
          /\ inside' = inside \cup {m}

AppendEntries(i, m) ==
    /\ Up(i) /\ m.type = "AE" /\ m.dst = i /\ m \notin inside
    /\ \/ AppendEntriesStale(i, m)
       \/ AppendEntriesRefuse(i, m)
       \/ AppendEntriesAccept(i, m)
    /\ UNCHANGED <<snapshotTerm, leaderVars>>

\* The handler takes the lock again; nothing is checked a second time.
AppendEntriesResume(i, m) ==
    /\ Up(i) /\ m \in inside /\ m.dst = i
    /\ inside' = inside \ {m}
    /\ UNCHANGED <<currentTerm, votedFor, state>>
    /\ StoreEntries(i, m)
    /\ UNCHANGED <<snapshotTerm, election, leaderVars>>

\* Mutant: everything the leader has by now counts as stored.
AckedAll(i, m) == Loglen(i)

\* Mutant: matchIndex becomes nextIndex.
AckedNext(i, m) == m.last + 2

\* The first index that a successful reply does not acknowledge.
Acked(i, m) == m.last + 1

\* sendAppendEntries(j) receives a successful reply.
AppendEntriesSucceeded(i, m) ==
    /\ m.success /\ state[i] = "Leader" /\ currentTerm[i] = m.term
    /\ nextIndex' = [nextIndex EXCEPT ![i][m.dst] = MaxOf(@, Acked(i, m))]
    /\ matchIndex' = [matchIndex EXCEPT ![i][m.dst] = nextIndex'[i][m.dst] - 1]
    /\ UNCHANGED <<persistent, state, election>>

\* The reply names a newer term.
ReplyOfNewerTerm(i, m) ==
    /\ m.rterm > m.term /\ state[i] = "Leader" /\ currentTerm[i] = m.term
    /\ StepDown(i, m.rterm)
    /\ UNCHANGED leaderVars

\* The probe failed: back up, whatever role and term the server has by now.
\* lastIndex + 1 is a position of the slice, used as an index of the log.
BackUp(i, m) ==
    LET lastIndex == findLastIndex(i, m.xterm)
        next == CASE m.xterm = 0 -> MaxOf(m.xlength, snapshotIndex[i])
                  [] m.xterm # 0 /\ lastIndex = -1 -> snapshotIndex[i]
                  [] m.xterm # 0 /\ lastIndex # -1
                     /\ log[i][lastIndex + 1].term = m.xterm -> lastIndex + 1
                  [] OTHER -> MaxOf(m.xindex, snapshotIndex[i])
    IN  /\ ~m.success /\ m.rterm <= m.term
        /\ LateDelivery \/ (state[i] = "Leader" /\ currentTerm[i] = m.term)
        /\ nextIndex' = [nextIndex EXCEPT ![i][m.dst] = next]
        /\ UNCHANGED <<persistent, state, matchIndex, election>>

\* The goroutine is past its term, or ended with its context: no effect.
ReplyIgnored(i, m) ==
    /\ state[i] # "Leader" \/ currentTerm[i] # m.term
    /\ UNCHANGED <<persistent, state, leaderVars, election>>

HandleAppendEntriesReply(i, m) ==
    /\ Up(i) /\ m.type = "AEReply" /\ m.src = i
    /\ rpcs' = rpcs \ {m}
    /\ \/ AppendEntriesSucceeded(i, m)
       \/ ~m.success /\ ReplyOfNewerTerm(i, m)
       \/ BackUp(i, m)
       \/ ReplyIgnored(i, m)
    /\ UNCHANGED <<snapshotTerm, commitIndex, down, inside>>

-----------------------------------------------------------------------------
(* Snapshots.                                                              *)

\* rf.Log[trimIndex:]: the entry at index becomes the dummy.
Trimmed(i, index) == Skip(log[i], index - snapshotIndex[i])

\* The service has taken a snapshot of what it applied, up to index; the
\* entries applied stand for the state they lead to.
Snapshot(i, index) ==
    /\ Up(i) /\ index <= commitIndex[i]
    /\ snapshotIndex[i] < index /\ index <= Loglen(i) - 1
    /\ LET trim == index - snapshotIndex[i]
       IN  /\ log' = [log EXCEPT ![i] = Trimmed(i, index)]
           /\ snapshotTerm' = [snapshotTerm EXCEPT ![i] = log[i][trim + 1].term]
           /\ snapshotByte' = [snapshotByte EXCEPT ![i] =
                  @ \o SubSeq(log[i], 2, trim + 1)]
    /\ snapshotIndex' = [snapshotIndex EXCEPT ![i] = index]
    /\ UNCHANGED <<currentTerm, votedFor>>
    /\ persist(i)
    /\ UNCHANGED <<state, commitIndex, election, leaderVars, down, rpcs, inside>>

\* The answer to an InstallSnapshot call.
ISReply(m, rterm) == [type |-> "ISReply", src |-> m.src, dst |-> m.dst,
                      term |-> m.term, rterm |-> rterm]

InstallSnapshotStale(i, m) ==
    /\ m.term < currentTerm[i]
    /\ Reply(m, ISReply(m, currentTerm[i]))
    /\ UNCHANGED <<persistent, state, snapshotTerm, commitIndex, election>>

\* The same snapshot, or an older one.
SnapshotKnown(i, m) ==
    \/ snapshotByte[i] # <<>> /\ m.lastIndex <= snapshotIndex[i]
    \/ m.lastIndex = snapshotIndex[i] /\ m.lastTerm = snapshotTerm[i]

InstallSnapshotKnown(i, m) ==
    /\ m.term >= currentTerm[i] /\ SnapshotKnown(i, m)
    /\ Follow(i, m.term)
    /\ UNCHANGED <<log, snapshotIndex, snapshotByte, snapshotTerm, commitIndex>>
    /\ persist(i)
    /\ Reply(m, ISReply(m, m.term))

\* isConfilict: the term of the dummy entry, not of the entry at
\* LastIncludedIndex, is compared with LastIncludedTerm.
isConflict(i, m) == m.lastIndex >= snapshotIndex[i] /\ log[i][1].term # m.lastTerm

\* Mutant: no dummy entry is put in place of the dropped log.
LogWithoutDummy(i, m) ==
    IF Loglen(i) <= m.lastIndex \/ isConflict(i, m)
      THEN <<>> ELSE Skip(log[i], m.lastIndex - snapshotIndex[i])

\* The log as InstallSnapshot leaves it: the tail after LastIncludedIndex, or
\* a lone dummy entry.
LogAfterSnapshot(i, m) ==
    IF Loglen(i) <= m.lastIndex \/ isConflict(i, m)
      THEN <<[term |-> m.lastTerm, cmd |-> Nil]>>
      ELSE Skip(log[i], m.lastIndex - snapshotIndex[i])

InstallSnapshotTake(i, m) ==
    /\ m.term >= currentTerm[i] /\ ~SnapshotKnown(i, m)
    /\ Follow(i, m.term)
    /\ log' = [log EXCEPT ![i] = LogAfterSnapshot(i, m)]
    /\ snapshotIndex' = [snapshotIndex EXCEPT ![i] = m.lastIndex]
    /\ snapshotTerm' = [snapshotTerm EXCEPT ![i] = m.lastTerm]
    /\ snapshotByte' = [snapshotByte EXCEPT ![i] = m.data]
    /\ commitIndex' = [commitIndex EXCEPT ![i] = MaxOf(@, m.lastIndex)]
    /\ persist(i)
    /\ Reply(m, ISReply(m, m.term))

InstallSnapshot(i, m) ==
    /\ Up(i) /\ m.type = "IS" /\ m.dst = i
    /\ \/ InstallSnapshotStale(i, m)
       \/ InstallSnapshotKnown(i, m)
       \/ InstallSnapshotTake(i, m)
    /\ UNCHANGED <<leaderVars, down, inside>>

\* The leader takes its PRESENT snapshot for the one it sent.
InstallSnapshotDone(i, m) ==
    /\ m.rterm <= m.term /\ state[i] = "Leader" /\ currentTerm[i] = m.term
    /\ nextIndex' = [nextIndex EXCEPT ![i][m.dst] = snapshotIndex[i] + 1]
    /\ matchIndex' = [matchIndex EXCEPT ![i][m.dst] = MaxOf(@, snapshotIndex[i])]
    /\ UNCHANGED <<persistent, state, election>>

HandleInstallSnapshotReply(i, m) ==
    /\ Up(i) /\ m.type = "ISReply" /\ m.src = i
    /\ rpcs' = rpcs \ {m}
    /\ \/ InstallSnapshotDone(i, m)
       \/ ReplyOfNewerTerm(i, m)
       \/ ReplyIgnored(i, m)
    /\ UNCHANGED <<snapshotTerm, commitIndex, down, inside>>

-----------------------------------------------------------------------------
(* The service, the commit rule, and failures.                             *)

\* The service submits command c to a leader.
Start(i, c) ==
    /\ Up(i) /\ state[i] = "Leader" /\ Loglen(i) <= MaxIndex
    /\ log' = [log EXCEPT ![i] = Append(@, [term |-> currentTerm[i], cmd |-> c])]
    /\ UNCHANGED <<currentTerm, votedFor, snapshotIndex, snapshotByte>>
    /\ persist(i)
    /\ UNCHANGED <<snapshotTerm, state, commitIndex, election, leaderVars, down,
                   rpcs, inside>>

\* tmpMatchIndex: what leader i knows to be stored on j.
Stored(i, j) == IF j = i THEN Loglen(i) - 1 ELSE matchIndex[i][j]

\* Mutant: tmpMatchIndex[len / 2 + 1].
MedianHigh(i) ==
    LET n == Cardinality(Server)
        reached == {v \in {Stored(i, j) : j \in Server} :
                      Cardinality({j \in Server : Stored(i, j) >= v}) >= n - n \div 2 - 1}
    IN  CHOOSE v \in reached : \A w \in reached : w <= v

\* sort.Ints(tmpMatchIndex); tmpMatchIndex[len / 2]: the largest entry that at
\* least len - len / 2 servers reach.
Median(i) ==
    LET n == Cardinality(Server)
        reached == {v \in {Stored(i, j) : j \in Server} :
                      Cardinality({j \in Server : Stored(i, j) >= v}) >= n - n \div 2}
    IN  CHOOSE v \in reached : \A w \in reached : w <= v

\* Mutant: an entry of an earlier term is committed directly.
CommittableAny(i, k) == TRUE

\* Only an entry of the present term is committed by counting.
Committable(i, k) == At(i, k).term = currentTerm[i]

\* One pass of applyLogEntries on a leader.
AdvanceCommit(i) ==
    /\ Up(i) /\ state[i] = "Leader"
    /\ Median(i) > commitIndex[i]
    /\ \/ /\ InLog(i, Median(i)) /\ Committable(i, Median(i))
          /\ commitIndex' = [commitIndex EXCEPT ![i] = Median(i)]
          /\ UNCHANGED down
       \/ /\ ~InLog(i, Median(i))
          /\ down' = down \cup {i}
          /\ UNCHANGED commitIndex
    /\ UNCHANGED <<persistent, snapshotTerm, state, election, leaderVars, rpcs, inside>>

\* The caller of m gives up on it.
GiveUp(m) == [m EXCEPT !.live = FALSE]

\* What the calls cs become when server i stops: i waits for none of its
\* calls any more, and the handlers that ran on i are gone.
CallsAfterStop(i, cs) ==
    {IF m.type \in {"AE", "IS"} /\ m.src = i THEN GiveUp(m) ELSE m :
       m \in {c \in cs : /\ ~(c.type \in {"RVReply", "AEReply", "ISReply"} /\ c.src = i)
                         /\ ~(c \in inside /\ c.dst = i)}}

\* Make and readPersist, over a Persister that holds d.
Reload(i, d) ==
    /\ disk' = [disk EXCEPT ![i] = d]
    /\ currentTerm' = [currentTerm EXCEPT ![i] = d.term]
    /\ votedFor' = [votedFor EXCEPT ![i] = d.vote]
    /\ log' = [log EXCEPT ![i] = d.log]
    /\ snapshotIndex' = [snapshotIndex EXCEPT ![i] = d.index]
    /\ snapshotByte' = [snapshotByte EXCEPT ![i] = d.snapshot]
    /\ snapshotTerm' = [snapshotTerm EXCEPT ![i] =
                          IF d.snapshot # <<>> THEN d.log[1].term ELSE 0]
    /\ state' = [state EXCEPT ![i] = "Follower"]
    /\ commitIndex' = [commitIndex EXCEPT ![i] = 0]
    /\ election' = [election EXCEPT ![i] = NoElection]
    /\ nextIndex' = [nextIndex EXCEPT ![i] = [j \in Server |-> 0]]
    /\ matchIndex' = [matchIndex EXCEPT ![i] = [j \in Server |-> 0]]
    /\ down' = down \ {i}
    /\ inside' = CallsAfterStop(i, inside)

\* The tester shuts server i down and starts it again between two handlers.
Restart(i) ==
    /\ i \in CanRestart
    /\ Reload(i, disk[i])
    /\ rpcs' = CallsAfterStop(i, rpcs)

\* The Persister is copied while the handler of m is between its two calls of
\* persist(): the new term is saved, the rest of the handler is not, and the
\* reply of the deleted server is dropped.
RestartInHandler(i, m) ==
    /\ i \in CanRestart /\ Up(i)
    /\ m.type \in {"RV", "AE", "IS"} /\ m.dst = i /\ m \notin inside
    /\ m.term > currentTerm[i]
    /\ Reload(i, [disk[i] EXCEPT !.term = m.term,
                                 !.vote = IF m.type = "RV" THEN @ ELSE Nil])
    /\ rpcs' = CallsAfterStop(i, rpcs \ {m})

\* The 100 ms timer of sendAppendEntries fires while the call is still alive.
Timeout(m) ==
    /\ LateDelivery /\ m.type \in {"AE", "IS"} /\ m.live
    /\ rpcs' = (rpcs \ {m}) \cup {GiveUp(m)}
    /\ inside' = IF m \in inside THEN (inside \ {m}) \cup {GiveUp(m)} ELSE inside
    /\ UNCHANGED <<persistent, snapshotTerm, state, commitIndex, election,
                   leaderVars, down>>

\* The request or its reply is lost; the goroutine sees a failed call.
Lose(m) ==
    /\ Lossy /\ m.type \in {"AE", "IS", "AEReply", "ISReply"} /\ m \notin inside
    /\ rpcs' = rpcs \ {m}
    /\ UNCHANGED <<persistent, snapshotTerm, state, commitIndex, election,
                   leaderVars, down, inside>>

-----------------------------------------------------------------------------
Next ==
    \/ \E i \in Server :
         \/ StartElection(i)
         \/ AbortElection(i)
         \/ AdvanceCommit(i)
         \/ Restart(i)
         \/ \E c \in Command : Start(i, c)
         \/ \E index \in SnapshotAt : Snapshot(i, index)
         \/ \E j \in Server : \/ GetVote(i, j)
                              \/ SendAppendEntries(i, j)
                              \/ SendInstallSnapshot(i, j)
    \/ \E m \in rpcs : RequestVote(m.dst, m)
    \/ \E m \in rpcs : HandleVoteReply(m.src, m)
    \/ \E m \in rpcs : LoseVote(m.src, m)
    \/ \E m \in rpcs : AppendEntries(m.dst, m)
    \/ \E m \in rpcs : AppendEntriesResume(m.dst, m)
    \/ \E m \in rpcs : HandleAppendEntriesReply(m.src, m)
    \/ \E m \in rpcs : InstallSnapshot(m.dst, m)
    \/ \E m \in rpcs : HandleInstallSnapshotReply(m.src, m)
    \/ \E m \in rpcs : RestartInHandler(m.dst, m)
    \/ \E m \in rpcs : Timeout(m)
    \/ \E m \in rpcs : Lose(m)

Spec == Init /\ [][Next]_vars

-----------------------------------------------------------------------------
(* Properties.                                                             *)

Persisted == [term : Nat, vote : Server \cup {Nil}, log : Seq(Entry), index : Nat,
              snapshot : Seq(Entry)]

Election == [term : Nat, votes : SUBSET Server, asked : SUBSET Server, heard : SUBSET Server]

\* What the fields of the RPC structs may hold, and what the caller remembers.
Message ==
    [type : {"RV"}, src : Server, dst : Server, term : Nat,
     lastIndex : Nat, lastTerm : Nat]
    \cup
    [type : {"RVReply"}, src : Server, dst : Server, term : Nat,
     rterm : Nat, granted : BOOLEAN]
    \cup
    [type : {"AE"}, src : Server, dst : Server, term : Nat, prev : Nat, prevTerm : Nat,
     entries : Seq(Entry), commit : Nat, live : BOOLEAN]
    \cup
    [type : {"AEReply"}, src : Server, dst : Server, term : Nat, last : Nat,
     rterm : Nat, success : BOOLEAN, xterm : Nat, xindex : Int, xlength : Nat]
    \cup
    [type : {"IS"}, src : Server, dst : Server, term : Nat, lastIndex : Nat,
     lastTerm : Nat, data : Seq(Entry), live : BOOLEAN]
    \cup
    [type : {"ISReply"}, src : Server, dst : Server, term : Nat, rterm : Nat]

\* Type invariant: the fields of the Raft struct and of the RPC structs hold
\* values of their types, rf.Log always has its dummy entry, no index is
\* negative, and an AppendEntries handler that gave up the lock has entries.
TypeOK ==
    /\ currentTerm \in [Server -> Nat]
    /\ votedFor \in [Server -> Server \cup {Nil}]
    /\ log \in [Server -> Seq(Entry)]
    /\ snapshotIndex \in [Server -> Nat]
    /\ snapshotByte \in [Server -> Seq(Entry)]
    /\ disk \in [Server -> Persisted]
    /\ snapshotTerm \in [Server -> Nat]
    /\ state \in [Server -> Roles]
    /\ commitIndex \in [Server -> Nat]
    /\ election \in [Server -> Election]
    /\ nextIndex \in [Server -> [Server -> Nat]]
    /\ matchIndex \in [Server -> [Server -> Nat]]
    /\ down \subseteq Server
    /\ rpcs \subseteq Message
    /\ inside \subseteq {m \in rpcs : m.type = "AE" /\ m.entries # <<>>}
    /\ \A i \in Server : Len(log[i]) >= 1 /\ Len(disk[i].log) >= 1

\* ElectionSafety: at most one server is Leader of a term, however votes,
\* refusals, step-downs, losses and restarts interleave (raft1/test.go,
\* checkOneLeader).
ElectionSafety ==
    \A i, j \in Server :
      state[i] = "Leader" /\ state[j] = "Leader" /\ currentTerm[i] = currentTerm[j]
        => i = j

\* The votes a candidate has counted, or may still count: the voter, the
\* term, and the candidate that the voter chose.
Votes ==
    {[voter |-> m.dst, term |-> m.term, candidate |-> m.src] :
       m \in {r \in rpcs : r.type = "RVReply" /\ r.granted}}
    \cup
    UNION {{[voter |-> j, term |-> election[c].term, candidate |-> c] :
              j \in election[c].votes} : c \in Server}

\* A vote that is counted, or is on its way, is one that the voter still
\* remembers or has left behind with its term.
VotesRemembered ==
    \A v \in Votes :
      /\ v.term <= currentTerm[v.voter]
      /\ v.term = currentTerm[v.voter] => votedFor[v.voter] = v.candidate

\* No two of them are of one voter in one term for different candidates.
OneVotePerTerm ==
    \A v, w \in Votes : v.voter = w.voter /\ v.term = w.term => v.candidate = w.candidate

\* A leader has a majority of them for its present term.
ElectedByMajority ==
    \A i \in Server : state[i] = "Leader" =>
      /\ election[i].term = currentTerm[i]
      /\ 2 * Cardinality(election[i].votes) > Cardinality(Server)

\* VotesSound: the votes that elections are decided by are sound, although
\* RequestVote leaves the VotedFor of an older term in place when it refuses
\* a candidate of a new one, CurrentTerm and VotedFor are saved separately
\* (raft.go:249, 255-274), and replies arrive late.
VotesSound == VotesRemembered /\ OneVotePerTerm /\ ElectedByMajority

\* What server i has stored at index k, in its log or in its snapshot.
Holds(i, k) == IF k <= snapshotIndex[i] THEN snapshotByte[i][k] ELSE At(i, k)

\* Two servers hold the same entry at index k.
SameAt(i, j, k) == Holds(i, k) = Holds(j, k)

\* StateMachineSafety: two servers never consider different entries
\* committed at the same index (raft1/test.go, checkLogs).
StateMachineSafety ==
    \A i, j \in Server :
      \A k \in 1 .. MinOf(MinOf(commitIndex[i], Loglen(i) - 1),
                          MinOf(commitIndex[j], Loglen(j) - 1)) :
        SameAt(i, j, k)

\* LogMatching: if two logs have an entry of the same term at the same index,
\* they are the same up to it; the consistency check of AppendEntries and the
\* truncation after it have to maintain this together.
LogMatching ==
    \A i, j \in Server :
      \A k \in MaxOf(snapshotIndex[i], snapshotIndex[j]) + 1 .. MinOf(Loglen(i), Loglen(j)) - 1 :
        At(i, k).term = At(j, k).term => \A h \in 1 .. k : SameAt(i, j, h)

\* LeaderCompleteness: what a server knows to be committed is in the log of
\* every leader of its term or of a later one, although a server commits by
\* the median of matchIndex and elects by the count of votes.
LeaderCompleteness ==
    \A i, j \in Server :
      state[i] = "Leader" /\ currentTerm[i] >= currentTerm[j]
        => \A k \in 1 .. commitIndex[j] : k <= Loglen(i) - 1 /\ SameAt(i, j, k)

\* Durable: a command that some server knows to be committed is stored on a
\* majority ("must not overwrite a committed entry", raft.go:386).
Durable ==
    \A i \in Server : \A k \in 1 .. MinOf(commitIndex[i], Loglen(i) - 1) :
      2 * Cardinality({j \in Server : k <= Loglen(j) - 1 /\ SameAt(i, j, k)})
        > Cardinality(Server)

\* MatchIndexSound: matchIndex, from which a leader decides what is
\* committed, never promises more than the follower has stored in that term.
MatchIndexSound ==
    \A i, j \in Server :
      state[i] = "Leader" /\ i # j /\ currentTerm[j] = currentTerm[i]
        => \A k \in 1 .. matchIndex[i][j] :
             k <= MinOf(Loglen(i), Loglen(j)) - 1 /\ SameAt(i, j, k)

\* CommitCovered: an AppendEntries call never tells a follower to commit
\* beyond the entries it carries; the handler relies on it, as it takes
\* min(LeaderCommit, Loglen() - 1) and not the last new entry.
CommitCovered ==
    \A m \in rpcs : m.type = "AE" => m.commit <= m.prev + Len(m.entries)

\* MedianInLog: the entry of which applyLogEntries compares the term (raft.go:480)
\* is in the leader's compacted log, whatever replies of InstallSnapshot and
\* AppendEntries have put into matchIndex and whatever was compacted meanwhile.
MedianInLog ==
    \A i \in Server : state[i] = "Leader" /\ Median(i) > commitIndex[i] => InLog(i, Median(i))

\* NoPanic: no handler and no worker indexes rf.Log out of range.
NoPanic == down = {}

\* PersistedInTime: whenever rf.mu is free, the Persister holds what memory
\* holds, so a crash between two critical sections forgets nothing.
PersistedInTime ==
    \A i \in Server :
      disk[i] = [term |-> currentTerm[i], vote |-> votedFor[i], log |-> log[i],
                 index |-> snapshotIndex[i], snapshot |-> snapshotByte[i]]

\* VoteStable: terms never decrease and a vote is never changed within its
\* term, across crashes too.
VoteStable ==
    [][\A i \in Server :
         /\ currentTerm'[i] >= currentTerm[i]
         /\ currentTerm'[i] = currentTerm[i] /\ votedFor[i] # Nil
              => votedFor'[i] = votedFor[i]]_vars

\* CommittedStays: no step, a restart included, removes or changes what the
\* server knows to be committed.
CommittedStays ==
    [][\A i \in Server : \A k \in 1 .. commitIndex[i] :
         k <= Loglen(i)' - 1 /\ Holds(i, k)' = Holds(i, k)]_vars

=============================================================================
