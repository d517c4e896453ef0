--------------------------- MODULE ElectionTimer ---------------------------
(***************************************************************************)
(* The goroutines of one Raft server that decide when it stands for        *)
(* election (raft1/raft.go): ticker, ElectionWorker, the GetVote           *)
(* goroutines it starts, and the RPC handlers as far as they touch the     *)
(* role, the term and the election timer.  They share rf.mu and three      *)
(* one-slot channels.                                                      *)
(*                                                                         *)
(* A critical section of rf.mu is one action that needs the mutex free;    *)
(* only InstallSnapshot can block inside one.  What the other servers send *)
(* and answer, and when, is arbitrary; Raft says what their answers mean.  *)
(* Of the terms only one fact matters here: whether CurrentTerm has moved  *)
(* on since the election began.  GetVote goroutines of an election that is *)
(* over talk to a channel that nobody reads and are left out.              *)
(***************************************************************************)
EXTENDS Naturals

CONSTANTS Peers   \* len(rf.peers)

ASSUME PeersAssumption == Peers \in Nat \ {0}

VARIABLES
    state,      \* rf.state
    mu,         \* rf.mu: free, or held by an InstallSnapshot that blocks
    killed,     \* rf.dead, and killCh is closed
    timer,      \* of ticker: running, or its channel holds the expiry
    rst, start, abort,  \* are the slots of tickers[me].rst, start, ElectionAbort full?
    ticker,     \* where ticker is
    worker,     \* where ElectionWorker is
    moved,      \* CurrentTerm # ElectionTerm
    unasked, calling, replies,  \* GetVotes not begun, in Call, and answers in replyChan
    heard, votes                \* ElectionWorker's i and voteCount

chans == <<rst, start, abort>>
ask == <<unasked, calling, replies>>
count == <<heard, votes>>
vars == <<state, mu, killed, timer, rst, start, abort, ticker, worker, moved,
          unasked, calling, replies, heard, votes>>

Free == mu = "free"

\* Make starts ticker, and ticker starts ElectionWorker.
Init ==
    /\ state = "Follower" /\ mu = "free" /\ killed = FALSE
    /\ timer = "running" /\ rst = FALSE /\ start = FALSE /\ abort = FALSE
    /\ ticker = "select" /\ worker = "idle"
    /\ moved = FALSE /\ unasked = 0 /\ calling = 0 /\ replies = 0
    /\ heard = 0 /\ votes = 0

-----------------------------------------------------------------------------
(* ticker.                                                                 *)

\* The head of the loop.
TickerLoop == ticker' = IF killed THEN "ended" ELSE "select"

Expire ==
    /\ timer = "running" /\ ticker # "ended"
    /\ timer' = "expired"
    /\ UNCHANGED <<state, mu, killed, chans, ticker, worker, moved, ask, count>>

TickerReset ==
    /\ ticker = "select" /\ rst
    /\ rst' = FALSE /\ timer' = "running"
    /\ TickerLoop
    /\ UNCHANGED <<state, mu, killed, start, abort, worker, moved, ask, count>>

\* Mutant: the timer is not reset after it expired.
TickerExpiredOnce ==
    /\ ticker = "select" /\ timer = "expired"
    /\ timer' = "stopped" /\ ticker' = "look"
    /\ UNCHANGED <<state, mu, killed, chans, worker, moved, ask, count>>

TickerExpired ==
    /\ ticker = "select" /\ timer = "expired"
    /\ timer' = "running" /\ ticker' = "look"
    /\ UNCHANGED <<state, mu, killed, chans, worker, moved, ask, count>>

TickerLook ==
    /\ ticker = "look" /\ Free
    /\ \/ state = "Leader" /\ TickerLoop
       \/ state = "Candidate" /\ ticker' = "abort"
       \/ state = "Follower" /\ ticker' = "start"
    /\ UNCHANGED <<state, mu, killed, timer, chans, worker, moved, ask, count>>

\* Abort the election in progress.
TickerAbort ==
    /\ ticker = "abort"
    /\ abort' = TRUE /\ ticker' = "start"
    /\ UNCHANGED <<state, mu, killed, timer, rst, start, worker, moved, ask, count>>

\* Mutant: the send waits for an empty slot.
TickerStartWaits ==
    /\ ticker = "start" /\ ~start
    /\ start' = TRUE
    /\ TickerLoop
    /\ UNCHANGED <<state, mu, killed, timer, rst, abort, worker, moved, ask, count>>

TickerStart ==
    /\ ticker = "start"
    /\ start' = TRUE
    /\ TickerLoop
    /\ UNCHANGED <<state, mu, killed, timer, rst, abort, worker, moved, ask, count>>

TickerStep ==
    TickerReset \/ TickerExpired \/ TickerLook \/ TickerAbort \/ TickerStart

-----------------------------------------------------------------------------
(* ElectionWorker.                                                         *)

\* The election is over (break WORK): back to the head of the loop.
WorkerLoop ==
    /\ worker' = IF killed THEN "ended" ELSE "idle"
    /\ moved' = FALSE /\ unasked' = 0 /\ calling' = 0 /\ replies' = 0
    /\ heard' = 0 /\ votes' = 0

\* The head of the loop over the replies.
NextReply(n) == IF n = Peers - 1 THEN "lost" ELSE "check"

WorkerStart ==
    /\ worker = "idle" /\ start
    /\ start' = FALSE /\ worker' = "begin"
    /\ UNCHANGED <<state, mu, killed, timer, rst, abort, ticker, moved, ask, count>>

\* A token in ElectionAbort ends the goroutine when it is between elections,
\* and so does Kill, there and while it waits for a reply.
WorkerEnds ==
    /\ \/ worker = "idle" /\ abort /\ abort' = FALSE
       \/ worker \in {"idle", "check", "receive"} /\ killed /\ UNCHANGED abort
    /\ worker' = "ended"
    /\ UNCHANGED <<state, mu, killed, timer, rst, start, ticker, moved, ask, count>>

\* Mutant: a GetVote for the server itself, too.
WorkerBeginAsksItself ==
    /\ worker = "begin" /\ Free
    /\ \/ state = "Leader" /\ WorkerLoop /\ UNCHANGED state
       \/ /\ state # "Leader"
          /\ state' = "Candidate" /\ moved' = FALSE
          /\ unasked' = Peers /\ calling' = 0 /\ replies' = 0
          /\ heard' = 0 /\ votes' = 1 /\ worker' = NextReply(0)
    /\ UNCHANGED <<mu, killed, timer, chans, ticker>>

\* Stand for election, unless the server leads already.
WorkerBegin ==
    /\ worker = "begin" /\ Free
    /\ \/ state = "Leader" /\ WorkerLoop /\ UNCHANGED state
       \/ /\ state # "Leader"
          /\ state' = "Candidate" /\ moved' = FALSE
          /\ unasked' = Peers - 1 /\ calling' = 0 /\ replies' = 0
          /\ heard' = 0 /\ votes' = 1 /\ worker' = NextReply(0)
    /\ UNCHANGED <<mu, killed, timer, chans, ticker>>

WorkerCheck ==
    /\ worker = "check" /\ ~killed /\ Free
    /\ \/ moved /\ WorkerLoop
       \/ ~moved /\ worker' = "receive" /\ UNCHANGED <<moved, ask, count>>
    /\ UNCHANGED <<state, mu, killed, timer, chans, ticker>>

WorkerReceive ==
    /\ worker = "receive" /\ replies > 0
    /\ replies' = replies - 1 /\ worker' = "reply"
    /\ UNCHANGED <<state, mu, killed, timer, chans, ticker, moved, unasked, calling, count>>

WorkerReceiveAbort ==
    /\ worker = "receive" /\ abort
    /\ abort' = FALSE /\ worker' = "aborted"
    /\ UNCHANGED <<state, mu, killed, timer, rst, start, ticker, moved, ask, count>>

\* The reply comes from a later term, or this server's term has moved on.
ReplyVoid ==
    /\ \/ moved /\ UNCHANGED state
       \/ ~moved /\ state' = "Follower"
    /\ WorkerLoop
    /\ UNCHANGED chans

Majority == Peers \div 2 + 1

\* The vote that makes the majority; ElectionAbort is drained.
ReplyWins ==
    /\ ~moved /\ votes + 1 >= Majority
    /\ state' = "Leader"
    /\ rst' = TRUE /\ abort' = FALSE /\ UNCHANGED start
    /\ WorkerLoop

\* Another vote, or a refusal or no answer.
ReplyCounts ==
    /\ ~moved
    /\ \/ votes + 1 < Majority /\ votes' = votes + 1
       \/ UNCHANGED votes
    /\ heard' = heard + 1 /\ worker' = NextReply(heard + 1)
    /\ UNCHANGED <<state, moved, ask, chans>>

WorkerReply ==
    /\ worker = "reply" /\ Free
    /\ ReplyVoid \/ ReplyWins \/ ReplyCounts
    /\ UNCHANGED <<mu, killed, timer, ticker>>

\* Mutant: the role is left to the next election.
WorkerGivesUpAsCandidate ==
    /\ worker \in {"aborted", "lost"} /\ Free
    /\ WorkerLoop
    /\ UNCHANGED <<state, mu, killed, timer, chans, ticker>>

\* Aborted, or every reply is in and no majority.
WorkerGivesUp ==
    /\ worker \in {"aborted", "lost"} /\ Free
    /\ state' = "Follower"
    /\ WorkerLoop
    /\ UNCHANGED <<mu, killed, timer, chans, ticker>>

WorkerStep ==
    \/ WorkerStart \/ WorkerEnds \/ WorkerBegin \/ WorkerCheck
    \/ WorkerReceive \/ WorkerReceiveAbort \/ WorkerReply \/ WorkerGivesUp

\* GetVote: it asks only a Candidate's peers, and returns without a reply
\* when the role has changed.
GetVote ==
    /\ unasked > 0 /\ Free
    /\ unasked' = unasked - 1
    /\ calling' = IF state = "Candidate" THEN calling + 1 ELSE calling
    /\ UNCHANGED <<state, mu, killed, timer, chans, ticker, worker, moved, replies, count>>

\* Call returns, with a reply or without.
GotVote ==
    /\ calling > 0
    /\ calling' = calling - 1 /\ replies' = replies + 1
    /\ UNCHANGED <<state, mu, killed, timer, chans, ticker, worker, moved, unasked, count>>

-----------------------------------------------------------------------------
(* The RPC handlers, and what else changes role and term.                  *)

InElection == worker \in {"check", "receive", "reply", "aborted", "lost"}

\* The message carries a later term, or the present one.  A leader hears of
\* no other leader in its own term.
Hear(later) ==
    /\ later \/ state # "Leader"
    /\ state' = "Follower"
    /\ moved' = (moved \/ (later /\ InElection))

\* AppendEntries of a current leader: the timer starts anew.
AppendEntries ==
    /\ Free
    /\ \E later \in BOOLEAN : Hear(later)
    /\ rst' = TRUE
    /\ UNCHANGED <<mu, killed, timer, start, abort, ticker, worker, ask, count>>

\* RequestVote of a later term; it may be granted.
RequestVote ==
    /\ Free
    /\ Hear(TRUE)
    /\ rst' \in {rst, TRUE}
    /\ UNCHANGED <<mu, killed, timer, start, abort, ticker, worker, ask, count>>

\* RequestVote of the present term, granted by a server that has not voted.
RequestVoteSameTerm ==
    /\ Free /\ state = "Follower" /\ ~rst /\ (InElection => moved)
    /\ rst' = TRUE
    /\ UNCHANGED <<state, mu, killed, timer, start, abort, ticker, worker, moved, ask, count>>

\* InstallSnapshot of a current leader: the send on rst blocks if the slot is
\* full, with rf.mu held.
InstallSnapshot ==
    /\ Free
    /\ \E later \in BOOLEAN : Hear(later)
    /\ mu' = "InstallSnapshot"
    /\ UNCHANGED <<killed, timer, chans, ticker, worker, ask, count>>

InstallSnapshotSent ==
    /\ mu = "InstallSnapshot" /\ ~rst
    /\ rst' = TRUE /\ mu' = "free"
    /\ UNCHANGED <<state, killed, timer, start, abort, ticker, worker, moved, ask, count>>

\* sendAppendEntries learns of a later term from a reply.
StepDown ==
    /\ Free /\ state = "Leader"
    /\ state' = "Follower"
    /\ UNCHANGED <<mu, killed, timer, chans, ticker, worker, moved, ask, count>>

\* Kill; taking rf.mu at its end has no effect.
Kill ==
    /\ ~killed /\ killed' = TRUE
    /\ UNCHANGED <<state, mu, timer, chans, ticker, worker, moved, ask, count>>

Environment ==
    AppendEntries \/ RequestVote \/ RequestVoteSameTerm \/ InstallSnapshot \/ StepDown \/ Kill

Next ==
    \/ Expire \/ TickerStep \/ WorkerStep \/ GetVote \/ GotVote
    \/ InstallSnapshotSent \/ Environment

Spec == Init /\ [][Next]_vars

\* Every goroutine runs.  A goroutine that waits for rf.mu gets it in the end
\* although others take it again and again (sync.Mutex hands it to a waiter
\* that starves), timers expire, and Call returns (labrpc).
Fairness ==
    /\ WF_vars(Expire) /\ WF_vars(TickerStep) /\ WF_vars(WorkerStep)
    /\ WF_vars(GotVote) /\ WF_vars(InstallSnapshotSent)
    /\ SF_vars(TickerLook) /\ SF_vars(GetVote)
    /\ SF_vars(WorkerBegin) /\ SF_vars(WorkerCheck)
    /\ SF_vars(WorkerReply) /\ SF_vars(WorkerGivesUp)

FairSpec == Spec /\ Fairness

-----------------------------------------------------------------------------
(* Properties.                                                             *)

\* Type invariant.  The replies that were received, are waiting or may still
\* come are no more than replyChan has room for, so that no GetVote blocks.
TypeOK ==
    /\ state \in {"Follower", "Candidate", "Leader"}
    /\ mu \in {"free", "InstallSnapshot"}
    /\ {killed, rst, start, abort, moved} \subseteq BOOLEAN
    /\ timer \in {"running", "expired"}
    /\ ticker \in {"select", "look", "abort", "start", "ended"}
    /\ worker \in {"idle", "begin", "check", "receive", "reply", "aborted", "lost", "ended"}
    /\ {unasked, calling, replies, heard, votes} \subseteq Nat
    /\ unasked + calling + replies + heard <= Peers - 1

\* CandidateCounts: a Candidate's ElectionWorker is busy with its election,
\* until the server is killed; otherwise ticker would send it an abort that
\* nobody expects.
CandidateCounts == state = "Candidate" => InElection \/ killed

\* ElectionWorker took an abort for an election that was over, and returned.
TakenForDead == worker = "ended" /\ ~killed

\* ElectionWorker waits for replies, and every GetVote has returned without
\* one; ticker aborts only Candidates.
WaitsForNobody ==
    /\ worker = "receive" /\ unasked + calling + replies = 0
    /\ ~abort /\ ticker # "abort" /\ state # "Candidate"

\* InstallSnapshot holds rf.mu and waits for ticker to empty rst; ticker
\* waits for rf.mu, or has ended after Kill.
Deadlocked == mu = "InstallSnapshot" /\ rst /\ ticker \in {"look", "ended"}

\* Stands: a server that does not lead and hears nothing stands for election
\* in the end, again and again, unless its ElectionWorker is lost in one of
\* the first two ways above.
Stands ==
    state # "Leader"
      ~> \/ worker = "begin" \/ state = "Leader" \/ rst \/ killed
         \/ TakenForDead \/ WaitsForNobody

\* LockReleased: rf.mu is released, except in the third case.
LockReleased == mu # "free" ~> mu = "free" \/ Deadlocked

\* KilledEnds: after Kill ticker and ElectionWorker end, wherever they wait
\* (the comment of Kill), unless rf.mu is never released.
KilledEnds == killed ~> (ticker = "ended" /\ worker = "ended") \/ Deadlocked

\* AbortStartsAnew: when ticker finds a Candidate it aborts that election and
\* starts a new one (raft.go:1240-1247); Stands without its exception for an
\* abort that comes after the end of the election.
AbortStartsAnew ==
    state # "Leader"
      ~> worker = "begin" \/ state = "Leader" \/ rst \/ killed \/ WaitsForNobody

\* ExpiryStartsAnew: an expired timer starts a new election (raft.go:1247); Stands
\* without its exception for GetVotes that returned without a reply.
ExpiryStartsAnew ==
    state # "Leader"
      ~> worker = "begin" \/ state = "Leader" \/ rst \/ killed \/ TakenForDead

\* KilledStops: Kill makes the goroutines with long-running loops stop (comment
\* of Kill, raft.go:1016-1019), whatever they wait for.
KilledStops == killed ~> (ticker = "ended" /\ worker = "ended")
=============================================================================
