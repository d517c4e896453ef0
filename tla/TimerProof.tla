----------------------------- MODULE TimerProof -----------------------------
(***************************************************************************)
(* TypeOK, with the bound on replyChan, and CandidateCounts of             *)
(* ElectionTimer, for every number of peers.                               *)
(***************************************************************************)
EXTENDS ElectionTimer, TLAPS

\* A reply that ElectionWorker has received and not yet counted has its place
\* in replyChan, too.
ReplyRoom ==
    worker = "reply" => unasked + calling + replies + heard + 1 <= Peers - 1

\* The term moves on only together with the role: an election that is given
\* up because of it leaves no Candidate behind.
MovedMeansDown == moved = TRUE => state # "Candidate"

\* The inductive invariant.
Inv == TypeOK /\ ReplyRoom /\ MovedMeansDown /\ CandidateCounts

\* TypeOK, one conjunct for each variable.
LEMMA TypesOf ==
    TypeOK <=>
      /\ state \in {"Follower", "Candidate", "Leader"}
      /\ mu \in {"free", "InstallSnapshot"}
      /\ killed \in BOOLEAN /\ rst \in BOOLEAN /\ start \in BOOLEAN
      /\ abort \in BOOLEAN /\ moved \in BOOLEAN
      /\ timer \in {"running", "expired"}
      /\ ticker \in {"select", "look", "abort", "start", "ended"}
      /\ worker \in {"idle", "begin", "check", "receive", "reply", "aborted", "lost", "ended"}
      /\ unasked \in Nat /\ calling \in Nat /\ replies \in Nat
      /\ heard \in Nat /\ votes \in Nat
      /\ unasked + calling + replies + heard <= Peers - 1
  BY DEF TypeOK

\* Make leaves a follower that has asked nobody.
LEMMA InitInv == Init => Inv
<1> SUFFICES ASSUME Init PROVE Inv
  OBVIOUS
<1>1. TypeOK
  <2>1. unasked + calling + replies + heard <= Peers - 1
    BY PeersAssumption DEF Init
  <2>2. {unasked, calling, replies, heard, votes} \subseteq Nat
    BY DEF Init
  <2>3. {killed, rst, start, abort, moved} \subseteq BOOLEAN
    BY DEF Init
  <2> QED
    BY <2>1, <2>2, <2>3 DEF Init, TypeOK
<1> QED
  BY <1>1 DEF Init, Inv, ReplyRoom, MovedMeansDown, CandidateCounts

\* The end of an election: everything that belongs to it is gone.
LEMMA LoopInv ==
    ASSUME Inv, WorkerLoop, UNCHANGED <<mu, killed, timer, ticker>>,
           state' \in {"Follower", "Leader"} \/ (state' = state /\ moved = TRUE)
                                             \/ (state' = state /\ state = "Leader"),
           rst' \in BOOLEAN, start' \in BOOLEAN, abort' \in BOOLEAN
    PROVE  Inv'
<1>1. TypeOK'
  <2>1. (unasked + calling + replies + heard <= Peers - 1)'
    BY PeersAssumption DEF WorkerLoop
  <2>2. ({unasked, calling, replies, heard, votes} \subseteq Nat)'
    BY DEF WorkerLoop
  <2>3. ({killed, rst, start, abort, moved} \subseteq BOOLEAN)'
    BY TypesOf DEF Inv, WorkerLoop
  <2>4. state' \in {"Follower", "Candidate", "Leader"}
    BY TypesOf DEF Inv
  <2> QED
    BY <2>1, <2>2, <2>3, <2>4, TypesOf DEF Inv, WorkerLoop, TypeOK
<1>2. state' # "Candidate"
  BY DEF Inv, MovedMeansDown
<1>3. worker' # "reply"
  BY DEF WorkerLoop
<1> QED
  BY <1>1, <1>2, <1>3 DEF Inv, ReplyRoom, MovedMeansDown, CandidateCounts

\* What ticker, the slots of the channels and the mutex do has no part in it.
LEMMA OutsideInv ==
    ASSUME Inv, UNCHANGED <<state, killed, worker, moved, ask, count>>,
           mu' \in {"free", "InstallSnapshot"}, timer' \in {"running", "expired"},
           ticker' \in {"select", "look", "abort", "start", "ended"},
           rst' \in BOOLEAN, start' \in BOOLEAN, abort' \in BOOLEAN
    PROVE  Inv'
<1>1. TypeOK'
  BY TypesOf DEF Inv, TypeOK, ask, count
<1> QED
  BY <1>1 DEF Inv, ReplyRoom, MovedMeansDown, CandidateCounts, InElection, ask, count

\* A message from a server of this term or a later one.
LEMMA HearInv ==
    ASSUME Inv, NEW later \in BOOLEAN, Hear(later),
           UNCHANGED <<killed, timer, start, abort, ticker, worker, ask, count>>,
           mu' \in {"free", "InstallSnapshot"}, rst' \in BOOLEAN
    PROVE  Inv'
<1>1. TypeOK'
  <2>1. moved' \in BOOLEAN /\ state' = "Follower"
    BY DEF Hear
  <2> QED
    BY <2>1, TypesOf DEF Inv, TypeOK, ask, count
<1>2. state' = "Follower"
  BY DEF Hear
<1> QED
  BY <1>1, <1>2 DEF Inv, ReplyRoom, MovedMeansDown, CandidateCounts, ask, count

\* Every step keeps the invariant.
LEMMA StepInv ==
    ASSUME Inv, [Next]_vars
    PROVE  Inv'
<1>0. /\ state \in {"Follower", "Candidate", "Leader"}
      /\ mu \in {"free", "InstallSnapshot"}
      /\ killed \in BOOLEAN /\ rst \in BOOLEAN /\ start \in BOOLEAN
      /\ abort \in BOOLEAN /\ moved \in BOOLEAN
      /\ timer \in {"running", "expired"}
      /\ ticker \in {"select", "look", "abort", "start", "ended"}
      /\ worker \in {"idle", "begin", "check", "receive", "reply", "aborted", "lost", "ended"}
      /\ unasked \in Nat /\ calling \in Nat /\ replies \in Nat
      /\ heard \in Nat /\ votes \in Nat
      /\ unasked + calling + replies + heard <= Peers - 1
  BY TypesOf DEF Inv
<1>1. CASE UNCHANGED vars
  BY <1>0, <1>1, OutsideInv DEF vars, ask, count
<1>2. CASE Expire
  BY <1>0, <1>2, OutsideInv DEF Expire, chans
<1>3. CASE TickerStep
  BY <1>0, <1>3, OutsideInv
     DEF TickerStep, TickerReset, TickerExpired, TickerLook, TickerAbort, TickerStart, TickerLoop, chans
<1>4. CASE WorkerStart
  <2>1. TypeOK'
    BY <1>0, <1>4, TypesOf DEF WorkerStart, ask, count, TypeOK
  <2> QED
    BY <2>1, <1>4 DEF WorkerStart, Inv, ReplyRoom, MovedMeansDown, CandidateCounts, InElection, ask, count
<1>5. CASE WorkerEnds
  <2>1. TypeOK'
    BY <1>0, <1>5, TypesOf DEF WorkerEnds, ask, count, TypeOK
  <2> QED
    BY <2>1, <1>5 DEF WorkerEnds, Inv, ReplyRoom, MovedMeansDown, CandidateCounts, InElection, ask, count
<1>6. CASE WorkerBegin
  <2>1. CASE state = "Leader"
    BY <1>0, <1>6, <2>1, LoopInv DEF WorkerBegin, chans
  <2>2. CASE state # "Leader"
    <3>1. /\ state' = "Candidate" /\ moved' = FALSE
          /\ unasked' = Peers - 1 /\ calling' = 0 /\ replies' = 0
          /\ heard' = 0 /\ votes' = 1 /\ worker' \in {"check", "lost"}
          /\ UNCHANGED <<mu, killed, timer, chans, ticker>>
      BY <1>6, <2>2 DEF WorkerBegin, NextReply
    <3>2. TypeOK'
      <4>1. unasked' \in Nat /\ (unasked + calling + replies + heard <= Peers - 1)'
        BY PeersAssumption, <3>1
      <4>2. ({unasked, calling, replies, heard, votes} \subseteq Nat)'
        BY <3>1, <4>1
      <4>3. ({killed, rst, start, abort, moved} \subseteq BOOLEAN)'
        BY <1>0, <3>1 DEF chans
      <4> QED
        BY <1>0, <3>1, <4>1, <4>2, <4>3 DEF TypeOK
    <3> QED
      BY <3>1, <3>2 DEF Inv, ReplyRoom, MovedMeansDown, CandidateCounts, InElection
  <2> QED
    BY <2>1, <2>2
<1>7. CASE WorkerCheck
  <2>1. CASE moved /\ WorkerLoop
    BY <1>0, <1>7, <2>1, LoopInv DEF WorkerCheck, chans
  <2>2. CASE worker' = "receive" /\ UNCHANGED <<moved, ask, count>>
    <3>1. TypeOK'
      BY <1>0, <1>7, <2>2, TypesOf DEF WorkerCheck, TypeOK, chans, ask, count
    <3> QED
      BY <1>7, <2>2, <3>1 DEF WorkerCheck, Inv, ReplyRoom, MovedMeansDown, CandidateCounts, InElection
  <2> QED
    BY <1>7, <2>1, <2>2 DEF WorkerCheck
<1>8. CASE WorkerReceive
  <2>1. TypeOK' /\ ReplyRoom'
    <3>1. replies' \in Nat /\ (unasked + calling + replies + heard + 1 <= Peers - 1)'
      BY <1>0, <1>8, PeersAssumption DEF WorkerReceive, count
    <3>2. TypeOK'
      BY <1>0, <1>8, <3>1, PeersAssumption DEF WorkerReceive, TypeOK, chans, count
    <3> QED
      BY <3>1, <3>2 DEF ReplyRoom
  <2> QED
    BY <1>8, <2>1 DEF WorkerReceive, Inv, MovedMeansDown, CandidateCounts, InElection
<1>9. CASE WorkerReceiveAbort
  <2>1. TypeOK'
    BY <1>0, <1>9, TypesOf DEF WorkerReceiveAbort, TypeOK, ask, count
  <2> QED
    BY <1>9, <2>1 DEF WorkerReceiveAbort, Inv, ReplyRoom, MovedMeansDown, CandidateCounts, InElection
<1>10. CASE WorkerReply
  <2>1. CASE ReplyVoid
    BY <1>0, <1>10, <2>1, LoopInv DEF WorkerReply, ReplyVoid, chans
  <2>2. CASE ReplyWins
    BY <1>0, <1>10, <2>2, LoopInv DEF WorkerReply, ReplyWins
  <2>3. CASE ReplyCounts
    <3>1. /\ worker = "reply" /\ heard' = heard + 1 /\ votes' \in {votes, votes + 1}
          /\ worker' \in {"check", "lost"}
          /\ UNCHANGED <<state, moved, ask, chans, mu, killed, timer, ticker>>
      BY <1>10, <2>3 DEF WorkerReply, ReplyCounts, NextReply
    <3>2. unasked + calling + replies + heard + 1 <= Peers - 1
      BY <3>1 DEF Inv, ReplyRoom
    <3>3. TypeOK'
      BY <1>0, <3>1, <3>2, TypesOf, PeersAssumption DEF TypeOK, ask, chans
    <3> QED
      BY <3>1, <3>3 DEF Inv, ReplyRoom, MovedMeansDown, CandidateCounts, InElection
  <2> QED
    BY <1>10, <2>1, <2>2, <2>3 DEF WorkerReply
<1>11. CASE WorkerGivesUp
  BY <1>0, <1>11, LoopInv DEF WorkerGivesUp, chans
<1>12. CASE GetVote \/ GotVote
  <2>1. TypeOK' /\ ReplyRoom'
    <3>1. CASE GetVote
      BY <1>0, <3>1, TypesOf, PeersAssumption DEF GetVote, TypeOK, chans, count, Inv, ReplyRoom
    <3>2. CASE GotVote
      BY <1>0, <3>2, TypesOf, PeersAssumption DEF GotVote, TypeOK, chans, count, Inv, ReplyRoom
    <3> QED
      BY <1>12, <3>1, <3>2
  <2> QED
    BY <1>12, <2>1 DEF GetVote, GotVote, Inv, MovedMeansDown, CandidateCounts, InElection
<1>13. CASE InstallSnapshotSent \/ RequestVoteSameTerm
  BY <1>0, <1>13, OutsideInv DEF InstallSnapshotSent, RequestVoteSameTerm
<1>14. CASE AppendEntries \/ InstallSnapshot
  BY <1>0, <1>14, HearInv DEF AppendEntries, InstallSnapshot, chans
<1>15. CASE RequestVote
  BY <1>0, <1>15, HearInv DEF RequestVote
<1>16. CASE StepDown
  <2>1. TypeOK'
    BY <1>0, <1>16, TypesOf DEF StepDown, TypeOK, chans, ask, count
  <2> QED
    BY <1>16, <2>1 DEF StepDown, Inv, ReplyRoom, MovedMeansDown, CandidateCounts, ask, count
<1>17. CASE Kill
  <2>1. TypeOK'
    BY <1>0, <1>17, TypesOf DEF Kill, TypeOK, chans, ask, count
  <2> QED
    BY <1>17, <2>1 DEF Kill, Inv, ReplyRoom, MovedMeansDown, CandidateCounts, InElection, ask, count
<1> QED
  BY <1>1, <1>2, <1>3, <1>4, <1>5, <1>6, <1>7, <1>8, <1>9, <1>10, <1>11, <1>12, <1>13, <1>14,
     <1>15, <1>16, <1>17 DEF Next, WorkerStep, Environment

\* The inductive invariant holds throughout.
LEMMA InvCorrect == Spec => []Inv
<1>1. Inv /\ [Next]_vars => Inv'
  BY StepInv
<1> QED
  BY <1>1, InitInv, PTL DEF Spec

\* For every number of peers: the goroutines of an election never have more
\* replies under way than replyChan has room for, so that no GetVote blocks.
THEOREM TypeCorrect == Spec => []TypeOK
<1>1. Inv => TypeOK
  BY DEF Inv
<1> QED
  BY <1>1, InvCorrect, PTL

\* For every number of peers: a Candidate is counting votes, or killed.
THEOREM CandidateCountsCorrect == Spec => []CandidateCounts
<1>1. Inv => CandidateCounts
  BY DEF Inv
<1> QED
  BY <1>1, InvCorrect, PTL
=============================================================================
