----------------------------- MODULE RaftProof ------------------------------
(***************************************************************************)
(* Theorems about Raft for any finite set of servers, any bounds and any   *)
(* combination of faults: type correctness, the Persister is never behind  *)
(* memory, a vote is never changed, and a term has at most one leader. One *)
(* lemma per action, in the order of Raft.                                 *)
(*                                                                         *)
(* TypeOK means here that no step that the code completes leaves a log     *)
(* without its dummy entry or an index below zero. It is not inductive by  *)
(* itself: InstallSnapshot trims the log by the distance of two snapshots, *)
(* so SnapshotsWhole adds that every snapshot, in memory, on disk or under *)
(* way, has as many entries as its index says.                             *)
(*                                                                         *)
(* The inductive invariant for the elections is TypeOK, SnapshotsWhole,    *)
(* PersistedInTime and VotesSound. ElectionSafety alone is not inductive:  *)
(* it has to be known that the votes behind two leaders cannot come from   *)
(* one voter, for votes that are counted and for replies that are still    *)
(* under way.                                                              *)
(***************************************************************************)
EXTENDS Raft, FiniteSetTheorems, SequenceTheorems, TLAPS

-----------------------------------------------------------------------------
(* A non-empty finite set of integers has a least and a greatest element:  *)
(* strict inclusion is well founded on its subsets, so some initial (or    *)
(* final) segment of it contains no smaller one.                           *)

\* The least element, for the binary search of findFirstIndex.
LEMMA FiniteMinimum ==
    ASSUME NEW S \in SUBSET Int, IsFiniteSet(S), S # {}
    PROVE  \E p \in S : \A q \in S : p <= q
<1> DEFINE Seg(p) == {q \in S : q <= p}
           Segs == {Seg(p) : p \in S}
<1>1. IsWellFoundedOn(StrictSubsetOrdering(S), FiniteSubsetsOf(S))
  BY FS_StrictSubsetOrderingWellFounded
<1>2. \A p \in S : Seg(p) \in SUBSET S /\ IsFiniteSet(Seg(p))
  <2> SUFFICES ASSUME NEW p \in S
               PROVE  Seg(p) \in SUBSET S /\ IsFiniteSet(Seg(p))
    OBVIOUS
  <2>1. Seg(p) \in SUBSET S
    OBVIOUS
  <2> HIDE DEF Seg
  <2> QED
    BY <2>1, FS_Subset
<1>3. Segs \subseteq FiniteSubsetsOf(S) /\ Segs # {}
  <2> HIDE DEF Seg
  <2> QED
    BY <1>2, Zenon DEF FiniteSubsetsOf
<1>4. PICK X \in Segs : \A Y \in Segs : <<Y, X>> \notin StrictSubsetOrdering(S)
  BY <1>1, <1>3, WFMin, Zenon
<1>5. PICK p \in S : X = Seg(p)
  BY <1>4
<1>6. ASSUME NEW q \in S, q < p PROVE FALSE
  <2>1. \A r \in S : r <= q => r <= p
    BY <1>6
  <2>2. Seg(q) \in SUBSET S /\ Seg(p) \in SUBSET S /\ Seg(q) \subseteq Seg(p)
    BY <2>1
  <2>3. p \in Seg(p) /\ p \notin Seg(q)
    BY <1>6
  <2>4. <<Seg(q), Seg(p)>> \in StrictSubsetOrdering(S)
    <3> HIDE DEF Seg
    <3> QED
      BY <2>2, <2>3 DEF StrictSubsetOrdering
  <2> QED
    BY <1>4, <1>5, <2>4
<1> QED
  BY <1>6

\* The greatest element, for the median of matchIndex and for findLastIndex.
LEMMA FiniteMaximum ==
    ASSUME NEW S \in SUBSET Int, IsFiniteSet(S), S # {}
    PROVE  \E p \in S : \A q \in S : q <= p
<1> DEFINE Seg(p) == {q \in S : p <= q}
           Segs == {Seg(p) : p \in S}
<1>1. IsWellFoundedOn(StrictSubsetOrdering(S), FiniteSubsetsOf(S))
  BY FS_StrictSubsetOrderingWellFounded
<1>2. \A p \in S : Seg(p) \in SUBSET S /\ IsFiniteSet(Seg(p))
  <2> SUFFICES ASSUME NEW p \in S
               PROVE  Seg(p) \in SUBSET S /\ IsFiniteSet(Seg(p))
    OBVIOUS
  <2>1. Seg(p) \in SUBSET S
    OBVIOUS
  <2> HIDE DEF Seg
  <2> QED
    BY <2>1, FS_Subset
<1>3. Segs \subseteq FiniteSubsetsOf(S) /\ Segs # {}
  <2> HIDE DEF Seg
  <2> QED
    BY <1>2, Zenon DEF FiniteSubsetsOf
<1>4. PICK X \in Segs : \A Y \in Segs : <<Y, X>> \notin StrictSubsetOrdering(S)
  BY <1>1, <1>3, WFMin, Zenon
<1>5. PICK p \in S : X = Seg(p)
  BY <1>4
<1>6. ASSUME NEW q \in S, p < q PROVE FALSE
  <2>1. \A r \in S : q <= r => p <= r
    BY <1>6
  <2>2. Seg(q) \in SUBSET S /\ Seg(p) \in SUBSET S /\ Seg(q) \subseteq Seg(p)
    BY <2>1
  <2>3. p \in Seg(p) /\ p \notin Seg(q)
    BY <1>6
  <2>4. <<Seg(q), Seg(p)>> \in StrictSubsetOrdering(S)
    <3> HIDE DEF Seg
    <3> QED
      BY <2>2, <2>3 DEF StrictSubsetOrdering
  <2> QED
    BY <1>4, <1>5, <2>4
<1> QED
  BY <1>6

-----------------------------------------------------------------------------
(* Slices.                                                                 *)

\* A prefix of a slice is a slice of the length asked for.
LEMMA TakeType ==
    ASSUME NEW S, NEW s \in Seq(S), NEW n \in 0 .. Len(s)
    PROVE  Take(s, n) \in Seq(S) /\ Len(Take(s, n)) = n
  BY SubSeqProperties, ElementOfSeq DEF Take

\* What follows a prefix of a slice is a slice of the remaining length.
LEMMA SkipType ==
    ASSUME NEW S, NEW s \in Seq(S), NEW n \in 0 .. Len(s)
    PROVE  Skip(s, n) \in Seq(S) /\ Len(Skip(s, n)) = Len(s) - n
  BY SubSeqProperties, ElementOfSeq DEF Skip

-----------------------------------------------------------------------------
\* Make() leaves every variable of its type.
LEMMA InitTypeOK == Init => TypeOK
<1> SUFFICES ASSUME Init PROVE TypeOK
  OBVIOUS
<1>1. [term |-> 0, cmd |-> Nil] \in Entry
  BY DEF Entry
<1>2. /\ <<[term |-> 0, cmd |-> Nil]>> \in Seq(Entry)
      /\ Len(<<[term |-> 0, cmd |-> Nil]>>) = 1
      /\ <<>> \in Seq(Entry)
  BY <1>1
<1>3. NoElection \in Election
  BY DEF NoElection, Election
<1>4. log \in [Server -> Seq(Entry)] /\ \A i \in Server : Len(log[i]) = 1
  BY <1>2 DEF Init
<1>5. disk \in [Server -> Persisted] /\ \A i \in Server : disk[i].log = log[i]
  BY <1>2, <1>4 DEF Init, Persisted
<1>6. /\ currentTerm \in [Server -> Nat]
      /\ votedFor \in [Server -> Server \cup {Nil}]
      /\ snapshotIndex \in [Server -> Nat]
      /\ snapshotTerm \in [Server -> Nat]
      /\ commitIndex \in [Server -> Nat]
      /\ state \in [Server -> Roles]
  BY DEF Init, Roles
<1>7. /\ snapshotByte \in [Server -> Seq(Entry)]
      /\ election \in [Server -> Election]
  BY <1>2, <1>3 DEF Init
<1>8. /\ nextIndex \in [Server -> [Server -> Nat]]
      /\ matchIndex \in [Server -> [Server -> Nat]]
  BY DEF Init
<1>9. /\ down \subseteq Server
      /\ rpcs \subseteq Message
      /\ inside \subseteq {m \in rpcs : m.type = "AE" /\ m.entries # <<>>}
  BY DEF Init
<1>10. \A i \in Server : Len(log[i]) >= 1 /\ Len(disk[i].log) >= 1
  <2> SUFFICES ASSUME NEW i \in Server
               PROVE  Len(log[i]) >= 1 /\ Len(disk[i].log) >= 1
    OBVIOUS
  <2>1. Len(log[i]) = 1
    BY <1>4
  <2>2. disk[i].log = log[i]
    BY <1>5
  <2>3. Len(disk[i].log) = 1
    BY <2>1, <2>2, Zenon
  <2> QED
    BY <2>1, <2>3
<1> QED
  BY <1>4, <1>5, <1>6, <1>7, <1>8, <1>9, <1>10 DEF TypeOK

\* persist() writes a value of the right type.
LEMMA PersistType ==
    ASSUME TypeOK, NEW i \in Server, persist(i),
           currentTerm' \in [Server -> Nat],
           votedFor' \in [Server -> Server \cup {Nil}],
           log' \in [Server -> Seq(Entry)],
           snapshotIndex' \in [Server -> Nat],
           snapshotByte' \in [Server -> Seq(Entry)],
           \A j \in Server : Len(log'[j]) >= 1
    PROVE  /\ disk' \in [Server -> Persisted]
           /\ \A j \in Server : Len(disk'[j].log) >= 1
  BY DEF TypeOK, persist, Persisted

\* Becoming a candidate (raft.go, ElectionWorker) keeps the types.
LEMMA StartElectionType ==
    ASSUME TypeOK, NEW i \in Server, StartElection(i)
    PROVE  TypeOK'
<1>1. /\ currentTerm' \in [Server -> Nat]
      /\ votedFor' \in [Server -> Server \cup {Nil}]
      /\ state' \in [Server -> Roles]
      /\ election' \in [Server -> Election]
  <2>1. currentTerm[i] + 1 \in Nat
    BY DEF TypeOK
  <2>2. [term |-> currentTerm[i] + 1, votes |-> {i}, asked |-> {}, heard |-> {}] \in Election
    BY <2>1 DEF Election
  <2>3. election' \in [Server -> Election]
    BY <2>2 DEF TypeOK, StartElection
  <2> QED
    BY <2>1, <2>3 DEF TypeOK, StartElection, Roles
<1>2. /\ disk' \in [Server -> Persisted]
      /\ \A j \in Server : Len(disk'[j].log) >= 1
  BY <1>1, PersistType DEF TypeOK, StartElection
<1> QED
  BY <1>1, <1>2 DEF TypeOK, StartElection, leaderVars

\* A log always has a last entry, if only the dummy one, and a length.
LEMMA LastEntry ==
    ASSUME TypeOK, NEW i \in Server
    PROVE  log[i][Len(log[i])] \in Entry /\ Loglen(i) \in Nat /\ Loglen(i) >= 1
  BY ElementOfSeq DEF TypeOK, Loglen

\* Sending a RequestVote (GetVote) keeps the types.
LEMMA GetVoteType ==
    ASSUME TypeOK, NEW i \in Server, NEW j \in Server, GetVote(i, j)
    PROVE  TypeOK'
<1>1. election' \in [Server -> Election]
  <2>1. election[i] \in Election
    BY DEF TypeOK
  <2>2. [election[i] EXCEPT !.asked = election[i].asked \cup {j}] \in Election
    BY <2>1 DEF Election
  <2>3. election' = [election EXCEPT ![i] =
                       [election[i] EXCEPT !.asked = election[i].asked \cup {j}]]
    BY DEF GetVote
  <2> QED
    BY <2>2, <2>3 DEF TypeOK
<1>2. rpcs' \subseteq Message /\ rpcs \subseteq rpcs'
  <2>1. /\ log[i][Len(log[i])].term \in Nat
        /\ Loglen(i) - 1 \in Nat
        /\ currentTerm[i] \in Nat
    <3>1. log[i][Len(log[i])] \in Entry /\ Loglen(i) \in Nat /\ Loglen(i) >= 1
      BY LastEntry
    <3>2. currentTerm[i] \in Nat
      BY DEF TypeOK
    <3> QED
      BY <3>1, <3>2 DEF Entry
  <2>2. [type |-> "RV", src |-> i, dst |-> j, term |-> currentTerm[i],
         lastIndex |-> Loglen(i) - 1, lastTerm |-> log[i][Len(log[i])].term] \in Message
    BY <2>1 DEF Message
  <2> QED
    BY <2>2 DEF GetVote, TypeOK
<1> QED
  BY <1>1, <1>2 DEF TypeOK, GetVote, leaderVars, persistent

\* Aborting an election keeps the types.
LEMMA AbortElectionType ==
    ASSUME TypeOK, NEW i \in Server, AbortElection(i)
    PROVE  TypeOK'
<1>1. NoElection \in Election
  BY DEF NoElection, Election
<1>2. state' \in [Server -> Roles] /\ election' \in [Server -> Election]
  BY <1>1 DEF TypeOK, AbortElection, Roles
<1> QED
  BY <1>2 DEF TypeOK, AbortElection, leaderVars, persistent

-----------------------------------------------------------------------------
(* Messages.                                                               *)

\* The fields of RequestVote calls and replies have their types.
LEMMA VoteMessage ==
    ASSUME TypeOK, NEW m \in rpcs
    PROVE  /\ m.src \in Server /\ m.dst \in Server /\ m.term \in Nat
           /\ m.type = "RV" => m.lastIndex \in Nat /\ m.lastTerm \in Nat
           /\ m.type = "RVReply" => m.rterm \in Nat /\ m.granted \in BOOLEAN
  BY DEF TypeOK, Message

\* The fields of AppendEntries calls and replies have their types.
LEMMA EntriesMessage ==
    ASSUME TypeOK, NEW m \in rpcs
    PROVE  /\ m.type = "AE" => /\ m.prev \in Nat /\ m.prevTerm \in Nat
                               /\ m.entries \in Seq(Entry)
                               /\ m.commit \in Nat /\ m.live \in BOOLEAN
           /\ m.type = "AEReply" => /\ m.last \in Nat /\ m.rterm \in Nat
                                    /\ m.success \in BOOLEAN /\ m.xterm \in Nat
                                    /\ m.xindex \in Int /\ m.xlength \in Nat
  BY DEF TypeOK, Message

\* The fields of InstallSnapshot calls and replies have their types.
LEMMA SnapshotMessage ==
    ASSUME TypeOK, NEW m \in rpcs
    PROVE  /\ m.type = "IS" => /\ m.lastIndex \in Nat /\ m.lastTerm \in Nat
                               /\ m.data \in Seq(Entry) /\ m.live \in BOOLEAN
           /\ m.type = "ISReply" => m.rterm \in Nat
  BY DEF TypeOK, Message

\* A goroutine that gives up on a call leaves a well-typed request behind.
LEMMA GiveUpType ==
    ASSUME TypeOK, NEW m \in rpcs, m.type \in {"AE", "IS"}
    PROVE  /\ GiveUp(m) \in Message /\ GiveUp(m).type = m.type
           /\ m.type = "AE" => GiveUp(m).entries = m.entries
<1>1. CASE m.type = "AE"
  <2>1. m \in [type : {"AE"}, src : Server, dst : Server, term : Nat, prev : Nat,
               prevTerm : Nat, entries : Seq(Entry), commit : Nat, live : BOOLEAN]
    BY <1>1 DEF TypeOK, Message
  <2>2. GiveUp(m) \in [type : {"AE"}, src : Server, dst : Server, term : Nat, prev : Nat,
               prevTerm : Nat, entries : Seq(Entry), commit : Nat, live : BOOLEAN]
    BY <2>1 DEF GiveUp
  <2> QED
    BY <1>1, <2>1, <2>2 DEF GiveUp, Message
<1>2. CASE m.type = "IS"
  <2>1. m \in [type : {"IS"}, src : Server, dst : Server, term : Nat, lastIndex : Nat,
               lastTerm : Nat, data : Seq(Entry), live : BOOLEAN]
    BY <1>2 DEF TypeOK, Message
  <2>2. GiveUp(m) \in [type : {"IS"}, src : Server, dst : Server, term : Nat, lastIndex : Nat,
               lastTerm : Nat, data : Seq(Entry), live : BOOLEAN]
    BY <2>1 DEF GiveUp
  <2> QED
    BY <1>2, <2>1, <2>2 DEF GiveUp, Message
<1> QED
  BY <1>1, <1>2

\* The reply of a vote request.
LEMMA VoteReplyType ==
    ASSUME TypeOK, NEW m \in rpcs, m.type = "RV",
           NEW rterm \in Nat, NEW granted \in BOOLEAN, VoteReply(m, rterm, granted)
    PROVE  /\ rpcs' \subseteq Message
           /\ inside \subseteq {c \in rpcs' : c.type = "AE" /\ c.entries # <<>>}
<1>1. [type |-> "RVReply", src |-> m.src, dst |-> m.dst, term |-> m.term,
       rterm |-> rterm, granted |-> granted] \in Message
  BY VoteMessage DEF Message
<1>2. rpcs' \subseteq Message /\ rpcs \ {m} \subseteq rpcs'
  BY <1>1 DEF VoteReply, TypeOK
<1>3. m \notin inside
  BY DEF TypeOK
<1> QED
  BY <1>2, <1>3 DEF TypeOK

\* The reply of any other request.
LEMMA ReplyType ==
    ASSUME TypeOK, NEW m \in rpcs, NEW r \in Message, Reply(m, r)
    PROVE  rpcs' \subseteq Message /\ rpcs \ {m} \subseteq rpcs'
  BY DEF Reply, TypeOK

\* A reply built by the AppendEntries handler is a message.
LEMMA AEReplyType ==
    ASSUME TypeOK, NEW m \in rpcs, m.type = "AE", NEW rterm \in Nat,
           NEW success \in BOOLEAN, NEW xterm \in Nat, NEW xindex \in Int, NEW xlength \in Nat
    PROVE  AEReply(m, rterm, success, xterm, xindex, xlength) \in Message
<1>1. m.prev + Len(m.entries) \in Nat
  BY EntriesMessage
<1>2. m.src \in Server /\ m.dst \in Server /\ m.term \in Nat
  BY VoteMessage
<1> QED
  BY <1>1, <1>2 DEF AEReply, Message

\* The positive answer of AppendEntries.
LEMMA SuccessType ==
    ASSUME TypeOK, NEW m \in rpcs, m.type = "AE"
    PROVE  AEReply(m, m.term, TRUE, 0, 0, 0) \in Message
<1>1. m.term \in Nat
  BY VoteMessage
<1>2. TRUE \in BOOLEAN /\ 0 \in Nat /\ 0 \in Int
  OBVIOUS
<1> QED
  BY <1>1, <1>2, AEReplyType

\* A reply built by the InstallSnapshot handler is a message.
LEMMA ISReplyType ==
    ASSUME TypeOK, NEW m \in rpcs, NEW rterm \in Nat
    PROVE  ISReply(m, rterm) \in Message
  BY VoteMessage DEF ISReply, Message

-----------------------------------------------------------------------------
(* Elections.                                                              *)

\* The record of no election under way is an election record.
LEMMA NoElectionType == NoElection \in Election
  BY DEF NoElection, Election

\* The RequestVote handler keeps the types.
LEMMA RequestVoteType ==
    ASSUME TypeOK, NEW m \in rpcs, RequestVote(m.dst, m)
    PROVE  TypeOK'
<1> DEFINE i == m.dst
<1>0. i \in Server /\ m.src \in Server /\ m.term \in Nat /\ currentTerm[i] \in Nat /\ m.type = "RV"
  BY VoteMessage DEF TypeOK, RequestVote
<1>1. CASE RequestVoteStale(i, m)
  <2>1. /\ rpcs' \subseteq Message
        /\ inside \subseteq {c \in rpcs' : c.type = "AE" /\ c.entries # <<>>}
    BY <1>0, <1>1, VoteReplyType DEF RequestVoteStale
  <2> QED
    BY <1>1, <2>1 DEF TypeOK, RequestVote, RequestVoteStale, persistent, leaderVars
<1>2. CASE RequestVoteSameTerm(i, m)
  <2> DEFINE grant == UpToDate(i, m) /\ VoteFree(i, m)
  <2>1. grant \in BOOLEAN
    BY DEF UpToDate, VoteFree
  <2>2. votedFor' \in [Server -> Server \cup {Nil}]
    BY <1>0, <1>2 DEF RequestVoteSameTerm, TypeOK
  <2>3. /\ rpcs' \subseteq Message
        /\ inside \subseteq {c \in rpcs' : c.type = "AE" /\ c.entries # <<>>}
    BY <1>0, <1>2, <2>1, VoteReplyType DEF RequestVoteSameTerm
  <2>4. /\ disk' \in [Server -> Persisted]
        /\ \A j \in Server : Len(disk'[j].log) >= 1
    BY <1>0, <1>2, <2>2, PersistType DEF TypeOK, RequestVoteSameTerm
  <2> QED
    BY <1>2, <2>2, <2>3, <2>4 DEF TypeOK, RequestVote, RequestVoteSameTerm, leaderVars
<1>3. CASE RequestVoteNewTerm(i, m)
  <2>1. UpToDate(i, m) \in BOOLEAN
    BY DEF UpToDate
  <2>2. /\ currentTerm' \in [Server -> Nat]
        /\ votedFor' \in [Server -> Server \cup {Nil}]
        /\ state' \in [Server -> Roles]
    BY <1>0, <1>3 DEF RequestVoteNewTerm, TypeOK, Roles
  <2>3. election' \in [Server -> Election]
    BY <1>3, NoElectionType DEF RequestVoteNewTerm, TermMoved, TypeOK
  <2>4. /\ rpcs' \subseteq Message
        /\ inside \subseteq {c \in rpcs' : c.type = "AE" /\ c.entries # <<>>}
    BY <1>0, <1>3, <2>1, VoteReplyType DEF RequestVoteNewTerm
  <2>5. /\ disk' \in [Server -> Persisted]
        /\ \A j \in Server : Len(disk'[j].log) >= 1
    BY <1>0, <1>3, <2>2, PersistType DEF TypeOK, RequestVoteNewTerm
  <2> QED
    BY <1>3, <2>2, <2>3, <2>4, <2>5 DEF TypeOK, RequestVote, RequestVoteNewTerm, leaderVars
<1> QED
  BY <1>1, <1>2, <1>3 DEF RequestVote

\* Stepping down on a newer term, with its persist(), keeps the types.
LEMMA StepDownType ==
    ASSUME TypeOK, NEW i \in Server, NEW t \in Nat, StepDown(i, t)
    PROVE  /\ currentTerm' \in [Server -> Nat]
           /\ votedFor' \in [Server -> Server \cup {Nil}]
           /\ state' \in [Server -> Roles]
           /\ election' \in [Server -> Election]
           /\ disk' \in [Server -> Persisted]
           /\ \A j \in Server : Len(disk'[j].log) >= 1
<1>1. /\ currentTerm' \in [Server -> Nat]
      /\ votedFor' \in [Server -> Server \cup {Nil}]
      /\ state' \in [Server -> Roles]
  BY DEF StepDown, TypeOK, Roles
<1>2. election' \in [Server -> Election]
  BY NoElectionType DEF StepDown, TermMoved, TypeOK
<1> QED
  BY <1>1, <1>2, PersistType DEF TypeOK, StepDown

\* Removing an answered or lost call that no handler is working on.
LEMMA DropType ==
    ASSUME TypeOK, NEW m \in rpcs, m \notin inside, rpcs' = rpcs \ {m}
    PROVE  /\ rpcs' \subseteq Message
           /\ inside \subseteq {c \in rpcs' : c.type = "AE" /\ c.entries # <<>>}
  BY DEF TypeOK

\* Counting a vote, and becoming leader on a majority, keeps the types.
LEMMA TallyType ==
    ASSUME TypeOK, NEW i \in Server, NEW m \in rpcs, NEW granted \in BOOLEAN,
           Tally(i, m, granted)
    PROVE  /\ election' \in [Server -> Election]
           /\ state' \in [Server -> Roles]
           /\ nextIndex' \in [Server -> [Server -> Nat]]
           /\ matchIndex' \in [Server -> [Server -> Nat]]
<1> DEFINE votes == election[i].votes \cup (IF granted THEN {m.dst} ELSE {})
           heard == election[i].heard \cup {m.dst}
           won   == granted /\ Cardinality(votes) >= Cardinality(Server) \div 2 + 1
           lost  == ~won /\ heard = Server \ {i}
<1>1. election' \in [Server -> Election]
  <2>1. election[i] \in Election /\ m.dst \in Server
    BY VoteMessage DEF TypeOK
  <2>2. votes \in SUBSET Server /\ heard \in SUBSET Server
    BY <2>1 DEF Election
  <2>3. [election[i] EXCEPT !.votes = votes, !.heard = heard] \in Election
    BY <2>1, <2>2 DEF Election
  <2> HIDE DEF votes, heard
  <2>4. election' = [election EXCEPT ![i] =
                       IF lost THEN NoElection
                       ELSE [election[i] EXCEPT !.votes = votes, !.heard = heard]]
    BY DEF Tally, votes, heard
  <2> QED
    BY <2>3, <2>4, NoElectionType DEF TypeOK
<1>2. state' = [state EXCEPT ![i] = IF won THEN "Leader"
                                    ELSE IF lost THEN "Follower" ELSE state[i]]
  BY DEF Tally
<1>3. state' \in [Server -> Roles]
  <2> HIDE DEF won, lost
  <2> QED
    BY <1>2 DEF TypeOK, Roles
<1>4. Loglen(i) \in Nat
  BY LastEntry
<1>5. [j \in Server |-> IF j = i THEN 0 ELSE Loglen(i)] \in [Server -> Nat]
  BY <1>4
<1>6. /\ nextIndex' \in [Server -> [Server -> Nat]]
      /\ matchIndex' \in [Server -> [Server -> Nat]]
  <2>1. CASE won
    <3>1. /\ nextIndex' = [nextIndex EXCEPT ![i] =
                             [j \in Server |-> IF j = i THEN 0 ELSE Loglen(i)]]
          /\ matchIndex' = [matchIndex EXCEPT ![i] = [j \in Server |-> 0]]
      BY <2>1 DEF Tally
    <3> QED
      BY <1>5, <3>1 DEF TypeOK
  <2>2. CASE ~won
    <3>1. nextIndex' = nextIndex /\ matchIndex' = matchIndex
      BY <2>2 DEF Tally, leaderVars
    <3> QED
      BY <3>1 DEF TypeOK
  <2> QED
    BY <2>1, <2>2
<1> QED
  BY <1>1, <1>3, <1>6

\* Reading a RequestVote reply keeps the types.
LEMMA HandleVoteReplyType ==
    ASSUME TypeOK, NEW m \in rpcs, HandleVoteReply(m.src, m)
    PROVE  TypeOK'
<1> DEFINE i == m.src
<1>0. i \in Server /\ m.rterm \in Nat /\ m.granted \in BOOLEAN
  BY VoteMessage DEF HandleVoteReply
<1>1. /\ rpcs' \subseteq Message
      /\ inside \subseteq {c \in rpcs' : c.type = "AE" /\ c.entries # <<>>}
  <2>1. m \notin inside
    BY DEF TypeOK, HandleVoteReply
  <2> QED
    BY <2>1, DropType DEF HandleVoteReply
<1>2. CASE UNCHANGED <<persistent, state, election, leaderVars>>
  BY <1>1, <1>2 DEF TypeOK, HandleVoteReply, persistent, leaderVars
<1>3. CASE StepDown(i, m.rterm) /\ UNCHANGED leaderVars
  <2>1. UNCHANGED <<log, snapshotIndex, snapshotByte>>
    BY <1>3 DEF StepDown
  <2> QED
    BY <1>0, <1>1, <1>3, <2>1, StepDownType DEF TypeOK, HandleVoteReply, leaderVars
<1>4. CASE Tally(i, m, m.granted)
  <2>1. UNCHANGED persistent
    BY <1>4 DEF Tally
  <2>2. /\ election' \in [Server -> Election]
        /\ state' \in [Server -> Roles]
        /\ nextIndex' \in [Server -> [Server -> Nat]]
        /\ matchIndex' \in [Server -> [Server -> Nat]]
    BY <1>0, <1>4, TallyType
  <2> QED
    BY <1>1, <2>1, <2>2 DEF TypeOK, HandleVoteReply, persistent
<1> QED
  BY <1>2, <1>3, <1>4 DEF HandleVoteReply

\* A failed RequestVote call, counted as a refusal, keeps the types.
LEMMA LoseVoteType ==
    ASSUME TypeOK, NEW m \in rpcs, LoseVote(m.src, m)
    PROVE  TypeOK'
<1> DEFINE i == m.src
<1>0. i \in Server
  BY VoteMessage
<1>1. /\ rpcs' \subseteq Message
      /\ inside \subseteq {c \in rpcs' : c.type = "AE" /\ c.entries # <<>>}
  <2>1. m \notin inside
    BY DEF TypeOK, LoseVote
  <2> QED
    BY <2>1, DropType DEF LoseVote
<1>2. CASE UNCHANGED <<persistent, state, election, leaderVars>>
  BY <1>1, <1>2 DEF TypeOK, LoseVote, persistent, leaderVars
<1>3. CASE Tally(i, m, FALSE)
  <2>1. UNCHANGED persistent
    BY <1>3 DEF Tally
  <2>2. /\ election' \in [Server -> Election]
        /\ state' \in [Server -> Roles]
        /\ nextIndex' \in [Server -> [Server -> Nat]]
        /\ matchIndex' \in [Server -> [Server -> Nat]]
    BY <1>0, <1>3, TallyType
  <2> QED
    BY <1>1, <2>1, <2>2 DEF TypeOK, LoseVote, persistent
<1> QED
  BY <1>2, <1>3 DEF LoseVote

-----------------------------------------------------------------------------
(* Replication.                                                            *)

\* The facts about server i that most steps need.
LEMMA LocalType ==
    ASSUME TypeOK, NEW i \in Server
    PROVE  /\ currentTerm[i] \in Nat /\ commitIndex[i] \in Nat
           /\ snapshotIndex[i] \in Nat /\ snapshotTerm[i] \in Nat
           /\ log[i] \in Seq(Entry) /\ Len(log[i]) \in Nat /\ Len(log[i]) >= 1
           /\ snapshotByte[i] \in Seq(Entry)
           /\ Loglen(i) = Len(log[i]) + snapshotIndex[i]
  BY LenProperties DEF TypeOK, Loglen

\* The reset of nextIndex at the top of sendAppendEntries.
LEMMA Next1Type ==
    ASSUME TypeOK, NEW i \in Server, NEW j \in Server
    PROVE  /\ Next1(i, j) \in 0 .. Loglen(i)
           /\ [nextIndex EXCEPT ![i][j] = Next1(i, j)] \in [Server -> [Server -> Nat]]
<1>1. Loglen(i) \in Nat
  BY LocalType
<1>2. nextIndex \in [Server -> [Server -> Nat]] /\ nextIndex[i][j] \in Nat
  BY DEF TypeOK
<1>3. Next1(i, j) \in 0 .. Loglen(i) /\ Next1(i, j) \in Nat
  BY <1>1, <1>2 DEF Next1, MinOf
<1>4. [nextIndex[i] EXCEPT ![j] = Next1(i, j)] \in [Server -> Nat]
  BY <1>2, <1>3
<1> QED
  BY <1>2, <1>3, <1>4

\* Sending a snapshot (sendAppendEntries) keeps the types.
LEMMA SendInstallSnapshotType ==
    ASSUME TypeOK, NEW i \in Server, NEW j \in Server, SendInstallSnapshot(i, j)
    PROVE  TypeOK'
<1>1. nextIndex' \in [Server -> [Server -> Nat]]
  BY Next1Type DEF SendInstallSnapshot
<1>2. [type |-> "IS", src |-> i, dst |-> j, term |-> currentTerm[i],
       lastIndex |-> snapshotIndex[i], lastTerm |-> snapshotTerm[i],
       data |-> snapshotByte[i], live |-> TRUE] \in Message
  BY LocalType DEF Message
<1>3. rpcs' \subseteq Message /\ rpcs \subseteq rpcs'
  BY <1>2 DEF SendInstallSnapshot, TypeOK
<1> QED
  BY <1>1, <1>3 DEF TypeOK, SendInstallSnapshot, persistent

\* Sending entries (sendAppendEntries) keeps the types.
LEMMA SendAppendEntriesType ==
    ASSUME TypeOK, NEW i \in Server, NEW j \in Server, SendAppendEntries(i, j)
    PROVE  TypeOK'
<1> DEFINE next == Next1(i, j)
           pos == next - snapshotIndex[i]
<1>1. nextIndex' \in [Server -> [Server -> Nat]]
  BY Next1Type DEF SendAppendEntries
<1>2. next \in 0 .. Loglen(i) /\ next > snapshotIndex[i]
  BY Next1Type DEF SendAppendEntries
<1>3. /\ next - 1 \in Nat /\ pos \in 1 .. Len(log[i])
      /\ At(i, next - 1) = log[i][pos]
  <2>1. /\ snapshotIndex[i] \in Nat /\ Len(log[i]) \in Nat
        /\ Loglen(i) = Len(log[i]) + snapshotIndex[i]
    BY LocalType
  <2>2. (next - 1) - snapshotIndex[i] + 1 = pos
    BY <1>2, <2>1
  <2> QED
    BY <1>2, <2>1, <2>2 DEF At
<1>4. At(i, next - 1) \in Entry
  BY <1>3, LocalType, ElementOfSeq
<1>5. EntriesFrom(i, next) \in Seq(Entry)
  BY <1>3, LocalType, SkipType DEF EntriesFrom
<1>6. [type |-> "AE", src |-> i, dst |-> j, term |-> currentTerm[i],
       prev |-> next - 1, prevTerm |-> At(i, next - 1).term,
       entries |-> EntriesFrom(i, next),
       commit |-> commitIndex[i], live |-> TRUE] \in Message
  <2>1. At(i, next - 1).term \in Nat
    BY <1>4 DEF Entry
  <2> QED
    BY <1>3, <1>5, <2>1, LocalType DEF Message
<1>7. rpcs' \subseteq Message /\ rpcs \subseteq rpcs'
  BY <1>6 DEF SendAppendEntries, TypeOK
<1> QED
  BY <1>1, <1>7 DEF TypeOK, SendAppendEntries, persistent

\* Turning follower of a leader's term keeps the types.
LEMMA FollowType ==
    ASSUME TypeOK, NEW i \in Server, NEW t \in Nat, Follow(i, t)
    PROVE  /\ currentTerm' \in [Server -> Nat]
           /\ votedFor' \in [Server -> Server \cup {Nil}]
           /\ state' \in [Server -> Roles]
           /\ election' \in [Server -> Election]
<1>1. /\ currentTerm' \in [Server -> Nat]
      /\ votedFor' \in [Server -> Server \cup {Nil}]
      /\ state' \in [Server -> Roles]
  BY DEF Follow, TypeOK, Roles
<1>2. election' \in [Server -> Election]
  BY NoElectionType DEF Follow, TermMoved, TypeOK
<1> QED
  BY <1>1, <1>2

\* The append: the result has at least one entry, because at least one of
\* the entries of the call lies beyond "from".
LEMMA AppendFromType ==
    ASSUME TypeOK, NEW i \in Server, NEW m \in rpcs, m.type = "AE", NEW from \in Nat,
           from - m.prev \in 0 .. Len(m.entries) - 1, AppendFrom(i, m, from),
           currentTerm' \in [Server -> Nat], votedFor' \in [Server -> Server \cup {Nil}]
    PROVE  /\ log' \in [Server -> Seq(Entry)] /\ \A j \in Server : Len(log'[j]) >= 1
           /\ commitIndex' \in [Server -> Nat]
           /\ UNCHANGED <<snapshotIndex, snapshotByte>>
           /\ disk' \in [Server -> Persisted] /\ \A j \in Server : Len(disk'[j].log) >= 1
           /\ down' \subseteq Server
           /\ rpcs' \subseteq Message /\ rpcs \ {m} \subseteq rpcs'
<1> DEFINE keep == from + 1 - snapshotIndex[i]
           tail == Skip(m.entries, from - m.prev)
<1>0. /\ m.entries \in Seq(Entry) /\ Len(m.entries) \in Nat
      /\ m.commit \in Nat /\ m.term \in Nat /\ keep \in Int
  BY EntriesMessage, VoteMessage, LocalType, LenProperties
<1>1. CASE /\ down' = down \cup {i} /\ rpcs' = rpcs \ {m}
           /\ UNCHANGED <<log, snapshotIndex, snapshotByte, commitIndex>> /\ persist(i)
  <2>1. /\ disk' \in [Server -> Persisted]
        /\ \A j \in Server : Len(disk'[j].log) >= 1
    BY <1>1, PersistType DEF TypeOK
  <2> QED
    BY <1>1, <2>1 DEF TypeOK
<1>2. ASSUME keep >= 0,
             NEW junk \in [1 .. MaxOf(0, keep - Len(log[i])) -> StaleEntry],
             log' = [log EXCEPT ![i] = Take(@ \o junk, keep) \o tail],
             commitIndex' = [commitIndex EXCEPT ![i] =
               IF m.commit > @ THEN MinOf(m.commit, Len(log'[i]) + snapshotIndex[i] - 1)
                               ELSE @],
             UNCHANGED <<snapshotIndex, snapshotByte, down>>,
             persist(i),
             Reply(m, AEReply(m, m.term, TRUE, 0, 0, 0))
      PROVE  /\ log' \in [Server -> Seq(Entry)] /\ \A j \in Server : Len(log'[j]) >= 1
             /\ commitIndex' \in [Server -> Nat]
             /\ disk' \in [Server -> Persisted]
             /\ \A j \in Server : Len(disk'[j].log) >= 1
             /\ rpcs' \subseteq Message /\ rpcs \ {m} \subseteq rpcs'
  <2>1. junk \in Seq(Entry) /\ Len(junk) = MaxOf(0, keep - Len(log[i]))
    <3>1. StaleEntry \subseteq Entry
      BY BoundAssumption DEF StaleEntry, Entry
    <3>2. MaxOf(0, keep - Len(log[i])) \in Nat
      BY <1>0, LocalType DEF MaxOf
    <3> QED
      BY <3>1, <3>2
  <2>2. /\ log[i] \o junk \in Seq(Entry) /\ keep \in 0 .. Len(log[i] \o junk)
    <3>1. log[i] \in Seq(Entry) /\ Len(log[i]) \in Nat
      BY LocalType
    <3>2. log[i] \o junk \in Seq(Entry) /\ Len(log[i] \o junk) = Len(log[i]) + Len(junk)
      BY <2>1, <3>1, ConcatProperties
    <3> QED
      BY <1>0, <1>2, <2>1, <3>1, <3>2 DEF MaxOf
  <2>3. /\ Take(log[i] \o junk, keep) \in Seq(Entry)
        /\ Len(Take(log[i] \o junk, keep)) = keep
    BY <2>2, TakeType
  <2>4. tail \in Seq(Entry) /\ Len(tail) >= 1 /\ Len(tail) \in Nat
    <3>1. from - m.prev \in 0 .. Len(m.entries)
      BY <1>0
    <3>2. tail \in Seq(Entry) /\ Len(tail) = Len(m.entries) - (from - m.prev)
      BY <1>0, <3>1, SkipType
    <3> QED
      BY <1>0, <3>2
  <2> HIDE DEF tail
  <2>5. /\ log'[i] \in Seq(Entry) /\ Len(log'[i]) \in Nat /\ Len(log'[i]) >= 1
    <3>1. log'[i] = Take(log[i] \o junk, keep) \o tail
      BY <1>2 DEF TypeOK
    <3>2. /\ log'[i] \in Seq(Entry) /\ Len(log'[i]) = keep + Len(tail)
      BY <2>3, <2>4, <3>1, ConcatProperties
    <3> QED
      BY <1>0, <1>2, <2>4, <3>2
  <2>6. /\ log' \in [Server -> Seq(Entry)] /\ \A j \in Server : Len(log'[j]) >= 1
    BY <1>2, <2>5 DEF TypeOK
  <2>7. commitIndex' \in [Server -> Nat]
    <3>1. MinOf(m.commit, Len(log'[i]) + snapshotIndex[i] - 1) \in Nat
      BY <1>0, <2>5, LocalType DEF MinOf
    <3> QED
      BY <1>2, <3>1 DEF TypeOK
  <2>8. /\ disk' \in [Server -> Persisted]
        /\ \A j \in Server : Len(disk'[j].log) >= 1
    BY <1>2, <2>6, PersistType DEF TypeOK
  <2>9. rpcs' \subseteq Message /\ rpcs \ {m} \subseteq rpcs'
    <3>1. AEReply(m, m.term, TRUE, 0, 0, 0) \in Message
      BY SuccessType
    <3> QED
      BY <1>2, <3>1, ReplyType
  <2> QED
    BY <2>6, <2>7, <2>8, <2>9
<1> QED
  BY <1>1, <1>2 DEF AppendFrom, TypeOK

\* What the second critical section of AppendEntries leaves behind.
LEMMA StoreEntriesType ==
    ASSUME TypeOK, NEW i \in Server, NEW m \in rpcs, m.type = "AE", m.entries # <<>>,
           StoreEntries(i, m),
           currentTerm' \in [Server -> Nat], votedFor' \in [Server -> Server \cup {Nil}]
    PROVE  /\ log' \in [Server -> Seq(Entry)] /\ \A j \in Server : Len(log'[j]) >= 1
           /\ commitIndex' \in [Server -> Nat]
           /\ UNCHANGED <<snapshotIndex, snapshotByte>>
           /\ disk' \in [Server -> Persisted] /\ \A j \in Server : Len(disk'[j].log) >= 1
           /\ down' \subseteq Server
           /\ rpcs' \subseteq Message /\ rpcs \ {m} \subseteq rpcs'
<1>1. m.entries \in Seq(Entry) /\ Len(m.entries) \in Nat /\ Len(m.entries) >= 1 /\ m.prev \in Nat
  BY EntriesMessage, EmptySeq, LenProperties
<1>2. commitIndex[i] \in Nat
  BY LocalType
<1>3. CASE AlreadyCommitted(i, m)
  <2>1. /\ disk' \in [Server -> Persisted]
        /\ \A j \in Server : Len(disk'[j].log) >= 1
    BY <1>3, PersistType DEF TypeOK, AlreadyCommitted
  <2>2. rpcs' \subseteq Message /\ rpcs \ {m} \subseteq rpcs'
    BY <1>3, SuccessType, ReplyType DEF AlreadyCommitted
  <2> QED
    BY <1>3, <2>1, <2>2 DEF TypeOK, AlreadyCommitted
<1>4. CASE /\ commitIndex[i] > m.prev /\ Len(m.entries) > commitIndex[i] - m.prev
           /\ AppendFrom(i, m, commitIndex[i])
  <2>1. commitIndex[i] - m.prev \in 0 .. Len(m.entries) - 1
    BY <1>1, <1>2, <1>4
  <2> QED
    BY <1>2, <1>4, <2>1, AppendFromType
<1>5. CASE AppendFrom(i, m, m.prev)
  <2>1. m.prev - m.prev \in 0 .. Len(m.entries) - 1
    BY <1>1
  <2> QED
    BY <1>1, <1>5, <2>1, AppendFromType
<1> QED
  BY <1>3, <1>4, <1>5 DEF StoreEntries

\* The XIndex of a refusal is an index, or -1 before the log.
LEMMA FindFirstType ==
    ASSUME TypeOK, NEW i \in Server, NEW pos \in 0 .. Len(log[i]) - 1
    PROVE  findFirstIndex(i, log[i][pos + 1].term, pos) \in Int
<1> DEFINE term == log[i][pos + 1].term
           hits == {p \in 0 .. pos : log[i][p + 1].term >= term}
           low  == CHOOSE p \in hits : \A q \in hits : p <= q
<1>1. pos \in Nat /\ term \in Nat
  <2>1. log[i] \in Seq(Entry) /\ Len(log[i]) \in Nat
    BY LocalType
  <2>2. pos + 1 \in 1 .. Len(log[i])
    BY <2>1
  <2>3. log[i][pos + 1] \in Entry
    BY <2>1, <2>2, ElementOfSeq
  <2> QED
    BY <2>1, <2>3 DEF Entry
<1>2. pos \in hits
  BY <1>1
<1>3. hits \in SUBSET Int /\ hits # {} /\ hits \subseteq 0 .. pos
  BY <1>1, <1>2
<1>4. IsFiniteSet(hits)
  <2>1. IsFiniteSet(0 .. pos)
    BY <1>1, FS_Interval
  <2> QED
    BY <1>3, <2>1, FS_Subset
<1> HIDE DEF hits
<1>5. low \in hits
  BY <1>3, <1>4, FiniteMinimum
<1>6. low \in Int
  BY <1>3, <1>5
<1>7. findFirstIndex(i, term, pos) =
        IF snapshotTerm[i] >= term THEN -1
        ELSE IF low = 0 /\ snapshotIndex[i] = 0 THEN 1 ELSE low
  BY DEF findFirstIndex, hits
<1> HIDE DEF low, term
<1> QED
  BY <1>6, <1>7 DEF term

\* The AppendEntries handler, up to its release of the lock or to its end,
\* keeps the types.
LEMMA AppendEntriesType ==
    ASSUME TypeOK, NEW m \in rpcs, AppendEntries(m.dst, m)
    PROVE  TypeOK'
<1> DEFINE i == m.dst
<1>0. /\ i \in Server /\ m.term \in Nat /\ m.type = "AE" /\ m \notin inside
      /\ m.prev \in Nat /\ m.commit \in Nat /\ currentTerm[i] \in Nat
      /\ UNCHANGED <<snapshotTerm, nextIndex, matchIndex>>
  BY VoteMessage, EntriesMessage, LocalType DEF AppendEntries, leaderVars
<1> HIDE DEF i
<1>1. ASSUME rpcs \ {m} \subseteq rpcs', UNCHANGED inside
      PROVE  inside' \subseteq {c \in rpcs' : c.type = "AE" /\ c.entries # <<>>}
  BY <1>0, <1>1 DEF TypeOK
<1>2. CASE AppendEntriesStale(i, m)
  <2>1. AEReply(m, currentTerm[i], FALSE, 0, 0, 0) \in Message
    <3>1. FALSE \in BOOLEAN /\ 0 \in Nat /\ 0 \in Int
      OBVIOUS
    <3> QED
      BY <1>0, <3>1, AEReplyType
  <2>2. rpcs' \subseteq Message /\ rpcs \ {m} \subseteq rpcs'
    BY <1>2, <2>1, ReplyType DEF AppendEntriesStale
  <2> QED
    BY <1>0, <1>1, <1>2, <2>2 DEF TypeOK, AppendEntriesStale, persistent
<1>3. CASE AppendEntriesRefuse(i, m)
  <2>1. /\ currentTerm' \in [Server -> Nat]
        /\ votedFor' \in [Server -> Server \cup {Nil}]
        /\ state' \in [Server -> Roles]
        /\ election' \in [Server -> Election]
    BY <1>0, <1>3, FollowType DEF AppendEntriesRefuse
  <2>2. /\ disk' \in [Server -> Persisted]
        /\ \A j \in Server : Len(disk'[j].log) >= 1
    BY <1>0, <1>3, <2>1, PersistType DEF TypeOK, AppendEntriesRefuse
  <2>3. down' \subseteq Server /\ rpcs' \subseteq Message /\ rpcs \ {m} \subseteq rpcs'
    <3>1. CASE Reply(m, AEReply(m, m.term, FALSE, 0, 0, Loglen(i))) /\ UNCHANGED down
      <4>1. FALSE \in BOOLEAN /\ 0 \in Nat /\ 0 \in Int /\ Loglen(i) \in Nat
        BY <1>0, LastEntry
      <4>2. AEReply(m, m.term, FALSE, 0, 0, Loglen(i)) \in Message
        BY <1>0, <4>1, AEReplyType
      <4> QED
        BY <3>1, <4>2, ReplyType DEF TypeOK
    <3>2. CASE rpcs' = rpcs \ {m} /\ down' = down \cup {i}
      BY <1>0, <3>2 DEF TypeOK
    <3>3. CASE /\ InLog(i, m.prev) /\ UNCHANGED down
               /\ Reply(m, AEReply(m, m.term, FALSE, At(i, m.prev).term,
                                   findFirstIndex(i, At(i, m.prev).term,
                                                  m.prev - snapshotIndex[i])
                                     + snapshotIndex[i], 0))
      <4> DEFINE pos == m.prev - snapshotIndex[i]
      <4>1. pos \in 0 .. Len(log[i]) - 1 /\ At(i, m.prev) = log[i][pos + 1]
        BY <3>3 DEF InLog, At
      <4>2. log[i] \in Seq(Entry) /\ Len(log[i]) \in Nat /\ snapshotIndex[i] \in Nat
        BY <1>0, LocalType
      <4>3. pos + 1 \in 1 .. Len(log[i])
        BY <4>1, <4>2
      <4>4. At(i, m.prev) \in Entry
        BY <4>1, <4>2, <4>3, ElementOfSeq
      <4> HIDE DEF pos
      <4>5. findFirstIndex(i, At(i, m.prev).term, pos) \in Int
        BY <1>0, <4>1, FindFirstType
      <4>6. /\ findFirstIndex(i, At(i, m.prev).term, pos) + snapshotIndex[i] \in Int
            /\ At(i, m.prev).term \in Nat /\ FALSE \in BOOLEAN /\ 0 \in Nat
        BY <4>2, <4>4, <4>5 DEF Entry
      <4>7. AEReply(m, m.term, FALSE, At(i, m.prev).term,
                    findFirstIndex(i, At(i, m.prev).term, pos) + snapshotIndex[i], 0)
              \in Message
        BY <1>0, <4>6, AEReplyType
      <4> QED
        BY <3>3, <4>7, ReplyType DEF TypeOK, pos
    <3> QED
      BY <1>3, <3>1, <3>2, <3>3 DEF AppendEntriesRefuse
  <2> QED
    BY <1>0, <1>1, <1>3, <2>1, <2>2, <2>3 DEF TypeOK, AppendEntriesRefuse
<1>4. CASE AppendEntriesAccept(i, m)
  <2>1. /\ currentTerm' \in [Server -> Nat]
        /\ votedFor' \in [Server -> Server \cup {Nil}]
        /\ state' \in [Server -> Roles]
        /\ election' \in [Server -> Election]
    BY <1>0, <1>4, FollowType DEF AppendEntriesAccept
  <2>2. CASE /\ UNCHANGED <<log, snapshotIndex, snapshotByte, down, inside>>
             /\ persist(i) /\ Heartbeat(i, m)
    <3>1. /\ disk' \in [Server -> Persisted]
          /\ \A j \in Server : Len(disk'[j].log) >= 1
      BY <1>0, <2>1, <2>2, PersistType DEF TypeOK
    <3>2. MinOf(m.commit, Loglen(i) - 1) \in Nat
      <4>1. Loglen(i) \in Nat /\ Loglen(i) >= 1
        BY <1>0, LastEntry
      <4> QED
        BY <1>0, <4>1 DEF MinOf
    <3>3. commitIndex' \in [Server -> Nat]
      BY <1>0, <2>2, <3>2 DEF Heartbeat, TypeOK
    <3>4. rpcs' \subseteq Message /\ rpcs \ {m} \subseteq rpcs'
      BY <1>0, <2>2, SuccessType, ReplyType DEF Heartbeat
    <3> QED
      BY <1>0, <1>1, <2>1, <2>2, <3>1, <3>3, <3>4 DEF TypeOK
  <2>3. CASE m.entries # <<>> /\ StoreEntries(i, m) /\ UNCHANGED inside
    <3>1. /\ log' \in [Server -> Seq(Entry)] /\ \A j \in Server : Len(log'[j]) >= 1
          /\ commitIndex' \in [Server -> Nat]
          /\ UNCHANGED <<snapshotIndex, snapshotByte>>
          /\ disk' \in [Server -> Persisted] /\ \A j \in Server : Len(disk'[j].log) >= 1
          /\ down' \subseteq Server
          /\ rpcs' \subseteq Message /\ rpcs \ {m} \subseteq rpcs'
      BY <1>0, <2>1, <2>3, StoreEntriesType
    <3> QED
      BY <1>0, <1>1, <2>1, <2>3, <3>1 DEF TypeOK
  <2>4. CASE /\ m.entries # <<>> /\ inside' = inside \cup {m} /\ persist(i)
             /\ UNCHANGED <<log, snapshotIndex, snapshotByte, commitIndex, down, rpcs>>
    <3>1. /\ disk' \in [Server -> Persisted]
          /\ \A j \in Server : Len(disk'[j].log) >= 1
      BY <1>0, <2>1, <2>4, PersistType DEF TypeOK
    <3> QED
      BY <1>0, <2>1, <2>4, <3>1 DEF TypeOK
  <2> QED
    BY <1>4, <2>2, <2>3, <2>4 DEF AppendEntriesAccept
<1> QED
  BY <1>2, <1>3, <1>4 DEF AppendEntries, i

\* The AppendEntries handler, after it took the lock again, keeps the types.
LEMMA AppendEntriesResumeType ==
    ASSUME TypeOK, NEW m \in rpcs, AppendEntriesResume(m.dst, m)
    PROVE  TypeOK'
<1> DEFINE i == m.dst
<1>1. i \in Server /\ m.type = "AE" /\ m.entries # <<>>
  BY VoteMessage DEF AppendEntriesResume, TypeOK
<1>2. /\ currentTerm' \in [Server -> Nat]
      /\ votedFor' \in [Server -> Server \cup {Nil}]
      /\ state' \in [Server -> Roles]
      /\ election' \in [Server -> Election]
  BY DEF AppendEntriesResume, TypeOK
<1>3. /\ log' \in [Server -> Seq(Entry)] /\ \A j \in Server : Len(log'[j]) >= 1
      /\ commitIndex' \in [Server -> Nat]
      /\ UNCHANGED <<snapshotIndex, snapshotByte>>
      /\ disk' \in [Server -> Persisted] /\ \A j \in Server : Len(disk'[j].log) >= 1
      /\ down' \subseteq Server
      /\ rpcs' \subseteq Message /\ rpcs \ {m} \subseteq rpcs'
  BY <1>1, <1>2, StoreEntriesType DEF AppendEntriesResume
<1> QED
  BY <1>2, <1>3 DEF TypeOK, AppendEntriesResume, leaderVars

\* Setting one element of a matrix of indexes.
LEMMA SetIndex ==
    ASSUME NEW f \in [Server -> [Server -> Nat]], NEW i \in Server, NEW j \in Server,
           NEW k \in Nat
    PROVE  /\ [f EXCEPT ![i][j] = k] \in [Server -> [Server -> Nat]]
           /\ [f EXCEPT ![i][j] = k][i][j] = k
<1>1. f[i] \in [Server -> Nat]
  OBVIOUS
<1>2. [f[i] EXCEPT ![j] = k] \in [Server -> Nat]
  BY <1>1
<1> QED
  BY <1>1, <1>2

\* findLastIndex returns a position of the slice, or -1.
LEMMA FindLastType ==
    ASSUME TypeOK, NEW i \in Server, NEW term \in Nat
    PROVE  findLastIndex(i, term) \in Nat \cup {-1}
<1> DEFINE hits == {0} \cup {p \in 0 .. Len(log[i]) - 1 : log[i][p + 1].term <= term}
           high == CHOOSE p \in hits : \A q \in hits : q <= p
<1>1. Len(log[i]) \in Nat /\ Len(log[i]) >= 1
  BY LocalType
<1>2. hits \subseteq 0 .. Len(log[i]) - 1 /\ 0 \in hits
  BY <1>1
<1> HIDE DEF hits
<1>3. hits \in SUBSET Int /\ hits # {} /\ hits \subseteq Nat
  BY <1>1, <1>2
<1>4. IsFiniteSet(hits)
  <2>1. IsFiniteSet(0 .. Len(log[i]) - 1)
    BY <1>1, FS_Interval
  <2> QED
    BY <1>2, <2>1, FS_Subset
<1>5. high \in hits
  BY <1>3, <1>4, FiniteMaximum
<1>6. findLastIndex(i, term) = IF snapshotTerm[i] > term THEN -1 ELSE high
  BY DEF findLastIndex, hits
<1> HIDE DEF high
<1> QED
  BY <1>3, <1>5, <1>6

\* Reading an AppendEntries reply, back-up of nextIndex included, keeps the
\* types.
LEMMA HandleAppendEntriesReplyType ==
    ASSUME TypeOK, NEW m \in rpcs, HandleAppendEntriesReply(m.src, m)
    PROVE  TypeOK'
<1> DEFINE i == m.src
<1>0. /\ i \in Server /\ m.dst \in Server /\ m.rterm \in Nat /\ m.last \in Nat
      /\ m.xterm \in Nat /\ m.xindex \in Int /\ m.xlength \in Nat /\ m.type = "AEReply"
      /\ nextIndex[i][m.dst] \in Nat /\ snapshotIndex[i] \in Nat
      /\ UNCHANGED <<snapshotTerm, commitIndex, down, inside>>
  BY VoteMessage, EntriesMessage DEF HandleAppendEntriesReply, TypeOK
<1>1. /\ rpcs' \subseteq Message
      /\ inside \subseteq {c \in rpcs' : c.type = "AE" /\ c.entries # <<>>}
  <2>1. m \notin inside
    BY <1>0 DEF TypeOK
  <2> QED
    BY <2>1, DropType DEF HandleAppendEntriesReply
<1> HIDE DEF i
<1>2. CASE AppendEntriesSucceeded(i, m)
  <2> DEFINE next == MaxOf(nextIndex[i][m.dst], Acked(i, m))
  <2>1. next \in Nat /\ next - 1 \in Nat
    BY <1>0 DEF MaxOf, Acked
  <2>2. nextIndex' = [nextIndex EXCEPT ![i][m.dst] = next]
    BY <1>2 DEF AppendEntriesSucceeded
  <2>3. matchIndex' = [matchIndex EXCEPT ![i][m.dst] = nextIndex'[i][m.dst] - 1]
    BY <1>2 DEF AppendEntriesSucceeded
  <2> HIDE DEF next
  <2>4. nextIndex' \in [Server -> [Server -> Nat]] /\ nextIndex'[i][m.dst] = next
    <3>1. nextIndex \in [Server -> [Server -> Nat]]
      BY DEF TypeOK
    <3>2. /\ [nextIndex EXCEPT ![i][m.dst] = next] \in [Server -> [Server -> Nat]]
          /\ [nextIndex EXCEPT ![i][m.dst] = next][i][m.dst] = next
      BY <1>0, <2>1, <3>1, SetIndex
    <3> QED
      BY <2>2, <3>2, Zenon
  <2>5. matchIndex' \in [Server -> [Server -> Nat]]
    BY <1>0, <2>1, <2>3, <2>4, SetIndex DEF TypeOK
  <2> QED
    BY <1>0, <1>1, <1>2, <2>4, <2>5 DEF TypeOK, AppendEntriesSucceeded, persistent
<1>3. CASE ReplyOfNewerTerm(i, m)
  <2>1. UNCHANGED <<log, snapshotIndex, snapshotByte, nextIndex, matchIndex>>
    BY <1>3 DEF ReplyOfNewerTerm, StepDown, leaderVars
  <2> QED
    BY <1>0, <1>1, <1>3, <2>1, StepDownType DEF TypeOK, ReplyOfNewerTerm
<1>4. CASE BackUp(i, m)
  <2> DEFINE lastIndex == findLastIndex(i, m.xterm)
             next == CASE m.xterm = 0 -> MaxOf(m.xlength, snapshotIndex[i])
                       [] m.xterm # 0 /\ lastIndex = -1 -> snapshotIndex[i]
                       [] m.xterm # 0 /\ lastIndex # -1
                          /\ log[i][lastIndex + 1].term = m.xterm -> lastIndex + 1
                       [] OTHER -> MaxOf(m.xindex, snapshotIndex[i])
  <2>1. lastIndex \in Nat \cup {-1}
    BY <1>0, FindLastType
  <2>2. nextIndex' = [nextIndex EXCEPT ![i][m.dst] = next]
    BY <1>4 DEF BackUp
  <2> HIDE DEF lastIndex
  <2>3. next \in Nat
    BY <1>0, <2>1 DEF MaxOf
  <2> HIDE DEF next
  <2>4. nextIndex' \in [Server -> [Server -> Nat]]
    BY <1>0, <2>2, <2>3, SetIndex DEF TypeOK
  <2> QED
    BY <1>0, <1>1, <1>4, <2>4 DEF TypeOK, BackUp, persistent
<1>5. CASE ReplyIgnored(i, m)
  BY <1>0, <1>1, <1>5 DEF TypeOK, ReplyIgnored, persistent, leaderVars
<1> QED
  BY <1>2, <1>3, <1>4, <1>5 DEF HandleAppendEntriesReply, i

-----------------------------------------------------------------------------
(* Snapshots.                                                              *)

\* The snapshot a server holds, in memory or on disk, and the snapshot that
\* an InstallSnapshot call carries, cover exactly the indexes up to
\* SnapshotIndex, or LastIncludedIndex.
SnapshotsWhole ==
    /\ \A i \in Server : /\ snapshotIndex[i] = Len(snapshotByte[i])
                         /\ disk[i].index = Len(disk[i].snapshot)
    /\ \A m \in rpcs : m.type = "IS" => m.lastIndex = Len(m.data)

\* Snapshot(index) keeps the types, and the new snapshot is longer than the
\* old one by as many entries as its index is higher.
LEMMA SnapshotType ==
    ASSUME TypeOK, NEW i \in Server, NEW index \in Nat, Snapshot(i, index)
    PROVE  /\ TypeOK'
           /\ snapshotByte'[i] \in Seq(Entry)
           /\ Len(snapshotByte'[i]) = Len(snapshotByte[i]) + index - snapshotIndex[i]
<1> DEFINE trim == index - snapshotIndex[i]
<1>1. /\ log[i] \in Seq(Entry) /\ snapshotByte[i] \in Seq(Entry)
      /\ Len(log[i]) \in Nat /\ snapshotIndex[i] \in Nat
      /\ Loglen(i) = Len(log[i]) + snapshotIndex[i]
  BY LocalType
<1>2. trim \in 1 .. Len(log[i]) - 1 /\ trim \in 0 .. Len(log[i]) /\ trim + 1 \in 1 .. Len(log[i])
  <2>1. snapshotIndex[i] < index /\ index <= Loglen(i) - 1 BY DEF Snapshot
  <2> QED BY <1>1, <2>1
<1>3. /\ Trimmed(i, index) \in Seq(Entry) /\ Len(Trimmed(i, index)) = Len(log[i]) - trim
  BY <1>1, <1>2, SkipType DEF Trimmed
<1>4. log[i][trim + 1] \in Entry
  BY <1>1, <1>2, ElementOfSeq
<1>5. /\ SubSeq(log[i], 2, trim + 1) \in Seq(Entry)
      /\ Len(SubSeq(log[i], 2, trim + 1)) = trim
  BY <1>1, <1>2, SubSeqProperties, ElementOfSeq
<1>6. /\ snapshotByte[i] \o SubSeq(log[i], 2, trim + 1) \in Seq(Entry)
      /\ Len(snapshotByte[i] \o SubSeq(log[i], 2, trim + 1)) = Len(snapshotByte[i]) + trim
  BY <1>1, <1>5, ConcatProperties
<1>7. /\ log' \in [Server -> Seq(Entry)]
      /\ \A j \in Server : Len(log'[j]) >= 1
  <2>1. Len(Trimmed(i, index)) >= 1
    BY <1>1, <1>2, <1>3
  <2>2. log' = [log EXCEPT ![i] = Trimmed(i, index)]
    BY DEF Snapshot
  <2> QED
    BY <1>3, <2>1, <2>2 DEF TypeOK
<1>8. /\ snapshotTerm' \in [Server -> Nat]
      /\ snapshotIndex' \in [Server -> Nat]
      /\ currentTerm' \in [Server -> Nat]
      /\ votedFor' \in [Server -> Server \cup {Nil}]
  BY <1>4 DEF TypeOK, Snapshot, Entry
<1>9. /\ snapshotByte' \in [Server -> Seq(Entry)]
      /\ snapshotByte'[i] = snapshotByte[i] \o SubSeq(log[i], 2, trim + 1)
  BY <1>6 DEF TypeOK, Snapshot
<1>10. /\ disk' \in [Server -> Persisted]
       /\ \A j \in Server : Len(disk'[j].log) >= 1
  BY <1>7, <1>8, <1>9, PersistType DEF Snapshot
<1>11. TypeOK'
  BY <1>7, <1>8, <1>9, <1>10 DEF TypeOK, Snapshot, leaderVars
<1>12. Len(snapshotByte[i]) + trim = Len(snapshotByte[i]) + index - snapshotIndex[i]
  BY <1>1, LenProperties
<1> QED
  BY <1>6, <1>9, <1>11, <1>12

\* The InstallSnapshot handler keeps the types; that a log keeps its dummy
\* entry rests on SnapshotsWhole.
LEMMA InstallSnapshotType ==
    ASSUME TypeOK, SnapshotsWhole, NEW m \in rpcs, InstallSnapshot(m.dst, m)
    PROVE  TypeOK'
<1> DEFINE i == m.dst
<1>0. /\ i \in Server /\ m.type = "IS" /\ m.term \in Nat /\ m.lastIndex \in Nat
      /\ m.lastTerm \in Nat /\ m.data \in Seq(Entry) /\ m \notin inside
      /\ UNCHANGED <<nextIndex, matchIndex, down, inside>>
  BY VoteMessage, SnapshotMessage DEF InstallSnapshot, leaderVars, TypeOK
<1>1. /\ currentTerm[i] \in Nat /\ commitIndex[i] \in Nat
      /\ snapshotIndex[i] \in Nat /\ log[i] \in Seq(Entry) /\ Len(log[i]) \in Nat
      /\ Loglen(i) = Len(log[i]) + snapshotIndex[i]
  BY <1>0, LocalType
<1> HIDE DEF i
<1>2. ASSUME NEW rterm \in Nat, Reply(m, ISReply(m, rterm))
      PROVE  /\ rpcs' \subseteq Message
             /\ inside' \subseteq {c \in rpcs' : c.type = "AE" /\ c.entries # <<>>}
  <2>1. rpcs' \subseteq Message /\ rpcs \ {m} \subseteq rpcs'
    BY <1>2, ISReplyType, ReplyType
  <2> QED
    BY <1>0, <2>1 DEF TypeOK
<1>3. CASE InstallSnapshotStale(i, m)
  <2>1. /\ rpcs' \subseteq Message
        /\ inside' \subseteq {c \in rpcs' : c.type = "AE" /\ c.entries # <<>>}
    BY <1>1, <1>2, <1>3 DEF InstallSnapshotStale
  <2> QED
    BY <1>0, <1>3, <2>1 DEF TypeOK, InstallSnapshotStale, persistent
<1>4. CASE InstallSnapshotKnown(i, m)
  <2>1. /\ rpcs' \subseteq Message
        /\ inside' \subseteq {c \in rpcs' : c.type = "AE" /\ c.entries # <<>>}
    BY <1>0, <1>2, <1>4 DEF InstallSnapshotKnown
  <2>2. /\ currentTerm' \in [Server -> Nat]
        /\ votedFor' \in [Server -> Server \cup {Nil}]
        /\ state' \in [Server -> Roles]
        /\ election' \in [Server -> Election]
    BY <1>0, <1>4, FollowType DEF InstallSnapshotKnown
  <2>3. /\ disk' \in [Server -> Persisted]
        /\ \A j \in Server : Len(disk'[j].log) >= 1
    BY <1>0, <1>4, <2>2, PersistType DEF TypeOK, InstallSnapshotKnown
  <2> QED
    BY <1>0, <1>4, <2>1, <2>2, <2>3 DEF TypeOK, InstallSnapshotKnown
<1>5. CASE InstallSnapshotTake(i, m)
  <2>1. /\ rpcs' \subseteq Message
        /\ inside' \subseteq {c \in rpcs' : c.type = "AE" /\ c.entries # <<>>}
    BY <1>0, <1>2, <1>5 DEF InstallSnapshotTake
  <2>2. /\ currentTerm' \in [Server -> Nat]
        /\ votedFor' \in [Server -> Server \cup {Nil}]
        /\ state' \in [Server -> Roles]
        /\ election' \in [Server -> Election]
    BY <1>0, <1>5, FollowType DEF InstallSnapshotTake
  <2>3. m.lastIndex >= snapshotIndex[i]
    <3> SUFFICES ASSUME m.lastIndex < snapshotIndex[i]
                 PROVE  FALSE
      BY <1>0, <1>1
    <3>1. snapshotByte[i] \in Seq(Entry) /\ snapshotIndex[i] = Len(snapshotByte[i])
      BY <1>0, LocalType DEF SnapshotsWhole
    <3>2. snapshotByte[i] # <<>>
      BY <1>0, <1>1, <3>1
    <3> QED
      BY <1>0, <1>1, <1>5, <3>2 DEF InstallSnapshotTake, SnapshotKnown
  <2>4. LogAfterSnapshot(i, m) \in Seq(Entry) /\ Len(LogAfterSnapshot(i, m)) >= 1
    <3>1. /\ <<[term |-> m.lastTerm, cmd |-> Nil]>> \in Seq(Entry)
          /\ Len(<<[term |-> m.lastTerm, cmd |-> Nil]>>) = 1
      <4>1. [term |-> m.lastTerm, cmd |-> Nil] \in Entry
        BY <1>0 DEF Entry
      <4> QED
        BY <4>1
    <3>2. ASSUME ~(Loglen(i) <= m.lastIndex)
          PROVE  /\ Skip(log[i], m.lastIndex - snapshotIndex[i]) \in Seq(Entry)
                 /\ Len(Skip(log[i], m.lastIndex - snapshotIndex[i])) >= 1
      <4>1. m.lastIndex - snapshotIndex[i] \in 0 .. Len(log[i])
        BY <1>0, <1>1, <2>3, <3>2
      <4>2. /\ Skip(log[i], m.lastIndex - snapshotIndex[i]) \in Seq(Entry)
            /\ Len(Skip(log[i], m.lastIndex - snapshotIndex[i]))
                 = Len(log[i]) - (m.lastIndex - snapshotIndex[i])
        BY <1>1, <4>1, SkipType
      <4> QED
        BY <1>0, <1>1, <3>2, <4>2
    <3> QED
      BY <3>1, <3>2 DEF LogAfterSnapshot
  <2>5. /\ log' \in [Server -> Seq(Entry)]
        /\ \A j \in Server : Len(log'[j]) >= 1
    BY <1>0, <1>5, <2>4 DEF TypeOK, InstallSnapshotTake
  <2>6. /\ snapshotIndex' \in [Server -> Nat]
        /\ snapshotTerm' \in [Server -> Nat]
        /\ snapshotByte' \in [Server -> Seq(Entry)]
        /\ commitIndex' \in [Server -> Nat]
    BY <1>0, <1>1, <1>5 DEF TypeOK, InstallSnapshotTake, MaxOf
  <2>7. /\ disk' \in [Server -> Persisted]
        /\ \A j \in Server : Len(disk'[j].log) >= 1
    BY <1>0, <1>5, <2>2, <2>5, <2>6, PersistType DEF InstallSnapshotTake
  <2> QED
    BY <1>0, <1>5, <2>1, <2>2, <2>5, <2>6, <2>7 DEF TypeOK
<1> QED
  BY <1>3, <1>4, <1>5 DEF InstallSnapshot, i

\* Reading an InstallSnapshot reply keeps the types.
LEMMA HandleInstallSnapshotReplyType ==
    ASSUME TypeOK, NEW m \in rpcs, HandleInstallSnapshotReply(m.src, m)
    PROVE  TypeOK'
<1> DEFINE i == m.src
<1>0. /\ i \in Server /\ m.dst \in Server /\ m.rterm \in Nat /\ m.type = "ISReply"
      /\ matchIndex[i][m.dst] \in Nat /\ snapshotIndex[i] \in Nat
      /\ UNCHANGED <<snapshotTerm, commitIndex, down, inside>>
  BY VoteMessage, SnapshotMessage DEF HandleInstallSnapshotReply, TypeOK
<1>1. /\ rpcs' \subseteq Message
      /\ inside \subseteq {c \in rpcs' : c.type = "AE" /\ c.entries # <<>>}
  <2>1. m \notin inside
    BY <1>0 DEF TypeOK
  <2> QED
    BY <2>1, DropType DEF HandleInstallSnapshotReply
<1> HIDE DEF i
<1>2. CASE InstallSnapshotDone(i, m)
  <2> DEFINE next == snapshotIndex[i] + 1
             match == MaxOf(matchIndex[i][m.dst], snapshotIndex[i])
  <2>1. next \in Nat /\ match \in Nat
    BY <1>0 DEF MaxOf
  <2>2. /\ nextIndex' = [nextIndex EXCEPT ![i][m.dst] = next]
        /\ matchIndex' = [matchIndex EXCEPT ![i][m.dst] = match]
    BY <1>2 DEF InstallSnapshotDone
  <2> HIDE DEF next, match
  <2>3. nextIndex' \in [Server -> [Server -> Nat]]
    BY <1>0, <2>1, <2>2, SetIndex DEF TypeOK
  <2>4. matchIndex' \in [Server -> [Server -> Nat]]
    BY <1>0, <2>1, <2>2, SetIndex DEF TypeOK
  <2> QED
    BY <1>0, <1>1, <1>2, <2>3, <2>4 DEF TypeOK, InstallSnapshotDone, persistent
<1>3. CASE ReplyOfNewerTerm(i, m)
  <2>1. UNCHANGED <<log, snapshotIndex, snapshotByte, nextIndex, matchIndex>>
    BY <1>3 DEF ReplyOfNewerTerm, StepDown, leaderVars
  <2> QED
    BY <1>0, <1>1, <1>3, <2>1, StepDownType DEF TypeOK, ReplyOfNewerTerm
<1>4. CASE ReplyIgnored(i, m)
  BY <1>0, <1>1, <1>4 DEF TypeOK, ReplyIgnored, persistent, leaderVars
<1> QED
  BY <1>2, <1>3, <1>4 DEF HandleInstallSnapshotReply, i

-----------------------------------------------------------------------------
(* The service, the commit rule, and failures.                             *)

\* Start(command) keeps the types.
LEMMA StartType ==
    ASSUME TypeOK, NEW i \in Server, NEW c \in Command, Start(i, c)
    PROVE  TypeOK'
<1>1. [term |-> currentTerm[i], cmd |-> c] \in Entry
  BY LocalType DEF Entry
<1>2. log[i] \in Seq(Entry) /\ Len(log[i]) \in Nat
  BY LocalType
<1>3. /\ Append(log[i], [term |-> currentTerm[i], cmd |-> c]) \in Seq(Entry)
      /\ Len(Append(log[i], [term |-> currentTerm[i], cmd |-> c])) >= 1
  BY <1>1, <1>2, AppendProperties
<1>4. /\ log' \in [Server -> Seq(Entry)]
      /\ \A j \in Server : Len(log'[j]) >= 1
  <2>1. log' = [log EXCEPT ![i] = Append(log[i], [term |-> currentTerm[i], cmd |-> c])]
    BY DEF Start
  <2> QED
    BY <1>3, <2>1 DEF TypeOK
<1>5. /\ disk' \in [Server -> Persisted]
      /\ \A j \in Server : Len(disk'[j].log) >= 1
  BY <1>4, PersistType DEF TypeOK, Start
<1> QED
  BY <1>4, <1>5 DEF TypeOK, Start, leaderVars

\* tmpMatchIndex[len / 2] exists: some entry of the sorted slice is reached
\* by len - len / 2 servers.
LEMMA MedianType ==
    ASSUME TypeOK, NEW i \in Server
    PROVE  /\ Median(i) \in Nat /\ \E j \in Server : Median(i) = Stored(i, j)
           /\ Cardinality({j \in Server : Stored(i, j) >= Median(i)})
                >= Cardinality(Server) - Cardinality(Server) \div 2
<1> DEFINE n == Cardinality(Server)
           values == {Stored(i, j) : j \in Server}
           reached == {v \in values :
                         Cardinality({j \in Server : Stored(i, j) >= v}) >= n - n \div 2}
<1>1. \A j \in Server : Stored(i, j) \in Nat
  <2>1. Loglen(i) \in Nat /\ Loglen(i) >= 1
    BY LastEntry
  <2> QED
    BY <2>1 DEF Stored, TypeOK
<1>2. n \in Nat
  BY ServerAssumption, FS_CardinalityType
<1>3. values \in SUBSET Int /\ values # {} /\ values \subseteq Nat
  BY <1>1
<1>4. IsFiniteSet(values)
  <2> DEFINE f == [j \in Server |-> Stored(i, j)]
  <2>1. f \in Surjection(Server, values)
    BY DEF Surjection
  <2> HIDE DEF f
  <2> QED
    BY <2>1, ServerAssumption, FS_Surjection
<1> HIDE DEF n
<1>5. PICK v \in values : \A w \in values : v <= w
  <2> HIDE DEF values
  <2> QED
    BY <1>3, <1>4, FiniteMinimum
<1>6. {j \in Server : Stored(i, j) >= v} = Server
  BY <1>1, <1>5
<1>7. v \in reached
  <2>1. n >= n - n \div 2
    BY <1>2
  <2> QED
    BY <1>6, <2>1 DEF n
<1> HIDE DEF values
<1>8. reached \subseteq values
  OBVIOUS
<1>9. Median(i) = CHOOSE w \in reached : \A x \in reached : x <= w
  BY DEF Median, values, n
<1> HIDE DEF reached
<1>10. IsFiniteSet(reached) /\ reached \in SUBSET Int /\ reached # {}
  BY <1>3, <1>4, <1>7, <1>8, FS_Subset
<1>11. \E w \in reached : \A x \in reached : x <= w
  BY <1>10, FiniteMaximum
<1>12. Median(i) \in reached
  BY <1>9, <1>11
<1>13. Cardinality({j \in Server : Stored(i, j) >= Median(i)}) >= n - n \div 2
  BY <1>12 DEF reached
<1>14. Median(i) \in values
  BY <1>8, <1>12
<1> QED
  BY <1>3, <1>13, <1>14 DEF n, values

\* The leader's computation of commitIndex keeps the types.
LEMMA AdvanceCommitType ==
    ASSUME TypeOK, NEW i \in Server, AdvanceCommit(i)
    PROVE  TypeOK'
<1>1. commitIndex' \in [Server -> Nat] /\ down' \subseteq Server
  BY MedianType DEF AdvanceCommit, TypeOK
<1> QED
  BY <1>1 DEF TypeOK, AdvanceCommit, persistent, leaderVars

\* Stopping a server leaves well-typed calls behind.
LEMMA CallsAfterStopType ==
    ASSUME TypeOK, NEW i \in Server, NEW cs \in SUBSET rpcs
    PROVE  CallsAfterStop(i, cs) \subseteq Message
<1> SUFFICES ASSUME NEW c \in cs
             PROVE  (IF c.type \in {"AE", "IS"} /\ c.src = i THEN GiveUp(c) ELSE c) \in Message
  BY DEF CallsAfterStop
<1>1. CASE c.type \in {"AE", "IS"} /\ c.src = i
  BY <1>1, GiveUpType
<1>2. CASE ~(c.type \in {"AE", "IS"} /\ c.src = i)
  BY <1>2 DEF TypeOK
<1> QED
  BY <1>1, <1>2

\* The handlers that are between unlock and lock on other servers go on.
LEMMA InsideAfterStop ==
    ASSUME TypeOK, NEW i \in Server, NEW cs \in SUBSET rpcs, inside \subseteq cs
    PROVE  CallsAfterStop(i, inside)
             \subseteq {m \in CallsAfterStop(i, cs) : m.type = "AE" /\ m.entries # <<>>}
<1> SUFFICES ASSUME NEW m \in CallsAfterStop(i, inside)
             PROVE  /\ m \in CallsAfterStop(i, cs)
                    /\ m.type = "AE" /\ m.entries # <<>>
  OBVIOUS
<1>1. PICK c \in inside :
        /\ ~(c.type \in {"RVReply", "AEReply", "ISReply"} /\ c.src = i)
        /\ ~(c \in inside /\ c.dst = i)
        /\ m = IF c.type \in {"AE", "IS"} /\ c.src = i THEN GiveUp(c) ELSE c
  BY DEF CallsAfterStop
<1>2. m \in CallsAfterStop(i, cs)
  BY <1>1 DEF CallsAfterStop
<1>3. c \in rpcs /\ c.type = "AE" /\ c.entries # <<>>
  BY DEF TypeOK
<1>4. m.type = "AE" /\ m.entries # <<>>
  BY <1>1, <1>3, GiveUpType
<1> QED
  BY <1>2, <1>4

\* Make and readPersist over any Persister contents that have a dummy entry.
LEMMA ReloadType ==
    ASSUME TypeOK, NEW i \in Server, NEW d \in Persisted, Len(d.log) >= 1, Reload(i, d),
           NEW cs \in SUBSET rpcs, inside \subseteq cs, rpcs' = CallsAfterStop(i, cs)
    PROVE  TypeOK'
<1>1. d.log \in Seq(Entry) /\ d.snapshot \in Seq(Entry)
      /\ d.term \in Nat /\ d.index \in Nat /\ d.vote \in Server \cup {Nil}
  BY DEF Persisted
<1>2. d.log[1].term \in Nat
  <2>1. 1 \in 1 .. Len(d.log)
    BY <1>1, LenProperties
  <2>2. d.log[1] \in Entry
    BY <1>1, <2>1, ElementOfSeq
  <2> QED
    BY <2>2 DEF Entry
<1>3. /\ currentTerm' \in [Server -> Nat]
      /\ votedFor' \in [Server -> Server \cup {Nil}]
      /\ snapshotIndex' \in [Server -> Nat]
      /\ snapshotTerm' \in [Server -> Nat]
      /\ commitIndex' \in [Server -> Nat]
      /\ state' \in [Server -> Roles]
      /\ down' \subseteq Server
  BY <1>1, <1>2 DEF Reload, TypeOK, Roles
<1>4. /\ log' \in [Server -> Seq(Entry)]
      /\ snapshotByte' \in [Server -> Seq(Entry)]
      /\ disk' \in [Server -> Persisted]
      /\ election' \in [Server -> Election]
  BY <1>1, NoElectionType DEF Reload, TypeOK
<1>5. /\ nextIndex' \in [Server -> [Server -> Nat]]
      /\ matchIndex' \in [Server -> [Server -> Nat]]
  BY DEF Reload, TypeOK
<1>6. \A j \in Server : Len(log'[j]) >= 1 /\ Len(disk'[j].log) >= 1
  BY DEF Reload, TypeOK
<1>7. rpcs' \subseteq Message
  BY CallsAfterStopType
<1>8. inside' \subseteq {m \in rpcs' : m.type = "AE" /\ m.entries # <<>>}
  BY InsideAfterStop DEF Reload
<1> QED
  BY <1>3, <1>4, <1>5, <1>6, <1>7, <1>8 DEF TypeOK

\* A restart from the Persister keeps the types.
LEMMA RestartType ==
    ASSUME TypeOK, NEW i \in Server, Restart(i)
    PROVE  TypeOK'
<1>1. disk[i] \in Persisted /\ Len(disk[i].log) >= 1
  BY DEF TypeOK
<1>2. rpcs \in SUBSET rpcs /\ inside \subseteq rpcs
  BY DEF TypeOK
<1> QED
  BY <1>1, <1>2, ReloadType DEF Restart

\* What the first persist() of a handler writes is well typed.
LEMMA HalfSavedType ==
    ASSUME TypeOK, NEW i \in Server, NEW t \in Nat, NEW cond \in BOOLEAN
    PROVE  LET d == [disk[i] EXCEPT !.term = t, !.vote = IF cond THEN @ ELSE Nil]
           IN  /\ d \in Persisted /\ d.log = disk[i].log /\ Len(d.log) >= 1
               /\ d.index = disk[i].index /\ d.snapshot = disk[i].snapshot
<1> DEFINE d == [disk[i] EXCEPT !.term = t, !.vote = IF cond THEN @ ELSE Nil]
<1>1. disk[i] \in Persisted /\ Len(disk[i].log) >= 1
  BY DEF TypeOK
<1>2. d \in Persisted
  BY <1>1 DEF Persisted
<1>3. /\ d.log = disk[i].log /\ d.index = disk[i].index /\ d.snapshot = disk[i].snapshot
  BY <1>1 DEF Persisted
<1> HIDE DEF d
<1>4. Len(d.log) >= 1
  BY <1>1, <1>3, Zenon
<1> QED
  BY <1>2, <1>3, <1>4 DEF d

\* A restart from a Persister copied between the two persist() calls of a
\* handler keeps the types.
LEMMA RestartInHandlerType ==
    ASSUME TypeOK, NEW m \in rpcs, RestartInHandler(m.dst, m)
    PROVE  TypeOK'
<1> DEFINE d == [disk[m.dst] EXCEPT !.term = m.term,
                                    !.vote = IF m.type = "RV" THEN @ ELSE Nil]
<1>1. m.dst \in Server /\ m.term \in Nat /\ (m.type = "RV") \in BOOLEAN
  BY VoteMessage
<1>2. d \in Persisted /\ Len(d.log) >= 1
  BY <1>1, HalfSavedType
<1>3. Reload(m.dst, d) /\ rpcs' = CallsAfterStop(m.dst, rpcs \ {m})
  BY DEF RestartInHandler
<1>4. rpcs \ {m} \in SUBSET rpcs /\ inside \subseteq rpcs \ {m}
  BY DEF TypeOK, RestartInHandler
<1> HIDE DEF d
<1> QED
  BY <1>1, <1>2, <1>3, <1>4, ReloadType

\* A caller that gives up after 100 ms keeps the types.
LEMMA TimeoutType ==
    ASSUME TypeOK, NEW m \in rpcs, Timeout(m)
    PROVE  TypeOK'
<1>1. /\ GiveUp(m) \in Message /\ GiveUp(m).type = m.type
      /\ m.type = "AE" => GiveUp(m).entries = m.entries
  BY GiveUpType DEF Timeout
<1>2. rpcs' \subseteq Message
  BY <1>1 DEF Timeout, TypeOK
<1>3. inside' \subseteq {c \in rpcs' : c.type = "AE" /\ c.entries # <<>>}
  <2>1. CASE m \in inside
    BY <1>1, <2>1 DEF Timeout, TypeOK
  <2>2. CASE m \notin inside
    BY <2>2 DEF Timeout, TypeOK
  <2> QED
    BY <2>1, <2>2
<1> QED
  BY <1>2, <1>3 DEF TypeOK, Timeout, persistent, leaderVars

\* A lost request or reply keeps the types.
LEMMA LoseType ==
    ASSUME TypeOK, NEW m \in rpcs, Lose(m)
    PROVE  TypeOK'
<1>1. /\ rpcs' \subseteq Message
      /\ inside \subseteq {c \in rpcs' : c.type = "AE" /\ c.entries # <<>>}
  BY DropType DEF Lose
<1> QED
  BY <1>1 DEF TypeOK, Lose, persistent, leaderVars

-----------------------------------------------------------------------------
(* Whole snapshots.                                                        *)

\* A call under way carries no snapshot that was not under way before.
NoNewSnapshot == \A m \in rpcs' : m.type = "IS" =>
                    \E c \in rpcs : c.type = "IS" /\ c.lastIndex = m.lastIndex /\ c.data = m.data

\* A step that touches no snapshot keeps them whole.
LEMMA WholeKept ==
    ASSUME TypeOK, SnapshotsWhole, UNCHANGED <<snapshotIndex, snapshotByte>>,
           UNCHANGED disk \/ \E i \in Server : persist(i),
           NoNewSnapshot
    PROVE  SnapshotsWhole'
<1>1. \A j \in Server : snapshotIndex'[j] = Len(snapshotByte'[j])
  BY DEF SnapshotsWhole
<1>2. \A j \in Server : disk'[j].index = Len(disk'[j].snapshot)
  <2>1. CASE UNCHANGED disk
    BY <2>1 DEF SnapshotsWhole
  <2>2. CASE \E i \in Server : persist(i)
    <3>1. PICK i \in Server : persist(i)
      BY <2>2
    <3> QED
      BY <1>1, <3>1 DEF SnapshotsWhole, persist, TypeOK
  <2> QED
    BY <2>1, <2>2
<1>3. \A m \in rpcs' : m.type = "IS" => m.lastIndex = Len(m.data)
  BY DEF SnapshotsWhole, NoNewSnapshot
<1> QED
  BY <1>1, <1>2, <1>3 DEF SnapshotsWhole

\* Answering a call sends no snapshot.
LEMMA ReplyNoSnapshot ==
    ASSUME NEW m \in rpcs, NEW r, r.type # "IS", Reply(m, r)
    PROVE  NoNewSnapshot
  BY DEF NoNewSnapshot, Reply

\* Nor does removing calls.
LEMMA RemoveNoSnapshot ==
    ASSUME rpcs' \subseteq rpcs
    PROVE  NoNewSnapshot
  BY DEF NoNewSnapshot

\* A caller that gives up does not change the snapshot that is under way.
LEMMA GiveUpSnapshot ==
    ASSUME TypeOK, NEW c \in rpcs, c.type = "IS"
    PROVE  GiveUp(c).lastIndex = c.lastIndex /\ GiveUp(c).data = c.data
<1>1. c \in [type : {"IS"}, src : Server, dst : Server, term : Nat, lastIndex : Nat,
             lastTerm : Nat, data : Seq(Entry), live : BOOLEAN]
  BY DEF TypeOK, Message
<1> QED
  BY <1>1 DEF GiveUp

\* Stopping a server sends no snapshot.
LEMMA StopNoSnapshot ==
    ASSUME TypeOK, NEW i \in Server, NEW cs \in SUBSET rpcs, rpcs' = CallsAfterStop(i, cs)
    PROVE  NoNewSnapshot
<1> SUFFICES ASSUME NEW m \in CallsAfterStop(i, cs), m.type = "IS"
             PROVE  \E c \in rpcs : c.type = "IS" /\ c.lastIndex = m.lastIndex /\ c.data = m.data
  BY DEF NoNewSnapshot
<1>1. PICK c \in cs : m = IF c.type \in {"AE", "IS"} /\ c.src = i THEN GiveUp(c) ELSE c
  BY DEF CallsAfterStop
<1>2. CASE c.type \in {"AE", "IS"} /\ c.src = i
  BY <1>1, <1>2, GiveUpType, GiveUpSnapshot
<1>3. CASE ~(c.type \in {"AE", "IS"} /\ c.src = i)
  BY <1>1, <1>3
<1> QED
  BY <1>2, <1>3

\* A restart takes snapshot and index together from the Persister.
LEMMA ReloadWhole ==
    ASSUME TypeOK, SnapshotsWhole, NEW i \in Server, NEW d \in Persisted,
           d.index = Len(d.snapshot), Reload(i, d),
           NEW cs \in SUBSET rpcs, rpcs' = CallsAfterStop(i, cs)
    PROVE  SnapshotsWhole'
<1>1. \A j \in Server : /\ snapshotIndex'[j] = Len(snapshotByte'[j])
                        /\ disk'[j].index = Len(disk'[j].snapshot)
  BY DEF SnapshotsWhole, Reload, TypeOK
<1>2. NoNewSnapshot
  BY StopNoSnapshot
<1> QED
  BY <1>1, <1>2 DEF SnapshotsWhole, NoNewSnapshot

\* The entries of an AppendEntries call change no snapshot.
LEMMA StoreEntriesWhole ==
    ASSUME NEW i \in Server, NEW m \in rpcs, StoreEntries(i, m)
    PROVE  /\ UNCHANGED <<snapshotIndex, snapshotByte>>
           /\ persist(i)
           /\ NoNewSnapshot
<1>1. AEReply(m, m.term, TRUE, 0, 0, 0).type # "IS"
  BY DEF AEReply
<1>2. UNCHANGED <<snapshotIndex, snapshotByte>> /\ persist(i)
  BY DEF StoreEntries, AppendFrom, AlreadyCommitted
<1>3. rpcs' \subseteq rpcs \/ Reply(m, AEReply(m, m.term, TRUE, 0, 0, 0))
  BY DEF StoreEntries, AppendFrom, AlreadyCommitted
<1> QED
  BY <1>1, <1>2, <1>3, ReplyNoSnapshot, RemoveNoSnapshot

\* The AppendEntries handler changes no snapshot and sends none.
LEMMA AppendEntriesWhole ==
    ASSUME NEW m \in rpcs, m.dst \in Server, AppendEntries(m.dst, m)
    PROVE  /\ UNCHANGED <<snapshotIndex, snapshotByte>>
           /\ UNCHANGED disk \/ persist(m.dst)
           /\ NoNewSnapshot
<1> DEFINE i == m.dst
<1>0. \A rt, su, xt, xi, xl : AEReply(m, rt, su, xt, xi, xl).type # "IS"
  BY DEF AEReply
<1>1. CASE AppendEntriesStale(i, m)
  BY <1>0, <1>1, ReplyNoSnapshot DEF AppendEntriesStale, persistent
<1>2. CASE AppendEntriesRefuse(i, m)
  <2>1. UNCHANGED <<snapshotIndex, snapshotByte>> /\ persist(i)
    BY <1>2 DEF AppendEntriesRefuse
  <2>2. rpcs' \subseteq rpcs \/ \E rt, su, xt, xi, xl : Reply(m, AEReply(m, rt, su, xt, xi, xl))
    BY <1>2 DEF AppendEntriesRefuse
  <2> QED
    BY <1>0, <2>1, <2>2, ReplyNoSnapshot, RemoveNoSnapshot
<1>3. CASE AppendEntriesAccept(i, m)
  <2>1. CASE UNCHANGED <<snapshotIndex, snapshotByte>> /\ persist(i) /\ Heartbeat(i, m)
    BY <1>0, <2>1, ReplyNoSnapshot DEF Heartbeat
  <2>2. CASE StoreEntries(i, m)
    BY <2>2, StoreEntriesWhole
  <2>3. CASE UNCHANGED <<snapshotIndex, snapshotByte, rpcs>> /\ persist(i)
    BY <2>3, RemoveNoSnapshot
  <2> QED
    BY <1>3, <2>1, <2>2, <2>3 DEF AppendEntriesAccept
<1> QED
  BY <1>1, <1>2, <1>3 DEF AppendEntries

\* InstallSnapshot leaves snapshots as long as their index says.
LEMMA InstallSnapshotWhole ==
    ASSUME TypeOK, SnapshotsWhole, NEW m \in rpcs, InstallSnapshot(m.dst, m)
    PROVE  SnapshotsWhole'
<1> DEFINE i == m.dst
<1>0. i \in Server /\ m.type = "IS" /\ m.lastIndex = Len(m.data)
  BY VoteMessage DEF InstallSnapshot, SnapshotsWhole
<1>1. \A t : ISReply(m, t).type # "IS"
  BY DEF ISReply
<1>2. NoNewSnapshot
  BY <1>1, ReplyNoSnapshot
     DEF InstallSnapshot, InstallSnapshotStale, InstallSnapshotKnown, InstallSnapshotTake
<1>3. CASE InstallSnapshotStale(i, m) \/ InstallSnapshotKnown(i, m)
  BY <1>0, <1>2, <1>3, WholeKept
     DEF InstallSnapshotStale, InstallSnapshotKnown, persistent
<1>4. CASE InstallSnapshotTake(i, m)
  <2>1. /\ snapshotIndex' = [snapshotIndex EXCEPT ![i] = m.lastIndex]
        /\ snapshotByte' = [snapshotByte EXCEPT ![i] = m.data]
        /\ persist(i)
    BY <1>4 DEF InstallSnapshotTake
  <2>2. \A j \in Server : snapshotIndex'[j] = Len(snapshotByte'[j])
    BY <1>0, <2>1 DEF SnapshotsWhole, TypeOK
  <2>3. \A j \in Server : disk'[j].index = Len(disk'[j].snapshot)
    BY <1>0, <2>1, <2>2 DEF SnapshotsWhole, TypeOK, persist
  <2> QED
    BY <1>2, <2>2, <2>3 DEF SnapshotsWhole, NoNewSnapshot
<1> QED
  BY <1>3, <1>4 DEF InstallSnapshot

\* Snapshot(index) leaves snapshots as long as their index says.
LEMMA SnapshotWhole ==
    ASSUME TypeOK, SnapshotsWhole, NEW i \in Server, NEW index \in Nat, Snapshot(i, index)
    PROVE  SnapshotsWhole'
<1>1. /\ snapshotIndex' = [snapshotIndex EXCEPT ![i] = index] /\ persist(i)
      /\ rpcs' = rpcs
      /\ \A j \in Server : j # i => snapshotByte'[j] = snapshotByte[j]
  BY DEF Snapshot, TypeOK
<1>2. Len(snapshotByte'[i]) = index
  <2>1. Len(snapshotByte'[i]) = Len(snapshotByte[i]) + index - snapshotIndex[i]
    BY SnapshotType
  <2>2. snapshotIndex[i] = Len(snapshotByte[i]) /\ snapshotIndex[i] \in Nat
    BY DEF SnapshotsWhole, TypeOK
  <2> QED
    BY <2>1, <2>2
<1>3. \A j \in Server : snapshotIndex'[j] = Len(snapshotByte'[j])
  BY <1>1, <1>2 DEF SnapshotsWhole, TypeOK
<1>4. \A j \in Server : disk'[j].index = Len(disk'[j].snapshot)
  BY <1>1, <1>3 DEF SnapshotsWhole, TypeOK, persist
<1> QED
  BY <1>1, <1>3, <1>4 DEF SnapshotsWhole

\* Every step keeps the snapshots whole.
LEMMA WholeStep ==
    ASSUME TypeOK, SnapshotsWhole, [Next]_vars
    PROVE  SnapshotsWhole'
<1>1. ASSUME NEW i \in Server, StartElection(i)
      PROVE  SnapshotsWhole'
  BY <1>1, WholeKept, RemoveNoSnapshot DEF StartElection
<1>2. ASSUME NEW i \in Server, AbortElection(i) \/ AdvanceCommit(i)
      PROVE  SnapshotsWhole'
  BY <1>2, WholeKept, RemoveNoSnapshot DEF AbortElection, AdvanceCommit, persistent
<1>3. ASSUME NEW i \in Server, Restart(i)
      PROVE  SnapshotsWhole'
  <2>1. disk[i] \in Persisted /\ disk[i].index = Len(disk[i].snapshot)
    BY DEF TypeOK, SnapshotsWhole
  <2>2. rpcs \in SUBSET rpcs
    OBVIOUS
  <2> QED
    BY <1>3, <2>1, <2>2, ReloadWhole DEF Restart
<1>4. ASSUME NEW i \in Server, NEW c \in Command, Start(i, c)
      PROVE  SnapshotsWhole'
  BY <1>4, WholeKept, RemoveNoSnapshot DEF Start
<1>5. ASSUME NEW i \in Server, NEW index \in SnapshotAt, Snapshot(i, index)
      PROVE  SnapshotsWhole'
  BY <1>5, BoundAssumption, SnapshotWhole
<1>6. ASSUME NEW i \in Server, NEW j \in Server, GetVote(i, j)
      PROVE  SnapshotsWhole'
  <2>1. NoNewSnapshot
    BY <1>6 DEF GetVote, NoNewSnapshot
  <2> QED
    BY <1>6, <2>1, WholeKept DEF GetVote, persistent
<1>7. ASSUME NEW i \in Server, NEW j \in Server, SendAppendEntries(i, j)
      PROVE  SnapshotsWhole'
  <2>1. NoNewSnapshot
    BY <1>7 DEF SendAppendEntries, NoNewSnapshot
  <2> QED
    BY <1>7, <2>1, WholeKept DEF SendAppendEntries, persistent
<1>8. ASSUME NEW i \in Server, NEW j \in Server, SendInstallSnapshot(i, j)
      PROVE  SnapshotsWhole'
  BY <1>8 DEF SendInstallSnapshot, persistent, SnapshotsWhole
<1>9. ASSUME NEW m \in rpcs, RequestVote(m.dst, m)
      PROVE  SnapshotsWhole'
  <2>1. NoNewSnapshot
    BY <1>9 DEF RequestVote, RequestVoteStale, RequestVoteSameTerm, RequestVoteNewTerm,
                VoteReply, NoNewSnapshot
  <2>2. m.dst \in Server
    BY VoteMessage
  <2> QED
    BY <1>9, <2>1, <2>2, WholeKept
       DEF RequestVote, RequestVoteStale, RequestVoteSameTerm, RequestVoteNewTerm, persistent
<1>10. ASSUME NEW m \in rpcs, HandleVoteReply(m.src, m) \/ LoseVote(m.src, m)
       PROVE  SnapshotsWhole'
  <2>1. NoNewSnapshot
    BY <1>10, RemoveNoSnapshot DEF HandleVoteReply, LoseVote
  <2>2. m.src \in Server
    BY VoteMessage
  <2> QED
    BY <1>10, <2>1, <2>2, WholeKept
       DEF HandleVoteReply, LoseVote, StepDown, Tally, persistent
<1>11. ASSUME NEW m \in rpcs, AppendEntries(m.dst, m)
       PROVE  SnapshotsWhole'
  BY <1>11, VoteMessage, AppendEntriesWhole, WholeKept
<1>12. ASSUME NEW m \in rpcs, AppendEntriesResume(m.dst, m)
       PROVE  SnapshotsWhole'
  BY <1>12, VoteMessage, StoreEntriesWhole, WholeKept DEF AppendEntriesResume
<1>13. ASSUME NEW m \in rpcs,
              HandleAppendEntriesReply(m.src, m) \/ HandleInstallSnapshotReply(m.src, m)
       PROVE  SnapshotsWhole'
  <2>1. NoNewSnapshot
    BY <1>13, RemoveNoSnapshot DEF HandleAppendEntriesReply, HandleInstallSnapshotReply
  <2>2. m.src \in Server
    BY VoteMessage
  <2>3. /\ UNCHANGED <<snapshotIndex, snapshotByte>>
        /\ UNCHANGED disk \/ persist(m.src)
    BY <1>13 DEF HandleAppendEntriesReply, HandleInstallSnapshotReply, AppendEntriesSucceeded,
                 ReplyOfNewerTerm, StepDown, BackUp, ReplyIgnored, InstallSnapshotDone, persistent
  <2> QED
    BY <2>1, <2>2, <2>3, WholeKept
<1>14. ASSUME NEW m \in rpcs, InstallSnapshot(m.dst, m)
       PROVE  SnapshotsWhole'
  BY <1>14, InstallSnapshotWhole
<1>15. ASSUME NEW m \in rpcs, RestartInHandler(m.dst, m)
       PROVE  SnapshotsWhole'
  <2> DEFINE d == [disk[m.dst] EXCEPT !.term = m.term,
                                      !.vote = IF m.type = "RV" THEN @ ELSE Nil]
  <2>1. m.dst \in Server /\ m.term \in Nat /\ (m.type = "RV") \in BOOLEAN
    BY VoteMessage
  <2>2. d \in Persisted /\ d.index = disk[m.dst].index /\ d.snapshot = disk[m.dst].snapshot
    BY <2>1, HalfSavedType
  <2>3. Reload(m.dst, d) /\ rpcs' = CallsAfterStop(m.dst, rpcs \ {m})
    BY <1>15 DEF RestartInHandler
  <2> HIDE DEF d
  <2>4. d.index = Len(d.snapshot)
    BY <2>1, <2>2 DEF SnapshotsWhole
  <2> QED
    BY <2>1, <2>2, <2>3, <2>4, ReloadWhole
<1>16. ASSUME NEW m \in rpcs, Timeout(m)
       PROVE  SnapshotsWhole'
  <2>1. NoNewSnapshot
    BY <1>16, GiveUpType, GiveUpSnapshot DEF Timeout, NoNewSnapshot
  <2> QED
    BY <1>16, <2>1, WholeKept DEF Timeout, persistent
<1>17. ASSUME NEW m \in rpcs, Lose(m)
       PROVE  SnapshotsWhole'
  BY <1>17, WholeKept, RemoveNoSnapshot DEF Lose, persistent
<1>18. CASE UNCHANGED vars
  BY <1>18 DEF vars, SnapshotsWhole
<1> QED
  BY <1>1, <1>2, <1>3, <1>4, <1>5, <1>6, <1>7, <1>8, <1>9, <1>10, <1>11, <1>12,
     <1>13, <1>14, <1>15, <1>16, <1>17, <1>18 DEF Next

\* Every step keeps the types.
LEMMA TypeStep ==
    ASSUME TypeOK, SnapshotsWhole, [Next]_vars
    PROVE  TypeOK'
<1>1. ASSUME NEW i \in Server,
             \/ StartElection(i) \/ AbortElection(i) \/ AdvanceCommit(i) \/ Restart(i)
             \/ \E c \in Command : Start(i, c)
             \/ \E index \in SnapshotAt : Snapshot(i, index)
             \/ \E j \in Server : \/ GetVote(i, j)
                                  \/ SendAppendEntries(i, j)
                                  \/ SendInstallSnapshot(i, j)
      PROVE  TypeOK'
  BY <1>1, BoundAssumption, StartElectionType, AbortElectionType, AdvanceCommitType, RestartType,
     StartType, SnapshotType, GetVoteType, SendAppendEntriesType, SendInstallSnapshotType
<1>2. ASSUME NEW m \in rpcs,
             \/ RequestVote(m.dst, m) \/ HandleVoteReply(m.src, m) \/ LoseVote(m.src, m)
             \/ AppendEntries(m.dst, m) \/ AppendEntriesResume(m.dst, m)
             \/ HandleAppendEntriesReply(m.src, m)
             \/ InstallSnapshot(m.dst, m) \/ HandleInstallSnapshotReply(m.src, m)
             \/ RestartInHandler(m.dst, m) \/ Timeout(m) \/ Lose(m)
      PROVE  TypeOK'
  BY <1>2, RequestVoteType, HandleVoteReplyType, LoseVoteType, AppendEntriesType,
     AppendEntriesResumeType, HandleAppendEntriesReplyType, InstallSnapshotType,
     HandleInstallSnapshotReplyType, RestartInHandlerType, TimeoutType, LoseType
<1>3. CASE UNCHANGED vars
  BY <1>3 DEF vars, TypeOK
<1> QED
  BY <1>1, <1>2, <1>3 DEF Next

\* Before anything happens there is no snapshot.
LEMMA InitWhole == Init => SnapshotsWhole
  BY DEF Init, SnapshotsWhole

\* TypeCorrect: in every reachable state of every instance the fields of the
\* Raft and RPC structs hold values of their types, rf.Log has its dummy
\* entry in memory and on disk, and no index is negative, whatever is
\* truncated, replaced by a snapshot, lost or reloaded.
THEOREM TypeCorrect == Spec => [](TypeOK /\ SnapshotsWhole)
<1>1. Init => TypeOK /\ SnapshotsWhole
  BY InitTypeOK, InitWhole
<1>2. TypeOK /\ SnapshotsWhole /\ [Next]_vars => (TypeOK /\ SnapshotsWhole)'
  BY TypeStep, WholeStep
<1> QED
  BY <1>1, <1>2, PTL DEF Spec

-----------------------------------------------------------------------------
(* The Persister.                                                          *)

\* What persist() saves for server j.
InMemory(j) == <<currentTerm[j], votedFor[j], log[j], snapshotIndex[j], snapshotByte[j]>>

\* A critical section of server i that ends with persist() leaves every
\* Persister up to date.
LEMMA PersistInTime ==
    ASSUME TypeOK, PersistedInTime, NEW i \in Server, persist(i),
           \A j \in Server : j # i => InMemory(j)' = InMemory(j)
    PROVE  PersistedInTime'
  BY DEF TypeOK, PersistedInTime, persist, InMemory

\* So does one that changes nothing that is saved.
LEMMA NothingToSave ==
    ASSUME PersistedInTime, UNCHANGED persistent
    PROVE  PersistedInTime'
  BY DEF PersistedInTime, persistent

\* A restart reads back what it finds.
LEMMA ReloadInTime ==
    ASSUME TypeOK, PersistedInTime, NEW i \in Server, NEW d \in Persisted, Reload(i, d)
    PROVE  PersistedInTime'
<1> SUFFICES ASSUME NEW j \in Server
             PROVE  disk'[j] = [term |-> currentTerm'[j], vote |-> votedFor'[j], log |-> log'[j],
                                index |-> snapshotIndex'[j], snapshot |-> snapshotByte'[j]]
  BY DEF PersistedInTime
<1>1. CASE j = i
  <2>1. d = [term |-> d.term, vote |-> d.vote, log |-> d.log, index |-> d.index,
             snapshot |-> d.snapshot]
    BY DEF Persisted
  <2>2. /\ disk'[j] = d /\ currentTerm'[j] = d.term /\ votedFor'[j] = d.vote
        /\ log'[j] = d.log /\ snapshotIndex'[j] = d.index /\ snapshotByte'[j] = d.snapshot
    BY <1>1 DEF Reload, TypeOK
  <2> QED
    BY <2>1, <2>2
<1>2. CASE j # i
  BY <1>2 DEF Reload, TypeOK, PersistedInTime
<1> QED
  BY <1>1, <1>2

\* Following a leader touches the memory of that follower alone.
LEMMA FollowLocal ==
    ASSUME TypeOK, NEW i \in Server, NEW t, Follow(i, t)
    PROVE  \A j \in Server : j # i => currentTerm'[j] = currentTerm[j] /\ votedFor'[j] = votedFor[j]
  BY DEF Follow, TypeOK

\* Storing entries changes the log of one server only, and saves it.
LEMMA StoreEntriesLocal ==
    ASSUME TypeOK, NEW i \in Server, NEW m \in rpcs, StoreEntries(i, m)
    PROVE  /\ \A j \in Server : j # i => log'[j] = log[j]
           /\ UNCHANGED <<snapshotIndex, snapshotByte>>
           /\ persist(i)
<1>1. UNCHANGED <<snapshotIndex, snapshotByte>> /\ persist(i)
  BY DEF StoreEntries, AppendFrom, AlreadyCommitted
<1>2. UNCHANGED log \/ \E s : log' = [log EXCEPT ![i] = s]
  BY DEF StoreEntries, AppendFrom, AlreadyCommitted
<1> QED
  BY <1>1, <1>2 DEF TypeOK

\* The Persister is in time after an AppendEntries call.
LEMMA AppendEntriesInTime ==
    ASSUME TypeOK, PersistedInTime, NEW m \in rpcs,
           AppendEntries(m.dst, m) \/ AppendEntriesResume(m.dst, m)
    PROVE  PersistedInTime'
<1> DEFINE i == m.dst
<1>0. i \in Server
  BY VoteMessage
<1>1. CASE AppendEntriesStale(i, m)
  BY <1>1, NothingToSave DEF AppendEntriesStale
<1>2. CASE /\ Follow(i, m.term) /\ UNCHANGED <<log, snapshotIndex, snapshotByte>>
           /\ persist(i)
  BY <1>0, <1>2, FollowLocal, PersistInTime DEF InMemory
<1>3. CASE Follow(i, m.term) /\ StoreEntries(i, m)
  BY <1>0, <1>3, FollowLocal, StoreEntriesLocal, PersistInTime DEF InMemory
<1>4. CASE AppendEntriesResume(i, m)
  BY <1>0, <1>4, StoreEntriesLocal, PersistInTime DEF InMemory, AppendEntriesResume
<1> QED
  BY <1>1, <1>2, <1>3, <1>4 DEF AppendEntries, AppendEntriesRefuse, AppendEntriesAccept

\* Every step leaves the Persister in time.
LEMMA PersistedStep ==
    ASSUME TypeOK, PersistedInTime, [Next]_vars
    PROVE  PersistedInTime'
<1>1. ASSUME NEW i \in Server, StartElection(i) \/ \E c \in Command : Start(i, c)
      PROVE  PersistedInTime'
  BY <1>1, PersistInTime DEF StartElection, Start, InMemory, TypeOK
<1>2. ASSUME NEW i \in Server,
             \/ AbortElection(i) \/ AdvanceCommit(i)
             \/ \E j \in Server : \/ GetVote(i, j)
                                  \/ SendAppendEntries(i, j)
                                  \/ SendInstallSnapshot(i, j)
      PROVE  PersistedInTime'
  BY <1>2, NothingToSave
     DEF AbortElection, AdvanceCommit, GetVote, SendAppendEntries, SendInstallSnapshot
<1>3. ASSUME NEW i \in Server, Restart(i)
      PROVE  PersistedInTime'
  <2>1. disk[i] \in Persisted
    BY DEF TypeOK
  <2> QED
    BY <1>3, <2>1, ReloadInTime DEF Restart
<1>4. ASSUME NEW i \in Server, NEW index \in SnapshotAt, Snapshot(i, index)
      PROVE  PersistedInTime'
  <2>1. /\ UNCHANGED <<currentTerm, votedFor>> /\ persist(i)
        /\ \A j \in Server : j # i => /\ log'[j] = log[j]
                                      /\ snapshotIndex'[j] = snapshotIndex[j]
                                      /\ snapshotByte'[j] = snapshotByte[j]
    BY <1>4 DEF Snapshot, TypeOK
  <2> QED
    BY <1>4, <2>1, PersistInTime DEF InMemory
<1>5. ASSUME NEW m \in rpcs, RequestVote(m.dst, m)
      PROVE  PersistedInTime'
  <2>1. m.dst \in Server
    BY VoteMessage
  <2>2. CASE RequestVoteStale(m.dst, m)
    BY <2>2, NothingToSave DEF RequestVoteStale
  <2>3. CASE RequestVoteSameTerm(m.dst, m) \/ RequestVoteNewTerm(m.dst, m)
    BY <2>1, <2>3, PersistInTime DEF RequestVoteSameTerm, RequestVoteNewTerm, InMemory, TypeOK
  <2> QED
    BY <1>5, <2>2, <2>3 DEF RequestVote
<1>6. ASSUME NEW i \in Server, NEW t, StepDown(i, t)
      PROVE  PersistedInTime'
  BY <1>6, PersistInTime DEF StepDown, InMemory, TypeOK
<1>7. ASSUME NEW m \in rpcs,
             \/ HandleVoteReply(m.src, m) \/ LoseVote(m.src, m)
             \/ HandleAppendEntriesReply(m.src, m) \/ HandleInstallSnapshotReply(m.src, m)
      PROVE  PersistedInTime'
  <2>1. m.src \in Server
    BY VoteMessage
  <2>2. UNCHANGED persistent \/ \E t : StepDown(m.src, t)
    BY <1>7 DEF HandleVoteReply, LoseVote, Tally, HandleAppendEntriesReply,
                HandleInstallSnapshotReply, AppendEntriesSucceeded, ReplyOfNewerTerm, BackUp,
                ReplyIgnored, InstallSnapshotDone
  <2> QED
    BY <1>6, <2>1, <2>2, NothingToSave
<1>8. ASSUME NEW m \in rpcs, InstallSnapshot(m.dst, m)
      PROVE  PersistedInTime'
  <2>1. m.dst \in Server
    BY VoteMessage
  <2>2. CASE InstallSnapshotStale(m.dst, m)
    BY <2>2, NothingToSave DEF InstallSnapshotStale
  <2>3. CASE InstallSnapshotKnown(m.dst, m) \/ InstallSnapshotTake(m.dst, m)
    <3>1. /\ Follow(m.dst, m.term) /\ persist(m.dst)
          /\ \A j \in Server : j # m.dst => /\ log'[j] = log[j]
                                            /\ snapshotIndex'[j] = snapshotIndex[j]
                                            /\ snapshotByte'[j] = snapshotByte[j]
      BY <2>3 DEF InstallSnapshotKnown, InstallSnapshotTake, TypeOK
    <3> QED
      BY <2>1, <3>1, FollowLocal, PersistInTime DEF InMemory
  <2> QED
    BY <1>8, <2>2, <2>3 DEF InstallSnapshot
<1>9. ASSUME NEW m \in rpcs, RestartInHandler(m.dst, m)
      PROVE  PersistedInTime'
  <2>1. m.dst \in Server /\ m.term \in Nat /\ (m.type = "RV") \in BOOLEAN
    BY VoteMessage
  <2>2. [disk[m.dst] EXCEPT !.term = m.term, !.vote = IF m.type = "RV" THEN @ ELSE Nil]
          \in Persisted
    BY <2>1, HalfSavedType
  <2> QED
    BY <1>9, <2>1, <2>2, ReloadInTime DEF RestartInHandler
<1>10. ASSUME NEW m \in rpcs, Timeout(m) \/ Lose(m)
       PROVE  PersistedInTime'
  BY <1>10, NothingToSave DEF Timeout, Lose
<1>11. CASE UNCHANGED vars
  BY <1>11, NothingToSave DEF vars, persistent
<1> QED
  BY <1>1, <1>2, <1>3, <1>4, <1>5, <1>7, <1>8, <1>9, <1>10, <1>11, AppendEntriesInTime DEF Next

\* After Make() the Persister holds what memory holds.
LEMMA InitInTime == Init => PersistedInTime
  BY DEF Init, PersistedInTime

\* PersistedCorrect: whenever rf.mu is free the Persister holds the present
\* CurrentTerm, VotedFor, Log, SnapshotIndex and snapshot of its server; a
\* crash between two critical sections, or between the two persist() calls of
\* a handler, loses nothing that was answered to anybody.
THEOREM PersistedCorrect == Spec => []PersistedInTime
<1>1. Init => PersistedInTime
  BY InitInTime
<1>2. TypeOK /\ PersistedInTime /\ [Next]_vars => PersistedInTime'
  BY PersistedStep
<1> QED
  BY <1>1, <1>2, TypeCorrect, PTL DEF Spec

-----------------------------------------------------------------------------
(* A vote is never changed.                                                *)

\* What a step may do to the term and the vote of every server.
VoteKept == \A i \in Server :
    /\ currentTerm'[i] >= currentTerm[i]
    /\ currentTerm'[i] = currentTerm[i] /\ votedFor[i] # Nil => votedFor'[i] = votedFor[i]

\* A step that changes no term and no vote keeps every vote.
LEMMA SameVotes ==
    ASSUME TypeOK, UNCHANGED <<currentTerm, votedFor>>
    PROVE  VoteKept
  BY DEF TypeOK, VoteKept

\* Server i moves to term t with vote v.
LEMMA VoteChange ==
    ASSUME TypeOK, NEW i \in Server, NEW t \in Nat, NEW v, t >= currentTerm[i],
           t = currentTerm[i] /\ votedFor[i] # Nil => v = votedFor[i],
           currentTerm' = [currentTerm EXCEPT ![i] = t],
           votedFor' = [votedFor EXCEPT ![i] = v]
    PROVE  VoteKept
<1> SUFFICES ASSUME NEW j \in Server
             PROVE  /\ currentTerm'[j] >= currentTerm[j]
                    /\ currentTerm'[j] = currentTerm[j] /\ votedFor[j] # Nil
                         => votedFor'[j] = votedFor[j]
  BY DEF VoteKept
<1>1. CASE j = i
  <2>1. currentTerm'[i] = t /\ votedFor'[i] = v
    BY DEF TypeOK
  <2> QED
    BY <1>1, <2>1
<1>2. CASE j # i
  <2>1. currentTerm'[j] = currentTerm[j] /\ votedFor'[j] = votedFor[j] /\ currentTerm[j] \in Nat
    BY <1>2 DEF TypeOK
  <2> QED
    BY <2>1
<1> QED
  BY <1>1, <1>2

\* Following a leader of this or a later term changes no vote of a term.
LEMMA FollowVote ==
    ASSUME TypeOK, NEW i \in Server, NEW t \in Nat, t >= currentTerm[i], Follow(i, t)
    PROVE  VoteKept
<1>1. currentTerm[i] \in Nat
  BY DEF TypeOK
<1>2. /\ currentTerm' = [currentTerm EXCEPT ![i] = t]
      /\ votedFor' = [votedFor EXCEPT ![i] = IF t > currentTerm[i] THEN Nil ELSE votedFor[i]]
  BY DEF Follow
<1>3. t = currentTerm[i] => (IF t > currentTerm[i] THEN Nil ELSE votedFor[i]) = votedFor[i]
  BY <1>1
<1> QED
  BY <1>2, <1>3, VoteChange

\* Stepping down on a newer term changes no vote of a term.
LEMMA StepDownVote ==
    ASSUME TypeOK, NEW i \in Server, NEW t \in Nat, t > currentTerm[i], StepDown(i, t)
    PROVE  VoteKept
<1>1. currentTerm[i] \in Nat
  BY DEF TypeOK
<1>2. t >= currentTerm[i] /\ t # currentTerm[i]
  BY <1>1
<1> QED
  BY <1>2, VoteChange DEF StepDown

\* No step lowers a term or changes a vote within it.
LEMMA VoteStep ==
    ASSUME TypeOK, PersistedInTime, [Next]_vars
    PROVE  VoteKept
<1>1. ASSUME NEW i \in Server, StartElection(i)
      PROVE  VoteKept
  <2>1. /\ currentTerm[i] + 1 \in Nat /\ currentTerm[i] + 1 >= currentTerm[i]
        /\ currentTerm[i] + 1 # currentTerm[i]
    BY DEF TypeOK
  <2> QED
    BY <1>1, <2>1, VoteChange DEF StartElection
<1>2. ASSUME NEW i \in Server,
             \/ AbortElection(i) \/ AdvanceCommit(i)
             \/ \E c \in Command : Start(i, c)
             \/ \E index \in SnapshotAt : Snapshot(i, index)
             \/ \E j \in Server : \/ GetVote(i, j)
                                  \/ SendAppendEntries(i, j)
                                  \/ SendInstallSnapshot(i, j)
      PROVE  VoteKept
  BY <1>2, SameVotes DEF AbortElection, AdvanceCommit, Start, Snapshot, GetVote,
                         SendAppendEntries, SendInstallSnapshot, persistent
<1>3. ASSUME NEW i \in Server, Restart(i)
      PROVE  VoteKept
  <2>1. disk[i].term = currentTerm[i] /\ disk[i].vote = votedFor[i]
    <3>1. disk[i] = [term |-> currentTerm[i], vote |-> votedFor[i], log |-> log[i],
                     index |-> snapshotIndex[i], snapshot |-> snapshotByte[i]]
      BY DEF PersistedInTime
    <3> QED
      BY <3>1
  <2>2. /\ currentTerm' = [currentTerm EXCEPT ![i] = disk[i].term]
        /\ votedFor' = [votedFor EXCEPT ![i] = disk[i].vote]
    BY <1>3 DEF Restart, Reload
  <2> QED
    BY <2>1, <2>2, SameVotes DEF TypeOK
<1>4. ASSUME NEW m \in rpcs, RequestVote(m.dst, m)
      PROVE  VoteKept
  <2>1. m.dst \in Server /\ m.term \in Nat
    BY VoteMessage
  <2>2. CASE RequestVoteStale(m.dst, m)
    BY <2>2, SameVotes DEF RequestVoteStale, persistent
  <2>3. CASE RequestVoteSameTerm(m.dst, m)
    <3>1. /\ currentTerm' = currentTerm
          /\ votedFor' = [votedFor EXCEPT ![m.dst] =
                            IF UpToDate(m.dst, m) /\ VoteFree(m.dst, m) THEN m.src ELSE @]
      BY <2>3 DEF RequestVoteSameTerm
    <3>2. \A j \in Server : votedFor[j] # Nil => votedFor'[j] = votedFor[j]
      BY <2>1, <3>1 DEF VoteFree, TypeOK
    <3>3. \A j \in Server : currentTerm'[j] >= currentTerm[j]
      BY <3>1 DEF TypeOK
    <3> QED
      BY <3>2, <3>3 DEF VoteKept
  <2>4. CASE RequestVoteNewTerm(m.dst, m)
    <3>1. m.term >= currentTerm[m.dst] /\ m.term # currentTerm[m.dst]
      BY <2>1, <2>4 DEF RequestVoteNewTerm, TypeOK
    <3> QED
      BY <2>1, <2>4, <3>1, VoteChange DEF RequestVoteNewTerm
  <2> QED
    BY <1>4, <2>2, <2>3, <2>4 DEF RequestVote
<1>5. ASSUME NEW m \in rpcs, HandleVoteReply(m.src, m) \/ LoseVote(m.src, m)
      PROVE  VoteKept
  <2>1. CASE UNCHANGED persistent
    BY <2>1, SameVotes DEF persistent
  <2>2. CASE /\ m.type = "RVReply" /\ m.rterm > currentTerm[m.src]
             /\ StepDown(m.src, m.rterm)
    BY <2>2, VoteMessage, StepDownVote
  <2> QED
    BY <1>5, <2>1, <2>2 DEF HandleVoteReply, LoseVote, Tally
<1>6. ASSUME NEW m \in rpcs, AppendEntries(m.dst, m)
      PROVE  VoteKept
  <2>1. m.dst \in Server /\ m.term \in Nat
    BY VoteMessage
  <2>2. CASE UNCHANGED persistent
    BY <2>2, SameVotes DEF persistent
  <2>3. CASE m.term >= currentTerm[m.dst] /\ Follow(m.dst, m.term)
    BY <2>1, <2>3, FollowVote
  <2> QED
    BY <1>6, <2>2, <2>3
       DEF AppendEntries, AppendEntriesStale, AppendEntriesRefuse, AppendEntriesAccept
<1>7. ASSUME NEW m \in rpcs, AppendEntriesResume(m.dst, m)
      PROVE  VoteKept
  BY <1>7, SameVotes DEF AppendEntriesResume
<1>8. ASSUME NEW m \in rpcs,
             HandleAppendEntriesReply(m.src, m) \/ HandleInstallSnapshotReply(m.src, m)
      PROVE  VoteKept
  <2>1. m.src \in Server /\ (m.type \in {"AEReply", "ISReply"} => m.rterm \in Nat)
    BY VoteMessage, EntriesMessage, SnapshotMessage
  <2>2. CASE UNCHANGED persistent
    BY <2>2, SameVotes DEF persistent
  <2>3. CASE /\ m.type \in {"AEReply", "ISReply"} /\ m.rterm > currentTerm[m.src]
             /\ StepDown(m.src, m.rterm)
    BY <2>1, <2>3, StepDownVote
  <2> QED
    BY <1>8, <2>2, <2>3
       DEF HandleAppendEntriesReply, HandleInstallSnapshotReply, AppendEntriesSucceeded,
           ReplyOfNewerTerm, BackUp, ReplyIgnored, InstallSnapshotDone
<1>9. ASSUME NEW m \in rpcs, InstallSnapshot(m.dst, m)
      PROVE  VoteKept
  <2>1. m.dst \in Server /\ m.term \in Nat
    BY VoteMessage
  <2>2. CASE UNCHANGED persistent
    BY <2>2, SameVotes DEF persistent
  <2>3. CASE m.term >= currentTerm[m.dst] /\ Follow(m.dst, m.term)
    BY <2>1, <2>3, FollowVote
  <2> QED
    BY <1>9, <2>2, <2>3
       DEF InstallSnapshot, InstallSnapshotStale, InstallSnapshotKnown, InstallSnapshotTake
<1>10. ASSUME NEW m \in rpcs, RestartInHandler(m.dst, m)
       PROVE  VoteKept
  <2>1. m.dst \in Server /\ m.term \in Nat /\ m.term > currentTerm[m.dst]
    BY <1>10, VoteMessage DEF RestartInHandler
  <2> DEFINE d == [disk[m.dst] EXCEPT !.term = m.term,
                                      !.vote = IF m.type = "RV" THEN @ ELSE Nil]
  <2>2. d.term = m.term
    BY <2>1 DEF TypeOK, Persisted
  <2>3. Reload(m.dst, d)
    BY <1>10 DEF RestartInHandler
  <2> HIDE DEF d
  <2>4. /\ currentTerm' = [currentTerm EXCEPT ![m.dst] = m.term]
        /\ votedFor' = [votedFor EXCEPT ![m.dst] = d.vote]
    BY <2>2, <2>3 DEF Reload
  <2>5. m.term >= currentTerm[m.dst] /\ m.term # currentTerm[m.dst]
    BY <2>1 DEF TypeOK
  <2> QED
    BY <2>1, <2>4, <2>5, VoteChange
<1>11. ASSUME NEW m \in rpcs, Timeout(m) \/ Lose(m)
       PROVE  VoteKept
  BY <1>11, SameVotes DEF Timeout, Lose, persistent
<1>12. CASE UNCHANGED vars
  BY <1>12, SameVotes DEF vars
<1> QED
  BY <1>1, <1>2, <1>3, <1>4, <1>5, <1>6, <1>7, <1>8, <1>9, <1>10, <1>11, <1>12 DEF Next

\* VoteStableCorrect: no step of any instance, a restart or a crash inside a
\* handler included, lowers CurrentTerm or replaces the vote of a term.
THEOREM VoteStableCorrect == Spec => VoteStable
<1>1. TypeOK /\ PersistedInTime /\ [Next]_vars
        => [\A i \in Server :
              /\ currentTerm'[i] >= currentTerm[i]
              /\ currentTerm'[i] = currentTerm[i] /\ votedFor[i] # Nil
                   => votedFor'[i] = votedFor[i]]_vars
  BY VoteStep DEF VoteKept
<1> QED
  BY <1>1, TypeCorrect, PersistedCorrect, PTL DEF Spec, VoteStable

-----------------------------------------------------------------------------
(* The votes behind an election.                                           *)

\* A vote is a positive reply under way or a vote that a candidate counted.
LEMMA VotesMember ==
    ASSUME NEW v
    PROVE  v \in Votes <=>
             \/ \E m \in rpcs : /\ m.type = "RVReply" /\ m.granted
                                /\ v = [voter |-> m.dst, term |-> m.term, candidate |-> m.src]
             \/ \E c \in Server : \E j \in election[c].votes :
                  v = [voter |-> j, term |-> election[c].term, candidate |-> c]
  BY DEF Votes

\* Votes are cast by servers, for servers, in terms.
LEMMA VotesType ==
    TypeOK => \A v \in Votes : v.voter \in Server /\ v.term \in Nat /\ v.candidate \in Server
<1> SUFFICES ASSUME TypeOK, NEW v \in Votes
             PROVE  v.voter \in Server /\ v.term \in Nat /\ v.candidate \in Server
  OBVIOUS
<1>1. CASE \E m \in rpcs : /\ m.type = "RVReply" /\ m.granted
                           /\ v = [voter |-> m.dst, term |-> m.term, candidate |-> m.src]
  BY <1>1, VoteMessage
<1>2. CASE \E c \in Server : \E j \in election[c].votes :
             v = [voter |-> j, term |-> election[c].term, candidate |-> c]
  <2>1. PICK c \in Server : \E j \in election[c].votes :
               v = [voter |-> j, term |-> election[c].term, candidate |-> c]
    BY <1>2
  <2>2. election[c] \in Election
    BY DEF TypeOK
  <2> QED
    BY <2>1, <2>2 DEF Election
<1> QED
  BY <1>1, <1>2, VotesMember

\* A step casts a vote only by making it the vote of the voter's new state.
NewVotesCast == \A v \in Votes' :
    \/ v \in Votes
    \/ v.term = currentTerm'[v.voter] /\ votedFor'[v.voter] = v.candidate

\* Such a step, if it also keeps the votes of a term, keeps the votes sound.
LEMMA VotesKeptSound ==
    ASSUME TypeOK, TypeOK', VotesRemembered, OneVotePerTerm, VoteKept, NewVotesCast
    PROVE  VotesRemembered' /\ OneVotePerTerm'
<1>0. (\A v \in Votes : v.voter \in Server /\ v.term \in Nat /\ v.candidate \in Server)'
  BY VotesType, PTL
<1>1. ASSUME NEW v \in Votes'
      PROVE  /\ v.voter \in Server /\ v.term \in Nat /\ v.candidate \in Server
             /\ currentTerm[v.voter] \in Nat /\ currentTerm'[v.voter] \in Nat
  <2>1. v.voter \in Server /\ v.term \in Nat /\ v.candidate \in Server
    BY <1>0, <1>1
  <2> QED
    BY <2>1 DEF TypeOK
<1>2. ASSUME NEW v \in Votes'
      PROVE  /\ v.term <= currentTerm'[v.voter]
             /\ v.term = currentTerm'[v.voter] => votedFor'[v.voter] = v.candidate
  <2>1. /\ v.voter \in Server /\ v.term \in Nat /\ v.candidate \in Server
        /\ currentTerm[v.voter] \in Nat /\ currentTerm'[v.voter] \in Nat
    BY <1>1, <1>2
  <2>2. /\ currentTerm'[v.voter] >= currentTerm[v.voter]
        /\ currentTerm'[v.voter] = currentTerm[v.voter] /\ votedFor[v.voter] # Nil
             => votedFor'[v.voter] = votedFor[v.voter]
    BY <2>1 DEF VoteKept
  <2>3. CASE v \in Votes
    <3>1. /\ v.term <= currentTerm[v.voter]
          /\ v.term = currentTerm[v.voter] => votedFor[v.voter] = v.candidate
      BY <2>3 DEF VotesRemembered
    <3>2. v.candidate # Nil
      BY <2>1, ServerAssumption
    <3> QED
      BY <2>1, <2>2, <3>1, <3>2
  <2>4. CASE v.term = currentTerm'[v.voter] /\ votedFor'[v.voter] = v.candidate
    BY <2>1, <2>4
  <2> QED
    BY <1>2, <2>3, <2>4 DEF NewVotesCast
<1>3. ASSUME NEW v \in Votes', NEW w \in Votes', v.voter = w.voter, v.term = w.term
      PROVE  v.candidate = w.candidate
  <2>1. CASE v \in Votes /\ w \in Votes
    BY <1>3, <2>1 DEF OneVotePerTerm
  <2>2. CASE v.term = currentTerm'[v.voter]
    <3>1. votedFor'[v.voter] = v.candidate
      BY <1>2, <1>3, <2>2
    <3>2. votedFor'[w.voter] = w.candidate
      BY <1>2, <1>3, <2>2
    <3> QED
      BY <1>3, <3>1, <3>2
  <2>3. CASE w.term = currentTerm'[w.voter]
    <3>1. votedFor'[v.voter] = v.candidate
      BY <1>2, <1>3, <2>3
    <3>2. votedFor'[w.voter] = w.candidate
      BY <1>2, <1>3, <2>3
    <3> QED
      BY <1>3, <3>1, <3>2
  <2> QED
    BY <1>3, <2>1, <2>2, <2>3 DEF NewVotesCast
<1> QED
  BY <1>2, <1>3 DEF VotesRemembered, OneVotePerTerm

\* No reply to a vote request is sent.
NoVoteReply == \A m \in rpcs' : m.type = "RVReply" => m \in rpcs

\* What the induction needs of a step.
GoodElectionStep == NewVotesCast /\ ElectedByMajority'

\* A candidate's votes are dropped, or kept for their term.
LEMMA QuietVotes ==
    ASSUME NoVoteReply,
           \A c \in Server : \/ election'[c].votes = {}
                             \/ /\ election'[c].votes = election[c].votes
                                /\ election'[c].term = election[c].term
    PROVE  NewVotesCast /\ Votes' \subseteq Votes
<1> SUFFICES ASSUME NEW v \in Votes'
             PROVE  v \in Votes
  BY DEF NewVotesCast
<1>1. CASE \E m \in rpcs' : /\ m.type = "RVReply" /\ m.granted
                            /\ v = [voter |-> m.dst, term |-> m.term, candidate |-> m.src]
  BY <1>1 DEF NoVoteReply, Votes
<1>2. CASE \E c \in Server : \E j \in election'[c].votes :
             v = [voter |-> j, term |-> election'[c].term, candidate |-> c]
  <2>1. PICK c \in Server : \E j \in election'[c].votes :
               v = [voter |-> j, term |-> election'[c].term, candidate |-> c]
    BY <1>2
  <2>2. \E j \in election[c].votes : v = [voter |-> j, term |-> election[c].term, candidate |-> c]
    BY <2>1
  <2> QED
    BY <2>2, VotesMember
<1> QED
  BY <1>1, <1>2 DEF Votes

\* A step that makes no leader leaves every leader with its majority.
LEMMA LeadersKept ==
    ASSUME ElectedByMajority,
           \A c \in Server : state'[c] = "Leader" => /\ state[c] = "Leader"
                                                     /\ currentTerm'[c] = currentTerm[c]
                                                     /\ election'[c] = election[c]
    PROVE  ElectedByMajority'
  BY DEF ElectedByMajority

\* A step that is not about elections.
LEMMA OtherStep ==
    ASSUME ElectedByMajority, NoVoteReply, UNCHANGED <<currentTerm, state, election>>
    PROVE  GoodElectionStep
  BY QuietVotes, LeadersKept DEF GoodElectionStep

\* Server i gives up whatever role it had.
LEMMA StepBack ==
    ASSUME TypeOK, ElectedByMajority, NoVoteReply, NEW i \in Server, NEW t, NEW s \in {"Follower", "Candidate"},
           currentTerm' = [currentTerm EXCEPT ![i] = t],
           state' = [state EXCEPT ![i] = s],
           election' = election \/ election' = [election EXCEPT ![i] = NoElection]
    PROVE  GoodElectionStep
<1>1. \A c \in Server : election'[c] = election[c] \/ election'[c].votes = {}
  <2>1. CASE election' = election
    BY <2>1
  <2>2. CASE election' = [election EXCEPT ![i] = NoElection]
    BY <2>2 DEF NoElection, TypeOK
  <2> QED
    BY <2>1, <2>2
<1>2. \A c \in Server : c # i => /\ state'[c] = state[c] /\ currentTerm'[c] = currentTerm[c]
                                 /\ election'[c] = election[c]
  BY DEF TypeOK
<1>3. state'[i] # "Leader"
  BY DEF TypeOK
<1> QED
  BY <1>1, <1>2, <1>3, QuietVotes, LeadersKept DEF GoodElectionStep

\* Turning follower of a leader grants no vote and makes no leader.
LEMMA FollowElection ==
    ASSUME TypeOK, ElectedByMajority, NoVoteReply, NEW i \in Server, NEW t, Follow(i, t)
    PROVE  GoodElectionStep
  BY StepBack DEF Follow, TermMoved

\* Stepping down grants no vote and makes no leader.
LEMMA StepDownElection ==
    ASSUME TypeOK, ElectedByMajority, NoVoteReply, NEW i \in Server, NEW t, StepDown(i, t)
    PROVE  GoodElectionStep
  BY StepBack DEF StepDown, TermMoved

\* A candidate votes for itself.
LEMMA StartElectionVotes ==
    ASSUME TypeOK, ElectedByMajority, NEW i \in Server, StartElection(i)
    PROVE  GoodElectionStep
<1> DEFINE e == [term |-> currentTerm[i] + 1, votes |-> {i}, asked |-> {}, heard |-> {}]
<1>1. /\ election' = [election EXCEPT ![i] = e] /\ rpcs' = rpcs
      /\ currentTerm' = [currentTerm EXCEPT ![i] = currentTerm[i] + 1]
      /\ votedFor' = [votedFor EXCEPT ![i] = i]
      /\ state' = [state EXCEPT ![i] = "Candidate"]
  BY DEF StartElection
<1>2. NewVotesCast
  <2> SUFFICES ASSUME NEW v \in Votes', v \notin Votes
               PROVE  v.term = currentTerm'[v.voter] /\ votedFor'[v.voter] = v.candidate
    BY DEF NewVotesCast
  <2>1. \E c \in Server : \E j \in election'[c].votes :
          v = [voter |-> j, term |-> election'[c].term, candidate |-> c]
    BY <1>1 DEF Votes
  <2>2. PICK c \in Server : \E j \in election'[c].votes :
          v = [voter |-> j, term |-> election'[c].term, candidate |-> c]
    BY <2>1
  <2>3. c = i
    <3> SUFFICES ASSUME c # i PROVE FALSE
      OBVIOUS
    <3>1. election'[c] = election[c]
      BY <1>1 DEF TypeOK
    <3> QED
      BY <2>2, <3>1, VotesMember
  <2>4. election'[i] = e
    BY <1>1 DEF TypeOK
  <2>5. v = [voter |-> i, term |-> currentTerm[i] + 1, candidate |-> i]
    BY <2>2, <2>3, <2>4
  <2> QED
    BY <1>1, <2>5 DEF TypeOK
<1>3. ElectedByMajority'
  <2>1. \A c \in Server : c # i => /\ state'[c] = state[c] /\ currentTerm'[c] = currentTerm[c]
                                   /\ election'[c] = election[c]
    BY <1>1 DEF TypeOK
  <2>2. state'[i] # "Leader"
    BY <1>1 DEF TypeOK
  <2> QED
    BY <2>1, <2>2, LeadersKept
<1> QED
  BY <1>2, <1>3 DEF GoodElectionStep

\* The voter answers: a granted vote is the vote of its new state.
LEMMA RequestVoteVotes ==
    ASSUME TypeOK, ElectedByMajority, NEW m \in rpcs, RequestVote(m.dst, m)
    PROVE  GoodElectionStep
<1> DEFINE i == m.dst
<1>0. i \in Server /\ m.term \in Nat /\ m.src \in Server
  BY VoteMessage
<1>1. ASSUME NEW rterm, NEW granted, VoteReply(m, rterm, granted),
             \A c \in Server : \/ election'[c].votes = {}
                               \/ election'[c] = election[c],
             granted => m.term = currentTerm'[i] /\ votedFor'[i] = m.src
      PROVE  NewVotesCast
  <2> SUFFICES ASSUME NEW v \in Votes', v \notin Votes
               PROVE  v.term = currentTerm'[v.voter] /\ votedFor'[v.voter] = v.candidate
    BY DEF NewVotesCast
  <2>1. CASE \E r \in rpcs' : /\ r.type = "RVReply" /\ r.granted
                              /\ v = [voter |-> r.dst, term |-> r.term, candidate |-> r.src]
    <3>1. PICK r \in rpcs' : /\ r.type = "RVReply" /\ r.granted
                             /\ v = [voter |-> r.dst, term |-> r.term, candidate |-> r.src]
      BY <2>1
    <3>2. r \notin rpcs
      BY <3>1, VotesMember
    <3>3. r = [type |-> "RVReply", src |-> m.src, dst |-> m.dst, term |-> m.term,
               rterm |-> rterm, granted |-> granted]
      BY <1>1, <3>2 DEF VoteReply
    <3> QED
      BY <1>1, <3>1, <3>3
  <2>2. CASE \E c \in Server : \E j \in election'[c].votes :
               v = [voter |-> j, term |-> election'[c].term, candidate |-> c]
    <3>1. PICK c \in Server : \E j \in election'[c].votes :
                 v = [voter |-> j, term |-> election'[c].term, candidate |-> c]
      BY <2>2
    <3>2. election'[c] = election[c]
      BY <1>1, <3>1
    <3> QED
      BY <3>1, <3>2, VotesMember
  <2> QED
    BY <2>1, <2>2 DEF Votes
<1>2. CASE RequestVoteStale(i, m)
  <2>1. VoteReply(m, currentTerm[i], FALSE) /\ UNCHANGED <<currentTerm, state, election>>
    BY <1>2 DEF RequestVoteStale, persistent
  <2> QED
    BY <1>1, <2>1, LeadersKept DEF GoodElectionStep
<1>3. CASE RequestVoteSameTerm(i, m)
  <2> DEFINE grant == UpToDate(i, m) /\ VoteFree(i, m)
  <2>1. /\ VoteReply(m, currentTerm[i], grant) /\ UNCHANGED <<currentTerm, state, election>>
        /\ m.term = currentTerm[i]
        /\ votedFor' = [votedFor EXCEPT ![i] = IF grant THEN m.src ELSE @]
    BY <1>3 DEF RequestVoteSameTerm
  <2> HIDE DEF grant
  <2>2. grant => m.term = currentTerm'[i] /\ votedFor'[i] = m.src
    BY <1>0, <2>1 DEF TypeOK
  <2> QED
    BY <1>1, <2>1, <2>2, LeadersKept DEF GoodElectionStep
<1>4. CASE RequestVoteNewTerm(i, m)
  <2> DEFINE rterm == IF UpToDate(i, m) THEN m.term ELSE currentTerm[i]
             granted == UpToDate(i, m)
  <2>1. /\ VoteReply(m, rterm, granted)
        /\ currentTerm' = [currentTerm EXCEPT ![i] = m.term]
        /\ state' = [state EXCEPT ![i] = "Follower"]
        /\ votedFor' = [votedFor EXCEPT ![i] = IF granted THEN m.src ELSE @]
        /\ election' = [election EXCEPT ![i] = NoElection]
    BY <1>4 DEF RequestVoteNewTerm, TermMoved
  <2> HIDE DEF rterm, granted
  <2>2. granted => m.term = currentTerm'[i] /\ votedFor'[i] = m.src
    BY <1>0, <2>1 DEF TypeOK
  <2>3. \A c \in Server : election'[c].votes = {} \/ election'[c] = election[c]
    BY <2>1 DEF TypeOK, NoElection
  <2>4. \A c \in Server : state'[c] = "Leader" => /\ state[c] = "Leader"
                                                  /\ currentTerm'[c] = currentTerm[c]
                                                  /\ election'[c] = election[c]
    BY <1>0, <2>1 DEF TypeOK
  <2> QED
    BY <1>1, <2>1, <2>2, <2>3, <2>4, LeadersKept DEF GoodElectionStep
<1> QED
  BY <1>2, <1>3, <1>4 DEF RequestVote

\* The count adds only votes that the candidate holds a reply for, and makes
\* a leader only of a candidate with a majority.
LEMMA TallyVotes ==
    ASSUME TypeOK, ElectedByMajority, NEW m \in rpcs, NEW granted \in BOOLEAN,
           rpcs' \subseteq rpcs, UNCHANGED currentTerm,
           Counting(m.src), m.term = currentTerm[m.src],
           granted => m.type = "RVReply" /\ m.granted,
           Tally(m.src, m, granted)
    PROVE  GoodElectionStep /\ Votes' \subseteq Votes
<1> DEFINE i == m.src
           votes == election[i].votes \cup (IF granted THEN {m.dst} ELSE {})
           heard == election[i].heard \cup {m.dst}
           won   == granted /\ Cardinality(votes) >= Cardinality(Server) \div 2 + 1
           lost  == ~won /\ heard = Server \ {i}
           counted == [election[i] EXCEPT !.votes = votes, !.heard = heard]
<1>0. /\ i \in Server /\ m.dst \in Server /\ m.term \in Nat
      /\ election[i] \in Election /\ election[i].term = m.term
  BY VoteMessage DEF TypeOK, Counting
<1>1. /\ election' = [election EXCEPT ![i] = IF lost THEN NoElection ELSE counted]
      /\ state' = [state EXCEPT ![i] = IF won THEN "Leader"
                                       ELSE IF lost THEN "Follower" ELSE state[i]]
  BY DEF Tally
<1>2. counted.votes = votes /\ counted.term = m.term
  BY <1>0 DEF Election
<1>3. votes \subseteq Server
  BY <1>0 DEF Election
<1>4. won => 2 * Cardinality(votes) > Cardinality(Server)
  <2>1. Cardinality(Server) \in Nat /\ Cardinality(votes) \in Nat
    BY <1>3, ServerAssumption, FS_Subset, FS_CardinalityType
  <2> HIDE DEF votes
  <2> QED
    BY <2>1
<1>5. won => ~lost
  OBVIOUS
<1>6. \A j \in votes : [voter |-> j, term |-> m.term, candidate |-> i] \in Votes
  <2> SUFFICES ASSUME NEW j \in votes
               PROVE  [voter |-> j, term |-> m.term, candidate |-> i] \in Votes
    OBVIOUS
  <2>1. CASE j \in election[i].votes
    BY <1>0, <2>1, VotesMember
  <2>2. CASE granted /\ j = m.dst
    BY <2>2, VotesMember
  <2> QED
    BY <2>1, <2>2
<1> HIDE DEF counted, votes, won, lost
<1>7. \A c \in Server : c # i => state'[c] = state[c] /\ election'[c] = election[c]
  BY <1>1 DEF TypeOK
<1>8. election'[i] = IF lost THEN NoElection ELSE counted
  BY <1>0, <1>1 DEF TypeOK
<1>9. NewVotesCast /\ Votes' \subseteq Votes
  <2> SUFFICES ASSUME NEW v \in Votes'
               PROVE  v \in Votes
    BY DEF NewVotesCast
  <2>1. CASE \E r \in rpcs' : /\ r.type = "RVReply" /\ r.granted
                              /\ v = [voter |-> r.dst, term |-> r.term, candidate |-> r.src]
    BY <2>1, VotesMember
  <2>2. CASE \E c \in Server : \E j \in election'[c].votes :
               v = [voter |-> j, term |-> election'[c].term, candidate |-> c]
    <3>1. PICK c \in Server : \E j \in election'[c].votes :
                 v = [voter |-> j, term |-> election'[c].term, candidate |-> c]
      BY <2>2
    <3>2. CASE c # i
      <4>1. election'[c] = election[c]
        BY <1>7, <3>2
      <4> QED
        BY <3>1, <4>1, VotesMember
    <3>3. CASE c = i /\ lost
      BY <1>8, <3>1, <3>3 DEF NoElection
    <3>4. CASE c = i /\ ~lost
      <4>1. election'[i].votes = votes /\ election'[i].term = m.term
        BY <1>2, <1>8, <3>4
      <4> QED
        BY <1>6, <3>1, <3>4, <4>1
    <3> QED
      BY <3>2, <3>3, <3>4
  <2> QED
    BY <2>1, <2>2 DEF Votes
<1>10. ElectedByMajority'
  <2> SUFFICES ASSUME NEW c \in Server, state'[c] = "Leader"
               PROVE  /\ election'[c].term = currentTerm'[c]
                      /\ 2 * Cardinality(election'[c].votes) > Cardinality(Server)
    BY DEF ElectedByMajority
  <2>1. CASE c # i
    BY <1>7, <2>1 DEF ElectedByMajority
  <2>2. CASE c = i
    <3>1. state[i] # "Leader"
      BY DEF Counting
    <3>2. won
      BY <1>0, <1>1, <2>2, <3>1 DEF TypeOK
    <3>3. election'[i].votes = votes /\ election'[i].term = m.term
      BY <1>2, <1>5, <1>8, <3>2
    <3> QED
      BY <1>4, <2>2, <3>2, <3>3
  <2> QED
    BY <2>1, <2>2
<1> QED
  BY <1>9, <1>10 DEF GoodElectionStep

\* Answering a call of a leader answers no vote request.
LEMMA ReplyNoVote ==
    ASSUME NEW m \in rpcs, NEW r, r.type # "RVReply", Reply(m, r)
    PROVE  NoVoteReply
  BY DEF NoVoteReply, Reply

\* Taking calls off the network grants no vote.
LEMMA RemoveNoVote ==
    ASSUME rpcs' \subseteq rpcs
    PROVE  NoVoteReply
  BY DEF NoVoteReply

\* Storing entries grants no vote.
LEMMA StoreEntriesNoVote ==
    ASSUME NEW i \in Server, NEW m \in rpcs, StoreEntries(i, m)
    PROVE  NoVoteReply
<1>1. AEReply(m, m.term, TRUE, 0, 0, 0).type # "RVReply"
  BY DEF AEReply
<1>2. rpcs' \subseteq rpcs \/ Reply(m, AEReply(m, m.term, TRUE, 0, 0, 0))
  BY DEF StoreEntries, AppendFrom, AlreadyCommitted
<1> QED
  BY <1>1, <1>2, ReplyNoVote, RemoveNoVote

\* The AppendEntries handler grants no vote.
LEMMA AppendEntriesNoVote ==
    ASSUME NEW m \in rpcs, m.dst \in Server, AppendEntries(m.dst, m)
    PROVE  NoVoteReply
<1>0. \A rt, su, xt, xi, xl : AEReply(m, rt, su, xt, xi, xl).type # "RVReply"
  BY DEF AEReply
<1>1. \/ rpcs' \subseteq rpcs
      \/ StoreEntries(m.dst, m)
      \/ \E rt, su, xt, xi, xl : Reply(m, AEReply(m, rt, su, xt, xi, xl))
  BY DEF AppendEntries, AppendEntriesStale, AppendEntriesRefuse, AppendEntriesAccept, Heartbeat
<1> QED
  BY <1>0, <1>1, ReplyNoVote, RemoveNoVote, StoreEntriesNoVote

\* A restart forgets the server's own election and leaves the votes of others.
LEMMA ReloadVotes ==
    ASSUME TypeOK, ElectedByMajority, NEW i \in Server, NEW d, Reload(i, d),
           NEW cs \in SUBSET rpcs, rpcs' = CallsAfterStop(i, cs)
    PROVE  GoodElectionStep
<1>1. NoVoteReply
  <2> SUFFICES ASSUME NEW m \in CallsAfterStop(i, cs), m.type = "RVReply"
               PROVE  m \in rpcs
    BY DEF NoVoteReply
  <2>1. PICK c \in cs : m = IF c.type \in {"AE", "IS"} /\ c.src = i THEN GiveUp(c) ELSE c
    BY DEF CallsAfterStop
  <2>2. CASE c.type \in {"AE", "IS"} /\ c.src = i
    BY <2>1, <2>2, GiveUpType
  <2>3. CASE ~(c.type \in {"AE", "IS"} /\ c.src = i)
    BY <2>1, <2>3
  <2> QED
    BY <2>2, <2>3
<1> QED
  BY <1>1, StepBack DEF Reload

\* Every step of the system is a good one for the elections.
LEMMA ElectionStep ==
    ASSUME TypeOK, ElectedByMajority, [Next]_vars
    PROVE  GoodElectionStep
<1>1. ASSUME NEW i \in Server, StartElection(i)
      PROVE  GoodElectionStep
  BY <1>1, StartElectionVotes
<1>2. ASSUME NEW i \in Server, AbortElection(i)
      PROVE  GoodElectionStep
  <2>1. currentTerm' = [currentTerm EXCEPT ![i] = currentTerm[i]]
    BY <1>2 DEF AbortElection, persistent, TypeOK
  <2> QED
    BY <1>2, <2>1, StepBack, RemoveNoVote DEF AbortElection
<1>3. ASSUME NEW i \in Server,
             \/ AdvanceCommit(i) \/ \E c \in Command : Start(i, c)
             \/ \E index \in SnapshotAt : Snapshot(i, index)
      PROVE  GoodElectionStep
  BY <1>3, OtherStep, RemoveNoVote DEF AdvanceCommit, Start, Snapshot, persistent
<1>4. ASSUME NEW i \in Server, Restart(i)
      PROVE  GoodElectionStep
  <2>1. rpcs \in SUBSET rpcs
    OBVIOUS
  <2> QED
    BY <1>4, <2>1, ReloadVotes DEF Restart
<1>5. ASSUME NEW i \in Server, NEW j \in Server, GetVote(i, j)
      PROVE  GoodElectionStep
  <2>1. NoVoteReply
    BY <1>5 DEF GetVote, NoVoteReply
  <2>2. /\ election' = [election EXCEPT ![i] =
                          [election[i] EXCEPT !.asked = election[i].asked \cup {j}]]
        /\ UNCHANGED <<currentTerm, state>> /\ state[i] = "Candidate"
    BY <1>5 DEF GetVote, persistent
  <2>3. /\ election'[i].votes = election[i].votes /\ election'[i].term = election[i].term
    <3>1. election[i] \in Election
      BY DEF TypeOK
    <3>2. /\ [election[i] EXCEPT !.asked = election[i].asked \cup {j}].votes = election[i].votes
          /\ [election[i] EXCEPT !.asked = election[i].asked \cup {j}].term = election[i].term
      BY <3>1 DEF Election
    <3> QED
      BY <2>2, <3>2 DEF TypeOK
  <2>4. \A c \in Server : c # i => election'[c] = election[c]
    BY <2>2 DEF TypeOK
  <2>5. NewVotesCast
    BY <2>1, <2>3, <2>4, QuietVotes
  <2>6. ElectedByMajority'
    BY <2>2, <2>4, LeadersKept
  <2> QED
    BY <2>5, <2>6 DEF GoodElectionStep
<1>6. ASSUME NEW i \in Server, NEW j \in Server,
             SendAppendEntries(i, j) \/ SendInstallSnapshot(i, j)
      PROVE  GoodElectionStep
  <2>1. NoVoteReply
    BY <1>6 DEF SendAppendEntries, SendInstallSnapshot, NoVoteReply
  <2> QED
    BY <1>6, <2>1, OtherStep DEF SendAppendEntries, SendInstallSnapshot, persistent
<1>7. ASSUME NEW m \in rpcs, RequestVote(m.dst, m)
      PROVE  GoodElectionStep
  BY <1>7, RequestVoteVotes
<1>8. ASSUME NEW m \in rpcs, HandleVoteReply(m.src, m)
      PROVE  GoodElectionStep
  <2>1. m.src \in Server /\ m.granted \in BOOLEAN /\ rpcs' \subseteq rpcs /\ m.type = "RVReply"
    BY <1>8, VoteMessage DEF HandleVoteReply
  <2>2. CASE UNCHANGED <<persistent, state, election, leaderVars>>
    BY <2>1, <2>2, OtherStep, RemoveNoVote DEF persistent
  <2>3. CASE StepDown(m.src, m.rterm)
    BY <2>1, <2>3, StepDownElection, RemoveNoVote
  <2>4. CASE /\ Counting(m.src) /\ m.term = currentTerm[m.src]
             /\ Tally(m.src, m, m.granted)
    <3>1. UNCHANGED currentTerm
      BY <2>4 DEF Tally, persistent
    <3> QED
      BY <2>1, <2>4, <3>1, TallyVotes
  <2> QED
    BY <1>8, <2>2, <2>3, <2>4 DEF HandleVoteReply
<1>9. ASSUME NEW m \in rpcs, LoseVote(m.src, m)
      PROVE  GoodElectionStep
  <2>1. m.src \in Server /\ rpcs' \subseteq rpcs /\ FALSE \in BOOLEAN
    BY <1>9, VoteMessage DEF LoseVote
  <2>2. CASE UNCHANGED <<persistent, state, election, leaderVars>>
    BY <2>1, <2>2, OtherStep, RemoveNoVote DEF persistent
  <2>3. CASE /\ Counting(m.src) /\ m.term = currentTerm[m.src]
             /\ Tally(m.src, m, FALSE)
    <3>1. UNCHANGED currentTerm
      BY <2>3 DEF Tally, persistent
    <3> QED
      BY <2>1, <2>3, <3>1, TallyVotes
  <2> QED
    BY <1>9, <2>2, <2>3 DEF LoseVote
<1>10. ASSUME NEW m \in rpcs, AppendEntries(m.dst, m)
       PROVE  GoodElectionStep
  <2>1. m.dst \in Server /\ NoVoteReply
    BY <1>10, VoteMessage, AppendEntriesNoVote
  <2>2. Follow(m.dst, m.term) \/ UNCHANGED <<currentTerm, state, election>>
    BY <1>10 DEF AppendEntries, AppendEntriesStale, AppendEntriesRefuse, AppendEntriesAccept,
                 persistent
  <2> QED
    BY <2>1, <2>2, FollowElection, OtherStep
<1>11. ASSUME NEW m \in rpcs, AppendEntriesResume(m.dst, m)
       PROVE  GoodElectionStep
  BY <1>11, VoteMessage, StoreEntriesNoVote, OtherStep DEF AppendEntriesResume
<1>12. ASSUME NEW m \in rpcs,
              HandleAppendEntriesReply(m.src, m) \/ HandleInstallSnapshotReply(m.src, m)
       PROVE  GoodElectionStep
  <2>1. m.src \in Server /\ NoVoteReply
    BY <1>12, VoteMessage, RemoveNoVote DEF HandleAppendEntriesReply, HandleInstallSnapshotReply
  <2>2. StepDown(m.src, m.rterm) \/ UNCHANGED <<currentTerm, state, election>>
    BY <1>12 DEF HandleAppendEntriesReply, HandleInstallSnapshotReply, AppendEntriesSucceeded,
                 ReplyOfNewerTerm, BackUp, ReplyIgnored, InstallSnapshotDone, persistent
  <2> QED
    BY <2>1, <2>2, StepDownElection, OtherStep
<1>13. ASSUME NEW m \in rpcs, InstallSnapshot(m.dst, m)
       PROVE  GoodElectionStep
  <2>1. \A t : ISReply(m, t).type # "RVReply"
    BY DEF ISReply
  <2>2. m.dst \in Server /\ NoVoteReply
    BY <1>13, <2>1, VoteMessage, ReplyNoVote
       DEF InstallSnapshot, InstallSnapshotStale, InstallSnapshotKnown, InstallSnapshotTake
  <2>3. Follow(m.dst, m.term) \/ UNCHANGED <<currentTerm, state, election>>
    BY <1>13 DEF InstallSnapshot, InstallSnapshotStale, InstallSnapshotKnown,
                 InstallSnapshotTake, persistent
  <2> QED
    BY <2>2, <2>3, FollowElection, OtherStep
<1>14. ASSUME NEW m \in rpcs, RestartInHandler(m.dst, m)
       PROVE  GoodElectionStep
  <2>1. m.dst \in Server /\ rpcs \ {m} \in SUBSET rpcs
    BY VoteMessage
  <2> QED
    BY <1>14, <2>1, ReloadVotes DEF RestartInHandler
<1>15. ASSUME NEW m \in rpcs, Timeout(m)
       PROVE  GoodElectionStep
  <2>1. NoVoteReply
    BY <1>15, GiveUpType DEF Timeout, NoVoteReply
  <2> QED
    BY <1>15, <2>1, OtherStep DEF Timeout, persistent
<1>16. ASSUME NEW m \in rpcs, Lose(m)
       PROVE  GoodElectionStep
  BY <1>16, OtherStep, RemoveNoVote DEF Lose, persistent
<1>17. CASE UNCHANGED vars
  BY <1>17, OtherStep, RemoveNoVote DEF vars
<1> QED
  BY <1>1, <1>2, <1>3, <1>4, <1>5, <1>6, <1>7, <1>8, <1>9, <1>10, <1>11, <1>12, <1>13,
     <1>14, <1>15, <1>16, <1>17 DEF Next

\* At the start nobody has voted and nobody leads.
LEMMA InitVotes == Init => VotesSound
<1> SUFFICES ASSUME Init
             PROVE  VotesSound
  OBVIOUS
<1>1. Votes = {}
  BY DEF Init, Votes, NoElection
<1> QED
  BY <1>1 DEF Init, VotesSound, VotesRemembered, OneVotePerTerm, ElectedByMajority

\* VotesCorrect: in every reachable state of every instance the votes counted
\* or under way are remembered by their voters, name one candidate per voter
\* and term, and make up a majority for every leader.
THEOREM VotesCorrect == Spec => []VotesSound
<1>1. Init => VotesSound
  BY InitVotes
<1>2. ASSUME TypeOK, TypeOK', PersistedInTime, VotesSound, [Next]_vars
      PROVE  VotesSound'
  <2>1. VoteKept
    BY <1>2, VoteStep
  <2>2. NewVotesCast /\ ElectedByMajority'
    BY <1>2, ElectionStep DEF VotesSound, GoodElectionStep
  <2>3. VotesRemembered' /\ OneVotePerTerm'
    BY <1>2, <2>1, <2>2, VotesKeptSound DEF VotesSound
  <2> QED
    BY <2>2, <2>3 DEF VotesSound
<1>3. TypeOK /\ TypeOK' /\ PersistedInTime /\ VotesSound /\ [Next]_vars => VotesSound'
  BY <1>2
<1> QED
  BY <1>1, <1>3, TypeCorrect, PersistedCorrect, PTL DEF Spec

\* Two majorities for leaders of one term share a voter, who voted for both.
LEMMA MajorityDecides == TypeOK /\ VotesSound => ElectionSafety
<1> SUFFICES ASSUME TypeOK, VotesSound, NEW i \in Server, NEW j \in Server,
                    state[i] = "Leader", state[j] = "Leader", currentTerm[i] = currentTerm[j]
             PROVE  i = j
  BY DEF ElectionSafety
<1> DEFINE V(c) == election[c].votes
<1>1. /\ V(i) \subseteq Server /\ V(j) \subseteq Server
  BY DEF TypeOK, Election
<1>2. /\ 2 * Cardinality(V(i)) > Cardinality(Server)
      /\ 2 * Cardinality(V(j)) > Cardinality(Server)
      /\ election[i].term = currentTerm[i] /\ election[j].term = currentTerm[i]
  BY DEF VotesSound, ElectedByMajority
<1> HIDE DEF V
<1>3. Cardinality(V(i)) + Cardinality(V(j)) > Cardinality(Server)
  <2>1. /\ Cardinality(Server) \in Nat /\ Cardinality(V(i)) \in Nat /\ Cardinality(V(j)) \in Nat
    BY <1>1, ServerAssumption, FS_Subset, FS_CardinalityType
  <2> QED
    BY <1>2, <2>1
<1>4. PICK v : v \in V(i) /\ v \in V(j)
  BY <1>1, <1>3, ServerAssumption, FS_MajoritiesIntersect
<1>5. /\ [voter |-> v, term |-> currentTerm[i], candidate |-> i] \in Votes
      /\ [voter |-> v, term |-> currentTerm[i], candidate |-> j] \in Votes
  BY <1>2, <1>4, VotesMember DEF V
<1> QED
  BY <1>5 DEF VotesSound, OneVotePerTerm

\* ElectionSafetyCorrect: no two servers are ever leaders of one term, for
\* any number of servers, terms and calls under way, with losses, late calls,
\* preempted handlers, snapshots, restarts and crashes inside handlers.
THEOREM ElectionSafetyCorrect == Spec => []ElectionSafety
  BY MajorityDecides, TypeCorrect, VotesCorrect, PTL
=============================================================================
