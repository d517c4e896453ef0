------------------------------- MODULE MCRaft -------------------------------
(* Small instances of Raft for TLC.                                        *)
EXTENDS Raft, TLC

\* The peers are interchangeable: no action and no property names one.
Symmetry == Permutations(Server)

\* nextIndex and matchIndex of a server that does not lead are dead (winning
\* an election sets them anew), and so is what a leader's ElectionWorker has
\* asked and heard; no property looks at them.
View == <<persistent, snapshotTerm, state, commitIndex, down, rpcs, inside,
          [i \in Server |-> IF state[i] = "Leader"
                              THEN <<nextIndex[i], matchIndex[i],
                                     election[i].term, election[i].votes>>
                              ELSE <<election[i]>>]>>
=============================================================================
