------------------------- MODULE MCRaftSnapshotNarrow -------------------------
(***************************************************************************)
(* A narrowed search of RaftSnapshot for one long sequence of steps.  A     *)
(* constraint prunes states, it adds none: every step is a step of          *)
(* RaftSnapshot from its initial state.                                     *)
(***************************************************************************)
EXTENDS RaftSnapshot

CONSTANTS A, C      \* peers, by the part they play; Zero is the third

\* Everything in flight but the vote requests that wait for C.
moving == Cardinality({m \in voteCalls : m.peer # C \/ m.CandidateId # Zero})
          + Cardinality(voteReplies) + Cardinality(appendCalls) + Cardinality(appendReplies)
          + Cardinality(sending) + snapInFlight

\* A and Zero hold two entries of term 1, C none.  A has a snapshot of the first
\* one and restarts; then A and Zero ask C for its vote in term 2.
NarrowVote ==
    /\ moving <= 1
    /\ \A i \in Server : state[i] = "Candidate" => i = A \/ (i = Zero /\ currentTerm[i] = 2)
    /\ \A m \in voteCalls : m.CandidateId = Zero \/ currentTerm[A] = 2 => m.peer = C
    /\ \A m \in voteCalls : m.Term = 1 => m.peer = Zero
    /\ log[C] = EmptyLog
    /\ \A m \in appendCalls : m.Term = 1 => m.peer = Zero
    /\ \A i \in Server : log[i].Index0 > 0 => i = A
    /\ restarts = 1 => log[A].Index0 = 1 /\ currentTerm[Zero] > 0
    /\ \A i \in Server : currentTerm[i] = 2 => restarts = 1
=============================================================================
