------------------------------- MODULE MCRaft -------------------------------
EXTENDS Raft, TLC

\* Peers are interchangeable in Raft, and commands are opaque to it.
Symmetry == Permutations(Server) \cup Permutations(Command)

\* nextIndex and matchIndex are read by leaders only and reset on election;
\* votes are reset on a new election, and a follower's are never read.
LiveView ==
    <<state, currentTerm, votedFor, log, commitIndex, persister,
      [i \in Server |-> IF state[i] = "Leader" THEN <<nextIndex[i], matchIndex[i]>> ELSE <<>>],
      [i \in Server |-> IF state[i] = "Follower" THEN {} ELSE votes[i]],
      voteCalls, voteReplies, appendCalls, appendReplies, restarts>>

\* What raft_crash explores: once a peer has crashed, one AppendEntries at most is
\* on its way, or its reply.  A constraint prunes states, it adds none.
AfterCrash == restarts > 0 => Cardinality(appendCalls) + Cardinality(appendReplies) <= 1
=============================================================================
