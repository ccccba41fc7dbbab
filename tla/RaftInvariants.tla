--------------------------- MODULE RaftInvariants ---------------------------
(***************************************************************************)
(* What the proofs about Raft share: the invariants of what is stored and  *)
(* of elections, when a term is won, and what a step does to terms, roles  *)
(* and votes.                                                              *)
(***************************************************************************)
EXTENDS Raft, RaftPieces

\* The part of the invariant that speaks of no majority.
StorageInv == TypeOK /\ PersisterCurrent /\ LogsIndexed

\* A leader holds the votes of a majority.
LeaderElected == \A i \in Server : state[i] = "Leader" => voteMajority(votes[i])

ElectionInv == VotesHeld /\ VotesUnique /\ LeaderElected

-----------------------------------------------------------------------------
(* The terms that have had a leader.                                         *)

\* A majority voted for c in term t, or can vote for nobody else in it.
Won(t, c) ==
    \E Q \in SUBSET Server :
        /\ voteMajority(Q)
        /\ \A v \in Q :
             /\ currentTerm[v] > t \/ (currentTerm[v] = t /\ votedFor[v] = c)
             /\ \A g \in grants : g.voter = v /\ g.term = t => g.candidate = c

\* c will not be elected in term t any more.
Past(t, c) == currentTerm[c] > t \/ (currentTerm[c] = t /\ state[c] # "Candidate")

Begun(t) == \E c \in Server : Won(t, c) /\ Past(t, c)

\* A leader is the one that has won its term.
LeaderUnique ==
    \A i, c \in Server : state[i] = "Leader" /\ Won(currentTerm[i], c) => i = c

LeadersWon ==
    \A i \in Server : state[i] = "Leader" => Won(currentTerm[i], i) /\ Past(currentTerm[i], i)

Winners == LeaderUnique /\ LeadersWon

-----------------------------------------------------------------------------
(* Candidates and majorities                                                 *)

\* A request for votes describes the log of its candidate, as long as that
\* stands in the term of the request.
VoteCallsTrue ==
    /\ \A m \in voteCalls :
         /\ m.Term <= currentTerm[m.CandidateId]
         /\ state[m.CandidateId] = "Candidate" /\ currentTerm[m.CandidateId] = m.Term =>
              /\ m.LastLogIndex = LastLog(log[m.CandidateId]).Index
              /\ m.LastLogTerm = LastLog(log[m.CandidateId]).Term
    /\ \A r \in voteReplies : r.args.Term <= currentTerm[r.args.CandidateId]

\* Every vote that counts is one for a candidate that has reached the term.
GrantsSound ==
    \A g \in grants : /\ g.voter \in Server /\ g.term \in Nat /\ g.candidate \in Server
                      /\ g.term <= currentTerm[g.candidate]

\* What majorities are needed for: two of them share a peer.
MajorityFacts ==
    /\ \A Q, R \in SUBSET Server : voteMajority(Q) /\ voteMajority(R) => \E v \in Q : v \in R
    /\ \A Q, R \in SUBSET Server : voteMajority(Q) /\ Q \subseteq R => voteMajority(R)
    /\ \A Q \in SUBSET Server : commitMajority(Q) <=> voteMajority(Q)
    /\ Server # {} => voteMajority(Server)

-----------------------------------------------------------------------------
(* Calls of AppendEntries                                                    *)

\* The piece of its caller's log that a call carries.
callPiece(m) == entriesPiece(m.PrevLogIndex, m.PrevLogTerm, m.Entries)

\* The calls in flight, and those that replies in flight answer.
requests == appendCalls \cup {r.args : r \in appendReplies}

-----------------------------------------------------------------------------
(* Steps                                                                     *)

\* Every vote that counts after the step counted before, or is the one its
\* voter has just recorded.
newGrants ==
    \A g \in grants' : \/ g \in grants
                       \/ /\ currentTerm'[g.voter] = g.term
                          /\ votedFor'[g.voter] = g.candidate

\* A peer leaves a candidacy behind when its term moves on, leads only the term
\* it stood for, and starts to lead from the end of its log.
rolesStep ==
    \A i \in Server :
        /\ state'[i] = "Candidate" =>
             \/ currentTerm'[i] > currentTerm[i]
             \/ currentTerm'[i] = currentTerm[i] /\ state[i] = "Candidate"
        /\ state'[i] = "Leader" => /\ currentTerm'[i] = currentTerm[i]
                                   /\ state[i] \in {"Candidate", "Leader"}
        /\ state'[i] = "Leader" /\ state[i] # "Leader" =>
             \A j \in Server : nextIndex'[i][j] = LastLog(log[i]).Index + 1

\* A vote that counts is old, or for the voter itself, or granted to a call of a
\* candidate that is up to date.
grantStep ==
    \A g \in grants' :
        \/ g \in grants
        \/ /\ log' = log
           /\ \/ g.voter = g.candidate
              \/ \E m \in voteCalls : /\ m.peer = g.voter /\ m.Term = g.term
                                      /\ m.CandidateId = g.candidate
                                      /\ upToDate(m, LastLog(log[m.peer]))

\* Requests for votes are old, or describe the log of their candidate.
voteCallStep ==
    /\ \A m \in voteCalls' :
         \/ \E m0 \in voteCalls : /\ m.Term = m0.Term /\ m.CandidateId = m0.CandidateId
                                  /\ m.LastLogIndex = m0.LastLogIndex
                                  /\ m.LastLogTerm = m0.LastLogTerm
         \/ /\ m.CandidateId \in Server /\ m.Term = currentTerm'[m.CandidateId]
            /\ m.LastLogIndex = LastLog(log'[m.CandidateId]).Index
            /\ m.LastLogTerm = LastLog(log'[m.CandidateId]).Term
    /\ \A r \in voteReplies' : r \in voteReplies \/ r.args \in voteCalls

\* A peer that begins to lead was voted for before, and starts from no match.
leaderStep ==
    \A i \in Server : state'[i] = "Leader" /\ state[i] # "Leader" =>
        /\ log' = log /\ \A j \in Server : matchIndex'[i][j] = 0
        /\ \A v \in votes'[i] : [voter |-> v, term |-> currentTerm[i], candidate |-> i] \in grants
=============================================================================
