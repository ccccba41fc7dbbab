---------------------------- MODULE RaftCommitted ----------------------------
(***************************************************************************)
(* What the proof that committed entries stay says of a state of Raft, and  *)
(* of a step.  It speaks of L, the log each term's leader has or last had:  *)
(* DOMAIN L are the terms that have had a leader, and L[u] is the piece of  *)
(* its log.  L is no variable of Raft; the invariant is that there is one.  *)
(***************************************************************************)
EXTENDS RaftInvariants

\* A log, as a piece.
LogsSound ==
    \A i \in Server :
        /\ log[i] \in Log /\ Indexed(log[i]) /\ log[i].Index0 = 0
        /\ LastLog(log[i]).Index \in Nat /\ Indices(log[i]) = 0 .. LastLog(log[i]).Index
        /\ Sound(logPiece(log[i])) /\ rooted(logPiece(log[i]))
        /\ logPiece(log[i]).hi = LastLog(log[i]).Index
        /\ \A n \in Indices(log[i]) : logPiece(log[i]).e[n] = at(log[i], n)

-----------------------------------------------------------------------------
(* The logs of the leaders                                                   *)

LedTerms(L) ==
    /\ DOMAIN L \subseteq Nat
    /\ \A u \in DOMAIN L : Begun(u) /\ Sound(L[u]) /\ rooted(L[u])

LeaderLogs(L) ==
    \A i \in Server : state[i] = "Leader" =>
        currentTerm[i] \in DOMAIN L /\ L[currentTerm[i]] = logPiece(log[i])

\* Every call is cut out of the log of its term's leader.
SentFrom(L) ==
    \A m \in requests : m.Term \in DOMAIN L /\ PartOf(callPiece(m), L[m.Term])

Written(L) == /\ \A i \in Server : writtenIn(L, logPiece(log[i]))
              /\ \A u \in DOMAIN L : writtenIn(L, L[u])

LeaderInv(L) == LedTerms(L) /\ LeaderLogs(L) /\ SentFrom(L) /\ Written(L)

-----------------------------------------------------------------------------
(* Entries that a majority may have                                          *)

hasAt(i, n, t) == n <= LastLog(log[i]).Index /\ at(log[i], n).Term = t

\* Every leader after t has the entry n of term t.
keptBy(L, n, t) == \A u \in DOMAIN L : u > t => n <= L[u].hi /\ L[u].e[n].Term = t

\* Nobody can replace the entry n of term t in the peers A: they have it, every
\* leader since has it, and so has every candidate one of them has voted for.
Firm(L, n, t, A) ==
    /\ \A v \in A : t <= currentTerm[v] /\ hasAt(v, n, t)
    /\ keptBy(L, n, t)
    /\ \A g \in grants :
         /\ g.voter \in A /\ g.term > t
         /\ state[g.candidate] = "Candidate" /\ currentTerm[g.candidate] = g.term
         => hasAt(g.candidate, n, t)

\* j has told the leader i that it holds everything up to n.
Ack(i, j, n) ==
    \/ n <= matchIndex[i][j]
    \/ \E r \in appendReplies : /\ r.Success /\ r.args.LeaderId = i /\ r.args.peer = j
                                /\ r.args.Term = currentTerm[i] /\ n <= matched(r)

holders(i, n) == {i} \cup {j \in Server : Ack(i, j, n)}

\* The peers that have not moved past term t.
notPast(t) == {v \in Server : currentTerm[v] <= t}

\* What was acknowledged is true, as long as the peer stays in the term.
AcksTrue(L) ==
    \A i, j \in Server : \A n \in Nat \ {0} : state[i] = "Leader" /\ Ack(i, j, n) =>
        /\ n <= LastLog(log[i]).Index /\ currentTerm[i] <= currentTerm[j]
        /\ currentTerm[j] = currentTerm[i] =>
             SameUpTo(logPiece(log[j]), L[currentTerm[i]], n)

\* An entry of the leader's term that may still reach a majority is firm.
AcksFirm(L) ==
    \A i \in Server : state[i] = "Leader" =>
        \A n \in 1 .. LastLog(log[i]).Index :
            /\ at(log[i], n).Term = currentTerm[i]
            /\ voteMajority(holders(i, n) \cup notPast(currentTerm[i]))
            => Firm(L, n, currentTerm[i], holders(i, n))

-----------------------------------------------------------------------------
(* Committed entries                                                         *)

\* The entry n of term t is in a majority A, for good.
Chosen(L, n, t, A) == L[t].e[n].Term = t /\ voteMajority(A) /\ Firm(L, n, t, A)

\* All entries up to c of the leader of t are.
covered(L, c, t) ==
    \E n \in 1 .. L[t].hi : \E A \in SUBSET Server : c <= n /\ Chosen(L, n, t, A)

PeersCommit(L) ==
    \A j \in Server : commitIndex[j] > 0 =>
        \E t \in DOMAIN L : /\ t <= currentTerm[j] /\ covered(L, commitIndex[j], t)
                            /\ SameUpTo(logPiece(log[j]), L[t], commitIndex[j])

CallsCommit(L) ==
    \A m \in appendCalls :
        /\ m.LeaderCommit <= callPiece(m).hi
        /\ m.LeaderCommit > 0 =>
             \E t \in DOMAIN L : t <= m.Term /\ covered(L, m.LeaderCommit, t)

CommitInv(L) == /\ LeaderInv(L) /\ AcksTrue(L) /\ AcksFirm(L)
                /\ PeersCommit(L) /\ CallsCommit(L)

CommittedInv == \E L : CommitInv(L)

-----------------------------------------------------------------------------
(* Steps                                                                     *)

\* The log of i stays, or its leader i adds an entry, or i stores entries of a
\* call, or crashes between the truncation and the append.
logStep(i) ==
    \/ log'[i] = log[i]
    \/ /\ state[i] = "Leader" /\ state'[i] = "Leader" /\ currentTerm'[i] = currentTerm[i]
       /\ \E x \in Entry : /\ x.Term = currentTerm[i] /\ x.Index = LastLog(log[i]).Index + 1
                           /\ log'[i] = append(log[i], <<x>>)
    \/ /\ state'[i] = "Follower"
       /\ \E m \in appendCalls :
            /\ m.peer = i /\ fits(m) /\ currentTerm'[i] = m.Term
            /\ log'[i] \in {merge(log[i], m.Entries), cutBack(log[i], m.Entries)}

\* What a leader is told was told before, or is a call of its term that was
\* just stored.
ackStep ==
    \A i, j \in Server : \A n \in Nat :
        /\ state[i] = "Leader" /\ state'[i] = "Leader" /\ currentTerm'[i] = currentTerm[i]
        /\ Ack(i, j, n)'
        => \/ Ack(i, j, n)
           \/ \E m \in appendCalls : /\ StoreEntries(m) /\ m.LeaderId = i /\ m.peer = j
                                     /\ m.Term = currentTerm[i]
                                     /\ n <= m.PrevLogIndex + Len(m.Entries)

\* After the step the leaders' logs are M: the new or grown ones, and the rest
\* of L.
nextLogs(L, M) ==
    /\ DOMAIN L \subseteq DOMAIN M
    /\ \A i \in Server : state'[i] = "Leader" =>
         currentTerm'[i] \in DOMAIN M /\ M[currentTerm'[i]] = logPiece(log'[i])
    /\ \A u \in DOMAIN M :
         \/ \E i \in Server : /\ state'[i] = "Leader" /\ currentTerm'[i] = u
                              /\ M[u] = logPiece(log'[i])
         \/ u \in DOMAIN L /\ M[u] = L[u]

\* commitIndex stays, starts again, follows a call, or is what Commit counted.
commitStep ==
    \A i \in Server :
        \/ commitIndex'[i] \in {commitIndex[i], 0}
        \/ \E m \in appendCalls :
             /\ StoreEntries(m) /\ m.peer = i /\ m.LeaderCommit > 0
             /\ commitIndex'[i] = Min({m.LeaderCommit, LastLog(log'[i]).Index})
        \/ /\ state'[i] = "Leader" /\ log'[i] = log[i]
           /\ commitIndex'[i] \in 1 .. LastLog(log[i]).Index
           /\ at(log[i], commitIndex'[i]).Term = currentTerm'[i]
           /\ commitMajority({i} \cup {j \in Server \ {i} : matchIndex'[i][j] >= commitIndex'[i]})
=============================================================================
