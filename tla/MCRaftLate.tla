----------------------------- MODULE MCRaftLate -----------------------------
(***************************************************************************)
(* A narrowed search of Raft for one delayed AppendEntries reply.  The      *)
(* constraint prunes states, it adds none: every step is a step of Raft.   *)
(***************************************************************************)
EXTENDS Raft, TLC

CONSTANTS A, B, C      \* the three peers, by the part they play

\* Who campaigns in which term.
campaigner == <<A, B, A, B, A, B>>

\* The terms of the entries a log may hold: A writes two entries in term 1, B
\* one in term 2, and each one more on top of B's in its last term.
histories == {<<0>>, <<0, 1>>, <<0, 1, 1>>, <<0, 2>>, <<0, 2, 5>>, <<0, 2, 6>>}

terms(l) == [k \in 1 .. Len(l.Entries) |-> l.Entries[k].Term]

\* The reply that is delayed: C's answer to the entries A sent it in term 3.
held(r) == r.Success /\ r.args.Term = 3 /\ r.args.peer = C /\ matched(r) = 2

Narrow ==
    /\ \A i \in Server : state[i] = "Candidate" => campaigner[currentTerm[i]] = i
    /\ \A i \in Server : terms(log[i]) \in histories
    /\ \A m \in appendCalls : m.Term \in {2, 3, 4, 6}
    /\ Cardinality({r \in appendReplies : ~held(r)}) + Cardinality(appendCalls)
         + Cardinality(voteCalls) + Cardinality(voteReplies) <= 1
=============================================================================
