-------------------------- MODULE RaftSafetyProofs --------------------------
(***************************************************************************)
(* The invariants of RaftProofs, RaftMatchingProofs and RaftCommitProofs    *)
(* put together, and what they mean for the logs, for what leaders send and *)
(* for what is committed.                                                   *)
(***************************************************************************)
EXTENDS RaftProofs, RaftCommitProofs

SafetyInv == StorageInv /\ ElectionInv /\ MatchingInv /\ HintInv

\* Make establishes the invariant.
LEMMA SafetyInit == Init => SafetyInv
BY LogFactsHold, StorageInit, ElectionInit, MatchingInit, HintInit DEF SafetyInv

\* Every step keeps the invariant.
LEMMA SafetyStep == SafetyInv /\ [Next]_vars => SafetyInv'
<1> SUFFICES ASSUME StorageInv, ElectionInv, MatchingInv, HintInv, [Next]_vars
             PROVE  SafetyInv'
  BY DEF SafetyInv
<1>1. StorageInv'
  BY StorageStep, ZenonT(40)
<1>2. ElectionInv' /\ keepsVotes /\ newGrants /\ rolesStep
  BY <1>1, ElectionStep, ElectionSteps, RolesStep
<1>3. Winners
  BY LeaderIsWinner
<1>4. Winners'
  BY <1>1, <1>2, LeaderIsWinner, PTL
<1>5. MatchingInv' /\ orderly
  BY <1>1, <1>2, <1>3, <1>4, LogFactsHold, MatchingStep
<1>6. HintInv'
  BY <1>1, <1>2, <1>5, LogFactsHold, HintStep
<1> QED BY <1>1, <1>2, <1>5, <1>6 DEF SafetyInv

\* Every reachable state of Raft satisfies the invariant: what is stored, the
\* votes, the pieces of logs in every peer and message, and the conflict hints.
THEOREM Safe == Spec => []SafetyInv
BY SafetyInit, SafetyStep, PTL DEF Spec

\* Two logs that agree on the term of an index agree on everything up to it,
\* for any number of peers, entries and calls: the PrevLogTerm check of
\* AppendEntries with its truncation and append keeps the logs consistent
\* whatever is lost, repeated or late and wherever a peer crashes.
THEOREM LogsMatch == Spec => []LogMatching
<1>1. SafetyInv => LogMatching
  BY LogFactsHold, PiecesMatch DEF SafetyInv
<1> QED BY <1>1, Safe, PTL

\* Handling a conflict of the leader's own term always moves the next call to a
\* strictly earlier entry, and never below the first: the hints of AppendEntries
\* and the scans over both logs cannot make leaderSendEntries go in circles.
THEOREM ConflictsConverge == Spec => []ConflictProgress
<1>1. SafetyInv => ConflictProgress
  BY LogFactsHold, BackUpProgress DEF SafetyInv
<1> QED BY <1>1, Safe, PTL

\* A leader without service snapshots never comes to send one: whatever replies
\* arrive, and however late, it sends from inside its own log.
THEOREM NeverSnapshots == Spec => []NoSnapshotYet
<1>1. SafetyInv => NoSnapshotYet
  BY LogFactsHold, SendsFromLog, Zenon DEF SafetyInv
<1> QED BY <1>1, Safe, PTL

-----------------------------------------------------------------------------
(* Committed entries                                                         *)

CommitSafe == SafetyInv /\ VoteCallsTrue /\ CommittedInv

\* What the invariants say of the logs and the votes before and after a step.
LEMMA SoundStep ==
    ASSUME SafetyInv, VoteCallsTrue, [Next]_vars
    PROVE  soundStep /\ votesStep /\ VoteCallsTrue'
<1>1. StorageInv /\ ElectionInv /\ MatchingInv /\ HintInv
  BY DEF SafetyInv
<1>2. StorageInv' /\ ElectionInv' /\ MatchingInv'
  BY SafetyStep DEF SafetyInv
<1>3. keepsVotes /\ newGrants /\ rolesStep
  BY <1>1, ElectionSteps, RolesStep
<1>4. Winners /\ LogsSound
  BY <1>1, LeaderIsWinner, LogFactsHold, LogsAreSound
<1>5. Winners' /\ LogsSound'
  BY <1>2, LeaderIsWinner, LogFactsHold, LogsAreSound, PTL
<1>6. orderly /\ replyStep
  BY <1>1, <1>2, <1>3, <1>4, <1>5, LogFactsHold, MatchingStep, ReplyStep
<1>7. \A k \in Server : logStep(k)
  BY <1>1, <1>2, <1>3, <1>4, LogFactsHold, LogStep
<1>8. soundStep
  BY <1>1, <1>2, <1>3, <1>4, <1>5, <1>6, <1>7 DEF soundStep
<1>9. grantStep /\ leaderStep /\ voteCallStep
  BY <1>1, GrantStep, LeaderStep, VoteCallStep
<1>10. VoteCallsTrue'
  BY <1>1, <1>2, <1>3, <1>7, <1>9, VoteCallsStep
<1>11. GrantsSound
  BY <1>1, GrantsAreSound
<1>12. GrantsSound'
  BY <1>2, <1>10, GrantsAreSound, PTL
<1>13. votesStep
  BY <1>1, <1>2, <1>9, <1>11, <1>12, MajorityFactsHold DEF votesStep
<1> QED BY <1>8, <1>10, <1>13

\* Make establishes the invariant of committed entries.
LEMMA CommitSafeInit == Init => CommitSafe
BY SafetyInit, LogFactsHold, CommittedInit DEF CommitSafe

\* Every step keeps it, as long as no reply outlives the term it answers.
LEMMA CommitSafeStep == ~LateReplies /\ CommitSafe /\ [Next]_vars => CommitSafe'
<1> SUFFICES ASSUME ~LateReplies, SafetyInv, VoteCallsTrue, CommittedInv, [Next]_vars
             PROVE  CommitSafe'
  BY DEF CommitSafe
<1>1. SafetyInv'
  BY SafetyStep
<1>2. soundStep /\ votesStep /\ VoteCallsTrue'
  BY SoundStep
<1>3. ackStep
  BY LogFactsHold, AckStep DEF SafetyInv
<1>4. commitStep
  BY <1>1, LogFactsHold, CommitStep DEF SafetyInv
<1>5. CommittedInv'
  BY <1>2, <1>3, <1>4, LogFactsHold, CommittedStep
<1> QED BY <1>1, <1>2, <1>5 DEF CommitSafe

\* Every reachable state has leaders' logs L in which whatever is committed, or
\* may still become so, is firm: nobody can replace it.
THEOREM CommitsSafe == ASSUME ~LateReplies PROVE Spec => []CommitSafe
<1>1. CommitSafe /\ [Next]_vars => CommitSafe'
  BY CommitSafeStep
<1> QED BY <1>1, CommitSafeInit, PTL DEF Spec

\* What the invariant says of the logs.
LEMMA CommitFacts == CommitSafe => /\ LogFacts /\ StorageInv /\ LogsSound
                                   /\ MajorityFacts /\ CommittedInv
BY LogFactsHold, LogsAreSound, MajorityFactsHold DEF CommitSafe, SafetyInv

\* No two peers ever apply different entries at an index, for any number of
\* peers, terms, entries, calls and crashes: the election restriction of
\* RequestVote and the rule of Commit to count only entries of the current term
\* are enough.
THEOREM PeersAgree == ASSUME ~LateReplies PROVE Spec => []StateMachineSafety
<1>1. CommitSafe => StateMachineSafety
  BY CommitFacts, CommitsAgree
<1> QED BY <1>1, CommitsSafe, PTL

\* A leader has every entry that a peer of its term or an earlier one has
\* committed: upToDate lets nobody win the votes of a majority without them.
THEOREM LeadersComplete == ASSUME ~LateReplies PROVE Spec => []LeaderCompleteness
<1>1. CommitSafe => LeaderCompleteness
  BY CommitFacts, LeaderHolds
<1> QED BY <1>1, CommitsSafe, PTL

\* What a peer has committed is in the logs of a majority, and stays there:
\* followers that take LeaderCommit over from a late call included.
THEOREM CommitsOnMajority == ASSUME ~LateReplies PROVE Spec => []CommittedOnMajority
<1>1. CommitSafe => CommittedOnMajority
  BY CommitFacts, CommitsHeld
<1> QED BY <1>1, CommitsSafe, PTL

\* A leader's matchIndex is never too high: a peer of its term has those entries,
\* the way leaderSendEntries counts them from the call a reply answers.
THEOREM MatchesTrue == ASSUME ~LateReplies PROVE Spec => []MatchIndexTrue
<1>1. CommitSafe => MatchIndexTrue
  BY CommitFacts, AcksMatch
<1> QED BY <1>1, CommitsSafe, PTL

\* No step takes a committed entry out of a log: not the truncation in
\* AppendEntries, and no crash in the middle of it.
THEOREM CommitsKept == ASSUME ~LateReplies PROVE Spec => CommittedKept
<1>1. CommitSafe /\ [Next]_vars =>
        [\A i \in Server : \A n \in 1 .. commitIndex[i] :
           n \in Indices(log'[i]) /\ at(log'[i], n) = at(log[i], n)]_vars
  <2> SUFFICES ASSUME SafetyInv, VoteCallsTrue, CommittedInv, [Next]_vars,
                      NEW i \in Server, NEW n \in 1 .. commitIndex[i]
               PROVE  n \in Indices(log'[i]) /\ at(log'[i], n) = at(log[i], n)
    BY DEF CommitSafe
  <2>1. soundStep /\ votesStep
    BY SoundStep
  <2> QED BY <2>1, LogFactsHold, CommitsStay
<1> QED BY <1>1, CommitsSafe, PTL DEF Spec, CommittedKept
=============================================================================
