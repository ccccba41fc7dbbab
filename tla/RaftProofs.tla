----------------------------- MODULE RaftProofs -----------------------------
(***************************************************************************)
(* For any number of peers, terms, entries and calls in flight: the types  *)
(* of Raft, what is persisted, and at most one leader per term.  The        *)
(* argument for the last: a vote that counts, or may still count, is one    *)
(* its voter stands by until its term moves on (VotesHeld), so no voter     *)
(* backs two candidates of one term (VotesUnique); a leader holds a         *)
(* majority (LeaderElected), and two majorities share a voter.              *)
(***************************************************************************)
EXTENDS RaftInvariants, RaftLogProofs, FiniteSetTheorems

\* What is persisted, typed.
Saved == [currentTerm : Nat, votedFor : Server \cup {Nil}, log : Log]

\* What StorageInv says of the peers' role, term, vote, log and persister.
PeerInv ==
    /\ state \in [Server -> Roles]
    /\ currentTerm \in [Server -> Nat]
    /\ votedFor \in [Server -> Server \cup {Nil}]
    /\ log \in [Server -> Log]
    /\ persister \in [Server -> Saved]
    /\ PersisterCurrent
    /\ \A i \in Server : Indexed(log[i])

-----------------------------------------------------------------------------
\* setNewTerm and SetPeer keep the types of a peer and what it persists.
LEMMA SetNewTermType ==
    ASSUME StorageInv, NEW i \in Server, NEW term \in Nat
    PROVE  LET p == setNewTerm(i, term)
           IN  /\ p.state \in Roles /\ p.currentTerm \in Nat
               /\ p.votedFor \in Server \cup {Nil}
               /\ p.saved = persistData(p.currentTerm, p.votedFor, log[i])
               /\ p.saved \in Saved
BY Zenon DEF StorageInv, TypeOK, PersisterCurrent, setNewTerm, persistData, Saved, Roles

\* A handler that assigns and persists keeps the types and the persister.
LEMMA SetPeerType ==
    ASSUME StorageInv, NEW i \in Server, NEW s \in Roles, NEW t \in Nat,
           NEW v \in Server \cup {Nil}, NEW l \in Log, Indexed(l),
           SetPeer(i, s, t, v, persistData(t, v, l)),
           log' = [log EXCEPT ![i] = l]
    PROVE  PeerInv'
<1>1. persistData(t, v, l) \in Saved
  BY Zenon DEF persistData, Saved
<1>2. /\ state' \in [Server -> Roles]
      /\ currentTerm' \in [Server -> Nat]
      /\ votedFor' \in [Server -> Server \cup {Nil}]
      /\ log' \in [Server -> Log]
      /\ persister' \in [Server -> Saved]
  BY <1>1, Zenon DEF StorageInv, TypeOK, SetPeer, Saved
<1>3. PersisterCurrent'
  BY Zenon DEF StorageInv, TypeOK, SetPeer, PersisterCurrent
<1>4. \A j \in Server : Indexed(log'[j])
  BY Zenon DEF StorageInv, TypeOK, LogsIndexed
<1> QED BY <1>2, <1>3, <1>4, Zenon DEF PeerInv

\* Raft's StepDown, in a handler that leaves the logs alone.
LEMMA StepDownType ==
    ASSUME StorageInv, NEW i \in Server, NEW term \in Nat,
           StepDown(i, term), UNCHANGED log
    PROVE  PeerInv'
<1> DEFINE p == setNewTerm(i, term)
<1>1. /\ p.state \in Roles /\ p.currentTerm \in Nat
      /\ p.votedFor \in Server \cup {Nil}
      /\ p.saved = persistData(p.currentTerm, p.votedFor, log[i])
  BY SetNewTermType, Zenon
<1>2. SetPeer(i, p.state, p.currentTerm, p.votedFor,
              persistData(p.currentTerm, p.votedFor, log[i]))
  BY <1>1, Zenon DEF StepDown
<1>3. log[i] \in Log /\ Indexed(log[i]) /\ log' = [log EXCEPT ![i] = log[i]]
  BY Zenon DEF StorageInv, TypeOK, LogsIndexed
<1> HIDE DEF p
<1> QED BY <1>1, <1>2, <1>3, SetPeerType, Zenon

-----------------------------------------------------------------------------
(* One lemma per handler: StorageInv is kept.                                *)

\* RequestVote of an old term.
LEMMA RefuseVoteStorage ==
    ASSUME StorageInv, NEW args \in voteCalls, RefuseVote(args)
    PROVE  StorageInv'
<1>1. args \in RequestVoteArgs /\ currentTerm[args.peer] \in Nat
  BY Zenon DEF StorageInv, TypeOK, RequestVoteArgs
<1>2. [args |-> args, Term |-> currentTerm[args.peer], VoteGranted |-> FALSE]
        \in RequestVoteReply
  BY <1>1 DEF RequestVoteReply
<1>3. voteCalls' \subseteq RequestVoteArgs /\ voteReplies' \subseteq RequestVoteReply
  BY <1>1, <1>2, Zenon DEF StorageInv, TypeOK, RefuseVote, ReplyToVote
<1> QED BY <1>3, Zenon DEF StorageInv, TypeOK, RefuseVote, peerVars, leaderVars,
       PersisterCurrent, LogsIndexed

\* RequestVote of the current or a later term, granted or not.
LEMMA ConsiderVoteStorage ==
    ASSUME StorageInv, NEW args \in voteCalls, ConsiderVote(args)
    PROVE  StorageInv'
<1> DEFINE i == args.peer
           p == setNewTerm(i, args.Term)
           grant == /\ mayVote(p.votedFor, args.CandidateId)
                    /\ upToDate(args, LastLog(log[i]))
<1>1. args \in RequestVoteArgs /\ i \in Server /\ args.Term \in Nat
      /\ args.CandidateId \in Server
  BY Zenon DEF StorageInv, TypeOK, RequestVoteArgs
<1>2. /\ p.state \in Roles /\ p.currentTerm \in Nat
  BY <1>1, SetNewTermType, Zenon
<1>3. [args |-> args, Term |-> p.currentTerm, VoteGranted |-> grant] \in RequestVoteReply
  BY <1>1, <1>2, Zenon DEF RequestVoteReply, mayVote, upToDate
<1>4. voteCalls' \subseteq RequestVoteArgs /\ voteReplies' \subseteq RequestVoteReply
  BY <1>1, <1>3, Zenon DEF StorageInv, TypeOK, ConsiderVote, ReplyToVote
<1>5. PeerInv'
  <2>1. log' = log
    BY Zenon DEF ConsiderVote
  <2>2. CASE grant
    <3>1. SetPeer(i, p.state, p.currentTerm, args.CandidateId,
                  persistData(p.currentTerm, args.CandidateId, log[i]))
      BY <2>2, Zenon DEF ConsiderVote, savedVote
    <3>2. log[i] \in Log /\ Indexed(log[i]) /\ log' = [log EXCEPT ![i] = log[i]]
      BY <1>1, <2>1, Zenon DEF StorageInv, TypeOK, LogsIndexed
    <3> HIDE DEF p
    <3> QED BY <1>1, <1>2, <3>1, <3>2, SetPeerType, Zenon
  <2>3. CASE ~grant
    <3>1. StepDown(i, args.Term)
      BY <2>3, Zenon DEF ConsiderVote
    <3> QED BY <1>1, <2>1, <3>1, StepDownType
  <2> QED BY <2>2, <2>3, Zenon
<1> QED BY <1>4, <1>5, Zenon DEF StorageInv, PeerInv, TypeOK, ConsiderVote, leaderVars,
       LogsIndexed, Saved

\* The ticker starts an election.
LEMMA TimeoutStorage ==
    ASSUME StorageInv, NEW i \in Server, Timeout(i)
    PROVE  StorageInv'
<1> DEFINE t == currentTerm[i] + 1
           last == LastLog(log[i])
           calls == {[Term |-> t, CandidateId |-> i, peer |-> j,
                      LastLogIndex |-> last.Index, LastLogTerm |-> last.Term,
                      open |-> TRUE] : j \in Server \ {i}}
<1>1. t \in Nat /\ log[i] \in Log /\ Indexed(log[i]) /\ log' = [log EXCEPT ![i] = log[i]]
  BY DEF StorageInv, TypeOK, LogsIndexed, Timeout
<1>2. last.Index \in Nat /\ last.Term \in Nat
  <2>1. last \in Entry
    BY <1>1, LastLogProperty, Zenon
  <2> QED BY <2>1, Zenon DEF Entry
<1>3. calls \subseteq RequestVoteArgs
  <2> HIDE DEF t, last
  <2>1. ASSUME NEW j \in Server
        PROVE  [Term |-> t, CandidateId |-> i, peer |-> j, LastLogIndex |-> last.Index,
                LastLogTerm |-> last.Term, open |-> TRUE] \in RequestVoteArgs
    BY <1>1, <1>2, Zenon DEF RequestVoteArgs
  <2> QED BY <2>1, Zenon
<1>4. /\ SetPeer(i, "Candidate", t, i, persistData(t, i, log[i]))
      /\ votes' = [votes EXCEPT ![i] = {i}]
      /\ \E sent \in SUBSET calls : voteCalls' = voteCalls \cup sent
  BY Zenon DEF Timeout, leaderElection, Broadcast
<1> HIDE DEF t, last, calls
<1>5. PeerInv'
  <2>1. "Candidate" \in Roles
    BY Zenon DEF Roles
  <2> QED BY <1>1, <1>4, <2>1, SetPeerType, Zenon
<1>6. voteCalls' \subseteq RequestVoteArgs
  BY <1>3, <1>4, Zenon DEF StorageInv, TypeOK
<1>7. votes' \in [Server -> SUBSET Server]
  BY <1>4, Zenon DEF StorageInv, TypeOK
<1> QED BY <1>5, <1>6, <1>7, Zenon DEF StorageInv, PeerInv, TypeOK, LogsIndexed, Saved,
       Timeout, leaderElection, leaderVars

\* candidateRequest: a refusal, which may raise the term.
LEMMA VoteDeniedStorage ==
    ASSUME StorageInv, NEW reply \in voteReplies, VoteDenied(reply)
    PROVE  StorageInv'
<1>1. reply.args.CandidateId \in Server /\ reply.Term \in Nat
  BY Zenon DEF StorageInv, TypeOK, RequestVoteReply, RequestVoteArgs
<1>2. PeerInv'
  BY <1>1, StepDownType, Zenon DEF VoteDenied
<1> QED BY <1>2, Zenon DEF StorageInv, PeerInv, TypeOK, LogsIndexed, Saved, VoteDenied,
       leaderVars

\* candidateRequest: a vote short of the majority.
LEMMA VoteCountedStorage ==
    ASSUME StorageInv, NEW reply \in voteReplies, VoteCounted(reply)
    PROVE  StorageInv'
<1>1. reply.args.CandidateId \in Server /\ reply.args.peer \in Server
  BY Zenon DEF StorageInv, TypeOK, RequestVoteReply, RequestVoteArgs
<1>2. votes' \in [Server -> SUBSET Server]
  BY <1>1 DEF StorageInv, TypeOK, VoteCounted, countVote
<1> QED BY <1>2 DEF StorageInv, TypeOK, LogsIndexed, PersisterCurrent, VoteCounted,
                    peerVars, leaderVars

\* A call of a leader is well-formed: its entries continue PrevLogIndex.
LEMMA EntriesForType ==
    ASSUME StorageInv, NEW i \in Server, NEW j \in Server, NEW l \in Log, Indexed(l),
           NEW next \in [Server -> Int], j \notin needSnapshot(l, next)
    PROVE  LET m == entriesFor(i, j, l, sendFrom(l, next[j]))
           IN  m \in AppendEntriesArgs /\ Follows(m.PrevLogIndex, m.Entries)
<1> DEFINE n == sendFrom(l, next[j])
           e == at(l, n - 1)
<1>1. next[j] \in Int /\ LastLog(l).Index \in Nat /\ l.Index0 \in Nat
  BY LastLogProperty, Zenon
<1>2. n \in Int /\ n <= LastLog(l).Index + 1
  BY <1>1 DEF sendFrom
<1>3. n > l.Index0
  <2>1. ~(n <= l.Index0)
    BY Zenon DEF needSnapshot
  <2> HIDE DEF n
  <2> QED BY <1>1, <1>2, <2>1
<1> HIDE DEF n
<1>4. n \in l.Index0 + 1 .. LastLog(l).Index + 1
  BY <1>1, <1>2, <1>3
<1>5. n - 1 \in Indices(l)
  BY <1>1, <1>4, LastLogProperty DEF Indices
<1>6. e \in Entry /\ e.Index = n - 1
  BY <1>5, AtProperty, Zenon
<1>7. e.Index \in Nat /\ e.Term \in Nat
  BY <1>6, Zenon DEF Entry
<1>8. LogTail(l, n) \in Seq(Entry) /\ Follows(n - 1, LogTail(l, n))
  BY <1>4, LogTailProperty, Zenon
<1>9. currentTerm[i] \in Nat /\ commitIndex[i] \in Nat
  BY Zenon DEF StorageInv, TypeOK
<1> HIDE DEF e
<1>10. entriesFor(i, j, l, n) =
         [Term |-> currentTerm[i], LeaderId |-> i, peer |-> j,
          PrevLogIndex |-> e.Index, PrevLogTerm |-> e.Term,
          Entries |-> LogTail(l, n), LeaderCommit |-> commitIndex[i], open |-> TRUE]
  BY Zenon DEF entriesFor, e
<1> QED BY <1>6, <1>7, <1>8, <1>9, <1>10 DEF AppendEntriesArgs, n

\* The calls that appendEntries makes are well formed, with entries at their own index.
LEMMA AppendEntriesType ==
    ASSUME StorageInv, NEW i \in Server, NEW l \in Log, Indexed(l),
           NEW next \in [Server -> Int], NEW hb \in BOOLEAN,
           appendEntries(i, l, next, hb)
    PROVE  /\ appendCalls' \subseteq AppendEntriesArgs
           /\ \A m \in appendCalls' : Follows(m.PrevLogIndex, m.Entries)
<1> DEFINE calls == {entriesFor(i, j, l, sendFrom(l, next[j])) :
                       j \in behind(i, l, next, hb) \ needSnapshot(l, next)}
<1>1. PICK sent \in SUBSET calls : appendCalls' = appendCalls \cup sent
  BY Zenon DEF appendEntries, Broadcast
<1>2. ASSUME NEW m \in calls
      PROVE  m \in AppendEntriesArgs /\ Follows(m.PrevLogIndex, m.Entries)
  <2>1. PICK j \in Server \ needSnapshot(l, next) :
               m = entriesFor(i, j, l, sendFrom(l, next[j]))
    BY Zenon DEF behind
  <2> QED BY <2>1, EntriesForType
<1> HIDE DEF calls
<1> QED BY <1>1, <1>2, Zenon DEF StorageInv, TypeOK, LogsIndexed

\* candidateRequest: the vote that makes a leader, with its first calls.
LEMMA BecomeLeaderStorage ==
    ASSUME StorageInv, NEW reply \in voteReplies, becomeLeader(reply)
    PROVE  StorageInv'
<1> DEFINE i == reply.args.CandidateId
           next == [j \in Server |-> LastLog(log[i]).Index + 1]
<1>1. i \in Server /\ reply.args.peer \in Server
  BY Zenon DEF StorageInv, TypeOK, RequestVoteReply, RequestVoteArgs
<1>2. /\ log[i] \in Log /\ Indexed(log[i]) /\ currentTerm[i] \in Nat
      /\ votedFor[i] \in Server \cup {Nil} /\ log' = [log EXCEPT ![i] = log[i]]
  BY <1>1, Zenon DEF StorageInv, TypeOK, LogsIndexed, becomeLeader
<1>3. next \in [Server -> Int]
  BY <1>2, LastLogProperty
<1>4. /\ SetPeer(i, "Leader", currentTerm[i], votedFor[i],
                  persistData(currentTerm[i], votedFor[i], log[i]))
      /\ nextIndex' = [nextIndex EXCEPT ![i] = next]
      /\ appendEntries(i, log[i], next, TRUE)
      /\ votes' = [votes EXCEPT ![i] = countVote(i, reply)]
  BY Zenon DEF becomeLeader
<1> HIDE DEF next
<1>5. PeerInv'
  <2>1. "Leader" \in Roles
    BY Zenon DEF Roles
  <2> QED BY <1>1, <1>2, <1>4, <2>1, SetPeerType, Zenon
<1>6. nextIndex' \in [Server -> [Server -> Int]]
  <2>1. nextIndex \in [Server -> [Server -> Int]]
    BY Zenon DEF StorageInv, TypeOK
  <2> QED BY <1>1, <1>3, <1>4, <2>1, Zenon
<1>7. matchIndex' \in [Server -> [Server -> Nat]]
  BY <1>1, SMTT(30) DEF StorageInv, TypeOK, becomeLeader
<1>8. votes' \in [Server -> SUBSET Server]
  BY <1>1, <1>4, Zenon DEF StorageInv, TypeOK, countVote
<1>9. /\ appendCalls' \subseteq AppendEntriesArgs
      /\ \A m \in appendCalls' : Follows(m.PrevLogIndex, m.Entries)
  BY <1>1, <1>2, <1>3, <1>4, AppendEntriesType, Zenon
<1> QED BY <1>5, <1>6, <1>7, <1>8, <1>9, Zenon DEF StorageInv, PeerInv, TypeOK, LogsIndexed,
       Saved, becomeLeader

-----------------------------------------------------------------------------
(* AppendEntries                                                             *)

\* The reply to an AppendEntries call is well formed.
LEMMA ReplyToAppendType ==
    ASSUME StorageInv, NEW args \in appendCalls, NEW reply \in AppendEntriesReply,
           ReplyToAppend(args, reply)
    PROVE  /\ appendCalls' \subseteq AppendEntriesArgs
           /\ appendReplies' \subseteq AppendEntriesReply
           /\ \A m \in appendCalls' : Follows(m.PrevLogIndex, m.Entries)
BY Zenon DEF StorageInv, TypeOK, LogsIndexed, ReplyToAppend

\* What a call in flight holds.
LEMMA ArgsType ==
    ASSUME StorageInv, NEW args \in appendCalls
    PROVE  /\ args \in AppendEntriesArgs /\ args.peer \in Server /\ args.Term \in Nat
           /\ args.PrevLogIndex \in Nat /\ args.Entries \in Seq(Entry)
           /\ args.LeaderCommit \in Nat /\ Follows(args.PrevLogIndex, args.Entries)
           /\ log[args.peer] \in Log /\ Indexed(log[args.peer])
           /\ currentTerm[args.peer] \in Nat
BY Zenon DEF StorageInv, TypeOK, LogsIndexed, AppendEntriesArgs

\* The reply AppendEntries starts with.
LEMMA AnswerType ==
    ASSUME NEW args \in AppendEntriesArgs, NEW t \in Nat, NEW success \in BOOLEAN
    PROVE  answer(args, t, success) \in AppendEntriesReply
BY DEF answer, AppendEntriesReply

\* AppendEntries: term and role after the call.
LEMMA FollowType ==
    ASSUME StorageInv, NEW args \in appendCalls
    PROVE  LET p == follow(args.peer, args)
           IN  /\ p.state \in Roles /\ p.currentTerm \in Nat
               /\ p.votedFor \in Server \cup {Nil}
               /\ p.saved = persistData(p.currentTerm, p.votedFor, log[args.peer])
               /\ p.saved \in Saved
<1> DEFINE q == setNewTerm(args.peer, args.Term)
           p == follow(args.peer, args)
<1>1. /\ q.state \in Roles /\ q.currentTerm \in Nat
      /\ q.votedFor \in Server \cup {Nil}
      /\ q.saved = persistData(q.currentTerm, q.votedFor, log[args.peer])
      /\ q.saved \in Saved
  BY ArgsType, SetNewTermType, Zenon
<1>2. q = [state |-> q.state, currentTerm |-> q.currentTerm, votedFor |-> q.votedFor,
           saved |-> q.saved]
  BY Zenon DEF setNewTerm
<1>3. p = IF q.state = "Candidate"
          THEN [q EXCEPT !.state = "Follower",
                         !.saved = persistData(q.currentTerm, q.votedFor, log[args.peer])]
          ELSE q
  BY Zenon DEF follow
<1> HIDE DEF p, q
<1> QED BY <1>1, <1>2, <1>3, Zenon DEF Roles, p

\* AppendEntries of an old term.
LEMMA RefuseEntriesStorage ==
    ASSUME StorageInv, NEW args \in appendCalls, RefuseEntries(args)
    PROVE  StorageInv'
<1>1. PeerInv'
  BY ArgsType, StepDownType DEF RefuseEntries
<1>2. answer(args, currentTerm[args.peer], FALSE) \in AppendEntriesReply
  BY ArgsType, AnswerType, Zenon
<1>3. /\ appendCalls' \subseteq AppendEntriesArgs
      /\ appendReplies' \subseteq AppendEntriesReply
      /\ \A m \in appendCalls' : Follows(m.PrevLogIndex, m.Entries)
  BY <1>2, ReplyToAppendType, Zenon DEF RefuseEntries
<1> QED BY <1>1, <1>3, Zenon DEF StorageInv, PeerInv, TypeOK, LogsIndexed, Saved,
       RefuseEntries, leaderVars

\* The conflict hints name indices and terms.
LEMMA ConflictType ==
    ASSUME StorageInv, NEW args \in appendCalls, current(args), ~fits(args)
    PROVE  conflict(args) \in AppendEntriesReply
<1> DEFINE l == log[args.peer]
           n == args.PrevLogIndex
<1>1. args \in AppendEntriesArgs /\ l \in Log /\ Indexed(l) /\ n \in Nat
      /\ currentTerm[args.peer] \in Nat /\ args.Entries \in Seq(Entry)
  BY ArgsType, Zenon
<1>2. LogLen(l) \in Nat /\ LastLog(l).Index \in Nat /\ l.Index0 \in Nat
      /\ LastLog(l).Index = LogLen(l) - 1
  BY <1>1, LastLogProperty, Zenon
<1>3. l.Index0 <= n
  BY <1>1, <1>2 DEF current
<1> HIDE DEF l, n
<1>4. CASE LastLog(l).Index < n
  BY <1>1, <1>2, <1>4 DEF conflict, AppendEntriesReply, l, n
<1>5. CASE ~(LastLog(l).Index < n)
  <2>1. n \in Indices(l)
    BY <1>1, <1>2, <1>3, <1>5 DEF Indices
  <2>2. at(l, n).Term \in Nat
    BY <1>1, <2>1, AtProperty, Zenon DEF Entry
  <2>3. firstOfTerm(l, n) \in Nat
    <3> DEFINE starts == {x \in l.Index0 + 1 .. n : at(l, x - 1).Term # at(l, n).Term}
    <3>1. starts \in SUBSET Nat /\ \A x \in starts : x <= n
      BY <1>1, <1>2
    <3>2. firstOfTerm(l, n) = IF starts = {} THEN 0 ELSE Max(starts)
      BY Zenon DEF firstOfTerm
    <3> HIDE DEF starts
    <3>3. starts # {} => Max(starts) \in starts
      BY <1>1, <3>1, MaxProperty, Zenon
    <3>4. CASE starts = {}
      BY <3>2, <3>4
    <3>5. CASE starts # {}
      <4>1. Max(starts) \in Nat
        BY <3>1, <3>3, <3>5, Zenon
      <4> QED BY <3>2, <3>5, <4>1, Zenon
    <3> QED BY <3>4, <3>5, Zenon
  <2>4. conflict(args) =
          [args |-> args, Term |-> currentTerm[args.peer],
           Success |-> FALSE, Conflict |-> TRUE, XTerm |-> at(l, n).Term,
           XIndex |-> firstOfTerm(l, n), XLen |-> LogLen(l)]
    BY <1>5 DEF conflict, l, n
  <2> QED BY <1>1, <1>2, <2>2, <2>3, <2>4 DEF AppendEntriesReply
<1> QED BY <1>4, <1>5

\* AppendEntries that does not fit the log.
LEMMA ReportConflictStorage ==
    ASSUME StorageInv, NEW args \in appendCalls, ReportConflict(args)
    PROVE  StorageInv'
<1> DEFINE i == args.peer
           p == follow(i, args)
<1>1. /\ p.state \in Roles /\ p.currentTerm \in Nat /\ p.votedFor \in Server \cup {Nil}
      /\ p.saved = persistData(p.currentTerm, p.votedFor, log[i])
  BY FollowType, Zenon
<1>2. /\ i \in Server /\ log[i] \in Log /\ Indexed(log[i])
      /\ log' = [log EXCEPT ![i] = log[i]]
  BY ArgsType DEF ReportConflict, StorageInv, TypeOK
<1>3. SetPeer(i, p.state, p.currentTerm, p.votedFor, p.saved)
  BY Zenon DEF ReportConflict
<1> HIDE DEF p
<1>4. PeerInv'
  BY <1>1, <1>2, <1>3, SetPeerType, Zenon
<1>5. conflict(args) \in AppendEntriesReply
  BY ConflictType DEF ReportConflict
<1>6. /\ appendCalls' \subseteq AppendEntriesArgs
      /\ appendReplies' \subseteq AppendEntriesReply
      /\ \A m \in appendCalls' : Follows(m.PrevLogIndex, m.Entries)
  BY <1>5, ReplyToAppendType, Zenon DEF ReportConflict
<1> QED BY <1>4, <1>6, Zenon DEF StorageInv, PeerInv, TypeOK, LogsIndexed, Saved,
       ReportConflict, leaderVars

\* Where the entries of a call may be merged, the log stays well-formed.
LEMMA FitsProperty ==
    ASSUME StorageInv, NEW args \in appendCalls, current(args), fits(args)
    PROVE  LET l == log[args.peer]
           IN  /\ cutBack(l, args.Entries) \in Log /\ Indexed(cutBack(l, args.Entries))
               /\ merge(l, args.Entries) \in Log /\ Indexed(merge(l, args.Entries))
<1> DEFINE l == log[args.peer]
<1>1. /\ l \in Log /\ Indexed(l) /\ args.Entries \in Seq(Entry)
      /\ args.PrevLogIndex \in Nat /\ Follows(args.PrevLogIndex, args.Entries)
  BY ArgsType, Zenon
<1>2. l.Index0 \in Nat /\ LastLog(l).Index \in Nat
  BY <1>1, LastLogProperty, Zenon
<1>3. args.PrevLogIndex \in l.Index0 .. LastLog(l).Index
  <2>1. l.Index0 <= args.PrevLogIndex /\ args.PrevLogIndex <= LastLog(l).Index
    BY Zenon DEF current, fits
  <2> HIDE DEF l
  <2> QED BY <1>1, <1>2, <2>1
<1> HIDE DEF l
<1> QED BY <1>1, <1>3, MergeProperty, Zenon DEF l

\* AppendEntries that truncates and appends.
LEMMA StoreEntriesStorage ==
    ASSUME StorageInv, NEW args \in appendCalls, StoreEntries(args)
    PROVE  StorageInv'
<1> DEFINE i == args.peer
           p == follow(i, args)
           l == merge(log[i], args.Entries)
           saved == IF l = log[i] THEN p.saved
                    ELSE persistData(p.currentTerm, p.votedFor, l)
<1>1. /\ p.state \in Roles /\ p.currentTerm \in Nat /\ p.votedFor \in Server \cup {Nil}
      /\ p.saved = persistData(p.currentTerm, p.votedFor, log[i])
  BY FollowType, Zenon
<1>2. l \in Log /\ Indexed(l)
  BY FitsProperty, Zenon DEF StoreEntries
<1>3. i \in Server /\ args.LeaderCommit \in Nat
  BY ArgsType, Zenon
<1>4. /\ SetPeer(i, p.state, p.currentTerm, p.votedFor, saved)
      /\ log' = [log EXCEPT ![i] = l]
      /\ commitIndex' = [commitIndex EXCEPT
                           ![i] = followCommit(commitIndex[i], args.LeaderCommit, l)]
  BY Zenon DEF StoreEntries
<1> HIDE DEF p, l
<1>5. saved = persistData(p.currentTerm, p.votedFor, l)
  BY <1>1
<1> HIDE DEF saved
<1>6. PeerInv'
  BY <1>1, <1>2, <1>3, <1>4, <1>5, SetPeerType, Zenon
<1>7. commitIndex' \in [Server -> Nat]
  <2>1. commitIndex[i] \in Nat /\ LastLog(l).Index \in Nat
    BY <1>2, <1>3, LastLogProperty, Zenon DEF StorageInv, TypeOK
  <2>2. followCommit(commitIndex[i], args.LeaderCommit, l) \in Nat
    BY <1>3, <2>1, MinOfTwo DEF followCommit
  <2> QED BY <1>3, <1>4, <2>2 DEF StorageInv, TypeOK
<1>8. answer(args, currentTerm[i], TRUE) \in AppendEntriesReply
  BY ArgsType, AnswerType, Zenon
<1>9. /\ appendCalls' \subseteq AppendEntriesArgs
      /\ appendReplies' \subseteq AppendEntriesReply
      /\ \A m \in appendCalls' : Follows(m.PrevLogIndex, m.Entries)
  BY <1>8, ReplyToAppendType, Zenon DEF StoreEntries
<1> QED BY <1>6, <1>7, <1>9, Zenon DEF StorageInv, PeerInv, TypeOK, LogsIndexed, Saved,
       StoreEntries, leaderVars

-----------------------------------------------------------------------------
(* leaderSendEntries, Start, the ticker and restarts                         *)

\* What a reply in flight holds.
LEMMA AppendReplyType ==
    ASSUME StorageInv, NEW reply \in appendReplies
    PROVE  /\ reply.args.LeaderId \in Server /\ reply.args.peer \in Server
           /\ reply.Term \in Nat /\ reply.args.PrevLogIndex \in Nat
           /\ Len(reply.args.Entries) \in Nat /\ matched(reply) \in Nat
           /\ reply.XTerm \in Int /\ reply.XIndex \in Int /\ reply.XLen \in Nat
<1>1. reply \in AppendEntriesReply /\ reply.args \in AppendEntriesArgs
  BY Zenon DEF StorageInv, TypeOK, AppendEntriesReply
<1>2. reply.args.PrevLogIndex \in Nat /\ Len(reply.args.Entries) \in Nat
  BY <1>1 DEF AppendEntriesArgs
<1> QED BY <1>1, <1>2 DEF AppendEntriesReply, AppendEntriesArgs, matched

\* Commit yields an index.
LEMMA CommitType ==
    ASSUME StorageInv, NEW i \in Server, NEW match, Commit(i, match)
    PROVE  commitIndex' \in [Server -> Nat]
<1> DEFINE ready == {n \in commitIndex[i] + 1 .. LastLog(log[i]).Index :
                       /\ at(log[i], n).Term = currentTerm[i]
                       /\ commitMajority({i} \cup {j \in Server \ {i} : match[j] >= n})}
<1>1. commitIndex[i] \in Nat /\ LastLog(log[i]).Index \in Nat
  BY LastLogProperty, Zenon DEF StorageInv, TypeOK, LogsIndexed
<1>2. ready \in SUBSET Nat /\ \A n \in ready : n <= LastLog(log[i]).Index
  BY <1>1
<1>3. commitIndex' = [commitIndex EXCEPT ![i] = IF ready = {} THEN commitIndex[i]
                                                ELSE Max(ready)]
  BY Zenon DEF Commit
<1> HIDE DEF ready
<1>4. ready # {} => Max(ready) \in ready
  BY <1>1, <1>2, MaxProperty, Zenon
<1> QED BY <1>1, <1>2, <1>3, <1>4, Zenon DEF StorageInv, TypeOK

\* leaderSendEntries: the next index after a conflict is an index.
LEMMA BackUpType ==
    ASSUME NEW l \in Log, Indexed(l), NEW reply, reply.XTerm \in Int,
           reply.XIndex \in Int, reply.XLen \in Nat
    PROVE  backUp(l, reply) \in Int
<1> DEFINE stops == {n \in Indices(l) \ {0} : at(l, n).Term <= reply.XTerm}
           f == findLastLogInTerm(l, reply.XTerm)
<1>1. stops \in SUBSET Nat /\ LastLog(l).Index \in Nat
      /\ \A n \in stops : n <= LastLog(l).Index
  BY LastLogProperty DEF Indices, Log
<1>2. f = -1 \/ (stops # {} /\ f = Max(stops))
  BY Zenon DEF findLastLogInTerm
<1> HIDE DEF stops, f
<1>3. stops # {} => Max(stops) \in stops
  BY <1>1, MaxProperty, Zenon
<1>4. f \in Int
  <2>1. CASE f = -1
    <3>1. -1 \in Int
      OBVIOUS
    <3> QED BY <2>1, <3>1, Zenon
  <2>2. CASE stops # {} /\ f = Max(stops)
    <3>1. Max(stops) \in Nat
      BY <1>1, <1>3, <2>2, Zenon
    <3> QED BY <2>2, <3>1
  <2> QED BY <1>2, <2>1, <2>2, Zenon
<1> QED BY <1>4 DEF backUp, f

\* An assignment to nextIndex[j] or matchIndex[j] of one peer.
LEMMA TableUpdate ==
    ASSUME NEW S, NEW T, NEW f \in [S -> [S -> T]], NEW i \in S, NEW j \in S, NEW v \in T
    PROVE  [f EXCEPT ![i] = [f[i] EXCEPT ![j] = v]] \in [S -> [S -> T]]
BY Zenon

\* leaderSendEntries: every way to handle a reply.
LEMMA LeaderSendEntriesStorage ==
    ASSUME StorageInv, NEW reply \in appendReplies, leaderSendEntries(reply)
    PROVE  StorageInv'
<1> DEFINE i == reply.args.LeaderId
           j == reply.args.peer
<1>1. /\ i \in Server /\ j \in Server /\ reply.Term \in Nat /\ matched(reply) \in Nat
      /\ reply.XTerm \in Int /\ reply.XIndex \in Int /\ reply.XLen \in Nat
  BY AppendReplyType
<1>2. appendReplies' \subseteq AppendEntriesReply
  BY Zenon DEF StorageInv, TypeOK, leaderSendEntries
<1>3. /\ PeerInv' /\ commitIndex' \in [Server -> Nat]
      /\ nextIndex' \in [Server -> [Server -> Int]]
      /\ matchIndex' \in [Server -> [Server -> Nat]]
  <2>1. CASE IgnoreReply(reply)
    <3>1. UNCHANGED <<log, commitIndex, nextIndex, matchIndex>>
      BY <2>1, Zenon DEF IgnoreReply, leaderVars
    <3>2. CASE UNCHANGED peerVars
      BY <3>1, <3>2, Zenon DEF StorageInv, TypeOK, PeerInv, PersisterCurrent, LogsIndexed,
           Saved, peerVars
    <3>3. CASE StepDown(i, reply.Term)
      <4>1. PeerInv'
        BY <1>1, <3>1, <3>3, StepDownType, Zenon
      <4> QED BY <3>1, <4>1, SMTT(30) DEF StorageInv, TypeOK
    <3> QED BY <2>1, <3>2, <3>3 DEF IgnoreReply
  <2>2. CASE AdvancePeer(reply) /\ UNCHANGED <<peerVars, log>>
    <3>1. PeerInv'
      BY <2>2, Zenon DEF StorageInv, TypeOK, PeerInv, PersisterCurrent, LogsIndexed, Saved,
           peerVars
    <3>2. commitIndex' \in [Server -> Nat]
      BY <1>1, <2>2, CommitType, Zenon DEF AdvancePeer
    <3>3. nextIndex \in [Server -> [Server -> Int]] /\ matchIndex \in [Server -> [Server -> Nat]]
      BY Zenon DEF StorageInv, TypeOK
    <3>4. nextIndex[i][j] \in Int /\ matchIndex[i][j] \in Nat
      BY <1>1, <3>3, Zenon
    <3>5. \A a, b \in Int : Max({a, b}) \in {a, b}
      BY MaxOfTwo, Zenon
    <3>6. Max({nextIndex[i][j], matched(reply) + 1}) \in Int
      <4>1. matched(reply) + 1 \in Int
        BY <1>1
      <4> QED BY <3>4, <3>5, <4>1, Zenon
    <3>7. Max({matchIndex[i][j], matched(reply)}) \in Nat
      <4>1. matched(reply) \in Int /\ matchIndex[i][j] \in Int
        BY <1>1, <3>4
      <4> QED BY <1>1, <3>4, <3>5, <4>1, Zenon
    <3>8. nextIndex' \in [Server -> [Server -> Int]]
      <4>1. nextIndex' = [nextIndex EXCEPT ![i] =
               [nextIndex[i] EXCEPT ![j] = Max({nextIndex[i][j], matched(reply) + 1})]]
        BY <2>2 DEF AdvancePeer
      <4> QED BY <1>1, <3>3, <3>6, <4>1, TableUpdate, Zenon
    <3>9. matchIndex' \in [Server -> [Server -> Nat]]
      <4>1. matchIndex' = [matchIndex EXCEPT ![i] =
               [matchIndex[i] EXCEPT ![j] = Max({matchIndex[i][j], matched(reply)})]]
        BY <2>2, ZenonT(40) DEF AdvancePeer
      <4> QED BY <1>1, <3>3, <3>7, <4>1, TableUpdate, Zenon
    <3> QED BY <3>1, <3>2, <3>8, <3>9
  <2>3. CASE BackUpPeer(reply) /\ UNCHANGED <<peerVars, log>>
    <3>1. PeerInv'
      BY <2>3, Zenon DEF StorageInv, TypeOK, PeerInv, PersisterCurrent, LogsIndexed, Saved,
           peerVars
    <3>2. commitIndex' \in [Server -> Nat]
      BY <1>1, <2>3, CommitType, Zenon DEF BackUpPeer
    <3>3. backUp(log[i], reply) \in Int
      BY <1>1, BackUpType, SMTT(30) DEF StorageInv, TypeOK, LogsIndexed
    <3>4. nextIndex' \in [Server -> [Server -> Int]]
      BY <1>1, <2>3, <3>3, Zenon DEF StorageInv, TypeOK, BackUpPeer
    <3> QED BY <2>3, <3>1, <3>2, <3>4 DEF StorageInv, TypeOK, BackUpPeer
  <2> QED BY <2>1, <2>2, <2>3, Zenon DEF leaderSendEntries
<1> QED BY <1>2, <1>3, Zenon DEF StorageInv, PeerInv, TypeOK, LogsIndexed, Saved,
       leaderSendEntries

\* Start: a leader appends one entry at the next index.
LEMMA StartStorage ==
    ASSUME StorageInv, NEW i \in Server, NEW command \in Command, Start(i, command)
    PROVE  StorageInv'
<1> DEFINE last == LastLog(log[i])
           entry == [Command |-> command, Term |-> currentTerm[i], Index |-> last.Index + 1]
           l == append(log[i], <<entry>>)
<1>1. /\ log[i] \in Log /\ Indexed(log[i]) /\ currentTerm[i] \in Nat
      /\ votedFor[i] \in Server \cup {Nil} /\ state[i] \in Roles
      /\ nextIndex[i] \in [Server -> Int]
  BY Zenon DEF StorageInv, TypeOK, LogsIndexed
<1>2. last.Index \in Nat
  BY <1>1, LastLogProperty, Zenon
<1>3. entry \in Entry
  <2> HIDE DEF last
  <2> QED BY <1>1, <1>2 DEF Entry
<1>4. entry.Index = last.Index + 1
  BY Zenon
<1>5. /\ log' = [log EXCEPT ![i] = l]
      /\ persister' = [persister EXCEPT ![i] = persistData(currentTerm[i], votedFor[i], l)]
      /\ appendEntries(i, l, nextIndex[i], FALSE)
      /\ UNCHANGED <<state, currentTerm, votedFor>>
  BY Zenon DEF Start
<1> HIDE DEF entry
<1>6. <<entry>> \in Seq(Entry) /\ Follows(last.Index, <<entry>>)
  BY <1>3, <1>4 DEF Follows
<1>7. l \in Log /\ Indexed(l)
  BY <1>1, <1>6, AppendProperty, Zenon
<1> HIDE DEF l
<1>8. PeerInv'
  <2>1. SetPeer(i, state[i], currentTerm[i], votedFor[i],
                persistData(currentTerm[i], votedFor[i], l))
    BY <1>5 DEF SetPeer, StorageInv, TypeOK
  <2> QED BY <1>1, <1>5, <1>7, <2>1, SetPeerType, Zenon
<1>9. /\ appendCalls' \subseteq AppendEntriesArgs
      /\ \A m \in appendCalls' : Follows(m.PrevLogIndex, m.Entries)
  BY <1>1, <1>5, <1>7, AppendEntriesType, Zenon
<1> QED BY <1>8, <1>9, Zenon DEF StorageInv, PeerInv, TypeOK, LogsIndexed, Saved, Start, leaderVars

\* The ticker of a leader.
LEMMA HeartBeatStorage ==
    ASSUME StorageInv, NEW i \in Server, HeartBeat(i)
    PROVE  StorageInv'
<1>1. log[i] \in Log /\ Indexed(log[i]) /\ nextIndex[i] \in [Server -> Int]
  BY DEF StorageInv, TypeOK, LogsIndexed
<1>2. /\ appendCalls' \subseteq AppendEntriesArgs
      /\ \A m \in appendCalls' : Follows(m.PrevLogIndex, m.Entries)
  BY <1>1, AppendEntriesType, Zenon DEF HeartBeat
<1> QED BY <1>2, Zenon DEF StorageInv, TypeOK, PersisterCurrent, LogsIndexed, HeartBeat,
       peerVars, leaderVars

\* A crash at any point: the peer restarts from what it persisted last.
LEMMA RestartStorage ==
    ASSUME StorageInv, NEW i \in Server, NEW t \in Nat, NEW v \in Server \cup {Nil},
           NEW l \in Log, Indexed(l), RestartFrom(i, persistData(t, v, l))
    PROVE  StorageInv'
<1>1. /\ SetPeer(i, "Follower", t, v, persistData(t, v, l))
      /\ log' = [log EXCEPT ![i] = l]
      /\ commitIndex' = [commitIndex EXCEPT ![i] = l.Index0]
  BY Zenon DEF RestartFrom, persistData
<1>2. PeerInv'
  <2>1. "Follower" \in Roles
    BY Zenon DEF Roles
  <2> QED BY <1>1, <2>1, SetPeerType, Zenon
<1>3. commitIndex' \in [Server -> Nat]
  BY <1>1 DEF StorageInv, TypeOK, Log
<1>4. /\ nextIndex' \in [Server -> [Server -> Int]]
      /\ matchIndex' \in [Server -> [Server -> Nat]]
      /\ votes' \in [Server -> SUBSET Server]
      /\ restarts' \in Nat
  BY DEF StorageInv, TypeOK, RestartFrom
<1>5. voteCalls' \subseteq RequestVoteArgs
  <2>1. ASSUME NEW m \in RequestVoteArgs
        PROVE  [m EXCEPT !.open = m.open /\ m.CandidateId # i] \in RequestVoteArgs
    BY Zenon DEF RequestVoteArgs
  <2> QED BY <2>1, Zenon DEF StorageInv, TypeOK, RestartFrom
<1>6. /\ appendCalls' \subseteq AppendEntriesArgs
      /\ \A m \in appendCalls' : Follows(m.PrevLogIndex, m.Entries)
  <2>1. ASSUME NEW m \in AppendEntriesArgs
        PROVE  LET n == [m EXCEPT !.open = m.open /\ m.LeaderId # i]
               IN  /\ n \in AppendEntriesArgs /\ n.PrevLogIndex = m.PrevLogIndex
                   /\ n.Entries = m.Entries
    BY Zenon DEF AppendEntriesArgs
  <2>2. ASSUME NEW n \in appendCalls'
        PROVE  n \in AppendEntriesArgs /\ Follows(n.PrevLogIndex, n.Entries)
    <3>1. PICK m \in appendCalls : n = [m EXCEPT !.open = m.open /\ m.LeaderId # i]
      BY DEF RestartFrom
    <3>2. m \in AppendEntriesArgs /\ Follows(m.PrevLogIndex, m.Entries)
      BY Zenon DEF StorageInv, TypeOK, LogsIndexed
    <3> QED BY <2>1, <3>1, <3>2, Zenon
  <2> QED BY <2>2, Zenon
<1>7. voteReplies' \subseteq RequestVoteReply /\ appendReplies' \subseteq AppendEntriesReply
  BY Zenon DEF StorageInv, TypeOK, RestartFrom
<1> QED BY <1>2, <1>3, <1>4, <1>5, <1>6, <1>7, Zenon DEF StorageInv, PeerInv, TypeOK,
       LogsIndexed, Saved

\* A crash inside a handler restarts the peer from what it had persisted.
LEMMA CrashStorage ==
    /\ \A i \in Server : StorageInv /\ Restart(i) => StorageInv'
    /\ \A args \in voteCalls : StorageInv /\ CrashInVote(args) => StorageInv'
    /\ \A args \in appendCalls : StorageInv /\ CrashInAppend(args) => StorageInv'
<1>1. ASSUME StorageInv, NEW i \in Server, Restart(i) PROVE StorageInv'
  <2>1. /\ persister[i] = persistData(currentTerm[i], votedFor[i], log[i])
        /\ currentTerm[i] \in Nat /\ votedFor[i] \in Server \cup {Nil}
        /\ log[i] \in Log /\ Indexed(log[i])
    BY <1>1 DEF StorageInv, TypeOK, PersisterCurrent, LogsIndexed
  <2> QED BY <1>1, <2>1, RestartStorage, ZenonT(40) DEF Restart
<1>2. ASSUME StorageInv, NEW args \in voteCalls, CrashInVote(args) PROVE StorageInv'
  <2> DEFINE p == setNewTerm(args.peer, args.Term)
  <2>1. args.peer \in Server /\ args.Term \in Nat
    BY <1>2 DEF StorageInv, TypeOK, RequestVoteArgs
  <2>2. /\ p.currentTerm \in Nat /\ p.votedFor \in Server \cup {Nil}
        /\ p.saved = persistData(p.currentTerm, p.votedFor, log[args.peer])
    BY <1>2, <2>1, SetNewTermType, Zenon
  <2>3. RestartFrom(args.peer, p.saved)
    BY <1>2, Zenon DEF CrashInVote
  <2>4. log[args.peer] \in Log /\ Indexed(log[args.peer])
    BY <1>2, <2>1 DEF StorageInv, TypeOK, LogsIndexed
  <2> HIDE DEF p
  <2> QED BY <1>2, <2>1, <2>2, <2>3, <2>4, RestartStorage, Zenon
<1>3. ASSUME StorageInv, NEW args \in appendCalls, CrashInAppend(args) PROVE StorageInv'
  <2> DEFINE p == follow(args.peer, args)
             c == cutBack(log[args.peer], args.Entries)
  <2>1. /\ p.currentTerm \in Nat /\ p.votedFor \in Server \cup {Nil}
        /\ p.saved = persistData(p.currentTerm, p.votedFor, log[args.peer])
    BY <1>3, FollowType
  <2>2. args.peer \in Server /\ log[args.peer] \in Log /\ Indexed(log[args.peer])
    BY <1>3, ArgsType, Zenon
  <2>3. fits(args) => c \in Log /\ Indexed(c)
    BY <1>3, FitsProperty, Zenon DEF CrashInAppend
  <2>4. \/ RestartFrom(args.peer, p.saved)
        \/ fits(args) /\ RestartFrom(args.peer, persistData(p.currentTerm, p.votedFor, c))
    BY <1>3 DEF CrashInAppend
  <2> HIDE DEF p, c
  <2> QED BY <1>3, <2>1, <2>2, <2>3, <2>4, RestartStorage, Zenon
<1> QED BY <1>1, <1>2, <1>3, Zenon

\* Every step keeps the invariant.
LEMMA StorageStep == StorageInv /\ [Next]_vars => StorageInv'
<1> SUFFICES ASSUME StorageInv, [Next]_vars PROVE StorageInv'
  BY Zenon
<1>1. CASE \E i \in Server : Timeout(i) \/ HeartBeat(i) \/ Restart(i)
  BY <1>1, TimeoutStorage, HeartBeatStorage, CrashStorage
<1>2. CASE \E i \in Server, command \in Command : Start(i, command)
  BY <1>2, StartStorage, Zenon
<1>3. CASE \E args \in voteCalls : RequestVote(args) \/ CrashInVote(args)
  BY <1>3, RefuseVoteStorage, ConsiderVoteStorage, CrashStorage, Zenon DEF RequestVote
<1>4. CASE \E reply \in voteReplies : candidateRequest(reply)
  BY <1>4, VoteDeniedStorage, VoteCountedStorage, BecomeLeaderStorage DEF candidateRequest
<1>5. CASE \E args \in appendCalls : AppendEntries(args) \/ CrashInAppend(args)
  BY <1>5, RefuseEntriesStorage, ReportConflictStorage, StoreEntriesStorage, CrashStorage,
       Zenon DEF AppendEntries
<1>6. CASE \E reply \in appendReplies : leaderSendEntries(reply)
  BY <1>6, LeaderSendEntriesStorage, Zenon
<1>7. CASE UNCHANGED vars
  BY <1>7 DEF vars, StorageInv, TypeOK, PersisterCurrent, LogsIndexed
<1> QED BY <1>1, <1>2, <1>3, <1>4, <1>5, <1>6, <1>7, Zenon DEF Next

\* Make establishes the invariant.
LEMMA StorageInit == Init => StorageInv
<1> SUFFICES ASSUME Init PROVE StorageInv
  BY Zenon
<1>1. persistData(0, Nil, EmptyLog) \in Saved
  BY EmptyLogProperty, Zenon DEF persistData, Saved
<1>2. TypeOK
  BY <1>1, EmptyLogProperty DEF Init, TypeOK, Roles, Saved
<1>3. PersisterCurrent
  BY Zenon DEF Init, PersisterCurrent
<1>4. LogsIndexed
  BY EmptyLogProperty, Zenon DEF Init, LogsIndexed
<1> QED BY <1>2, <1>3, <1>4, Zenon DEF StorageInv

\* Whatever interleaving of elections, calls, replies, losses and crashes: every
\* variable keeps its type, the persister holds each peer's term, vote and log
\* whenever rf.mu is free, and every entry stands at its own index.
THEOREM Storage == Spec => [](TypeOK /\ PersisterCurrent /\ LogsIndexed)
<1>1. Init => StorageInv
  BY StorageInit, Zenon
<1>2. StorageInv /\ [Next]_vars => StorageInv'
  BY StorageStep, Zenon
<1>3. StorageInv => TypeOK /\ PersisterCurrent /\ LogsIndexed
  BY Zenon DEF StorageInv
<1> QED BY <1>1, <1>2, <1>3, PTL DEF Spec

-----------------------------------------------------------------------------
(* Votes and leaders                                                         *)

\* A step that neither grants nor counts a vote: nobody but followers changes
\* role, term or votes.
quiet ==
    /\ voteReplies' \subseteq voteReplies
    /\ \A c \in Server : state'[c] # "Follower" =>
         state'[c] = state[c] /\ currentTerm'[c] = currentTerm[c] /\ votes'[c] = votes[c]

-----------------------------------------------------------------------------
(* Steps keep terms and votes.                                               *)

\* A peer that moves on in term and vote leaves the others alone.
LEMMA SetPeerKeeps ==
    ASSUME StorageInv, NEW i \in Server, NEW s, NEW t \in Nat, NEW v, NEW saved,
           SetPeer(i, s, t, v, saved),
           t > currentTerm[i] \/ (t = currentTerm[i] /\ votedFor[i] \in {Nil, v})
    PROVE  keepsVotes
BY DEF StorageInv, TypeOK, SetPeer, keepsVotes

\* setNewTerm forgets a vote only with its term.
LEMMA SetNewTermKeeps ==
    ASSUME StorageInv, NEW i \in Server, NEW term \in Nat
    PROVE  LET p == setNewTerm(i, term)
           IN  /\ \/ p.currentTerm > currentTerm[i]
                  \/ p.currentTerm = currentTerm[i] /\ p.votedFor = votedFor[i]
               /\ p.state # "Follower" =>
                    p.state = state[i] /\ p.currentTerm = currentTerm[i]
               /\ term >= currentTerm[i] => p.currentTerm = term
<1>1. currentTerm[i] \in Nat
  BY Zenon DEF StorageInv, TypeOK
<1>2. CASE term > currentTerm[i]
  BY <1>1, <1>2, ZenonT(40) DEF setNewTerm
<1>3. CASE ~(term > currentTerm[i])
  BY <1>1, <1>3 DEF setNewTerm
<1> QED BY <1>2, <1>3, Zenon

\* AppendEntries changes the term only through setNewTerm.
LEMMA FollowKeeps ==
    ASSUME StorageInv, NEW args \in appendCalls
    PROVE  LET p == follow(args.peer, args)
           IN  /\ \/ p.currentTerm > currentTerm[args.peer]
                  \/ /\ p.currentTerm = currentTerm[args.peer]
                     /\ p.votedFor = votedFor[args.peer]
               /\ p.state # "Follower" =>
                    p.state = state[args.peer] /\ p.currentTerm = currentTerm[args.peer]
<1> DEFINE q == setNewTerm(args.peer, args.Term)
           p == follow(args.peer, args)
<1>1. /\ \/ q.currentTerm > currentTerm[args.peer]
         \/ q.currentTerm = currentTerm[args.peer] /\ q.votedFor = votedFor[args.peer]
      /\ q.state # "Follower" =>
           q.state = state[args.peer] /\ q.currentTerm = currentTerm[args.peer]
  BY ArgsType, SetNewTermKeeps
<1>2. /\ p.currentTerm = q.currentTerm /\ p.votedFor = q.votedFor
      /\ p.state = q.state \/ p.state = "Follower"
  BY Zenon DEF follow, setNewTerm
<1> HIDE DEF p, q
<1> QED BY <1>1, <1>2, Zenon DEF p

\* A reply of a later term makes its receiver follow.
LEMMA StepDownKeeps ==
    ASSUME StorageInv, NEW i \in Server, NEW term \in Nat, StepDown(i, term),
           UNCHANGED votes, voteReplies' \subseteq voteReplies
    PROVE  keepsVotes /\ quiet
<1> DEFINE p == setNewTerm(i, term)
<1>1. /\ \/ p.currentTerm > currentTerm[i]
         \/ p.currentTerm = currentTerm[i] /\ p.votedFor = votedFor[i]
      /\ p.state # "Follower" => p.state = state[i] /\ p.currentTerm = currentTerm[i]
      /\ p.currentTerm \in Nat
  BY SetNewTermKeeps, SetNewTermType
<1>2. SetPeer(i, p.state, p.currentTerm, p.votedFor, p.saved)
  BY Zenon DEF StepDown
<1> HIDE DEF p
<1>3. keepsVotes
  BY <1>1, <1>2, SetPeerKeeps, Zenon
<1>4. quiet
  BY <1>1, <1>2 DEF SetPeer, quiet, StorageInv, TypeOK
<1> QED BY <1>3, <1>4, Zenon

\* A restart brings back the term and the vote that were persisted.
LEMMA RestartKeeps ==
    ASSUME StorageInv, NEW i \in Server, NEW t \in Nat, NEW v, NEW l,
           t > currentTerm[i] \/ (t = currentTerm[i] /\ v = votedFor[i]),
           RestartFrom(i, persistData(t, v, l))
    PROVE  keepsVotes /\ quiet
<1>1. SetPeer(i, "Follower", t, v, persistData(t, v, l))
      /\ votes' = [votes EXCEPT ![i] = {}] /\ voteReplies' \subseteq voteReplies
  BY DEF RestartFrom, persistData
<1>2. keepsVotes
  BY <1>1, SetPeerKeeps, Zenon
<1>3. quiet
  BY <1>1, Zenon DEF SetPeer, quiet, StorageInv, TypeOK
<1> QED BY <1>2, <1>3, Zenon

\* Crashes, wherever they hit, keep terms and votes.
LEMMA CrashKeeps ==
    /\ \A i \in Server : StorageInv /\ Restart(i) => keepsVotes /\ quiet
    /\ \A args \in voteCalls : StorageInv /\ CrashInVote(args) => keepsVotes /\ quiet
    /\ \A args \in appendCalls : StorageInv /\ CrashInAppend(args) => keepsVotes /\ quiet
<1>1. ASSUME StorageInv, NEW i \in Server, Restart(i) PROVE keepsVotes /\ quiet
  <2>1. /\ persister[i] = persistData(currentTerm[i], votedFor[i], log[i])
        /\ currentTerm[i] \in Nat
    BY <1>1 DEF StorageInv, TypeOK, PersisterCurrent
  <2> QED BY <1>1, <2>1, RestartKeeps, Zenon DEF Restart
<1>2. ASSUME StorageInv, NEW args \in voteCalls, CrashInVote(args)
      PROVE  keepsVotes /\ quiet
  <2> DEFINE p == setNewTerm(args.peer, args.Term)
  <2>1. args.peer \in Server /\ args.Term \in Nat
    BY <1>2 DEF StorageInv, TypeOK, RequestVoteArgs
  <2>2. /\ p.saved = persistData(p.currentTerm, p.votedFor, log[args.peer])
        /\ p.currentTerm \in Nat
        /\ \/ p.currentTerm > currentTerm[args.peer]
           \/ /\ p.currentTerm = currentTerm[args.peer]
              /\ p.votedFor = votedFor[args.peer]
    BY <1>2, <2>1, SetNewTermType, SetNewTermKeeps, Zenon
  <2>3. RestartFrom(args.peer, p.saved)
    BY <1>2 DEF CrashInVote
  <2> HIDE DEF p
  <2> QED BY <1>2, <2>1, <2>2, <2>3, RestartKeeps, Zenon
<1>3. ASSUME StorageInv, NEW args \in appendCalls, CrashInAppend(args)
      PROVE  keepsVotes /\ quiet
  <2> DEFINE p == follow(args.peer, args)
             c == cutBack(log[args.peer], args.Entries)
  <2>1. /\ p.saved = persistData(p.currentTerm, p.votedFor, log[args.peer])
        /\ p.currentTerm \in Nat /\ args.peer \in Server
        /\ \/ p.currentTerm > currentTerm[args.peer]
           \/ /\ p.currentTerm = currentTerm[args.peer]
              /\ p.votedFor = votedFor[args.peer]
    BY <1>3, FollowType, FollowKeeps, ArgsType, Zenon
  <2>2. \/ RestartFrom(args.peer, p.saved)
        \/ RestartFrom(args.peer, persistData(p.currentTerm, p.votedFor, c))
    BY <1>3 DEF CrashInAppend
  <2> HIDE DEF p, c
  <2> QED BY <1>3, <2>1, <2>2, RestartKeeps, Zenon
<1> QED BY <1>1, <1>2, <1>3

\* The handlers of AppendEntries and of its reply neither grant nor count votes.
LEMMA AppendKeeps ==
    ASSUME StorageInv, NEW args \in appendCalls, AppendEntries(args)
    PROVE  keepsVotes /\ quiet
<1>1. CASE RefuseEntries(args)
  BY <1>1, ArgsType, StepDownKeeps, Zenon DEF RefuseEntries
<1>2. CASE ReportConflict(args) \/ StoreEntries(args)
  <2> DEFINE i == args.peer
             p == follow(i, args)
  <2>1. /\ \/ p.currentTerm > currentTerm[i]
           \/ p.currentTerm = currentTerm[i] /\ p.votedFor = votedFor[i]
        /\ p.state # "Follower" => p.state = state[i] /\ p.currentTerm = currentTerm[i]
        /\ p.currentTerm \in Nat /\ i \in Server
    BY FollowKeeps, FollowType, ArgsType, Zenon
  <2>2. (\E saved : SetPeer(i, p.state, p.currentTerm, p.votedFor, saved))
        /\ votes' = votes /\ voteReplies' = voteReplies
    BY <1>2, Zenon DEF ReportConflict, StoreEntries
  <2> HIDE DEF p
  <2>3. keepsVotes
    BY <2>1, <2>2, SetPeerKeeps
  <2>4. quiet
    BY <2>1, <2>2, Zenon DEF SetPeer, quiet, StorageInv, TypeOK
  <2> QED BY <2>3, <2>4
<1> QED BY <1>1, <1>2, Zenon DEF AppendEntries

\* Steps that leave terms and votes alone.
LEMMA SamePeersKeep ==
    ASSUME StorageInv, UNCHANGED <<state, currentTerm, votedFor, votes>>,
           voteReplies' \subseteq voteReplies
    PROVE  keepsVotes /\ quiet
BY DEF StorageInv, TypeOK, keepsVotes, quiet

\* leaderSendEntries changes terms and votes only by stepping down.
LEMMA AppendReplyKeeps ==
    ASSUME StorageInv, NEW reply \in appendReplies, leaderSendEntries(reply)
    PROVE  keepsVotes /\ quiet
<1>1. UNCHANGED <<votes, voteReplies>>
  BY Zenon DEF leaderSendEntries
<1>2. CASE UNCHANGED peerVars
  BY <1>1, <1>2, SamePeersKeep, Zenon DEF peerVars
<1>3. CASE StepDown(reply.args.LeaderId, reply.Term)
  BY <1>1, <1>3, AppendReplyType, StepDownKeeps
<1> QED BY <1>2, <1>3, Zenon DEF leaderSendEntries, IgnoreReply

-----------------------------------------------------------------------------
(* Steps only add the vote its voter has just recorded.                      *)

\* Membership in grants, both ways.
LEMMA GrantsDef ==
    \A g : g \in grants <=>
        \/ \E r \in voteReplies : r.VoteGranted /\
             g = [voter |-> r.args.peer, term |-> r.args.Term,
                  candidate |-> r.args.CandidateId]
        \/ \E c \in Server : \E v \in votes[c] : state[c] # "Follower" /\
             g = [voter |-> v, term |-> currentTerm[c], candidate |-> c]
BY DEF grants

\* The same in the next state.
LEMMA GrantsDefPrime ==
    \A g : g \in grants' <=>
        \/ \E r \in voteReplies' : r.VoteGranted /\
             g = [voter |-> r.args.peer, term |-> r.args.Term,
                  candidate |-> r.args.CandidateId]
        \/ \E c \in Server : \E v \in votes'[c] : state'[c] # "Follower" /\
             g = [voter |-> v, term |-> currentTerm'[c], candidate |-> c]
BY DEF grants

\* Steps that touch no vote leave grants as they are or smaller.
LEMMA QuietGrants ==
    ASSUME quiet PROVE grants' \subseteq grants
<1> SUFFICES ASSUME NEW g \in grants' PROVE g \in grants
  BY Zenon
<1>1. CASE \E r \in voteReplies' : r.VoteGranted /\
             g = [voter |-> r.args.peer, term |-> r.args.Term,
                  candidate |-> r.args.CandidateId]
  BY <1>1, GrantsDef, Zenon DEF quiet
<1>2. CASE \E c \in Server : \E v \in votes'[c] : state'[c] # "Follower" /\
             g = [voter |-> v, term |-> currentTerm'[c], candidate |-> c]
  BY <1>2, GrantsDef DEF quiet
<1> QED BY <1>1, <1>2, GrantsDefPrime, Zenon

\* A step that counts no vote and grants at most one.
LEMMA VoteGrants ==
    ASSUME NEW new, voteReplies' \subseteq voteReplies \cup {new},
           new.VoteGranted => /\ currentTerm'[new.args.peer] = new.args.Term
                              /\ votedFor'[new.args.peer] = new.args.CandidateId,
           \A c \in Server : state'[c] # "Follower" =>
               state'[c] = state[c] /\ currentTerm'[c] = currentTerm[c]
               /\ votes'[c] = votes[c]
    PROVE  newGrants /\ (LeaderElected => LeaderElected')
<1>1. ASSUME NEW g \in grants'
      PROVE  \/ g \in grants
             \/ /\ currentTerm'[g.voter] = g.term
                /\ votedFor'[g.voter] = g.candidate
  <2>1. CASE \E r \in voteReplies' : r.VoteGranted /\
               g = [voter |-> r.args.peer, term |-> r.args.Term,
                    candidate |-> r.args.CandidateId]
    <3>1. PICK r \in voteReplies' : r.VoteGranted /\
               g = [voter |-> r.args.peer, term |-> r.args.Term,
                    candidate |-> r.args.CandidateId]
      BY <2>1
    <3>2. CASE r \in voteReplies
      BY <3>1, <3>2, GrantsDef, Zenon
    <3>3. CASE r = new
      BY <3>1, <3>3, Zenon
    <3> QED BY <3>1, <3>2, <3>3, Zenon
  <2>2. CASE \E c \in Server : \E v \in votes'[c] : state'[c] # "Follower" /\
               g = [voter |-> v, term |-> currentTerm'[c], candidate |-> c]
    BY <2>2, GrantsDef
  <2> QED BY <1>1, <2>1, <2>2, GrantsDefPrime
<1>2. LeaderElected => LeaderElected'
  BY Zenon DEF LeaderElected, voteMajority
<1> QED BY <1>1, <1>2, Zenon DEF newGrants

\* RequestVote: a reply that grants names the vote just persisted.
LEMMA RequestVoteGrants ==
    ASSUME StorageInv, NEW args \in voteCalls, RequestVote(args)
    PROVE  keepsVotes /\ newGrants /\ (LeaderElected => LeaderElected')
<1> DEFINE i == args.peer
           p == setNewTerm(i, args.Term)
<1>1. i \in Server /\ args.Term \in Nat /\ currentTerm[i] \in Nat
  BY DEF StorageInv, TypeOK, RequestVoteArgs
<1>2. /\ \/ p.currentTerm > currentTerm[i]
         \/ p.currentTerm = currentTerm[i] /\ p.votedFor = votedFor[i]
      /\ p.state # "Follower" => p.state = state[i] /\ p.currentTerm = currentTerm[i]
      /\ args.Term >= currentTerm[i] => p.currentTerm = args.Term
      /\ p.currentTerm \in Nat
  BY <1>1, SetNewTermKeeps, SetNewTermType, Zenon
<1>3. CASE RefuseVote(args)
  <2> DEFINE new == [args |-> args, Term |-> currentTerm[i], VoteGranted |-> FALSE]
  <2>1. UNCHANGED <<state, currentTerm, votedFor, votes>>
        /\ voteReplies' \subseteq voteReplies \cup {new} /\ ~new.VoteGranted
    BY <1>3 DEF RefuseVote, ReplyToVote, peerVars
  <2> HIDE DEF new
  <2>2. keepsVotes
    BY <2>1 DEF keepsVotes, StorageInv, TypeOK
  <2> QED BY <2>1, <2>2, VoteGrants, Zenon
<1>4. CASE ConsiderVote(args)
  <2> DEFINE grant == /\ mayVote(p.votedFor, args.CandidateId)
                      /\ upToDate(args, LastLog(log[i]))
             new == [args |-> args, Term |-> p.currentTerm, VoteGranted |-> grant]
  <2>1. /\ voteReplies' \subseteq voteReplies \cup {new}
        /\ votes' = votes /\ p.currentTerm = args.Term
        /\ new.VoteGranted = grant /\ new.args = args
        /\ IF grant
           THEN SetPeer(i, p.state, p.currentTerm, args.CandidateId,
                        savedVote(p, args.CandidateId, log[i]))
           ELSE StepDown(i, args.Term)
    <3>1. voteReplies' \subseteq voteReplies \cup {new} /\ votes' = votes
      <4>1. ReplyToVote(args, new) /\ votes' = votes
        BY <1>4, Zenon DEF ConsiderVote
      <4> HIDE DEF new
      <4> QED BY <4>1, Zenon DEF ReplyToVote
    <3>2. p.currentTerm = args.Term
      <4>1. args.Term >= currentTerm[i]
        BY <1>4, Zenon DEF ConsiderVote
      <4> QED BY <1>2, <4>1, Zenon
    <3>3. IF grant
          THEN SetPeer(i, p.state, p.currentTerm, args.CandidateId,
                       savedVote(p, args.CandidateId, log[i]))
          ELSE StepDown(i, args.Term)
      BY <1>4, Zenon DEF ConsiderVote
    <3>4. new.VoteGranted = grant /\ new.args = args
      <4> HIDE DEF grant
      <4> QED BY Zenon
    <3> QED BY <3>1, <3>2, <3>3, <3>4, Zenon
  <2>2. grant => p.votedFor \in {Nil, args.CandidateId}
    BY Zenon DEF mayVote
  <2> HIDE DEF grant, new
  <2>3. CASE grant
    <3> HIDE DEF p
    <3>1. keepsVotes
      BY <1>1, <1>2, <2>1, <2>2, <2>3, SetPeerKeeps, Zenon
    <3>2. /\ new.VoteGranted => /\ currentTerm'[new.args.peer] = new.args.Term
                                /\ votedFor'[new.args.peer] = new.args.CandidateId
          /\ \A c \in Server : state'[c] # "Follower" =>
                state'[c] = state[c] /\ currentTerm'[c] = currentTerm[c]
                /\ votes'[c] = votes[c]
      BY <1>1, <1>2, <2>1, <2>3 DEF SetPeer, StorageInv, TypeOK
    <3> QED BY <2>1, <3>1, <3>2, VoteGrants
  <2>4. CASE ~grant
    <3>1. SetPeer(i, p.state, p.currentTerm, p.votedFor, p.saved)
      BY <2>1, <2>4 DEF StepDown
    <3> HIDE DEF p
    <3>2. keepsVotes
      BY <1>1, <1>2, <3>1, SetPeerKeeps, ZenonT(40)
    <3>3. \A c \in Server : state'[c] # "Follower" =>
                state'[c] = state[c] /\ currentTerm'[c] = currentTerm[c]
                /\ votes'[c] = votes[c]
      BY <1>1, <1>2, <2>1, <3>1 DEF SetPeer, StorageInv, TypeOK
    <3> QED BY <2>1, <2>4, <3>2, <3>3, VoteGrants, ZenonT(40)
  <2> QED BY <2>3, <2>4, Zenon
<1> QED BY <1>3, <1>4, Zenon DEF RequestVote

\* More votes are still a majority.
LEMMA MajorityGrows ==
    ASSUME NEW S \in SUBSET Server, NEW T \in SUBSET Server, S \subseteq T,
           voteMajority(S)
    PROVE  voteMajority(T)
<1>1. IsFiniteSet(T) /\ IsFiniteSet(S)
  BY ServerAssumption, FS_Subset, Zenon
<1>2. Cardinality(S) <= Cardinality(T)
  BY <1>1, FS_Subset, Zenon
<1>3. Cardinality(S) \in Nat /\ Cardinality(T) \in Nat /\ Cardinality(Server) \in Nat
  BY <1>1, FS_CardinalityType, ServerAssumption, Zenon
<1> QED BY <1>2, <1>3 DEF voteMajority

\* leaderElection: the candidate's vote for itself.
LEMMA TimeoutGrants ==
    ASSUME StorageInv, NEW i \in Server, Timeout(i)
    PROVE  keepsVotes /\ newGrants /\ (LeaderElected => LeaderElected')
<1> DEFINE t == currentTerm[i] + 1
<1>1. /\ SetPeer(i, "Candidate", t, i, persistData(t, i, log[i]))
      /\ votes' = [votes EXCEPT ![i] = {i}] /\ voteReplies' = voteReplies
  BY Zenon DEF Timeout, leaderElection
<1>2. t \in Nat /\ t > currentTerm[i]
  BY DEF StorageInv, TypeOK
<1> HIDE DEF t
<1>3. keepsVotes
  BY <1>1, <1>2, SetPeerKeeps, Zenon
<1>4. /\ state'[i] = "Candidate" /\ currentTerm'[i] = t /\ votedFor'[i] = i
      /\ votes'[i] = {i}
      /\ \A c \in Server \ {i} : state'[c] = state[c] /\ currentTerm'[c] = currentTerm[c]
                                 /\ votes'[c] = votes[c]
  BY <1>1 DEF SetPeer, StorageInv, TypeOK
<1>5. ASSUME NEW g \in grants'
      PROVE  \/ g \in grants
             \/ /\ currentTerm'[g.voter] = g.term
                /\ votedFor'[g.voter] = g.candidate
  <2>1. CASE \E r \in voteReplies' : r.VoteGranted /\
               g = [voter |-> r.args.peer, term |-> r.args.Term,
                    candidate |-> r.args.CandidateId]
    BY <1>1, <2>1, GrantsDef
  <2>2. CASE \E c \in Server : \E v \in votes'[c] : state'[c] # "Follower" /\
               g = [voter |-> v, term |-> currentTerm'[c], candidate |-> c]
    <3>0. PICK c \in Server : \E v \in votes'[c] : state'[c] # "Follower" /\
               g = [voter |-> v, term |-> currentTerm'[c], candidate |-> c]
      BY <2>2
    <3>1. PICK v \in votes'[c] : state'[c] # "Follower" /\
               g = [voter |-> v, term |-> currentTerm'[c], candidate |-> c]
      BY <3>0, Zenon
    <3>2. CASE c = i
      BY <1>4, <3>1, <3>2, Zenon
    <3>3. CASE c # i
      BY <1>4, <3>1, <3>3, GrantsDef
    <3> QED BY <3>2, <3>3, Zenon
  <2> QED BY <1>5, <2>1, <2>2, GrantsDefPrime, ZenonT(40)
<1>6. LeaderElected => LeaderElected'
  BY <1>4, Zenon DEF LeaderElected, voteMajority
<1> QED BY <1>3, <1>5, <1>6 DEF newGrants

\* candidateRequest: a vote is counted once its reply says it was granted, in
\* the term it was granted for.
LEMMA CountGrants ==
    ASSUME StorageInv, NEW reply \in voteReplies, VoteCounted(reply) \/ becomeLeader(reply)
    PROVE  keepsVotes /\ grants' \subseteq grants /\ (LeaderElected => LeaderElected')
<1> DEFINE i == reply.args.CandidateId
<1>1. i \in Server /\ reply.args.peer \in Server
  BY Zenon DEF StorageInv, TypeOK, RequestVoteReply, RequestVoteArgs
<1>2. /\ reply.VoteGranted /\ voteReplies' \subseteq voteReplies
      /\ votes' = [votes EXCEPT ![i] = countVote(i, reply)]
  BY Zenon DEF VoteCounted, becomeLeader
<1>3. /\ currentTerm' = currentTerm /\ votedFor' = votedFor
      /\ \A c \in Server \ {i} : state'[c] = state[c]
      /\ state'[i] = state[i] \/ (state'[i] = "Leader" /\ elected(i, reply))
  <2>1. CASE VoteCounted(reply)
    BY <2>1, Zenon DEF VoteCounted, peerVars
  <2>2. CASE becomeLeader(reply)
    BY <1>1, <2>2, ZenonT(40) DEF becomeLeader, SetPeer, StorageInv, TypeOK
  <2> QED BY <2>1, <2>2, Zenon
<1>4. keepsVotes
  BY <1>3, SMTT(30) DEF keepsVotes, StorageInv, TypeOK
<1>5. state'[i] # "Follower" => state[i] # "Follower"
  BY <1>3, Zenon DEF elected
<1>6. /\ votes'[i] = countVote(i, reply)
      /\ \A c \in Server \ {i} : votes'[c] = votes[c]
      /\ votes[i] \subseteq countVote(i, reply)
      /\ votes[i] \in SUBSET Server /\ countVote(i, reply) \in SUBSET Server
      /\ \A v \in countVote(i, reply) :
           v \in votes[i] \/ (v = reply.args.peer /\ reply.args.Term = currentTerm[i])
  BY <1>1, <1>2, Zenon DEF countVote, StorageInv, TypeOK
<1>7. ASSUME NEW g \in grants' PROVE g \in grants
  <2>1. CASE \E r \in voteReplies' : r.VoteGranted /\
               g = [voter |-> r.args.peer, term |-> r.args.Term,
                    candidate |-> r.args.CandidateId]
    BY <1>2, <2>1, GrantsDef, ZenonT(40)
  <2>2. CASE \E c \in Server : \E v \in votes'[c] : state'[c] # "Follower" /\
               g = [voter |-> v, term |-> currentTerm'[c], candidate |-> c]
    <3>0. PICK c \in Server : \E v \in votes'[c] : state'[c] # "Follower" /\
               g = [voter |-> v, term |-> currentTerm'[c], candidate |-> c]
      BY <2>2, Zenon
    <3>1. PICK v \in votes'[c] : state'[c] # "Follower" /\
               g = [voter |-> v, term |-> currentTerm[c], candidate |-> c]
      BY <1>3, <3>0, SMTT(30)
    <3>2. CASE c # i
      BY <1>3, <1>6, <3>1, <3>2, GrantsDef, ZenonT(40)
    <3>3. CASE c = i /\ v \in votes[i]
      BY <1>5, <3>1, <3>3, GrantsDef
    <3>4. CASE c = i /\ v = reply.args.peer /\ reply.args.Term = currentTerm[i]
      BY <1>2, <3>1, <3>4, GrantsDef, Zenon
    <3> QED BY <1>6, <3>1, <3>2, <3>3, <3>4
  <2> QED BY <1>7, <2>1, <2>2, GrantsDefPrime
<1>8. ASSUME LeaderElected, NEW c \in Server, state'[c] = "Leader"
      PROVE  voteMajority(votes'[c])
  <2>1. CASE c # i
    BY <1>3, <1>6, <1>8, <2>1, ZenonT(40) DEF LeaderElected
  <2>2. CASE c = i /\ state[i] = "Leader"
    BY <1>6, <1>8, <2>2, MajorityGrows DEF LeaderElected
  <2>3. CASE c = i /\ elected(i, reply)
    BY <1>6, <2>3, Zenon DEF elected
  <2> QED BY <1>3, <1>8, <2>1, <2>2, <2>3, SMTT(30)
<1>9. LeaderElected => LeaderElected'
  BY <1>8, Zenon DEF LeaderElected, voteMajority
<1> QED BY <1>4, <1>7, <1>9

-----------------------------------------------------------------------------
(* Every step keeps the election invariant.                                  *)

\* What all steps have in common.
LEMMA ElectionSteps ==
    ASSUME StorageInv, [Next]_vars
    PROVE  keepsVotes /\ newGrants /\ (LeaderElected => LeaderElected')
<1> DEFINE ok == keepsVotes /\ newGrants /\ (LeaderElected => LeaderElected')
<1>1. ASSUME keepsVotes, quiet PROVE ok
  <2>1. newGrants
    BY <1>1, QuietGrants, Zenon DEF newGrants
  <2>2. LeaderElected => LeaderElected'
    BY <1>1, Zenon DEF quiet, LeaderElected, voteMajority
  <2> QED BY <1>1, <2>1, <2>2
<1>2. ASSUME NEW i \in Server, Timeout(i) PROVE ok
  BY <1>2, TimeoutGrants
<1>3. ASSUME NEW i \in Server, HeartBeat(i) PROVE ok
  BY <1>1, <1>3, SamePeersKeep, Zenon DEF HeartBeat, peerVars
<1>4. ASSUME NEW i \in Server, Restart(i) PROVE ok
  BY <1>1, <1>4, CrashKeeps, SMTT(30)
<1>5. ASSUME NEW i \in Server, NEW command \in Command, Start(i, command) PROVE ok
  BY <1>1, <1>5, SamePeersKeep, Zenon DEF Start
<1>6. ASSUME NEW args \in voteCalls, RequestVote(args) PROVE ok
  BY <1>6, RequestVoteGrants
<1>7. ASSUME NEW args \in voteCalls, CrashInVote(args) PROVE ok
  BY <1>1, <1>7, CrashKeeps, Zenon
<1>8. ASSUME NEW reply \in voteReplies, candidateRequest(reply) PROVE ok
  <2>1. CASE VoteDenied(reply)
    <3>1. reply.args.CandidateId \in Server /\ reply.Term \in Nat
      BY Zenon DEF StorageInv, TypeOK, RequestVoteReply, RequestVoteArgs
    <3> QED BY <1>1, <2>1, <3>1, StepDownKeeps DEF VoteDenied
  <2>2. CASE VoteCounted(reply) \/ becomeLeader(reply)
    BY <2>2, CountGrants DEF newGrants
  <2> QED BY <1>8, <2>1, <2>2, Zenon DEF candidateRequest
<1>9. ASSUME NEW args \in appendCalls, AppendEntries(args) PROVE ok
  BY <1>1, <1>9, AppendKeeps, Zenon
<1>10. ASSUME NEW args \in appendCalls, CrashInAppend(args) PROVE ok
  BY <1>1, <1>10, CrashKeeps, Zenon
<1>11. ASSUME NEW reply \in appendReplies, leaderSendEntries(reply) PROVE ok
  BY <1>1, <1>11, AppendReplyKeeps, Zenon
<1>12. CASE UNCHANGED vars
  BY <1>1, <1>12, SamePeersKeep DEF vars
<1> HIDE DEF ok
<1> QED BY <1>2, <1>3, <1>4, <1>5, <1>6, <1>7, <1>8, <1>9, <1>10, <1>11, <1>12, Zenon DEF
       Next, ok

\* Nobody has voted at the start.
LEMMA ElectionInit == ASSUME Init PROVE ElectionInv
<1>1. grants = {}
  BY GrantsDef, Zenon DEF Init
<1> QED BY <1>1, Zenon DEF Init, ElectionInv, VotesHeld, VotesUnique, LeaderElected

\* A grant names a voter, a candidate and a term.
LEMMA GrantsType ==
    ASSUME StorageInv, NEW g \in grants
    PROVE  g.voter \in Server /\ g.term \in Nat
<1>1. CASE \E r \in voteReplies : r.VoteGranted /\
             g = [voter |-> r.args.peer, term |-> r.args.Term,
                  candidate |-> r.args.CandidateId]
  BY <1>1 DEF StorageInv, TypeOK, RequestVoteReply, RequestVoteArgs
<1>2. CASE \E c \in Server : \E v \in votes[c] : state[c] # "Follower" /\
             g = [voter |-> v, term |-> currentTerm[c], candidate |-> c]
  BY <1>2 DEF StorageInv, TypeOK
<1> QED BY <1>1, <1>2, GrantsDef

\* A vote that stood before a step stands after it.
LEMMA ElectionStep ==
    ASSUME StorageInv, StorageInv', ElectionInv, [Next]_vars
    PROVE  ElectionInv'
<1>1. keepsVotes /\ newGrants /\ LeaderElected'
  BY ElectionSteps, Zenon DEF ElectionInv
<1>2. \A g \in grants : g.voter \in Server /\ g.term \in Nat
  BY GrantsType, Zenon
<1>3. \A g \in grants : g.candidate # Nil
  <2>1. \A r \in voteReplies : r.args.CandidateId # Nil
    BY ServerAssumption, Zenon DEF StorageInv, TypeOK, RequestVoteReply, RequestVoteArgs
  <2> QED BY <2>1, GrantsDef, ServerAssumption
<1>4. ASSUME NEW g \in grants'
      PROVE  \/ currentTerm'[g.voter] > g.term
             \/ currentTerm'[g.voter] = g.term /\ votedFor'[g.voter] = g.candidate
  <2>1. CASE g \in grants
    <3>1. /\ g.voter \in Server /\ g.term \in Nat /\ g.candidate # Nil
          /\ currentTerm[g.voter] \in Nat /\ currentTerm'[g.voter] \in Nat
      BY <1>2, <1>3, <2>1, Zenon DEF StorageInv, TypeOK
    <3>2. \/ currentTerm[g.voter] > g.term
          \/ currentTerm[g.voter] = g.term /\ votedFor[g.voter] = g.candidate
      BY <2>1, Zenon DEF ElectionInv, VotesHeld
    <3> QED BY <1>1, <3>1, <3>2 DEF keepsVotes
  <2> QED BY <1>1, <1>4, <2>1, Zenon DEF newGrants
<1>5. VotesHeld'
  BY <1>4 DEF VotesHeld
<1>6. ASSUME NEW g \in grants' PROVE currentTerm'[g.voter] \in Nat
  <2>1. CASE g \in grants
    BY <1>2, <2>1, Zenon DEF StorageInv, TypeOK
  <2>2. CASE g \in grants' /\ g \notin grants
    <3>1. g.term \in Nat
      <4>1. CASE \E r \in voteReplies' : r.VoteGranted /\
                   g = [voter |-> r.args.peer, term |-> r.args.Term,
                        candidate |-> r.args.CandidateId]
        BY <4>1 DEF StorageInv, TypeOK, RequestVoteReply, RequestVoteArgs
      <4>2. CASE \E c \in Server : \E v \in votes'[c] : state'[c] # "Follower" /\
                   g = [voter |-> v, term |-> currentTerm'[c], candidate |-> c]
        BY <4>2 DEF StorageInv, TypeOK
      <4> QED BY <2>2, <4>1, <4>2, GrantsDefPrime, ZenonT(40)
    <3> QED BY <1>1, <2>2, <3>1, SMTT(30) DEF newGrants
  <2> QED BY <1>6, <2>1, <2>2, Zenon
<1>7. ASSUME NEW g \in grants', NEW h \in grants', g.voter = h.voter, g.term = h.term
      PROVE  g.candidate = h.candidate
  <2>1. CASE g \in grants /\ h \in grants
    BY <1>7, <2>1, Zenon DEF ElectionInv, VotesUnique
  <2>2. CASE g \notin grants
    <3>1. currentTerm'[g.voter] = g.term /\ votedFor'[g.voter] = g.candidate
      BY <1>1, <2>2, Zenon DEF newGrants
    <3> QED BY <1>4, <1>7, <1>6, <3>1
  <2>3. CASE h \notin grants
    <3>1. currentTerm'[h.voter] = h.term /\ votedFor'[h.voter] = h.candidate
      BY <1>1, <2>3, Zenon DEF newGrants
    <3> QED BY <1>4, <1>7, <1>6, <3>1
  <2> QED BY <2>1, <2>2, <2>3, Zenon
<1>8. VotesUnique'
  BY <1>7, Zenon DEF VotesUnique
<1> QED BY <1>1, <1>5, <1>8, Zenon DEF ElectionInv

\* A majority for each of two leaders of a term has a voter in common.
LEMMA ElectionSafe == ASSUME StorageInv, ElectionInv PROVE ElectionSafety
<1> SUFFICES ASSUME NEW i \in Server, NEW j \in Server, state[i] = "Leader",
                    state[j] = "Leader", currentTerm[i] = currentTerm[j]
             PROVE  i = j
  BY Zenon DEF ElectionSafety
<1>1. votes[i] \subseteq Server /\ votes[j] \subseteq Server
  BY Zenon DEF StorageInv, TypeOK
<1>2. voteMajority(votes[i]) /\ voteMajority(votes[j])
  BY DEF ElectionInv, LeaderElected
<1>3. /\ Cardinality(votes[i]) \in Nat /\ Cardinality(votes[j]) \in Nat
      /\ Cardinality(Server) \in Nat /\ IsFiniteSet(Server)
  BY <1>1, FS_Subset, FS_CardinalityType, ServerAssumption, Zenon
<1>4. Cardinality(votes[i]) + Cardinality(votes[j]) > Cardinality(Server)
  BY <1>2, <1>3 DEF voteMajority
<1>5. PICK v : v \in votes[i] /\ v \in votes[j]
  BY <1>1, <1>3, <1>4, FS_MajoritiesIntersect
<1>6. /\ [voter |-> v, term |-> currentTerm[i], candidate |-> i] \in grants
      /\ [voter |-> v, term |-> currentTerm[i], candidate |-> j] \in grants
  BY <1>5, GrantsDef, Zenon
<1> QED BY <1>6, Zenon DEF ElectionInv, VotesUnique

\* Every vote a candidate has counted, or may yet count, is one its voter still
\* stands by or has outgrown, and no voter backs two candidates of a term.
THEOREM VotesSound == Spec => [](VotesHeld /\ VotesUnique /\ LeaderElected)
<1>1. Init => StorageInv /\ ElectionInv
  BY StorageInit, ElectionInit, Zenon
<1>2. StorageInv /\ ElectionInv /\ [Next]_vars => StorageInv' /\ ElectionInv'
  BY StorageStep, ElectionStep, Zenon
<1>3. ElectionInv => VotesHeld /\ VotesUnique /\ LeaderElected
  BY DEF ElectionInv
<1> QED BY <1>1, <1>2, <1>3, PTL DEF Spec

\* checkOneLeader: no term ever has two leaders, whatever the number of peers,
\* elections, late or lost votes, and crashes between granting and answering.
THEOREM OneLeader == Spec => []ElectionSafety
<1>1. Init => StorageInv /\ ElectionInv
  BY StorageInit, ElectionInit, Zenon
<1>2. StorageInv /\ ElectionInv /\ [Next]_vars => StorageInv' /\ ElectionInv'
  BY StorageStep, ElectionStep, Zenon
<1>3. StorageInv /\ ElectionInv => ElectionSafety
  BY ElectionSafe
<1> QED BY <1>1, <1>2, <1>3, PTL DEF Spec

\* No step of a peer, a crash inside RequestVote or AppendEntries included,
\* takes back a term or a vote of that term.
THEOREM NoVoteLost == Spec => VoteKept
<1>1. Init => StorageInv
  BY StorageInit, Zenon
<1>2. StorageInv /\ [Next]_vars => StorageInv'
  BY StorageStep
<1>3. StorageInv /\ [Next]_vars => [keepsVotes]_vars
  BY ElectionSteps, Zenon
<1> QED BY <1>1, <1>2, <1>3, PTL DEF Spec, VoteKept
-----------------------------------------------------------------------------
(* The terms that have been won                                              *)

\* Two candidates that both have a majority of the votes of a term are one.
LEMMA TwoWins ==
    ASSUME StorageInv, NEW t, NEW c, Won(t, c), NEW i, NEW V \in SUBSET Server,
           voteMajority(V), \A v \in V : [voter |-> v, term |-> t, candidate |-> i] \in grants
    PROVE  i = c
<1>1. PICK Q \in SUBSET Server :
        /\ voteMajority(Q)
        /\ \A v \in Q : \A g \in grants : g.voter = v /\ g.term = t => g.candidate = c
  BY DEF Won
<1>2. /\ Cardinality(Q) \in Nat /\ Cardinality(V) \in Nat
      /\ Cardinality(Server) \in Nat /\ IsFiniteSet(Server)
  BY FS_Subset, FS_CardinalityType, ServerAssumption, Zenon
<1>3. Cardinality(Q) + Cardinality(V) > Cardinality(Server)
  BY <1>1, <1>2 DEF voteMajority
<1>4. PICK v : v \in Q /\ v \in V
  BY <1>2, <1>3, FS_MajoritiesIntersect, Zenon
<1> QED BY <1>1, <1>4, Zenon

\* The votes of a majority win a term.
LEMMA GrantsWin ==
    ASSUME StorageInv, ElectionInv, NEW t, NEW i, NEW V \in SUBSET Server,
           voteMajority(V), \A v \in V : [voter |-> v, term |-> t, candidate |-> i] \in grants
    PROVE  Won(t, i)
<1>1. ASSUME NEW v \in V
      PROVE  /\ currentTerm[v] > t \/ (currentTerm[v] = t /\ votedFor[v] = i)
             /\ \A g \in grants : g.voter = v /\ g.term = t => g.candidate = i
  <2> DEFINE h == [voter |-> v, term |-> t, candidate |-> i]
  <2>1. h \in grants /\ h.voter = v /\ h.term = t /\ h.candidate = i
    BY Zenon
  <2> HIDE DEF h
  <2> QED BY <2>1, Zenon DEF ElectionInv, VotesHeld, VotesUnique
<1> QED BY <1>1, Zenon DEF Won

\* The votes a candidate or leader has counted.
LEMMA CountedGrants ==
    ASSUME NEW i \in Server, state[i] # "Follower", NEW v \in votes[i]
    PROVE  [voter |-> v, term |-> currentTerm[i], candidate |-> i] \in grants
BY GrantsDef, Zenon

\* A leader has won its term.
LEMMA LeaderWon ==
    ASSUME StorageInv, ElectionInv, NEW i \in Server, state[i] = "Leader"
    PROVE  Won(currentTerm[i], i) /\ Past(currentTerm[i], i)
<1>1. votes[i] \in SUBSET Server /\ voteMajority(votes[i]) /\ currentTerm[i] \in Nat
  BY Zenon DEF StorageInv, TypeOK, ElectionInv, LeaderElected
<1>2. \A v \in votes[i] : [voter |-> v, term |-> currentTerm[i], candidate |-> i] \in grants
  BY CountedGrants, Zenon
<1>3. Won(currentTerm[i], i)
  BY <1>1, <1>2, GrantsWin
<1> QED BY <1>3, Zenon DEF Past

\* A leader has the votes of a majority, so it and nobody else won its term.
LEMMA LeaderIsWinner == StorageInv /\ ElectionInv => Winners
<1>0. StorageInv /\ ElectionInv => LeadersWon
  BY LeaderWon DEF LeadersWon
<1> SUFFICES ASSUME StorageInv, ElectionInv, NEW i \in Server, NEW c \in Server,
                    state[i] = "Leader", Won(currentTerm[i], c)
             PROVE  i = c
  BY <1>0, Zenon DEF Winners, LeaderUnique
<1>1. votes[i] \in SUBSET Server /\ voteMajority(votes[i])
  BY Zenon DEF StorageInv, TypeOK, ElectionInv, LeaderElected
<1>2. \A v \in votes[i] : [voter |-> v, term |-> currentTerm[i], candidate |-> i] \in grants
  BY CountedGrants
<1> QED BY <1>1, <1>2, TwoWins, Zenon

\* Every step keeps to the roles.
LEMMA RolesStep == ASSUME StorageInv, [Next]_vars PROVE rolesStep
<1>1. ASSUME quiet PROVE rolesStep
  BY <1>1 DEF quiet, rolesStep
<1>2. ASSUME NEW i \in Server, Timeout(i) PROVE rolesStep
  <2>1. SetPeer(i, "Candidate", currentTerm[i] + 1, i,
                persistData(currentTerm[i] + 1, i, log[i]))
    BY <1>2, Zenon DEF Timeout, leaderElection
  <2>2. currentTerm[i] \in Nat
    BY Zenon DEF StorageInv, TypeOK
  <2> QED BY <2>1, <2>2 DEF SetPeer, rolesStep, StorageInv, TypeOK, Roles
<1>3. ASSUME NEW i \in Server, HeartBeat(i) PROVE rolesStep
  BY <1>1, <1>3, SamePeersKeep, Zenon DEF HeartBeat, peerVars
<1>4. ASSUME NEW i \in Server, Restart(i) PROVE rolesStep
  BY <1>1, <1>4, CrashKeeps
<1>5. ASSUME NEW i \in Server, NEW command \in Command, Start(i, command) PROVE rolesStep
  BY <1>1, <1>5, SamePeersKeep, Zenon DEF Start
<1>6. ASSUME NEW args \in voteCalls, RequestVote(args) PROVE rolesStep
  <2> DEFINE i == args.peer
             p == setNewTerm(i, args.Term)
  <2>1. i \in Server /\ args.Term \in Nat
    BY Zenon DEF StorageInv, TypeOK, RequestVoteArgs
  <2>2. CASE RefuseVote(args)
    BY <2>2 DEF RefuseVote, peerVars, rolesStep, StorageInv, TypeOK, Roles
  <2>3. CASE ConsiderVote(args)
    <3>1. \E v, saved : SetPeer(i, p.state, p.currentTerm, v, saved)
      BY <2>3, Zenon DEF ConsiderVote, StepDown
    <3>2. p.state # "Follower" => p.state = state[i] /\ p.currentTerm = currentTerm[i]
      BY <2>1, SetNewTermKeeps, Zenon
    <3> HIDE DEF p
    <3> QED BY <2>1, <3>1, <3>2, Zenon DEF SetPeer, rolesStep, StorageInv, TypeOK, Roles
  <2> QED BY <1>6, <2>2, <2>3 DEF RequestVote
<1>7. ASSUME NEW args \in voteCalls, CrashInVote(args) PROVE rolesStep
  BY <1>1, <1>7, CrashKeeps, Zenon
<1>8. ASSUME NEW reply \in voteReplies, candidateRequest(reply) PROVE rolesStep
  <2> DEFINE i == reply.args.CandidateId
  <2>0. i \in Server /\ reply.Term \in Nat
    BY Zenon DEF StorageInv, TypeOK, RequestVoteReply, RequestVoteArgs
  <2>1. CASE VoteDenied(reply)
    BY <1>1, <2>0, <2>1, StepDownKeeps DEF VoteDenied
  <2>2. CASE VoteCounted(reply)
    BY <2>2, ZenonT(40) DEF VoteCounted, peerVars, rolesStep, StorageInv, TypeOK, Roles
  <2>3. CASE becomeLeader(reply)
    <3>1. /\ \E v, saved : SetPeer(i, "Leader", currentTerm[i], v, saved)
          /\ state[i] = "Candidate"
          /\ nextIndex' = [nextIndex EXCEPT ![i] = [j \in Server |-> LastLog(log[i]).Index + 1]]
      BY <2>3, Zenon DEF becomeLeader, elected
    <3> QED BY <2>0, <3>1 DEF SetPeer, rolesStep, StorageInv, TypeOK, Roles
  <2> QED BY <1>8, <2>1, <2>2, <2>3, SMTT(30) DEF candidateRequest
<1>9. ASSUME NEW args \in appendCalls, AppendEntries(args) PROVE rolesStep
  BY <1>1, <1>9, AppendKeeps
<1>10. ASSUME NEW args \in appendCalls, CrashInAppend(args) PROVE rolesStep
  BY <1>1, <1>10, CrashKeeps, Zenon
<1>11. ASSUME NEW reply \in appendReplies, leaderSendEntries(reply) PROVE rolesStep
  BY <1>1, <1>11, AppendReplyKeeps, Zenon
<1>12. CASE UNCHANGED vars
  BY <1>1, <1>12, SamePeersKeep, Zenon DEF vars
<1> HIDE DEF rolesStep
<1> QED BY <1>2, <1>3, <1>4, <1>5, <1>6, <1>7, <1>8, <1>9, <1>10, <1>11, <1>12, Zenon DEF
       Next

-----------------------------------------------------------------------------
(* Votes and the logs they are granted to                                    *)

\* The one vote a reply may add.
LEMMA OneMoreGrant ==
    ASSUME NEW new, voteReplies' \subseteq voteReplies \cup {new},
           \A c \in Server : state'[c] # "Follower" =>
               state'[c] = state[c] /\ currentTerm'[c] = currentTerm[c] /\ votes'[c] = votes[c],
           NEW g \in grants', g \notin grants
    PROVE  /\ new.VoteGranted
           /\ g = [voter |-> new.args.peer, term |-> new.args.Term,
                   candidate |-> new.args.CandidateId]
<1>1. CASE \E r \in voteReplies' : r.VoteGranted /\
             g = [voter |-> r.args.peer, term |-> r.args.Term,
                  candidate |-> r.args.CandidateId]
  BY <1>1, GrantsDef, Zenon
<1>2. CASE \E c \in Server : \E v \in votes'[c] : state'[c] # "Follower" /\
             g = [voter |-> v, term |-> currentTerm'[c], candidate |-> c]
  <2>1. PICK c \in Server : \E v \in votes'[c] : state'[c] # "Follower" /\
             g = [voter |-> v, term |-> currentTerm'[c], candidate |-> c]
    BY <1>2, Zenon
  <2>2. state[c] # "Follower" /\ votes'[c] = votes[c] /\ currentTerm'[c] = currentTerm[c]
    BY <2>1, Zenon
  <2> QED BY <2>1, <2>2, GrantsDef, Zenon
<1> QED BY <1>1, <1>2, GrantsDefPrime, Zenon

\* RequestVote grants a vote only to a log that is up to date.
LEMMA RequestVoteNew ==
    ASSUME StorageInv, NEW args \in voteCalls, RequestVote(args), NEW g \in grants', g \notin grants
    PROVE  /\ log' = log /\ args.peer = g.voter /\ args.Term = g.term
           /\ args.CandidateId = g.candidate /\ upToDate(args, LastLog(log[args.peer]))
<1> DEFINE i == args.peer
           p == setNewTerm(i, args.Term)
           grant == mayVote(p.votedFor, args.CandidateId) /\ upToDate(args, LastLog(log[i]))
<1>1. i \in Server /\ args.Term \in Nat
  BY Zenon DEF StorageInv, TypeOK, RequestVoteArgs
<1>2. CASE RefuseVote(args)
  <2> DEFINE new == [args |-> args, Term |-> currentTerm[i], VoteGranted |-> FALSE]
  <2>1. /\ ReplyToVote(args, new) /\ state' = state /\ currentTerm' = currentTerm /\ votes' = votes
    BY <1>2, Zenon DEF RefuseVote, peerVars
  <2>2. ~new.VoteGranted
    OBVIOUS
  <2> HIDE DEF new
  <2>3. voteReplies' \subseteq voteReplies \cup {new}
    BY <2>1, Zenon DEF ReplyToVote
  <2> QED BY <2>1, <2>2, <2>3, OneMoreGrant, Zenon
<1>3. CASE ConsiderVote(args)
  <2> DEFINE new == [args |-> args, Term |-> p.currentTerm, VoteGranted |-> grant]
  <2>1. /\ ReplyToVote(args, new) /\ votes' = votes /\ log' = log
        /\ \E v, saved : SetPeer(i, p.state, p.currentTerm, v, saved)
    BY <1>3, Zenon DEF ConsiderVote, StepDown
  <2>2. new.VoteGranted = grant /\ new.args = args
    BY Zenon
  <2>3. p.state # "Follower" => p.state = state[i] /\ p.currentTerm = currentTerm[i]
    BY <1>1, SetNewTermKeeps, Zenon
  <2>4. grant => upToDate(args, LastLog(log[i]))
    BY Zenon
  <2> HIDE DEF new, p, grant
  <2>5. voteReplies' \subseteq voteReplies \cup {new}
    BY <2>1, Zenon DEF ReplyToVote
  <2>6. \A c \in Server : state'[c] # "Follower" =>
               state'[c] = state[c] /\ currentTerm'[c] = currentTerm[c] /\ votes'[c] = votes[c]
    BY <1>1, <2>1, <2>3, Zenon DEF SetPeer, StorageInv, TypeOK
  <2>7. new.VoteGranted /\ g = [voter |-> new.args.peer, term |-> new.args.Term,
                                candidate |-> new.args.CandidateId]
    BY <2>5, <2>6, OneMoreGrant, Zenon
  <2>8. g.voter = new.args.peer /\ g.term = new.args.Term /\ g.candidate = new.args.CandidateId
    BY <2>7, Zenon
  <2> QED BY <2>1, <2>2, <2>4, <2>7, <2>8, Zenon
<1> QED BY <1>2, <1>3, Zenon DEF RequestVote

\* leaderElection: the only new vote is the candidate's own.
LEMMA TimeoutNew ==
    ASSUME StorageInv, NEW i \in Server, Timeout(i), NEW g \in grants', g \notin grants
    PROVE  log' = log /\ g.voter = g.candidate
<1>1. /\ \E t, saved : SetPeer(i, "Candidate", t, i, saved)
      /\ votes' = [votes EXCEPT ![i] = {i}] /\ voteReplies' = voteReplies /\ log' = log
  BY Zenon DEF Timeout, leaderElection
<1>2. /\ votes'[i] = {i}
      /\ \A c \in Server \ {i} : state'[c] = state[c] /\ currentTerm'[c] = currentTerm[c]
                                 /\ votes'[c] = votes[c]
  BY <1>1, ZenonT(40) DEF SetPeer, StorageInv, TypeOK
<1>3. ~ \E r \in voteReplies' : r.VoteGranted /\
             g = [voter |-> r.args.peer, term |-> r.args.Term,
                  candidate |-> r.args.CandidateId]
  BY <1>1, GrantsDef, Zenon
<1>4. PICK c \in Server : \E v \in votes'[c] : state'[c] # "Follower" /\
             g = [voter |-> v, term |-> currentTerm'[c], candidate |-> c]
  BY <1>3, GrantsDefPrime, Zenon
<1>5. c = i
  BY <1>2, <1>4, GrantsDef, Zenon
<1>6. g = [voter |-> i, term |-> currentTerm'[i], candidate |-> i]
  BY <1>2, <1>4, <1>5, Zenon
<1> QED BY <1>1, <1>6, Zenon

\* Every step adds only such votes.
LEMMA GrantStep == ASSUME StorageInv, [Next]_vars PROVE grantStep
<1>1. ASSUME quiet PROVE grantStep
  BY <1>1, QuietGrants, Zenon DEF grantStep
<1>2. ASSUME NEW i \in Server, Timeout(i) PROVE grantStep
  BY <1>2, TimeoutNew, Zenon DEF grantStep
<1>3. ASSUME NEW i \in Server, HeartBeat(i) PROVE grantStep
  BY <1>1, <1>3, SamePeersKeep, Zenon DEF HeartBeat, peerVars
<1>4. ASSUME NEW i \in Server, Restart(i) PROVE grantStep
  BY <1>1, <1>4, CrashKeeps, Zenon
<1>5. ASSUME NEW i \in Server, NEW command \in Command, Start(i, command) PROVE grantStep
  BY <1>1, <1>5, SamePeersKeep, Zenon DEF Start
<1>6. ASSUME NEW args \in voteCalls, RequestVote(args) PROVE grantStep
  BY <1>6, RequestVoteNew, Zenon DEF grantStep
<1>7. ASSUME NEW args \in voteCalls, CrashInVote(args) PROVE grantStep
  BY <1>1, <1>7, CrashKeeps, Zenon
<1>8. ASSUME NEW reply \in voteReplies, candidateRequest(reply) PROVE grantStep
  <2>1. CASE VoteDenied(reply)
    <3>1. reply.args.CandidateId \in Server /\ reply.Term \in Nat
      BY Zenon DEF StorageInv, TypeOK, RequestVoteReply, RequestVoteArgs
    <3>2. /\ StepDown(reply.args.CandidateId, reply.Term) /\ UNCHANGED votes
          /\ voteReplies' \subseteq voteReplies
      BY <2>1, Zenon DEF VoteDenied
    <3> QED BY <1>1, <3>1, <3>2, StepDownKeeps, Zenon
  <2>2. CASE VoteCounted(reply) \/ becomeLeader(reply)
    BY <2>2, CountGrants, Zenon DEF grantStep
  <2> QED BY <1>8, <2>1, <2>2, Zenon DEF candidateRequest
<1>9. ASSUME NEW args \in appendCalls, AppendEntries(args) PROVE grantStep
  BY <1>1, <1>9, AppendKeeps, Zenon
<1>10. ASSUME NEW args \in appendCalls, CrashInAppend(args) PROVE grantStep
  BY <1>1, <1>10, CrashKeeps, Zenon
<1>11. ASSUME NEW reply \in appendReplies, leaderSendEntries(reply) PROVE grantStep
  BY <1>1, <1>11, AppendReplyKeeps, Zenon
<1>12. CASE UNCHANGED vars
  BY <1>1, <1>12, SamePeersKeep, Zenon DEF vars
<1> QED BY <1>2, <1>3, <1>4, <1>5, <1>6, <1>7, <1>8, <1>9, <1>10, <1>11, <1>12, Zenon DEF Next

\* becomeLeader: the votes it counts were all granted before.
LEMMA BecomeLeaderVotes ==
    ASSUME StorageInv, NEW reply \in voteReplies, becomeLeader(reply)
    PROVE  leaderStep
<1> DEFINE c == reply.args.CandidateId
<1>1. c \in Server
  BY Zenon DEF StorageInv, TypeOK, RequestVoteReply, RequestVoteArgs
<1>2. /\ \E v, saved : SetPeer(c, "Leader", currentTerm[c], v, saved)
      /\ log' = log /\ matchIndex' = [matchIndex EXCEPT ![c] = [j \in Server |-> 0]]
  BY Zenon DEF becomeLeader
<1>3. /\ state' = [state EXCEPT ![c] = "Leader"]
      /\ currentTerm' = [currentTerm EXCEPT ![c] = currentTerm[c]]
  BY <1>2, Zenon DEF SetPeer
<1>4. /\ state'[c] = "Leader" /\ currentTerm'[c] = currentTerm[c]
      /\ \A k \in Server \ {c} : state'[k] = state[k]
      /\ \A j \in Server : matchIndex'[c][j] = 0
  BY <1>1, <1>2, <1>3, Zenon DEF StorageInv, TypeOK
<1>5. ASSUME NEW v \in votes'[c]
      PROVE  [voter |-> v, term |-> currentTerm[c], candidate |-> c] \in grants
  <2>1. [voter |-> v, term |-> currentTerm'[c], candidate |-> c] \in grants'
    <3>1. state'[c] # "Follower"
      BY <1>4, Zenon
    <3> QED BY <1>1, <1>5, <3>1, GrantsDefPrime, Zenon
  <2> QED BY <1>4, <2>1, CountGrants, Zenon
<1>6. ASSUME NEW k \in Server, state'[k] = "Leader", state[k] # "Leader" PROVE k = c
  BY <1>4, <1>6, Zenon
<1> HIDE DEF c
<1> QED BY <1>2, <1>4, <1>5, <1>6, ZenonT(40) DEF leaderStep

\* Nobody else begins to lead.
LEMMA LeaderStep == ASSUME StorageInv, [Next]_vars PROVE leaderStep
<1>1. ASSUME \A c \in Server : state'[c] = "Leader" => state[c] = "Leader" PROVE leaderStep
  BY <1>1, Zenon DEF leaderStep
<1>2. ASSUME quiet PROVE leaderStep
  <2>1. "Leader" # "Follower"
    OBVIOUS
  <2> QED BY <1>1, <1>2, <2>1, Zenon DEF quiet
<1>3. ASSUME NEW i \in Server, Timeout(i) PROVE leaderStep
  <2>1. state' = [state EXCEPT ![i] = "Candidate"]
    BY <1>3, Zenon DEF Timeout, leaderElection, SetPeer
  <2> QED BY <1>1, <2>1, Zenon DEF StorageInv, TypeOK
<1>4. ASSUME NEW i \in Server, HeartBeat(i) PROVE leaderStep
  BY <1>2, <1>4, SamePeersKeep, Zenon DEF HeartBeat, peerVars
<1>5. ASSUME NEW i \in Server, Restart(i) PROVE leaderStep
  BY <1>2, <1>5, CrashKeeps, Zenon
<1>6. ASSUME NEW i \in Server, NEW command \in Command, Start(i, command) PROVE leaderStep
  BY <1>2, <1>6, SamePeersKeep, Zenon DEF Start
<1>7. ASSUME NEW args \in voteCalls, RequestVote(args) PROVE leaderStep
  <2> DEFINE i == args.peer
             p == setNewTerm(i, args.Term)
  <2>1. i \in Server /\ args.Term \in Nat
    BY Zenon DEF StorageInv, TypeOK, RequestVoteArgs
  <2>2. CASE RefuseVote(args)
    BY <1>1, <2>2, Zenon DEF RefuseVote, peerVars
  <2>3. CASE ConsiderVote(args)
    <3>1. \E v, saved : SetPeer(i, p.state, p.currentTerm, v, saved)
      BY <2>3, Zenon DEF ConsiderVote, StepDown
    <3>2. p.state # "Follower" => p.state = state[i]
      BY <2>1, SetNewTermKeeps, Zenon
    <3> HIDE DEF p
    <3>3. state' = [state EXCEPT ![i] = p.state] /\ "Leader" # "Follower"
      BY <3>1, Zenon DEF SetPeer
    <3> QED BY <1>1, <2>1, <3>2, <3>3, Zenon DEF StorageInv, TypeOK
  <2> QED BY <1>7, <2>2, <2>3, Zenon DEF RequestVote
<1>8. ASSUME NEW args \in voteCalls, CrashInVote(args) PROVE leaderStep
  BY <1>2, <1>8, CrashKeeps, Zenon
<1>9. ASSUME NEW reply \in voteReplies, candidateRequest(reply) PROVE leaderStep
  <2>1. CASE VoteDenied(reply)
    <3>1. reply.args.CandidateId \in Server /\ reply.Term \in Nat
      BY Zenon DEF StorageInv, TypeOK, RequestVoteReply, RequestVoteArgs
    <3>2. /\ StepDown(reply.args.CandidateId, reply.Term) /\ UNCHANGED votes
          /\ voteReplies' \subseteq voteReplies
      BY <2>1, Zenon DEF VoteDenied
    <3> QED BY <1>2, <3>1, <3>2, StepDownKeeps, Zenon
  <2>2. CASE VoteCounted(reply)
    BY <1>1, <2>2, Zenon DEF VoteCounted, peerVars
  <2> QED BY <1>9, <2>1, <2>2, BecomeLeaderVotes, Zenon DEF candidateRequest
<1>10. ASSUME NEW args \in appendCalls, AppendEntries(args) PROVE leaderStep
  BY <1>2, <1>10, AppendKeeps, Zenon
<1>11. ASSUME NEW args \in appendCalls, CrashInAppend(args) PROVE leaderStep
  BY <1>2, <1>11, CrashKeeps, Zenon
<1>12. ASSUME NEW reply \in appendReplies, leaderSendEntries(reply) PROVE leaderStep
  BY <1>2, <1>12, AppendReplyKeeps, Zenon
<1>13. CASE UNCHANGED vars
  BY <1>2, <1>13, SamePeersKeep, Zenon DEF vars
<1> QED BY <1>3, <1>4, <1>5, <1>6, <1>7, <1>8, <1>9, <1>10, <1>11, <1>12, <1>13, Zenon DEF Next

\* A restart only closes the calls of the peer.
LEMMA RestartVoteCalls ==
    ASSUME StorageInv, NEW i, NEW saved, RestartFrom(i, saved)
    PROVE  voteCallStep
<1>1. PICK lost \in SUBSET {m \in voteCalls : m.peer = i} :
        voteCalls' = {[m EXCEPT !.open = m.open /\ m.CandidateId # i] : m \in voteCalls \ lost}
  BY Zenon DEF RestartFrom
<1>2. voteReplies' \subseteq voteReplies
  BY Zenon DEF RestartFrom
<1>3. ASSUME NEW m \in voteCalls'
      PROVE  \E m0 \in voteCalls : /\ m.Term = m0.Term /\ m.CandidateId = m0.CandidateId
                                   /\ m.LastLogIndex = m0.LastLogIndex
                                   /\ m.LastLogTerm = m0.LastLogTerm
  <2>1. PICK m0 \in voteCalls : m = [m0 EXCEPT !.open = m0.open /\ m0.CandidateId # i]
    BY <1>1, Zenon
  <2>2. m0 \in RequestVoteArgs
    BY Zenon DEF StorageInv, TypeOK
  <2>3. /\ m.Term = m0.Term /\ m.CandidateId = m0.CandidateId
        /\ m.LastLogIndex = m0.LastLogIndex /\ m.LastLogTerm = m0.LastLogTerm
    BY <2>1, <2>2, Zenon DEF RequestVoteArgs
  <2> QED BY <2>3, Zenon
<1> QED BY <1>2, <1>3, Zenon DEF voteCallStep

\* leaderElection describes the log of the candidate.
LEMMA TimeoutVoteCalls ==
    ASSUME StorageInv, NEW i \in Server, Timeout(i)
    PROVE  voteCallStep
<1> DEFINE t == currentTerm[i] + 1
           last == LastLog(log[i])
           call(j) == [Term |-> t, CandidateId |-> i, peer |-> j, LastLogIndex |-> last.Index,
                       LastLogTerm |-> last.Term, open |-> TRUE]
<1>1. /\ \E saved : SetPeer(i, "Candidate", t, i, saved)
      /\ log' = log /\ voteReplies' = voteReplies
      /\ Broadcast({call(j) : j \in Server \ {i}}, voteCalls)
  BY Zenon DEF Timeout, leaderElection
<1>2. currentTerm'[i] = t
  BY <1>1, Zenon DEF SetPeer, StorageInv, TypeOK
<1>3. ASSUME NEW m \in voteCalls', m \notin voteCalls
      PROVE  /\ m.CandidateId = i /\ m.Term = t /\ m.LastLogIndex = last.Index
             /\ m.LastLogTerm = last.Term
  <2>1. PICK j \in Server : m = call(j)
    BY <1>1, <1>3, Zenon DEF Broadcast
  <2> HIDE DEF t, last
  <2> QED BY <2>1, Zenon
<1> HIDE DEF t
<1> QED BY <1>1, <1>2, <1>3, Zenon DEF voteCallStep

\* Requests for votes come from leaderElection alone.
LEMMA VoteCallStep == ASSUME StorageInv, [Next]_vars PROVE voteCallStep
<1>1. ASSUME voteCalls' \subseteq voteCalls,
             \A r \in voteReplies' : r \in voteReplies \/ r.args \in voteCalls
      PROVE  voteCallStep
  BY <1>1, Zenon DEF voteCallStep
<1>2. ASSUME NEW args \in voteCalls, RequestVote(args) PROVE voteCallStep
  <2>1. PICK reply : reply.args = args /\ ReplyToVote(args, reply)
    <3>1. CASE RefuseVote(args)
      <4>1. ReplyToVote(args, [args |-> args, Term |-> currentTerm[args.peer], VoteGranted |-> FALSE])
        BY <3>1, Zenon DEF RefuseVote
      <4> QED BY <4>1, Zenon
    <3>2. CASE ConsiderVote(args)
      <4>1. PICK t, g : ReplyToVote(args, [args |-> args, Term |-> t, VoteGranted |-> g])
        BY <3>2, Zenon DEF ConsiderVote
      <4> QED BY <4>1, Zenon
    <3> QED BY <1>2, <3>1, <3>2, Zenon DEF RequestVote
  <2> QED BY <1>1, <2>1, Zenon DEF ReplyToVote
<1>3. ASSUME NEW i \in Server, HeartBeat(i) \/ \E command \in Command : Start(i, command)
      PROVE  voteCallStep
  BY <1>1, <1>3, Zenon DEF HeartBeat, Start
<1>4. ASSUME NEW i \in Server, Restart(i) PROVE voteCallStep
  BY <1>4, RestartVoteCalls, Zenon DEF Restart
<1>5. ASSUME NEW args \in voteCalls, CrashInVote(args) PROVE voteCallStep
  BY <1>5, RestartVoteCalls, Zenon DEF CrashInVote
<1>6. ASSUME NEW reply \in voteReplies, candidateRequest(reply) PROVE voteCallStep
  BY <1>1, <1>6, Zenon DEF candidateRequest, VoteDenied, VoteCounted, becomeLeader
<1>7. ASSUME NEW args \in appendCalls, AppendEntries(args) PROVE voteCallStep
  BY <1>1, <1>7, Zenon DEF AppendEntries, RefuseEntries, ReportConflict, StoreEntries
<1>8. ASSUME NEW args \in appendCalls, CrashInAppend(args) PROVE voteCallStep
  BY <1>8, RestartVoteCalls, Zenon DEF CrashInAppend
<1>9. ASSUME NEW reply \in appendReplies, leaderSendEntries(reply) PROVE voteCallStep
  BY <1>1, <1>9, Zenon DEF leaderSendEntries
<1>10. CASE UNCHANGED vars
  BY <1>1, <1>10, Zenon DEF vars
<1> QED BY <1>2, <1>3, <1>4, <1>5, <1>6, <1>7, <1>8, <1>9, <1>10, TimeoutVoteCalls, Zenon DEF Next

\* A vote that counts is one for a candidate that has reached the term.
LEMMA GrantsAreSound == StorageInv /\ VoteCallsTrue => GrantsSound
<1> SUFFICES ASSUME StorageInv, VoteCallsTrue, NEW g \in grants
             PROVE  /\ g.voter \in Server /\ g.term \in Nat /\ g.candidate \in Server
                    /\ g.term <= currentTerm[g.candidate]
  BY Zenon DEF GrantsSound
<1>1. ASSUME NEW r \in voteReplies, g = [voter |-> r.args.peer, term |-> r.args.Term,
                                         candidate |-> r.args.CandidateId]
      PROVE  g.candidate \in Server /\ g.term <= currentTerm[g.candidate]
  <2>1. r.args.CandidateId \in Server
    BY Zenon DEF StorageInv, TypeOK, RequestVoteReply, RequestVoteArgs
  <2>2. r.args.Term <= currentTerm[r.args.CandidateId]
    BY Zenon DEF VoteCallsTrue
  <2>3. g.term = r.args.Term /\ g.candidate = r.args.CandidateId
    BY <1>1, Zenon
  <2> QED BY <2>1, <2>2, <2>3, Zenon
<1>2. ASSUME NEW c \in Server, NEW v, g = [voter |-> v, term |-> currentTerm[c], candidate |-> c]
      PROVE  g.candidate \in Server /\ g.term <= currentTerm[g.candidate]
  <2>1. currentTerm[c] \in Nat
    BY Zenon DEF StorageInv, TypeOK
  <2>2. currentTerm[c] <= currentTerm[c]
    BY <2>1
  <2>3. g.term = currentTerm[c] /\ g.candidate = c
    BY <1>2, Zenon
  <2> QED BY <2>2, <2>3, Zenon
<1> QED BY <1>1, <1>2, GrantsDef, GrantsType, Zenon

\* Two majorities share a peer, more peers are still a majority, Commit counts
\* majorities as elections do, and all the peers are one.
LEMMA MajorityFactsHold == MajorityFacts
<1>1. \A Q \in SUBSET Server : Cardinality(Q) \in Nat /\ IsFiniteSet(Q)
  BY FS_Subset, FS_CardinalityType, ServerAssumption, Zenon
<1>2. ASSUME NEW Q \in SUBSET Server, NEW R \in SUBSET Server, voteMajority(Q), voteMajority(R)
      PROVE  \E v \in Q : v \in R
  <2>1. Cardinality(Q) \in Nat /\ Cardinality(R) \in Nat /\ Cardinality(Server) \in Nat
    BY <1>1, Zenon
  <2>2. Cardinality(Q) + Cardinality(R) > Cardinality(Server)
    BY <1>2, <2>1 DEF voteMajority
  <2> QED BY <2>2, FS_MajoritiesIntersect, ServerAssumption, Zenon
<1>3. \A Q \in SUBSET Server : commitMajority(Q) <=> voteMajority(Q)
  <2>1. \A a, b \in Nat : a > b \div 2 <=> 2 * a > b
    OBVIOUS
  <2>2. Cardinality(Server) \in Nat
    BY <1>1, Zenon
  <2> QED BY <1>1, <2>1, <2>2, Zenon DEF commitMajority, voteMajority
<1>4. ASSUME Server # {} PROVE voteMajority(Server)
  <2>1. Cardinality(Server) \in Nat /\ Cardinality(Server) # 0
    BY <1>1, <1>4, FS_EmptySet, ServerAssumption, Zenon
  <2> QED BY <2>1 DEF voteMajority
<1> QED BY <1>2, <1>3, <1>4, MajorityGrows, Zenon DEF MajorityFacts
=============================================================================
