-------------------------- MODULE RaftCommitProofs --------------------------
(***************************************************************************)
(* Committed entries stay, for any number of peers, terms, entries and      *)
(* calls.  The argument follows L, the logs of the leaders.  Every entry    *)
(* was written by the leader of its term, so a log with an entry of term T  *)
(* is up to there what the leader of T wrote.  An entry of the leader's     *)
(* own term that a majority acknowledges is firm: a later leader needs the  *)
(* vote of one of them, and gets it only with a log that has the entry.     *)
(***************************************************************************)
EXTENDS RaftCommitted, RaftMatchingProofs

-----------------------------------------------------------------------------
(* What a step does to the logs                                              *)

\* A step that leaves the logs alone.
LEMMA SameLogs == ASSUME log' = log PROVE \A i \in Server : logStep(i)
BY Zenon DEF logStep

\* Start adds an entry of the leader's term.
LEMMA StartLog ==
    ASSUME LogFacts, StorageInv, NEW i \in Server, NEW command \in Command, Start(i, command)
    PROVE  \A k \in Server : logStep(k)
<1> DEFINE x == [Command |-> command, Term |-> currentTerm[i], Index |-> LastLog(log[i]).Index + 1]
<1>1. /\ state[i] = "Leader" /\ state' = state /\ currentTerm' = currentTerm
      /\ log' = [log EXCEPT ![i] = append(log[i], <<x>>)]
  BY Zenon DEF Start
<1>2. log \in [Server -> Log] /\ Indexed(log[i]) /\ currentTerm[i] \in Nat /\ log[i] \in Log
  BY Zenon DEF StorageInv, TypeOK, LogsIndexed
<1>3. LastLog(log[i]).Index \in Nat
  BY <1>2, Zenon DEF LogFacts, LastLogFact
<1>4. LastLog(log[i]).Index + 1 \in Nat
  BY <1>3
<1>5. x \in Entry /\ x.Term = currentTerm[i] /\ x.Index = LastLog(log[i]).Index + 1
  BY <1>2, <1>4, Zenon DEF Entry
<1> HIDE DEF x
<1>6. log'[i] = append(log[i], <<x>>) /\ \A k \in Server \ {i} : log'[k] = log[k]
  BY <1>1, <1>2, Zenon
<1> QED BY <1>1, <1>5, <1>6, Zenon DEF logStep

\* A restart with a log that is as it was, or cut back by a call.
LEMMA RestartLog ==
    ASSUME StorageInv, NEW i \in Server, NEW t, NEW v, NEW l, RestartFrom(i, persistData(t, v, l)),
           \/ l = log[i]
           \/ \E m \in appendCalls : /\ m.peer = i /\ fits(m) /\ t = m.Term
                                     /\ l = cutBack(log[i], m.Entries)
    PROVE  \A k \in Server : logStep(k)
<1>1. /\ state' = [state EXCEPT ![i] = "Follower"]
      /\ currentTerm' = [currentTerm EXCEPT ![i] = t]
      /\ log' = [log EXCEPT ![i] = l]
  BY Zenon DEF RestartFrom, persistData, SetPeer
<1>2. log \in [Server -> Log] /\ state \in [Server -> Roles] /\ currentTerm \in [Server -> Nat]
  BY Zenon DEF StorageInv, TypeOK
<1>3. /\ state'[i] = "Follower" /\ currentTerm'[i] = t /\ log'[i] = l
      /\ \A k \in Server \ {i} : log'[k] = log[k]
  BY <1>1, <1>2, Zenon
<1> QED BY <1>3, Zenon DEF logStep

\* What follow makes of a peer that gets a call of its term or a later one.
LEMMA FollowTerm ==
    ASSUME StorageInv, NEW args \in appendCalls, current(args)
    PROVE  /\ follow(args.peer, args).currentTerm = args.Term
           /\ follow(args.peer, args).saved =
                persistData(args.Term, follow(args.peer, args).votedFor, log[args.peer])
<1> DEFINE i == args.peer
           q == setNewTerm(i, args.Term)
<1>1. i \in Server /\ args.Term \in Nat /\ currentTerm[i] \in Nat /\ args.Term >= currentTerm[i]
  BY CallType, Zenon DEF current
<1>2. persister[i] = persistData(currentTerm[i], votedFor[i], log[i])
  BY <1>1, Zenon DEF StorageInv, PersisterCurrent
<1>3. args.Term > currentTerm[i] \/ args.Term = currentTerm[i]
  BY <1>1
<1>4. /\ q.currentTerm = args.Term /\ q.saved = persistData(args.Term, q.votedFor, log[i])
      /\ q = [state |-> q.state, currentTerm |-> q.currentTerm, votedFor |-> q.votedFor,
              saved |-> q.saved]
  BY <1>2, <1>3, Zenon DEF setNewTerm
<1>5. follow(i, args) = IF q.state = "Candidate"
                        THEN [q EXCEPT !.state = "Follower",
                                       !.saved = persistData(q.currentTerm, q.votedFor, log[i])]
                        ELSE q
  BY Zenon DEF follow
<1> HIDE DEF q
<1> QED BY <1>4, <1>5, Zenon

\* AppendEntries that stores.
LEMMA StoreLogStep ==
    ASSUME StorageInv, StorageInv', Winners, MatchingInv, rolesStep,
           NEW args \in appendCalls, StoreEntries(args)
    PROVE  \A k \in Server : logStep(k)
<1> DEFINE i == args.peer
           p == follow(i, args)
<1>1. /\ log' = [log EXCEPT ![i] = merge(log[i], args.Entries)] /\ fits(args) /\ current(args)
      /\ \E saved : SetPeer(i, p.state, p.currentTerm, p.votedFor, saved)
  BY Zenon DEF StoreEntries
<1>2. i \in Server /\ log \in [Server -> Log] /\ state \in [Server -> Roles]
  BY CallType, Zenon DEF StorageInv, TypeOK
<1>3. log'[i] = merge(log[i], args.Entries) /\ \A k \in Server \ {i} : log'[k] = log[k]
  BY <1>1, <1>2, Zenon
<1>4. currentTerm'[i] = args.Term /\ state'[i] # "Leader"
  BY StoreRole, Zenon
<1>5. state'[i] # "Candidate"
  <2>1. p.state # "Candidate"
    <3> DEFINE q == setNewTerm(i, args.Term)
    <3>1. q = [state |-> q.state, currentTerm |-> q.currentTerm, votedFor |-> q.votedFor,
               saved |-> q.saved]
      BY Zenon DEF setNewTerm
    <3>2. p = IF q.state = "Candidate"
              THEN [q EXCEPT !.state = "Follower",
                             !.saved = persistData(q.currentTerm, q.votedFor, log[i])]
              ELSE q
      BY Zenon DEF follow
    <3> HIDE DEF q, p
    <3> QED BY <3>1, <3>2, Zenon
  <2>2. state' = [state EXCEPT ![i] = p.state]
    BY <1>1, Zenon DEF SetPeer
  <2> QED BY <1>2, <2>1, <2>2, Zenon
<1>6. state'[i] = "Follower"
  BY <1>2, <1>4, <1>5, Zenon DEF StorageInv, TypeOK, Roles
<1> QED BY <1>1, <1>3, <1>4, <1>6, Zenon DEF logStep

\* Every step changes logs so.
LEMMA LogStep ==
    ASSUME LogFacts, StorageInv, StorageInv', Winners, MatchingInv, rolesStep, [Next]_vars
    PROVE  \A k \in Server : logStep(k)
<1>1. ASSUME NEW i \in Server, Timeout(i) \/ HeartBeat(i) PROVE log' = log
  BY <1>1, Zenon DEF Timeout, HeartBeat
<1>2. ASSUME NEW i \in Server, Restart(i) PROVE \A k \in Server : logStep(k)
  <2>1. persister[i] = persistData(currentTerm[i], votedFor[i], log[i])
    BY Zenon DEF StorageInv, PersisterCurrent
  <2> QED BY <1>2, <2>1, RestartLog, Zenon DEF Restart
<1>3. ASSUME NEW args \in voteCalls, RequestVote(args) PROVE log' = log
  BY <1>3, Zenon DEF RequestVote, RefuseVote, ConsiderVote
<1>4. ASSUME NEW args \in voteCalls, CrashInVote(args) PROVE \A k \in Server : logStep(k)
  <2>1. args.peer \in Server /\ args.Term \in Nat
    BY Zenon DEF StorageInv, TypeOK, RequestVoteArgs
  <2>2. PICK t, v : setNewTerm(args.peer, args.Term).saved = persistData(t, v, log[args.peer])
    BY <2>1, Zenon DEF StorageInv, PersisterCurrent, setNewTerm
  <2> QED BY <1>4, <2>1, <2>2, RestartLog, Zenon DEF CrashInVote
<1>5. ASSUME NEW reply \in voteReplies, candidateRequest(reply) PROVE log' = log
  BY <1>5, Zenon DEF candidateRequest, VoteDenied, VoteCounted, becomeLeader
<1>6. ASSUME NEW args \in appendCalls, AppendEntries(args) PROVE \A k \in Server : logStep(k)
  BY <1>6, SameLogs, StoreLogStep, Zenon DEF AppendEntries, RefuseEntries, ReportConflict
<1>7. ASSUME NEW args \in appendCalls, CrashInAppend(args) PROVE \A k \in Server : logStep(k)
  <2> DEFINE p == follow(args.peer, args)
  <2>1. current(args) /\ args.peer \in Server
    BY <1>7, CallType, Zenon DEF CrashInAppend
  <2>2. p.currentTerm = args.Term /\ p.saved = persistData(args.Term, p.votedFor, log[args.peer])
    BY <2>1, FollowTerm, Zenon
  <2>3. \/ RestartFrom(args.peer, p.saved)
        \/ fits(args) /\ RestartFrom(args.peer, persistData(p.currentTerm, p.votedFor,
                                                cutBack(log[args.peer], args.Entries)))
    BY <1>7, Zenon DEF CrashInAppend
  <2> HIDE DEF p
  <2> QED BY <2>1, <2>2, <2>3, RestartLog, Zenon
<1>8. ASSUME NEW reply \in appendReplies, leaderSendEntries(reply) PROVE log' = log
  BY <1>8, Zenon DEF leaderSendEntries, IgnoreReply
<1>9. CASE UNCHANGED vars
  BY <1>9, SameLogs, Zenon DEF vars
<1> QED BY <1>1, <1>2, <1>3, <1>4, <1>5, <1>6, <1>7, <1>8, <1>9, SameLogs, StartLog, Zenon DEF Next

-----------------------------------------------------------------------------
(* What a leader is told, and what it commits                                *)

\* A step that tells leaders nothing but what is stored.
LEMMA AckFrom ==
    ASSUME \A i, j \in Server : \A n \in Nat :
             state[i] = "Leader" /\ state'[i] = "Leader" /\ n <= matchIndex'[i][j] => Ack(i, j, n),
           \A r \in appendReplies' : r.Success =>
             r \in appendReplies \/ (r.args \in appendCalls /\ StoreEntries(r.args))
    PROVE  ackStep
<1> SUFFICES ASSUME NEW i \in Server, NEW j \in Server, NEW n \in Nat,
                    state[i] = "Leader", state'[i] = "Leader", currentTerm'[i] = currentTerm[i],
                    Ack(i, j, n)'
             PROVE  \/ Ack(i, j, n)
                    \/ \E m \in appendCalls : /\ StoreEntries(m) /\ m.LeaderId = i /\ m.peer = j
                                              /\ m.Term = currentTerm[i]
                                              /\ n <= m.PrevLogIndex + Len(m.Entries)
  BY DEF ackStep
<1>1. CASE n <= matchIndex'[i][j]
  BY <1>1, Zenon
<1>2. CASE ~(n <= matchIndex'[i][j])
  <2>1. PICK r \in appendReplies' : /\ r.Success /\ r.args.LeaderId = i /\ r.args.peer = j
                                    /\ r.args.Term = currentTerm[i] /\ n <= matched(r)
    BY <1>2, Zenon DEF Ack
  <2>2. CASE r \in appendReplies
    BY <2>1, <2>2, Zenon DEF Ack
  <2>3. CASE r.args \in appendCalls /\ StoreEntries(r.args)
    BY <2>1, <2>3, Zenon DEF matched
  <2> QED BY <2>1, <2>2, <2>3, Zenon
<1> QED BY <1>1, <1>2, Zenon

\* What matchIndex says was acknowledged.
LEMMA MatchAck ==
    ASSUME \A i, j \in Server :
             state[i] = "Leader" /\ state'[i] = "Leader" => matchIndex'[i][j] = matchIndex[i][j],
           \A r \in appendReplies' : r.Success =>
             r \in appendReplies \/ (r.args \in appendCalls /\ StoreEntries(r.args))
    PROVE  ackStep
<1>1. \A i, j \in Server : \A n \in Nat :
        state[i] = "Leader" /\ state'[i] = "Leader" /\ n <= matchIndex'[i][j] => Ack(i, j, n)
  BY Zenon DEF Ack
<1> QED BY <1>1, AckFrom, Zenon

\* The crash of a leader ends what it was told.
LEMMA RestartAck ==
    ASSUME StorageInv, NEW i \in Server, NEW saved, RestartFrom(i, saved)
    PROVE  ackStep
<1>1. /\ state' = [state EXCEPT ![i] = "Follower"]
      /\ matchIndex' = [matchIndex EXCEPT ![i] = [j \in Server |-> 0]]
      /\ appendReplies' \subseteq appendReplies
  BY Zenon DEF RestartFrom, SetPeer
<1>2. state'[i] = "Follower" /\ \A k \in Server \ {i} : matchIndex'[k] = matchIndex[k]
  BY <1>1, Zenon DEF StorageInv, TypeOK
<1>3. "Follower" # "Leader"
  OBVIOUS
<1>4. \A k, j \in Server :
        state[k] = "Leader" /\ state'[k] = "Leader" => matchIndex'[k][j] = matchIndex[k][j]
  BY <1>2, <1>3, Zenon
<1> QED BY <1>1, <1>4, MatchAck, Zenon

\* leaderSendEntries takes matchIndex from a reply of the leader's term.
LEMMA ReplyAck ==
    ASSUME ~LateReplies, LogFacts, StorageInv, NEW reply \in appendReplies, leaderSendEntries(reply)
    PROVE  ackStep
<1> DEFINE c == reply.args.LeaderId
           d == reply.args.peer
<1>1. \A r \in appendReplies' : r \in appendReplies
  BY Zenon DEF leaderSendEntries
<1>2. CASE matchIndex' = matchIndex
  BY <1>1, <1>2, MatchAck, Zenon
<1>3. CASE leads(reply) /\ AdvancePeer(reply)
  <2>1. c \in Server /\ d \in Server /\ reply.args.PrevLogIndex \in Nat /\ reply.args.Entries \in Seq(Entry)
    BY Zenon DEF StorageInv, TypeOK, AppendEntriesReply, AppendEntriesArgs
  <2>2. matched(reply) \in Nat
    <3>1. Len(reply.args.Entries) \in Nat
      BY <2>1, SeqLen, Zenon
    <3>2. \A a, b \in Nat : a + b \in Nat
      OBVIOUS
    <3> QED BY <2>1, <3>1, <3>2, Zenon DEF matched
  <2>3. matchIndex \in [Server -> [Server -> Nat]] /\ matchIndex[c][d] \in Nat
    BY <2>1, Zenon DEF StorageInv, TypeOK
  <2>4. Max({matchIndex[c][d], matched(reply)}) \in {matchIndex[c][d], matched(reply)}
    <3>0. \A a, b \in Nat : a + b \in Nat /\ \A x \in {a, b} : x <= a + b
      OBVIOUS
    <3>1. /\ matchIndex[c][d] + matched(reply) \in Nat
          /\ \A x \in {matchIndex[c][d], matched(reply)} : x <= matchIndex[c][d] + matched(reply)
      BY <2>2, <2>3, <3>0, Zenon
    <3>2. {matchIndex[c][d], matched(reply)} \in SUBSET Nat
      BY <2>2, <2>3, Zenon
    <3>3. {matchIndex[c][d], matched(reply)} # {}
      BY Zenon
    <3> QED BY <3>1, <3>2, <3>3, Zenon DEF LogFacts, MaxFact
  <2>5. /\ reply.Success
        /\ matchIndex' = [matchIndex EXCEPT ![c] =
                            [matchIndex[c] EXCEPT ![d] = Max({@, matched(reply)})]]
    BY <1>3, Zenon DEF AdvancePeer
  <2>6. /\ matchIndex'[c][d] \in {matchIndex[c][d], matched(reply)}
        /\ \A k, j \in Server : k # c \/ j # d => matchIndex'[k][j] = matchIndex[k][j]
    <3>1. \A k \in Server \ {c} : matchIndex'[k] = matchIndex[k]
      BY <2>3, <2>5, Zenon
    <3>2. matchIndex'[c] = [matchIndex[c] EXCEPT ![d] = Max({matchIndex[c][d], matched(reply)})]
      BY <2>1, <2>3, <2>5, Zenon
    <3>3. matchIndex[c] \in [Server -> Nat]
      BY <2>1, <2>3, Zenon
    <3>4. /\ matchIndex'[c][d] = Max({matchIndex[c][d], matched(reply)})
          /\ \A j \in Server \ {d} : matchIndex'[c][j] = matchIndex[c][j]
      BY <2>1, <3>2, <3>3, Zenon
    <3> QED BY <2>4, <3>1, <3>4, Zenon
  <2>7. reply.args.Term = currentTerm[c]
    BY <1>3, Zenon DEF leads, CallFailed
  <2>8. ASSUME NEW k \in Server, NEW j \in Server, NEW n \in Nat, n <= matchIndex'[k][j]
        PROVE  Ack(k, j, n)
    <3>1. CASE k # c \/ j # d
      BY <2>6, <2>8, <3>1, Zenon DEF Ack
    <3>2. CASE k = c /\ j = d
      <4>1. n <= matchIndex[c][d] \/ n <= matched(reply)
        BY <2>6, <2>8, <3>2, Zenon
      <4> QED BY <2>5, <2>7, <3>2, <4>1, Zenon DEF Ack
    <3> QED BY <3>1, <3>2, Zenon
  <2> QED BY <1>1, <2>8, AckFrom, Zenon
<1> QED BY <1>2, <1>3, Zenon DEF leaderSendEntries, IgnoreReply, BackUpPeer, leaderVars

\* AppendEntries says so only of what it has stored.
LEMMA AppendAck ==
    ASSUME NEW args \in appendCalls, AppendEntries(args)
    PROVE  ackStep
<1>1. matchIndex' = matchIndex
  BY Zenon DEF AppendEntries, RefuseEntries, ReportConflict, StoreEntries, leaderVars
<1>2. ASSUME NEW r, ReplyToAppend(args, r), r.args = args, r.Success => StoreEntries(args)
      PROVE  ackStep
  BY <1>1, <1>2, MatchAck, Zenon DEF ReplyToAppend
<1>3. CASE StoreEntries(args)
  <2>1. ReplyToAppend(args, answer(args, currentTerm[args.peer], TRUE))
    BY <1>3, Zenon DEF StoreEntries
  <2>2. answer(args, currentTerm[args.peer], TRUE).args = args
    BY Zenon DEF answer
  <2> QED BY <1>2, <1>3, <2>1, <2>2, Zenon
<1>4. CASE RefuseEntries(args)
  <2>1. ReplyToAppend(args, answer(args, currentTerm[args.peer], FALSE))
    BY <1>4, Zenon DEF RefuseEntries
  <2>2. /\ answer(args, currentTerm[args.peer], FALSE).args = args
        /\ ~answer(args, currentTerm[args.peer], FALSE).Success
    BY Zenon DEF answer
  <2> QED BY <1>2, <2>1, <2>2, Zenon
<1>5. CASE ReportConflict(args)
  <2>1. ReplyToAppend(args, conflict(args))
    BY <1>5, Zenon DEF ReportConflict
  <2>2. conflict(args).args = args /\ ~conflict(args).Success
    BY Zenon DEF conflict
  <2> QED BY <1>2, <2>1, <2>2, Zenon
<1> QED BY <1>3, <1>4, <1>5, Zenon DEF AppendEntries

\* Every step tells a leader only what is so.
LEMMA AckStep == ASSUME ~LateReplies, LogFacts, StorageInv, [Next]_vars PROVE ackStep
<1>1. ASSUME matchIndex' = matchIndex, appendReplies' = appendReplies PROVE ackStep
  BY <1>1, MatchAck, Zenon
<1>2. ASSUME NEW i \in Server, Timeout(i) \/ HeartBeat(i) PROVE ackStep
  BY <1>1, <1>2, Zenon DEF Timeout, leaderElection, HeartBeat, leaderVars
<1>3. ASSUME NEW i \in Server, Restart(i) PROVE ackStep
  BY <1>3, RestartAck, Zenon DEF Restart
<1>4. ASSUME NEW i \in Server, NEW command \in Command, Start(i, command) PROVE ackStep
  BY <1>1, <1>4, Zenon DEF Start, leaderVars
<1>5. ASSUME NEW args \in voteCalls, RequestVote(args) PROVE ackStep
  BY <1>1, <1>5, Zenon DEF RequestVote, RefuseVote, ConsiderVote, leaderVars
<1>6. ASSUME NEW args \in voteCalls, CrashInVote(args) PROVE ackStep
  <2>1. args.peer \in Server
    BY Zenon DEF StorageInv, TypeOK, RequestVoteArgs
  <2> QED BY <1>6, <2>1, RestartAck, Zenon DEF CrashInVote
<1>7. ASSUME NEW reply \in voteReplies, VoteDenied(reply) \/ VoteCounted(reply) PROVE ackStep
  BY <1>1, <1>7, Zenon DEF VoteDenied, VoteCounted, leaderVars
<1>8. ASSUME NEW reply \in voteReplies, becomeLeader(reply) PROVE ackStep
  <2> DEFINE c == reply.args.CandidateId
  <2>1. /\ matchIndex' = [matchIndex EXCEPT ![c] = [j \in Server |-> 0]]
        /\ state[c] = "Candidate" /\ appendReplies' = appendReplies
    BY <1>8, Zenon DEF becomeLeader, elected
  <2>2. \A k \in Server \ {c} : matchIndex'[k] = matchIndex[k]
    BY <2>1, Zenon DEF StorageInv, TypeOK
  <2>3. "Candidate" # "Leader"
    OBVIOUS
  <2>4. \A k, j \in Server :
          state[k] = "Leader" /\ state'[k] = "Leader" => matchIndex'[k][j] = matchIndex[k][j]
    BY <2>1, <2>2, <2>3, Zenon
  <2> QED BY <2>1, <2>4, MatchAck, Zenon
<1>9. ASSUME NEW args \in appendCalls, CrashInAppend(args) PROVE ackStep
  <2>1. args.peer \in Server
    BY CallType, Zenon
  <2> QED BY <1>9, <2>1, RestartAck, Zenon DEF CrashInAppend
<1>10. CASE UNCHANGED vars
  BY <1>1, <1>10, Zenon DEF vars
<1> QED BY <1>2, <1>3, <1>4, <1>5, <1>6, <1>7, <1>8, <1>9, <1>10, ReplyAck, AppendAck, Zenon
       DEF Next, candidateRequest

\* A restart starts from nothing committed.
LEMMA RestartCommit ==
    ASSUME StorageInv, MatchingInv', NEW i \in Server, NEW saved, RestartFrom(i, saved)
    PROVE  commitStep
<1>1. /\ log' = [log EXCEPT ![i] = saved.log]
      /\ commitIndex' = [commitIndex EXCEPT ![i] = saved.log.Index0]
  BY Zenon DEF RestartFrom
<1>2. /\ log'[i] = saved.log /\ commitIndex'[i] = saved.log.Index0
      /\ \A k \in Server \ {i} : commitIndex'[k] = commitIndex[k]
  BY <1>1, Zenon DEF StorageInv, TypeOK
<1>3. log'[i].Index0 = 0
  BY Zenon DEF MatchingInv, Bootstrapped
<1> QED BY <1>2, <1>3, Zenon DEF commitStep

\* AppendEntries follows the leader's commitIndex.
LEMMA StoreCommit ==
    ASSUME StorageInv, NEW args \in appendCalls, StoreEntries(args)
    PROVE  commitStep
<1> DEFINE i == args.peer
           l == merge(log[i], args.Entries)
<1>1. /\ log' = [log EXCEPT ![i] = l]
      /\ commitIndex' = [commitIndex EXCEPT ![i] = followCommit(@, args.LeaderCommit, l)]
  BY Zenon DEF StoreEntries
<1>2. i \in Server /\ args.LeaderCommit \in Nat
  BY Zenon DEF StorageInv, TypeOK, AppendEntriesArgs
<1> HIDE DEF l
<1>3. /\ log'[i] = l /\ commitIndex'[i] = followCommit(commitIndex[i], args.LeaderCommit, l)
      /\ \A k \in Server \ {i} : commitIndex'[k] = commitIndex[k]
  BY <1>1, <1>2, Zenon DEF StorageInv, TypeOK
<1>4. args.LeaderCommit > commitIndex[i] => args.LeaderCommit > 0
  <2>1. commitIndex[i] \in Nat
    BY <1>2, Zenon DEF StorageInv, TypeOK
  <2> QED BY <1>2, <2>1
<1>5. \/ commitIndex'[i] = commitIndex[i]
      \/ /\ args.LeaderCommit > 0
         /\ commitIndex'[i] = Min({args.LeaderCommit, LastLog(log'[i]).Index})
  BY <1>3, <1>4, Zenon DEF followCommit
<1> QED BY <1>3, <1>5, Zenon DEF commitStep

\* Commit counts the peers that match.
LEMMA ReplyCommit ==
    ASSUME LogFacts, StorageInv, NEW reply \in appendReplies, leaderSendEntries(reply)
    PROVE  commitStep
<1> DEFINE i == reply.args.LeaderId
           ready == {n \in commitIndex[i] + 1 .. LastLog(log[i]).Index :
                       /\ at(log[i], n).Term = currentTerm[i]
                       /\ commitMajority({i} \cup {j \in Server \ {i} : matchIndex'[i][j] >= n})}
<1>1. i \in Server
  BY Zenon DEF StorageInv, TypeOK, AppendEntriesReply, AppendEntriesArgs
<1>2. CASE commitIndex' = commitIndex
  BY <1>2, Zenon DEF commitStep
<1>3. CASE leads(reply) /\ Commit(i, matchIndex'[i]) /\ UNCHANGED <<peerVars, log>>
  <2>1. commitIndex' = [commitIndex EXCEPT ![i] = IF ready = {} THEN @ ELSE Max(ready)]
    BY <1>3, Zenon DEF Commit
  <2>2. /\ commitIndex'[i] = IF ready = {} THEN commitIndex[i] ELSE Max(ready)
        /\ \A k \in Server \ {i} : commitIndex'[k] = commitIndex[k]
    BY <1>1, <2>1, Zenon DEF StorageInv, TypeOK
  <2>3. /\ state'[i] = "Leader" /\ log'[i] = log[i] /\ currentTerm'[i] = currentTerm[i]
    BY <1>3, Zenon DEF leads, peerVars
  <2>4. LastLog(log[i]).Index \in Nat /\ commitIndex[i] \in Nat
    BY <1>1, Zenon DEF StorageInv, TypeOK, LogsIndexed, LogFacts, LastLogFact
  <2>5. ready \in SUBSET Nat /\ \A x \in ready : x <= LastLog(log[i]).Index /\ x \in 1 .. LastLog(log[i]).Index
    <3>1. \A x \in commitIndex[i] + 1 .. LastLog(log[i]).Index :
            x \in Nat /\ x <= LastLog(log[i]).Index /\ x \in 1 .. LastLog(log[i]).Index
      BY <2>4
    <3> QED BY <3>1, Zenon
  <2>6. CASE ready = {}
    BY <2>2, <2>6, Zenon DEF commitStep
  <2>7. CASE ready # {}
    <3>1. Max(ready) \in ready
      <4> HIDE DEF ready
      <4> QED BY <2>4, <2>5, <2>7, Zenon DEF LogFacts, MaxFact
    <3>2. /\ at(log[i], Max(ready)).Term = currentTerm[i]
          /\ commitMajority({i} \cup {j \in Server \ {i} : matchIndex'[i][j] >= Max(ready)})
      BY <3>1, Zenon
    <3>3. commitIndex'[i] = Max(ready) /\ Max(ready) \in 1 .. LastLog(log[i]).Index
      BY <2>2, <2>5, <2>7, <3>1, Zenon
    <3> HIDE DEF ready
    <3> QED BY <2>2, <2>3, <3>2, <3>3, Zenon DEF commitStep
  <2> QED BY <2>6, <2>7, Zenon
<1>4. ASSUME leads(reply), AdvancePeer(reply), UNCHANGED <<peerVars, log>>
      PROVE  Commit(i, matchIndex'[i])
  <2>1. PICK match : matchIndex' = [matchIndex EXCEPT ![i] = match] /\ Commit(i, match)
    BY <1>4, Zenon DEF AdvancePeer
  <2>2. matchIndex'[i] = match
    BY <1>1, <2>1, Zenon DEF StorageInv, TypeOK
  <2> QED BY <2>1, <2>2, Zenon
<1>5. ASSUME leads(reply), BackUpPeer(reply)
      PROVE  Commit(i, matchIndex'[i])
  BY <1>5, Zenon DEF BackUpPeer
<1> QED BY <1>2, <1>3, <1>4, <1>5, Zenon DEF leaderSendEntries, IgnoreReply

\* Every step commits so.
LEMMA CommitStep == ASSUME LogFacts, StorageInv, MatchingInv', [Next]_vars PROVE commitStep
<1>1. ASSUME commitIndex' = commitIndex PROVE commitStep
  BY <1>1, Zenon DEF commitStep
<1>2. ASSUME NEW i \in Server, Timeout(i) \/ HeartBeat(i) PROVE commitStep
  BY <1>1, <1>2, Zenon DEF Timeout, HeartBeat
<1>3. ASSUME NEW i \in Server, Restart(i) PROVE commitStep
  BY <1>3, RestartCommit, Zenon DEF Restart
<1>4. ASSUME NEW i \in Server, NEW command \in Command, Start(i, command) PROVE commitStep
  BY <1>1, <1>4, Zenon DEF Start
<1>5. ASSUME NEW args \in voteCalls, RequestVote(args) PROVE commitStep
  BY <1>1, <1>5, Zenon DEF RequestVote, RefuseVote, ConsiderVote
<1>6. ASSUME NEW args \in voteCalls, CrashInVote(args) PROVE commitStep
  <2>1. args.peer \in Server
    BY Zenon DEF StorageInv, TypeOK, RequestVoteArgs
  <2> QED BY <1>6, <2>1, RestartCommit, Zenon DEF CrashInVote
<1>7. ASSUME NEW reply \in voteReplies, candidateRequest(reply) PROVE commitStep
  BY <1>1, <1>7, Zenon DEF candidateRequest, VoteDenied, VoteCounted, becomeLeader
<1>8. ASSUME NEW args \in appendCalls, AppendEntries(args) PROVE commitStep
  BY <1>1, <1>8, StoreCommit, Zenon DEF AppendEntries, RefuseEntries, ReportConflict
<1>9. ASSUME NEW args \in appendCalls, CrashInAppend(args) PROVE commitStep
  <2>1. args.peer \in Server
    BY CallType, Zenon
  <2> QED BY <1>9, <2>1, RestartCommit, Zenon DEF CrashInAppend
<1>10. CASE UNCHANGED vars
  BY <1>1, <1>10, Zenon DEF vars
<1> QED BY <1>2, <1>3, <1>4, <1>5, <1>6, <1>7, <1>8, <1>9, <1>10, ReplyCommit, Zenon DEF Next

-----------------------------------------------------------------------------
(* Candidates                                                                *)

\* A candidate keeps its log, and its requests describe it.
LEMMA VoteCallsStep ==
    ASSUME StorageInv, StorageInv', VoteCallsTrue, keepsVotes, rolesStep, voteCallStep,
           \A k \in Server : logStep(k)
    PROVE  VoteCallsTrue'
<1>2. \A k \in Server : /\ currentTerm[k] \in Nat /\ currentTerm'[k] \in Nat
                        /\ currentTerm[k] <= currentTerm'[k]
  <2>1. ASSUME NEW k \in Server PROVE currentTerm[k] <= currentTerm'[k]
    <3>1. currentTerm[k] \in Nat /\ currentTerm'[k] \in Nat /\ currentTerm'[k] >= currentTerm[k]
      BY Zenon DEF StorageInv, TypeOK, keepsVotes
    <3> QED BY <3>1
  <2> QED BY <2>1, Zenon DEF StorageInv, TypeOK
<1>3. ASSUME NEW k \in Server, state'[k] = "Candidate" PROVE log'[k] = log[k]
  <2>1. "Candidate" # "Leader" /\ "Candidate" # "Follower"
    OBVIOUS
  <2> QED BY <1>3, <2>1, Zenon DEF logStep
<1>4. \A m \in voteCalls : m.Term \in Nat /\ m.CandidateId \in Server
  BY Zenon DEF StorageInv, TypeOK, RequestVoteArgs
<1>5. \A r \in voteReplies : r.args.Term \in Nat /\ r.args.CandidateId \in Server
  BY Zenon DEF StorageInv, TypeOK, RequestVoteReply, RequestVoteArgs
<1>6. ASSUME NEW m \in voteCalls'
      PROVE  /\ m.Term <= currentTerm'[m.CandidateId]
             /\ state'[m.CandidateId] = "Candidate" /\ currentTerm'[m.CandidateId] = m.Term =>
                  /\ m.LastLogIndex = LastLog(log'[m.CandidateId]).Index
                  /\ m.LastLogTerm = LastLog(log'[m.CandidateId]).Term
  <2>1. CASE \E m0 \in voteCalls : /\ m.Term = m0.Term /\ m.CandidateId = m0.CandidateId
                                   /\ m.LastLogIndex = m0.LastLogIndex
                                   /\ m.LastLogTerm = m0.LastLogTerm
    <3>1. PICK m0 \in voteCalls : /\ m.Term = m0.Term /\ m.CandidateId = m0.CandidateId
                                  /\ m.LastLogIndex = m0.LastLogIndex
                                  /\ m.LastLogTerm = m0.LastLogTerm
      BY <2>1, Zenon
    <3> DEFINE c == m0.CandidateId
    <3>2. /\ m0.Term <= currentTerm[c]
          /\ state[c] = "Candidate" /\ currentTerm[c] = m0.Term =>
               m0.LastLogIndex = LastLog(log[c]).Index /\ m0.LastLogTerm = LastLog(log[c]).Term
      BY Zenon DEF VoteCallsTrue
    <3>3. m0.Term <= currentTerm'[c] /\ (currentTerm'[c] = m0.Term => currentTerm[c] = m0.Term)
      <4>1. /\ m0.Term \in Nat /\ currentTerm[c] \in Nat /\ currentTerm'[c] \in Nat
            /\ currentTerm[c] <= currentTerm'[c] /\ m0.Term <= currentTerm[c]
        BY <1>2, <1>4, <3>2, Zenon
      <4> HIDE DEF c
      <4> QED BY <4>1
    <3>4. ASSUME state'[c] = "Candidate", currentTerm'[c] = m0.Term PROVE state[c] = "Candidate"
      <4>1. c \in Server /\ currentTerm'[c] = currentTerm[c] /\ ~(currentTerm'[c] > currentTerm[c])
        <5>1. c \in Server /\ currentTerm'[c] = currentTerm[c] /\ currentTerm[c] \in Nat
          BY <1>2, <1>4, <3>3, <3>4, Zenon
        <5> QED BY <5>1
      <4> QED BY <3>4, <4>1, Zenon DEF rolesStep
    <3> QED BY <1>3, <1>4, <3>1, <3>2, <3>3, <3>4, Zenon
  <2>2. CASE /\ m.CandidateId \in Server /\ m.Term = currentTerm'[m.CandidateId]
             /\ m.LastLogIndex = LastLog(log'[m.CandidateId]).Index
             /\ m.LastLogTerm = LastLog(log'[m.CandidateId]).Term
    <3>1. m.Term <= currentTerm'[m.CandidateId]
      BY <1>2, <2>2
    <3> QED BY <2>2, <3>1, Zenon
  <2> QED BY <1>6, <2>1, <2>2, Zenon DEF voteCallStep
<1>7. ASSUME NEW r \in voteReplies' PROVE r.args.Term <= currentTerm'[r.args.CandidateId]
  <2>1. r.args.Term \in Nat /\ r.args.CandidateId \in Server
    BY <1>4, <1>5, <1>7, Zenon DEF voteCallStep
  <2>2. r.args.Term <= currentTerm[r.args.CandidateId]
    BY <1>7, Zenon DEF voteCallStep, VoteCallsTrue
  <2>3. /\ currentTerm[r.args.CandidateId] \in Nat /\ currentTerm'[r.args.CandidateId] \in Nat
        /\ currentTerm[r.args.CandidateId] <= currentTerm'[r.args.CandidateId]
    BY <1>2, <2>1, Zenon
  <2> QED BY <2>1, <2>2, <2>3
<1> QED BY <1>6, <1>7, Zenon DEF VoteCallsTrue

-----------------------------------------------------------------------------
(* The logs of the leaders                                                   *)

\* What the lemmas below need to know of a step.
soundStep ==
    /\ StorageInv /\ StorageInv' /\ LogsSound /\ LogsSound' /\ Winners /\ Winners' /\ MatchingInv
    /\ keepsVotes /\ newGrants /\ rolesStep /\ orderly /\ replyStep
    /\ \A i \in Server : logStep(i)

\* Terms never fall.
LEMMA TermsGrow ==
    ASSUME StorageInv, StorageInv', keepsVotes, NEW k \in Server
    PROVE  currentTerm[k] \in Nat /\ currentTerm'[k] \in Nat /\ currentTerm[k] <= currentTerm'[k]
<1>1. currentTerm[k] \in Nat /\ currentTerm'[k] \in Nat /\ currentTerm'[k] >= currentTerm[k]
  BY Zenon DEF StorageInv, TypeOK, keepsVotes
<1> QED BY <1>1

\* What log matching says of a log, as one of the pieces.
LEMMA LogsAreSound == LogFacts /\ StorageInv /\ MatchingInv => LogsSound
<1> SUFFICES ASSUME LogFacts, StorageInv, MatchingInv, NEW i \in Server
             PROVE  /\ log[i] \in Log /\ Indexed(log[i]) /\ log[i].Index0 = 0
                    /\ LastLog(log[i]).Index \in Nat
                    /\ Indices(log[i]) = 0 .. LastLog(log[i]).Index
                    /\ Sound(logPiece(log[i])) /\ rooted(logPiece(log[i]))
                    /\ logPiece(log[i]).hi = LastLog(log[i]).Index
                    /\ \A n \in Indices(log[i]) : logPiece(log[i]).e[n] = at(log[i], n)
  BY Zenon DEF LogsSound
<1>1. LastLog(log[i]).Index \in Nat /\ Indices(log[i]) = 0 .. LastLog(log[i]).Index
  BY LogSound, Zenon
<1>2. 0 \in Indices(log[i])
  BY <1>1
<1>3. rooted(logPiece(log[i]))
  <2>1. at(log[i], 0) = labelled(0, 0)
    BY Zenon DEF MatchingInv, Bootstrapped
  <2> QED BY <1>1, <1>2, <2>1, LogSound, Zenon DEF rooted
<1> QED BY <1>3, LogSound, Zenon

\* A piece has its own entries.
LEMMA SameSelf == ASSUME NEW f, NEW b, b <= f.hi PROVE SameUpTo(f, f, b)
BY Zenon DEF SameUpTo

\* Having the same entries goes both ways.
LEMMA SameBack ==
    ASSUME LogFacts, NEW f, NEW g, NEW b, SameUpTo(f, g, b) PROVE SameUpTo(g, f, b)
BY Zenon DEF LogFacts, SameFact

\* It goes through a third piece.
LEMMA SameThrough ==
    ASSUME LogFacts, NEW f, NEW g, NEW h, NEW b, SameUpTo(f, g, b), SameUpTo(g, h, b)
    PROVE  SameUpTo(f, h, b)
BY Zenon DEF LogFacts, SameFact

\* It goes for fewer entries.
LEMMA SameLess ==
    ASSUME LogFacts, NEW f, NEW g, f.hi \in Nat, g.hi \in Nat, NEW b \in Nat, SameUpTo(f, g, b),
           NEW c \in Nat, c <= b
    PROVE  SameUpTo(f, g, c)
BY Zenon DEF LogFacts, SameFact

\* There is a next L: a term has one leader, so its log is one.
LEMMA NextLogs == ASSUME Winners', NEW L PROVE \E M : nextLogs(L, M)
<1> DEFINE leads2(i, u) == state'[i] = "Leader" /\ currentTerm'[i] = u
           ledBy(u) == CHOOSE i \in Server : leads2(i, u)
           D == DOMAIN L \cup {currentTerm'[i] : i \in {k \in Server : state'[k] = "Leader"}}
<1>1. PICK M : M = [u \in D |-> IF \E i \in Server : leads2(i, u)
                                THEN logPiece(log'[ledBy(u)]) ELSE L[u]]
  BY Zenon
<1>2. ASSUME NEW i \in Server, NEW u, leads2(i, u) PROVE ledBy(u) = i
  <2>1. ledBy(u) \in Server /\ leads2(ledBy(u), u)
    BY <1>2, Zenon
  <2> HIDE DEF ledBy
  <2> QED BY <1>2, <2>1, Zenon DEF Winners, LeadersWon, LeaderUnique
<1>3. DOMAIN M = D /\ \A u \in D : M[u] = IF \E i \in Server : leads2(i, u)
                                         THEN logPiece(log'[ledBy(u)]) ELSE L[u]
  BY <1>1, Zenon
<1>4. ASSUME NEW u \in D PROVE u \in DOMAIN L \/ \E i \in Server : leads2(i, u)
  BY <1>4, Zenon
<1>5. DOMAIN L \subseteq D /\ \A i \in Server : state'[i] = "Leader" => currentTerm'[i] \in D
  BY Zenon
<1> HIDE DEF ledBy, D
<1>6. nextLogs(L, M)
  <2>1. ASSUME NEW i \in Server, state'[i] = "Leader"
        PROVE  currentTerm'[i] \in DOMAIN M /\ M[currentTerm'[i]] = logPiece(log'[i])
    BY <1>2, <1>3, <1>5, <2>1, Zenon
  <2>2. ASSUME NEW u \in DOMAIN M
        PROVE  \/ \E i \in Server : /\ state'[i] = "Leader" /\ currentTerm'[i] = u
                                    /\ M[u] = logPiece(log'[i])
               \/ u \in DOMAIN L /\ M[u] = L[u]
    <3>1. CASE \E i \in Server : leads2(i, u)
      BY <2>1, <3>1, Zenon
    <3>2. CASE ~ \E i \in Server : leads2(i, u)
      BY <1>3, <1>4, <2>2, <3>2, Zenon
    <3> QED BY <3>1, <3>2, Zenon
  <2> QED BY <1>3, <1>5, <2>1, <2>2, Zenon DEF nextLogs
<1> QED BY <1>6, Zenon

\* The term of a new leader has had none.
LEMMA NewLeaderTerm ==
    ASSUME soundStep, NEW L, LedTerms(L), NEW i \in Server, state'[i] = "Leader",
           state[i] # "Leader"
    PROVE  currentTerm'[i] \notin DOMAIN L
<1> SUFFICES ASSUME currentTerm'[i] \in DOMAIN L PROVE FALSE
  OBVIOUS
<1>0. PICK t : t = currentTerm'[i]
  OBVIOUS
<1>1. t \in Nat /\ currentTerm[i] = t /\ state[i] = "Candidate"
  BY <1>0, Zenon DEF soundStep, StorageInv, TypeOK, rolesStep
<1>2. PICK c \in Server : Won(t, c) /\ Past(t, c)
  BY <1>0, Zenon DEF LedTerms, Begun
<1>3. Won(t, c)'
  BY <1>1, <1>2, WonStable, Zenon DEF soundStep
<1>4. i = c
  BY <1>0, <1>3, Zenon DEF soundStep, Winners, LeaderUnique
<1>5. ~(currentTerm[i] > t)
  BY <1>1
<1> QED BY <1>1, <1>2, <1>4, <1>5, Zenon DEF Past

\* A leader only adds to its log.
LEMMA LeaderGrows ==
    ASSUME soundStep, NEW i \in Server, state'[i] = "Leader"
    PROVE  /\ SameUpTo(logPiece(log[i]), logPiece(log'[i]), LastLog(log[i]).Index)
           /\ LastLog(log[i]).Index <= LastLog(log'[i]).Index
<1> DEFINE b == LastLog(log[i]).Index
           c == LastLog(log'[i]).Index
<1>1. /\ b \in Nat /\ Indices(log[i]) = 0 .. b /\ logPiece(log[i]).hi = b
      /\ \A n \in Indices(log[i]) : logPiece(log[i]).e[n] = at(log[i], n)
  BY Zenon DEF soundStep, LogsSound
<1>2. /\ c \in Nat /\ Indices(log'[i]) = 0 .. c /\ logPiece(log'[i]).hi = c
      /\ \A n \in Indices(log'[i]) : logPiece(log'[i]).e[n] = at(log'[i], n)
  BY Zenon DEF soundStep, LogsSound
<1>3. c >= b /\ \A n \in Indices(log[i]) : at(log'[i], n) = at(log[i], n)
  BY Zenon DEF soundStep, orderly, leadersKeep
<1> HIDE DEF b, c
<1>4. b <= b /\ b <= c /\ \A n \in 0 .. b : n \in 0 .. c
  BY <1>1, <1>2, <1>3
<1>5. SameUpTo(logPiece(log[i]), logPiece(log'[i]), b)
  BY <1>1, <1>2, <1>3, <1>4, Zenon DEF SameUpTo
<1> QED BY <1>4, <1>5, Zenon DEF b, c

\* A leader of a term that has had one is that one.
LEMMA OldLeader ==
    ASSUME soundStep, NEW L, LedTerms(L), LeaderLogs(L), NEW i \in Server, state'[i] = "Leader",
           currentTerm'[i] \in DOMAIN L
    PROVE  state[i] = "Leader" /\ currentTerm[i] = currentTerm'[i] /\ L[currentTerm'[i]] = logPiece(log[i])
<1>1. state[i] = "Leader" /\ currentTerm[i] = currentTerm'[i]
  BY NewLeaderTerm, Zenon DEF soundStep, rolesStep
<1> QED BY <1>1, Zenon DEF LeaderLogs

\* L only grows.
LEMMA LogsGrow ==
    ASSUME soundStep, NEW L, LedTerms(L), LeaderLogs(L), NEW M, nextLogs(L, M)
    PROVE  Grows(L, M)
<1> SUFFICES ASSUME NEW u \in DOMAIN L
             PROVE  /\ u \in DOMAIN M /\ rooted(L[u]) /\ rooted(M[u])
                    /\ SameUpTo(L[u], M[u], L[u].hi)
  BY Zenon DEF Grows
<1>1. u \in DOMAIN M /\ rooted(L[u]) /\ L[u].hi \in Nat
  BY Zenon DEF nextLogs, LedTerms, rooted
<1>2. CASE M[u] = L[u]
  <2>1. L[u].hi <= L[u].hi
    BY <1>1
  <2> QED BY <1>1, <1>2, <2>1, SameSelf, Zenon
<1>3. ASSUME NEW i \in Server, state'[i] = "Leader", currentTerm'[i] = u, M[u] = logPiece(log'[i])
      PROVE  rooted(M[u]) /\ SameUpTo(L[u], M[u], L[u].hi)
  <2>1. L[u] = logPiece(log[i])
    BY <1>3, OldLeader, Zenon
  <2>2. L[u].hi = LastLog(log[i]).Index /\ rooted(M[u])
    BY <1>3, <2>1, Zenon DEF soundStep, LogsSound
  <2> QED BY <1>3, <2>1, <2>2, LeaderGrows, Zenon
<1> QED BY <1>1, <1>2, <1>3, Zenon DEF nextLogs

\* The terms in L have begun.
LEMMA LedTermsStep ==
    ASSUME soundStep, NEW L, LedTerms(L), NEW M, nextLogs(L, M)
    PROVE  LedTerms(M)'
<1>1. ASSUME NEW u \in DOMAIN M
      PROVE  u \in Nat /\ Begun(u)' /\ Sound(M[u]) /\ rooted(M[u])
  <2>1. CASE u \in DOMAIN L /\ M[u] = L[u]
    <3>1. u \in Nat /\ Begun(u) /\ Sound(M[u]) /\ rooted(M[u])
      BY <2>1, Zenon DEF LedTerms
    <3> QED BY <3>1, BegunStable, Zenon DEF soundStep
  <2>2. ASSUME NEW i \in Server, state'[i] = "Leader", currentTerm'[i] = u, M[u] = logPiece(log'[i])
        PROVE  u \in Nat /\ Begun(u)' /\ Sound(M[u]) /\ rooted(M[u])
    <3>1. u \in Nat /\ Sound(M[u]) /\ rooted(M[u])
      BY <2>2, Zenon DEF soundStep, LogsSound, StorageInv, TypeOK
    <3>2. Won(u, i)' /\ Past(u, i)'
      BY <2>2, Zenon DEF soundStep, Winners, LeadersWon
    <3> QED BY <3>1, <3>2, Zenon DEF Begun
  <2> QED BY <2>1, <2>2, Zenon DEF nextLogs
<1> QED BY <1>1, Zenon DEF LedTerms

\* Calls are cut out of the leader's log, also as it grows.
LEMMA SentStep ==
    ASSUME LogFacts, soundStep, NEW L, SentFrom(L), NEW M, nextLogs(L, M), Grows(L, M)
    PROVE  SentFrom(M)'
<1>1. ASSUME NEW m \in requests PROVE m.Term \in DOMAIN M /\ PartOf(callPiece(m), M[m.Term])
  <2>1. m.Term \in DOMAIN L /\ PartOf(callPiece(m), L[m.Term])
    BY Zenon DEF SentFrom
  <2> QED BY <2>1, Zenon DEF LogFacts, GrowFact, Grows
<1>2. ASSUME NEW m \in requests' PROVE m \in appendCalls' \/ m \in requests
  <2>1. m \in appendCalls' \/ \E r \in appendReplies' : m = r.args
    BY <1>2, Zenon DEF requests
  <2>2. \A r \in appendReplies' : r.args \in requests
    BY Zenon DEF soundStep, replyStep, requests
  <2> QED BY <2>1, <2>2, Zenon
<1>3. ASSUME NEW m \in appendCalls' PROVE m.Term \in DOMAIN M /\ PartOf(callPiece(m), M[m.Term])
  <2>1. CASE twin(m)
    <3>1. \A k \in appendCalls : k \in requests
      BY Zenon DEF requests
    <3> QED BY <1>1, <2>1, <3>1, Zenon DEF twin
  <2>2. CASE sent(m)
    BY <2>2, Zenon DEF sent, nextLogs
  <2> QED BY <1>3, <2>1, <2>2, Zenon DEF soundStep, orderly
<1>4. ASSUME NEW m \in requests' PROVE m.Term \in DOMAIN M /\ PartOf(callPiece(m), M[m.Term])
  BY <1>1, <1>2, <1>3, <1>4, Zenon
<1>5. \A m \in requests' : callPiece(m)' = callPiece(m)
  BY Zenon DEF callPiece
<1> QED BY <1>4, <1>5, Zenon DEF SentFrom

\* What AppendEntries makes of the log, given entries of the leader of its term.
LEMMA StoreGives ==
    ASSUME LogFacts, StorageInv, LogsSound, NEW m \in appendCalls, fits(m), NEW N,
           m.Term \in DOMAIN N, PartOf(callPiece(m), N[m.Term]), rooted(N[m.Term]),
           writtenIn(N, logPiece(log[m.peer])), writtenIn(N, N[m.Term])
    PROVE  storesFrom(log[m.peer], m.Entries, m.PrevLogIndex, N, m.Term)
<1> DEFINE l == log[m.peer]
           prev == m.PrevLogIndex
<1>1. m.peer \in Server /\ prev \in Nat /\ m.Entries \in Seq(Entry) /\ Follows(prev, m.Entries)
  BY CallType, Zenon
<1>2. l \in Log /\ Indexed(l) /\ l.Index0 = 0 /\ LastLog(l).Index \in Nat /\ rooted(logPiece(l))
  BY <1>1, Zenon DEF LogsSound
<1>3. LastLog(l).Index >= prev /\ at(l, prev).Term = m.PrevLogTerm
  BY Zenon DEF fits
<1>4. prev \in l.Index0 .. LastLog(l).Index
  <2>1. \A a, b \in Nat : b >= a => a \in 0 .. b
    OBVIOUS
  <2> QED BY <1>1, <1>2, <1>3, <2>1, Zenon
<1>5. mergeable(l, m.Entries, prev)
  BY <1>1, <1>2, <1>4, Zenon DEF mergeable
<1>6. PartOf(entriesPiece(prev, at(l, prev).Term, m.Entries), N[m.Term])
  BY <1>3, Zenon DEF callPiece
<1> QED BY <1>2, <1>5, <1>6, Zenon DEF LogFacts, StoreFact

\* What a leader adds has its term.
LEMMA LeaderAdds ==
    ASSUME LogFacts, soundStep, NEW i \in Server, state'[i] = "Leader",
           NEW n \in Indices(log'[i]), n > LastLog(log[i]).Index
    PROVE  at(log'[i], n).Term = currentTerm'[i] /\ state[i] = "Leader"
<1> DEFINE l == log[i]
<1>1. l \in Log /\ Indexed(l) /\ LastLog(l).Index \in Nat /\ Indices(l) = 0 .. LastLog(l).Index
  BY Zenon DEF soundStep, LogsSound
<1>2. /\ Indices(log'[i]) = 0 .. LastLog(log'[i]).Index /\ LastLog(log'[i]).Index \in Nat
      /\ logPiece(log'[i]).hi = LastLog(log'[i]).Index
      /\ \A k \in Indices(log'[i]) : logPiece(log'[i]).e[k] = at(log'[i], k)
  BY Zenon DEF soundStep, LogsSound
<1>3. log'[i] # log[i]
  <2>1. ~(n \in 0 .. LastLog(l).Index)
    BY <1>1
  <2> QED BY <1>1, <2>1, Zenon
<1>4. "Leader" # "Follower"
  OBVIOUS
<1>5. state[i] = "Leader" /\ currentTerm'[i] = currentTerm[i]
      /\ \E x \in Entry : /\ x.Term = currentTerm[i] /\ x.Index = LastLog(l).Index + 1
                          /\ log'[i] = append(l, <<x>>)
  BY <1>3, <1>4, Zenon DEF soundStep, logStep
<1>6. PICK x \in Entry : /\ x.Term = currentTerm[i] /\ x.Index = LastLog(l).Index + 1
                         /\ log'[i] = append(l, <<x>>)
  BY <1>5, Zenon
<1>7. startedFrom(l, x)
  BY <1>1, <1>6, Zenon DEF LogFacts, StartFact
<1>8. logPiece(log'[i]).hi = LastLog(l).Index + 1 /\ logPiece(log'[i]).e[logPiece(log'[i]).hi] = x
  <2>1. logPiece(l).hi = LastLog(l).Index
    BY Zenon DEF soundStep, LogsSound
  <2> QED BY <1>6, <1>7, <2>1, Zenon DEF startedFrom
<1>9. n = LastLog(log'[i]).Index
  <2>1. \A a, b \in Nat : \A k \in 0 .. b : k > a /\ b = a + 1 => k = b
    OBVIOUS
  <2> QED BY <1>1, <1>2, <1>8, <2>1, Zenon
<1> QED BY <1>2, <1>5, <1>6, <1>8, <1>9, Zenon

\* So a leader's log is written by leaders.
LEMMA LeaderWrites ==
    ASSUME LogFacts, soundStep, NEW L, Written(L), NEW M, nextLogs(L, M), Grows(L, M),
           NEW i \in Server, state'[i] = "Leader"
    PROVE  writtenIn(M, logPiece(log'[i]))
<1> DEFINE f == logPiece(log[i])
           w == logPiece(log'[i])
<1>1. f.hi \in Nat /\ f.hi = LastLog(log[i]).Index
  BY Zenon DEF soundStep, LogsSound, rooted
<1>2. /\ w.hi \in Nat /\ w.hi = LastLog(log'[i]).Index /\ Indices(log'[i]) = 0 .. w.hi
      /\ \A n \in Indices(log'[i]) : w.e[n] = at(log'[i], n)
  BY Zenon DEF soundStep, LogsSound, rooted
<1>3. SameUpTo(f, w, f.hi)
  BY <1>1, LeaderGrows, Zenon
<1>4. writtenIn(M, f)
  BY <1>1, Zenon DEF Written, LogFacts, GrowFact
<1>5. currentTerm'[i] \in DOMAIN M /\ M[currentTerm'[i]] = w
  BY Zenon DEF nextLogs
<1> SUFFICES ASSUME NEW b \in 1 .. w.hi
             PROVE  w.e[b].Term \in DOMAIN M /\ SameUpTo(w, M[w.e[b].Term], b)
  BY Zenon DEF writtenIn
<1>6. b \in Nat /\ b <= w.hi /\ b \in Indices(log'[i])
  <2>1. b \in Nat /\ b <= w.hi /\ b \in 0 .. w.hi
    BY <1>2
  <2> QED BY <1>2, <2>1, Zenon
<1> HIDE DEF f, w
<1>7. CASE b <= f.hi
  <2>1. SameUpTo(f, w, b)
    BY <1>1, <1>2, <1>3, <1>6, <1>7, Zenon DEF LogFacts, SameFact
  <2>2. b \in 1 .. f.hi /\ b \in 0 .. b
    BY <1>1, <1>2, <1>7
  <2>3. f.e[b] = w.e[b]
    BY <2>1, <2>2, Zenon DEF SameUpTo
  <2>4. f.e[b].Term \in DOMAIN M /\ SameUpTo(f, M[f.e[b].Term], b)
    BY <1>4, <2>2, Zenon DEF writtenIn
  <2>5. SameUpTo(w, f, b)
    BY <2>1, SameBack, Zenon
  <2> QED BY <2>3, <2>4, <2>5, SameThrough, Zenon
<1>8. CASE ~(b <= f.hi)
  <2>1. b > LastLog(log[i]).Index
    BY <1>1, <1>6, <1>8
  <2>2. w.e[b].Term = currentTerm'[i]
    BY <1>2, <1>6, <2>1, LeaderAdds, Zenon
  <2> QED BY <1>5, <1>6, <2>2, SameSelf, Zenon
<1> QED BY <1>7, <1>8, Zenon

\* Everything in a log was written by leaders.
LEMMA WrittenStep ==
    ASSUME LogFacts, soundStep, NEW L, LedTerms(L), SentFrom(L), Written(L),
           NEW M, nextLogs(L, M), Grows(L, M), LedTerms(M)'
    PROVE  Written(M)'
<1>1. ASSUME NEW u \in DOMAIN M PROVE writtenIn(M, M[u]) /\ rooted(M[u])
  <2>1. CASE u \in DOMAIN L /\ M[u] = L[u]
    <3>1. L[u].hi \in Nat /\ writtenIn(L, L[u])
      BY <2>1, Zenon DEF LedTerms, rooted, Written
    <3>2. writtenIn(M, L[u])
      BY <3>1, Zenon DEF LogFacts, GrowFact
    <3> QED BY <2>1, <3>2, Zenon DEF LedTerms
  <2>2. CASE \E i \in Server : /\ state'[i] = "Leader" /\ currentTerm'[i] = u
                              /\ M[u] = logPiece(log'[i])
    <3>1. rooted(M[u])
      BY Zenon DEF LedTerms
    <3> QED BY <2>2, <3>1, LeaderWrites, Zenon
  <2> QED BY <2>1, <2>2, Zenon DEF nextLogs
<1>2. \A i \in Server : writtenIn(M, logPiece(log[i]))
  <2>1. \A i \in Server : logPiece(log[i]).hi \in Nat /\ writtenIn(L, logPiece(log[i]))
    BY Zenon DEF soundStep, LogsSound, rooted, Written
  <2> QED BY <2>1, Zenon DEF LogFacts, GrowFact
<1>3. ASSUME NEW i \in Server, NEW m \in appendCalls, m.peer = i, fits(m)
      PROVE  /\ writtenIn(M, logPiece(merge(log[i], m.Entries)))
             /\ writtenIn(M, logPiece(cutBack(log[i], m.Entries)))
  <2>1. m.Term \in DOMAIN L /\ PartOf(callPiece(m), L[m.Term])
    BY Zenon DEF SentFrom, requests
  <2>2. m.Term \in DOMAIN M /\ PartOf(callPiece(m), M[m.Term])
    BY <2>1, Zenon DEF LogFacts, GrowFact, Grows
  <2>3. storesFrom(log[m.peer], m.Entries, m.PrevLogIndex, M, m.Term)
    BY <1>1, <1>2, <1>3, <2>2, StoreGives, Zenon DEF soundStep
  <2> QED BY <1>3, <2>3, Zenon DEF storesFrom
<1>4. ASSUME NEW i \in Server PROVE writtenIn(M, logPiece(log'[i]))
  BY <1>2, <1>3, LeaderWrites, Zenon DEF soundStep, logStep
<1> QED BY <1>1, <1>4, Zenon DEF Written

\* All of it.
LEMMA LeaderInvStep ==
    ASSUME LogFacts, soundStep, NEW L, LeaderInv(L), NEW M, nextLogs(L, M)
    PROVE  Grows(L, M) /\ LeaderInv(M)'
<1>1. Grows(L, M)
  BY LogsGrow, Zenon DEF LeaderInv
<1>2. LedTerms(M)'
  BY LedTermsStep, Zenon DEF LeaderInv
<1>3. LeaderLogs(M)'
  BY Zenon DEF LeaderLogs, nextLogs
<1>4. SentFrom(M)'
  BY <1>1, SentStep, Zenon DEF LeaderInv
<1>5. Written(M)'
  BY <1>1, <1>2, WrittenStep, Zenon DEF LeaderInv
<1> QED BY <1>1, <1>2, <1>3, <1>4, <1>5, Zenon DEF LeaderInv

-----------------------------------------------------------------------------
(* Entries that stay                                                         *)

\* A peer with the entry n of term t has what the leader of t had up to n.
LEMMA HasSame ==
    ASSUME LogsSound, NEW L, Written(L), NEW v \in Server, NEW n \in Nat, n # 0, NEW t, hasAt(v, n, t)
    PROVE  t \in DOMAIN L /\ SameUpTo(logPiece(log[v]), L[t], n)
<1>1. /\ logPiece(log[v]).hi = LastLog(log[v]).Index /\ LastLog(log[v]).Index \in Nat
      /\ Indices(log[v]) = 0 .. LastLog(log[v]).Index
      /\ \A k \in Indices(log[v]) : logPiece(log[v]).e[k] = at(log[v], k)
  BY Zenon DEF LogsSound
<1>2. n <= LastLog(log[v]).Index /\ at(log[v], n).Term = t
  BY Zenon DEF hasAt
<1>3. n \in 1 .. LastLog(log[v]).Index /\ n \in 0 .. LastLog(log[v]).Index
  BY <1>1, <1>2
<1>4. logPiece(log[v]).e[n].Term = t
  BY <1>1, <1>2, <1>3, Zenon
<1> QED BY <1>1, <1>3, <1>4, Zenon DEF Written, writtenIn

\* And the other way round.
LEMMA SameHas ==
    ASSUME LogsSound, NEW v \in Server, NEW n \in Nat, NEW g, SameUpTo(logPiece(log[v]), g, n)
    PROVE  hasAt(v, n, g.e[n].Term)
<1>1. /\ logPiece(log[v]).hi = LastLog(log[v]).Index /\ LastLog(log[v]).Index \in Nat
      /\ Indices(log[v]) = 0 .. LastLog(log[v]).Index
      /\ \A k \in Indices(log[v]) : logPiece(log[v]).e[k] = at(log[v], k)
  BY Zenon DEF LogsSound
<1>2. n <= LastLog(log[v]).Index
  BY <1>1, Zenon DEF SameUpTo
<1>3. n \in 0 .. n /\ n \in 0 .. LastLog(log[v]).Index
  BY <1>1, <1>2
<1> QED BY <1>1, <1>2, <1>3, Zenon DEF SameUpTo, hasAt

\* The same after a step.
LEMMA SameHasNext ==
    ASSUME LogsSound', NEW v \in Server, NEW n \in Nat, NEW g, SameUpTo(logPiece(log'[v]), g, n)
    PROVE  n <= LastLog(log'[v]).Index /\ at(log'[v], n).Term = g.e[n].Term
<1>1. /\ logPiece(log'[v]).hi = LastLog(log'[v]).Index /\ LastLog(log'[v]).Index \in Nat
      /\ Indices(log'[v]) = 0 .. LastLog(log'[v]).Index
      /\ \A k \in Indices(log'[v]) : logPiece(log'[v]).e[k] = at(log'[v], k)
  BY Zenon DEF LogsSound
<1>2. n <= LastLog(log'[v]).Index
  BY <1>1, Zenon DEF SameUpTo
<1>3. n \in 0 .. n /\ n \in 0 .. LastLog(log'[v]).Index
  BY <1>1, <1>2
<1> QED BY <1>1, <1>2, <1>3, Zenon DEF SameUpTo

\* The leaders since t have what the leader of t had up to n.
LEMMA LeadersHave ==
    ASSUME LogFacts, NEW L, LedTerms(L), Written(L), NEW t \in DOMAIN L, NEW n \in Nat, n # 0,
           n <= L[t].hi, keptBy(L, n, t), NEW u \in DOMAIN L, t <= u
    PROVE  SameUpTo(L[t], L[u], n)
<1>1. t \in Nat /\ u \in Nat /\ L[u].hi \in Nat
  BY Zenon DEF LedTerms, rooted
<1>2. CASE u = t
  BY <1>2, SameSelf, Zenon
<1>3. CASE u # t
  <2>1. u > t
    BY <1>1, <1>3
  <2>2. n <= L[u].hi /\ L[u].e[n].Term = t
    BY <2>1, Zenon DEF keptBy
  <2>3. n \in 1 .. L[u].hi
    BY <1>1, <2>2
  <2>4. SameUpTo(L[u], L[t], n)
    BY <2>2, <2>3, Zenon DEF Written, writtenIn
  <2> QED BY <2>4, SameBack, Zenon
<1> QED BY <1>2, <1>3, Zenon

\* A step takes nothing from a log that the leader of its new term has.
LEMMA LogKeeps ==
    ASSUME LogFacts, soundStep, NEW L, LedTerms(L), SentFrom(L), Written(L),
           NEW v \in Server, NEW f, NEW x \in Nat, SameUpTo(logPiece(log[v]), f, x),
           \A u \in DOMAIN L : u = currentTerm'[v] => SameUpTo(f, L[u], x)
    PROVE  SameUpTo(logPiece(log'[v]), f, x)
<1>1. CASE log'[v] = log[v]
  BY <1>1, Zenon
<1>2. CASE state'[v] = "Leader"
  <2>1. /\ logPiece(log[v]).hi \in Nat /\ logPiece(log'[v]).hi \in Nat
        /\ logPiece(log[v]).hi = LastLog(log[v]).Index
    BY Zenon DEF soundStep, LogsSound, rooted
  <2>2. SameUpTo(logPiece(log[v]), logPiece(log'[v]), LastLog(log[v]).Index)
    BY <1>2, LeaderGrows, Zenon
  <2>3. x <= LastLog(log[v]).Index /\ LastLog(log[v]).Index \in Nat
    BY <2>1, Zenon DEF SameUpTo
  <2>4. SameUpTo(logPiece(log[v]), logPiece(log'[v]), x)
    BY <2>1, <2>2, <2>3, SameLess, Zenon
  <2> QED BY <2>4, SameBack, SameThrough, Zenon
<1>3. ASSUME NEW m \in appendCalls, m.peer = v, fits(m), currentTerm'[v] = m.Term,
             log'[v] \in {merge(log[v], m.Entries), cutBack(log[v], m.Entries)}
      PROVE  SameUpTo(logPiece(log'[v]), f, x)
  <2>1. m.Term \in DOMAIN L /\ PartOf(callPiece(m), L[m.Term])
    BY Zenon DEF SentFrom, requests
  <2>2. rooted(L[m.Term]) /\ writtenIn(L, L[m.Term]) /\ writtenIn(L, logPiece(log[v]))
    BY <2>1, Zenon DEF LedTerms, Written
  <2>3. storesFrom(log[v], m.Entries, m.PrevLogIndex, L, m.Term)
    BY <1>3, <2>1, <2>2, StoreGives, Zenon DEF soundStep
  <2>4. SameUpTo(f, L[m.Term], x)
    BY <1>3, <2>1, Zenon
  <2>5. SameUpTo(logPiece(log[v]), L[m.Term], x)
    BY <2>4, SameThrough, Zenon
  <2>6. SameUpTo(logPiece(log'[v]), L[m.Term], x)
    BY <1>3, <2>3, <2>5, Zenon DEF storesFrom
  <2> QED BY <2>4, <2>6, SameBack, SameThrough, Zenon
<1> QED BY <1>1, <1>2, <1>3, Zenon DEF soundStep, logStep

\* A candidate that is at least as up to date as a peer with the entry has it.
LEMMA UpToDateHas ==
    ASSUME LogFacts, LogsSound, NEW L, LedTerms(L), Written(L), NEW v \in Server, NEW c \in Server,
           NEW n \in Nat, n # 0, NEW t \in Nat, hasAt(v, n, t), keptBy(L, n, t),
           NEW m, upToDate(m, LastLog(log[v])), m.LastLogIndex = LastLog(log[c]).Index,
           m.LastLogTerm = LastLog(log[c]).Term
    PROVE  hasAt(c, n, t)
<1> DEFINE f == logPiece(log[v])
           g == logPiece(log[c])
           lc == LastLog(log[c]).Index
           tc == LastLog(log[c]).Term
           lv == LastLog(log[v]).Index
           tv == LastLog(log[v]).Term
<1>1. ASSUME NEW k \in Server
      PROVE  /\ LastLog(log[k]).Index \in Nat /\ Sound(logPiece(log[k]))
             /\ logPiece(log[k]).lo = 0 /\ logPiece(log[k]).hi = LastLog(log[k]).Index
             /\ \A j \in 0 .. LastLog(log[k]).Index : logPiece(log[k]).e[j] = at(log[k], j)
             /\ at(log[k], LastLog(log[k]).Index) = LastLog(log[k])
  <2>1. LastLog(log[k]).Index = LogLen(log[k]) - 1
    BY Zenon DEF LogsSound, LogFacts, LastLogFact
  <2>2. at(log[k], LastLog(log[k]).Index) = LastLog(log[k])
    BY <2>1, Zenon DEF LastLog
  <2> QED BY <2>2, Zenon DEF LogsSound, rooted
<1>2. ASSUME NEW h, Sound(h), h.lo = 0, h.hi \in Nat
      PROVE  /\ \A a, b \in 0 .. h.hi : a <= b => h.e[a].Term <= h.e[b].Term
             /\ \A a \in 0 .. h.hi : h.e[a].Term \in Nat /\ (h.e[a].Term = 0 <=> a = 0)
  BY <1>2, Zenon DEF Sound, Rising, IsPiece, span
<1>3. n <= lv /\ at(log[v], n).Term = t
  BY Zenon DEF hasAt
<1>4. lv \in Nat /\ lc \in Nat /\ n \in 0 .. lv /\ lv \in 0 .. lv /\ lc \in 0 .. lc
  <2>1. lv \in Nat /\ lc \in Nat
    BY <1>1, Zenon
  <2> QED BY <1>3, <2>1
<1>5. f.e[n].Term = t /\ f.e[lv].Term = tv /\ g.e[lc].Term = tc
  BY <1>1, <1>3, <1>4, Zenon
<1>6. t <= tv /\ tv \in Nat /\ tc \in Nat /\ t # 0 /\ (tc = 0 <=> lc = 0)
  <2>1. Sound(f) /\ f.lo = 0 /\ f.hi = lv /\ Sound(g) /\ g.lo = 0 /\ g.hi = lc
    BY <1>1, Zenon
  <2> HIDE DEF f, g, lc, lv, tc, tv
  <2>2. /\ \A a, b \in 0 .. lv : a <= b => f.e[a].Term <= f.e[b].Term
        /\ \A a \in 0 .. lv : f.e[a].Term \in Nat /\ (f.e[a].Term = 0 <=> a = 0)
    BY <1>2, <1>4, <2>1, Zenon
  <2>3. \A a \in 0 .. lc : g.e[a].Term \in Nat /\ (g.e[a].Term = 0 <=> a = 0)
    BY <1>2, <1>4, <2>1, Zenon
  <2> QED BY <1>3, <1>4, <1>5, <2>2, <2>3, Zenon
<1>7. tc > tv \/ (tc = tv /\ lc >= lv)
  BY Zenon DEF upToDate
<1>8. tc >= t /\ lc # 0 /\ lc \in 1 .. lc /\ (tc = t => n <= lc)
  <2> HIDE DEF lc, lv, tc, tv
  <2> QED BY <1>3, <1>4, <1>6, <1>7
<1>9. tc \in DOMAIN L /\ SameUpTo(g, L[tc], lc) /\ lc <= g.hi /\ g.hi = lc
  <2>1. g.hi = lc /\ lc <= lc
    BY <1>1, <1>4
  <2> QED BY <1>5, <1>8, <2>1, Zenon DEF Written, writtenIn
<1>10. /\ L[tc].hi \in Nat /\ lc <= L[tc].hi /\ L[tc].e[lc].Term = tc
       /\ Sound(L[tc]) /\ L[tc].lo = 0
  BY <1>4, <1>5, <1>9, Zenon DEF LedTerms, rooted, SameUpTo
<1> HIDE DEF f, g, lc, tc, lv, tv
<1>11. n <= lc /\ L[tc].e[n].Term = t
  <2>1. CASE tc = t
    <3>1. SameUpTo(f, L[t], n)
      BY HasSame, Zenon DEF f
    <3>2. n \in 0 .. n
      OBVIOUS
    <3> QED BY <1>5, <1>8, <2>1, <3>1, <3>2, Zenon DEF SameUpTo
  <2>2. CASE tc # t
    <3>1. tc > t
      BY <1>6, <1>8, <2>2
    <3>2. n <= L[tc].hi /\ L[tc].e[n].Term = t
      BY <1>9, <3>1, Zenon DEF keptBy
    <3>3. n <= lc
      <4> SUFFICES ASSUME ~(n <= lc) PROVE FALSE
        OBVIOUS
      <4>1. lc <= n /\ lc \in 0 .. L[tc].hi /\ n \in 0 .. L[tc].hi
        BY <1>4, <1>10, <3>2, SMTT(30)
      <4>2. tc <= t
        BY <1>2, <1>10, <3>2, <4>1, Zenon
      <4> QED BY <1>6, <3>1, <4>2
    <3> QED BY <3>2, <3>3, Zenon
  <2> QED BY <2>1, <2>2, Zenon
<1>12. SameUpTo(g, L[tc], n)
  <2>1. g.hi \in Nat
    BY <1>4, <1>9, Zenon
  <2> QED BY <1>4, <1>9, <1>10, <1>11, <2>1, SameLess, Zenon
<1> QED BY <1>11, <1>12, SameHas, Zenon DEF g

-----------------------------------------------------------------------------
(* Firm entries stay firm                                                    *)

\* What a step does to votes, given what holds before and after it.
votesStep ==
    /\ MajorityFacts /\ ElectionInv /\ ElectionInv' /\ GrantsSound /\ GrantsSound'
    /\ VoteCallsTrue /\ grantStep /\ leaderStep

\* A step from the leaders' logs L to M.
ledStep(L, M) == /\ LogFacts /\ soundStep /\ votesStep /\ LeaderInv(L) /\ LeaderInv(M)'
                 /\ nextLogs(L, M) /\ Grows(L, M)

\* A peer of a term since t keeps an entry of t that all leaders since have.
LEMMA HasKept ==
    ASSUME LogFacts, soundStep, NEW L, LeaderInv(L), NEW v \in Server, NEW n \in Nat, n # 0,
           NEW t \in Nat, hasAt(v, n, t), t <= currentTerm[v], keptBy(L, n, t)
    PROVE  hasAt(v, n, t)'
<1>1. LogsSound /\ LogsSound' /\ LedTerms(L) /\ SentFrom(L) /\ Written(L)
  BY Zenon DEF soundStep, LeaderInv
<1>2. t \in DOMAIN L /\ SameUpTo(logPiece(log[v]), L[t], n)
  BY <1>1, HasSame, Zenon
<1>3. currentTerm[v] \in Nat /\ currentTerm'[v] \in Nat /\ currentTerm[v] <= currentTerm'[v]
  BY TermsGrow, Zenon DEF soundStep
<1>4. t <= currentTerm'[v]
  BY <1>3
<1>5. n <= L[t].hi
  BY <1>2, Zenon DEF SameUpTo
<1>6. \A u \in DOMAIN L : u = currentTerm'[v] => SameUpTo(L[t], L[u], n)
  BY <1>1, <1>2, <1>4, <1>5, LeadersHave, Zenon
<1>7. SameUpTo(logPiece(log'[v]), L[t], n)
  BY <1>1, <1>2, <1>6, LogKeeps, Zenon
<1>8. L[t].e[n].Term = t
  <2>1. hasAt(v, n, L[t].e[n].Term)
    BY <1>1, <1>2, SameHas, Zenon
  <2> QED BY <2>1, Zenon DEF hasAt
<1> QED BY <1>1, <1>7, <1>8, SameHasNext, Zenon DEF hasAt

\* The leaders after t that a step leaves or makes have a firm entry.
LEMMA KeptStep ==
    ASSUME NEW L, NEW M, ledStep(L, M), NEW n \in Nat, n # 0, NEW t \in Nat,
           NEW A \in SUBSET Server, NEW B \in SUBSET Server, Firm(L, n, t, A),
           \A v \in B : v \in A \/ currentTerm'[v] = t,
           voteMajority(B \cup {v \in Server : currentTerm'[v] <= t})
    PROVE  keptBy(M, n, t)
<1> SUFFICES ASSUME NEW u \in DOMAIN M, u > t PROVE n <= M[u].hi /\ M[u].e[n].Term = t
  BY Zenon DEF keptBy
<1>1. u \in Nat
  BY Zenon DEF ledStep, LeaderInv, LedTerms
<1>2. CASE u \in DOMAIN L
  <2>1. n <= L[u].hi /\ L[u].e[n].Term = t
    BY <1>2, Zenon DEF Firm, keptBy
  <2>2. L[u].hi \in Nat /\ M[u].hi \in Nat /\ SameUpTo(L[u], M[u], L[u].hi)
    BY <1>2, Zenon DEF ledStep, Grows, rooted
  <2>3. n \in 0 .. L[u].hi /\ (L[u].hi <= M[u].hi => n <= M[u].hi)
    BY <2>1, <2>2
  <2> QED BY <2>1, <2>2, <2>3, Zenon DEF SameUpTo
<1>3. CASE u \notin DOMAIN L
  <2>1. PICK i \in Server : /\ state'[i] = "Leader" /\ currentTerm'[i] = u
                            /\ M[u] = logPiece(log'[i])
    BY <1>3, Zenon DEF ledStep, nextLogs
  <2>2. currentTerm[i] = u /\ state[i] # "Leader" /\ state[i] = "Candidate"
    <3>1. currentTerm[i] = u /\ state[i] \in {"Candidate", "Leader"}
      BY <2>1, Zenon DEF ledStep, soundStep, rolesStep
    <3>2. state[i] # "Leader"
      BY <1>3, <3>1, Zenon DEF ledStep, LeaderInv, LeaderLogs
    <3> QED BY <3>1, <3>2, Zenon
  <2>3. /\ log' = log
        /\ \A v \in votes'[i] : [voter |-> v, term |-> u, candidate |-> i] \in grants
    BY <2>1, <2>2, Zenon DEF ledStep, votesStep, leaderStep
  <2>4. votes'[i] \in SUBSET Server /\ voteMajority(votes'[i])
    BY <2>1, Zenon DEF ledStep, soundStep, StorageInv, TypeOK, votesStep, ElectionInv, LeaderElected
  <2>5. PICK v \in votes'[i] : v \in B \cup {k \in Server : currentTerm'[k] <= t}
    <3>1. B \cup {k \in Server : currentTerm'[k] <= t} \in SUBSET Server
      BY Zenon
    <3> QED BY <2>4, <3>1, Zenon DEF ledStep, votesStep, MajorityFacts
  <2> DEFINE g == [voter |-> v, term |-> u, candidate |-> i]
  <2>6. g \in grants /\ g.voter = v /\ g.term = u /\ g.candidate = i /\ v \in Server
    BY <2>3, <2>4, Zenon
  <2>7. ~(currentTerm'[v] <= t)
    <3>1. currentTerm[v] > u \/ currentTerm[v] = u
      BY <2>6, Zenon DEF ledStep, votesStep, ElectionInv, VotesHeld
    <3>2. currentTerm[v] \in Nat /\ currentTerm'[v] \in Nat /\ currentTerm[v] <= currentTerm'[v]
      BY <2>6, TermsGrow, Zenon DEF ledStep, soundStep
    <3> QED BY <1>1, <3>1, <3>2
  <2>8. v \in A
    <3>1. currentTerm'[v] \in Nat
      BY <2>6, TermsGrow, Zenon DEF ledStep, soundStep
    <3>2. currentTerm'[v] # t
      BY <2>7, <3>1
    <3> QED BY <2>5, <2>7, <3>2, Zenon
  <2>9. hasAt(i, n, t)
    BY <2>2, <2>6, <2>8, Zenon DEF Firm
  <2>10. n <= LastLog(log[i]).Index /\ at(log[i], n).Term = t /\ M[u] = logPiece(log[i])
    BY <2>1, <2>3, <2>9, Zenon DEF hasAt
  <2>11. /\ logPiece(log[i]).hi = LastLog(log[i]).Index /\ LastLog(log[i]).Index \in Nat
         /\ Indices(log[i]) = 0 .. LastLog(log[i]).Index
         /\ \A k \in Indices(log[i]) : logPiece(log[i]).e[k] = at(log[i], k)
    BY Zenon DEF ledStep, soundStep, LogsSound
  <2>12. n \in 0 .. LastLog(log[i]).Index
    BY <2>10, <2>11
  <2> QED BY <2>10, <2>11, <2>12, Zenon
<1> QED BY <1>2, <1>3, Zenon

\* So do the candidates of terms after t.
LEMMA CandidatesStep ==
    ASSUME NEW L, NEW M, ledStep(L, M), NEW n \in Nat, n # 0, NEW t \in Nat,
           NEW A \in SUBSET Server, Firm(L, n, t, A),
           NEW g \in grants', g.voter \in A, g.term > t,
           state'[g.candidate] = "Candidate", currentTerm'[g.candidate] = g.term
    PROVE  hasAt(g.candidate, n, t)'
<1> DEFINE c == g.candidate
<1>0. LogFacts /\ soundStep /\ votesStep /\ LogsSound /\ LedTerms(L) /\ Written(L)
  BY Zenon DEF ledStep, soundStep, LeaderInv
<1>1. g.voter \in Server /\ g.term \in Nat /\ c \in Server
  BY <1>0, Zenon DEF votesStep, GrantsSound
<1>2. currentTerm[c] \in Nat /\ (state'[c] = "Candidate" =>
        \/ currentTerm'[c] > currentTerm[c]
        \/ currentTerm'[c] = currentTerm[c] /\ state[c] = "Candidate")
  BY <1>0, <1>1, TermsGrow, Zenon DEF soundStep, rolesStep
<1>3. ASSUME g.term <= currentTerm[c]
      PROVE  state[c] = "Candidate" /\ currentTerm[c] = g.term
  <2>1. ~(currentTerm'[c] > currentTerm[c])
    BY <1>1, <1>2, <1>3
  <2> QED BY <1>2, <2>1, Zenon
<1>4. CASE g \in grants
  <2>1. state[c] = "Candidate" /\ currentTerm[c] = g.term
    BY <1>0, <1>3, <1>4, Zenon DEF votesStep, GrantsSound
  <2>2. hasAt(c, n, t)
    BY <1>4, <2>1, Zenon DEF Firm
  <2>3. log'[c] = log[c]
    <3>1. "Candidate" # "Leader" /\ "Candidate" # "Follower"
      OBVIOUS
    <3> QED BY <1>0, <1>1, <3>1, Zenon DEF soundStep, logStep
  <2> QED BY <2>2, <2>3, Zenon DEF hasAt
<1>5. CASE g \notin grants
  <2>1. /\ log' = log
        /\ \/ g.voter = c
           \/ \E m \in voteCalls : /\ m.peer = g.voter /\ m.Term = g.term /\ m.CandidateId = c
                                   /\ upToDate(m, LastLog(log[m.peer]))
    BY <1>0, <1>5, Zenon DEF votesStep, grantStep
  <2>2. hasAt(g.voter, n, t) /\ keptBy(L, n, t)
    BY Zenon DEF Firm
  <2>3. hasAt(c, n, t)
    <3>1. CASE g.voter = c
      BY <2>2, <3>1, Zenon
    <3>2. ASSUME NEW m \in voteCalls, m.peer = g.voter, m.Term = g.term, m.CandidateId = c,
                 upToDate(m, LastLog(log[m.peer]))
          PROVE  hasAt(c, n, t)
      <4>1. state[c] = "Candidate" /\ currentTerm[c] = m.Term
        BY <1>0, <1>3, <3>2, Zenon DEF votesStep, VoteCallsTrue
      <4>2. /\ m.LastLogIndex = LastLog(log[c]).Index /\ m.LastLogTerm = LastLog(log[c]).Term
            /\ upToDate(m, LastLog(log[g.voter]))
        BY <1>0, <3>2, <4>1, Zenon DEF votesStep, VoteCallsTrue
      <4> HIDE DEF c
      <4> QED BY <1>0, <1>1, <2>2, <4>2, UpToDateHas, Zenon
    <3> QED BY <2>1, <3>1, <3>2, Zenon
  <2> QED BY <2>1, <2>3, Zenon DEF hasAt
<1> QED BY <1>4, <1>5, Zenon

\* A firm entry stays firm, for the peers that have it and those of the term
\* that have just got it, as long as they and the peers that may still get it
\* are a majority.
LEMMA FirmStep ==
    ASSUME NEW L, NEW M, ledStep(L, M), NEW n \in Nat, n # 0, NEW t \in Nat,
           NEW A \in SUBSET Server, NEW B \in SUBSET Server, Firm(L, n, t, A),
           \A v \in B : v \in A \/ (currentTerm'[v] = t /\ hasAt(v, n, t)'),
           voteMajority(B \cup {v \in Server : currentTerm'[v] <= t})
    PROVE  Firm(M, n, t, B)'
<1>0. LogFacts /\ soundStep /\ votesStep /\ LeaderInv(L)
  BY Zenon DEF ledStep
<1>1. ASSUME NEW v \in B PROVE t <= currentTerm'[v] /\ hasAt(v, n, t)'
  <2>0. v \in Server
    BY <1>1, Zenon
  <2>1. currentTerm[v] \in Nat /\ currentTerm'[v] \in Nat /\ currentTerm[v] <= currentTerm'[v]
    BY <1>0, <2>0, TermsGrow, Zenon DEF soundStep
  <2>2. CASE v \in A
    <3>1. t <= currentTerm[v] /\ hasAt(v, n, t) /\ keptBy(L, n, t)
      BY <2>2, Zenon DEF Firm
    <3>2. hasAt(v, n, t)'
      BY <1>0, <2>0, <3>1, HasKept, Zenon
    <3>3. t <= currentTerm'[v]
      BY <2>1, <3>1
    <3> QED BY <3>2, <3>3, Zenon
  <2>3. CASE v \notin A
    <3>1. currentTerm'[v] = t /\ hasAt(v, n, t)' /\ t <= t
      BY <1>1, <2>3
    <3> QED BY <3>1, Zenon
  <2> QED BY <2>2, <2>3, Zenon
<1>2. keptBy(M, n, t)
  BY KeptStep, Zenon
<1>3. ASSUME NEW g \in grants', g.voter \in B, g.term > t,
             state'[g.candidate] = "Candidate", currentTerm'[g.candidate] = g.term
      PROVE  hasAt(g.candidate, n, t)'
  <2>1. g.voter \in Server /\ g.term \in Nat
    BY <1>0, <1>3, Zenon DEF votesStep, GrantsSound
  <2>2. currentTerm'[g.voter] > g.term \/ currentTerm'[g.voter] = g.term
    BY <1>0, <1>3, Zenon DEF votesStep, ElectionInv, VotesHeld
  <2>3. currentTerm'[g.voter] \in Nat
    BY <1>0, <2>1, TermsGrow, Zenon DEF soundStep
  <2>4. currentTerm'[g.voter] # t
    BY <1>3, <2>1, <2>2, <2>3
  <2>5. g.voter \in A
    BY <1>3, <2>4, Zenon
  <2> QED BY <1>3, <2>5, CandidatesStep, Zenon
<1> QED BY <1>1, <1>2, <1>3, Zenon DEF Firm, keptBy

-----------------------------------------------------------------------------
(* Acknowledgements                                                          *)

\* What a call stores is what its term's leader has.
LEMMA StoredSame ==
    ASSUME NEW L, NEW M, ledStep(L, M), NEW m \in appendCalls, StoreEntries(m)
    PROVE  /\ m.peer \in Server /\ m.Term \in DOMAIN L /\ currentTerm'[m.peer] = m.Term
           /\ m.PrevLogIndex + Len(m.Entries) \in Nat
           /\ m.PrevLogIndex + Len(m.Entries) = callPiece(m).hi
           /\ m.PrevLogIndex + Len(m.Entries) <= L[m.Term].hi
           /\ SameUpTo(logPiece(log'[m.peer]), L[m.Term], m.PrevLogIndex + Len(m.Entries))
<1> DEFINE b == m.PrevLogIndex + Len(m.Entries)
           i == m.peer
<1>0. /\ LogFacts /\ soundStep /\ LedTerms(L) /\ SentFrom(L) /\ Written(L) /\ StorageInv
      /\ Winners /\ MatchingInv /\ LogsSound
  BY Zenon DEF ledStep, LeaderInv, soundStep
<1>1. i \in Server /\ m.PrevLogIndex \in Nat /\ m.Entries \in Seq(Entry) /\ Follows(m.PrevLogIndex, m.Entries)
  BY <1>0, CallType, Zenon
<1>2. b \in Nat
  BY <1>1
<1>3. m.Term \in DOMAIN L /\ PartOf(callPiece(m), L[m.Term])
  BY <1>0, Zenon DEF SentFrom, requests
<1>4. fits(m) /\ log' = [log EXCEPT ![i] = merge(log[i], m.Entries)]
  BY Zenon DEF StoreEntries
<1>5. log'[i] = merge(log[i], m.Entries) /\ currentTerm'[i] = m.Term
  <2>1. log \in [Server -> Log]
    BY <1>0, Zenon DEF StorageInv, TypeOK
  <2> QED BY <1>0, <1>1, <1>4, <2>1, StoreRole, Zenon
<1>6. storesFrom(log[i], m.Entries, m.PrevLogIndex, L, m.Term)
  <2>1. rooted(L[m.Term]) /\ writtenIn(L, L[m.Term]) /\ writtenIn(L, logPiece(log[i]))
    BY <1>0, <1>1, <1>3, Zenon DEF LedTerms, Written
  <2> QED BY <1>0, <1>3, <1>4, <2>1, StoreGives, Zenon
<1>7. SameUpTo(logPiece(log'[i]), L[m.Term], b)
  BY <1>5, <1>6, Zenon DEF storesFrom
<1>8. b <= L[m.Term].hi
  BY <1>7, Zenon DEF SameUpTo
<1>9. callPiece(m).hi = b
  BY Zenon DEF callPiece, entriesPiece
<1> QED BY <1>1, <1>2, <1>3, <1>5, <1>7, <1>8, <1>9, Zenon

\* A leader that stays has the log of its term, before and after.
LEMMA SameLeader ==
    ASSUME NEW L, NEW M, ledStep(L, M), NEW i \in Server, state'[i] = "Leader", state[i] = "Leader",
           NEW t, t = currentTerm'[i]
    PROVE  /\ currentTerm[i] = t /\ t \in Nat /\ t \in DOMAIN L /\ t \in DOMAIN M
           /\ L[t] = logPiece(log[i]) /\ M[t] = logPiece(log'[i])
           /\ L[t].hi = LastLog(log[i]).Index /\ M[t].hi = LastLog(log'[i]).Index
           /\ L[t].hi \in Nat /\ M[t].hi \in Nat /\ L[t].hi <= M[t].hi
           /\ SameUpTo(L[t], M[t], L[t].hi)
<1>1. currentTerm[i] = t
  BY Zenon DEF ledStep, soundStep, rolesStep
<1>2. t \in DOMAIN L /\ L[t] = logPiece(log[i])
  BY <1>1, Zenon DEF ledStep, LeaderInv, LeaderLogs
<1>3. t \in DOMAIN M /\ M[t] = logPiece(log'[i])
  BY Zenon DEF ledStep, nextLogs
<1>4. L[t].hi = LastLog(log[i]).Index /\ M[t].hi = LastLog(log'[i]).Index
  BY <1>2, <1>3, Zenon DEF ledStep, soundStep, LogsSound
<1>5. L[t].hi \in Nat /\ M[t].hi \in Nat /\ SameUpTo(L[t], M[t], L[t].hi)
  BY <1>2, Zenon DEF ledStep, Grows, rooted
<1>6. t \in Nat /\ L[t].hi <= M[t].hi
  BY <1>2, <1>5, Zenon DEF ledStep, LeaderInv, LedTerms, SameUpTo
<1> QED BY <1>1, <1>2, <1>3, <1>4, <1>5, <1>6, Zenon

\* Nobody has told a new leader anything.
LEMMA NewLeaderAcks ==
    ASSUME NEW L, NEW M, ledStep(L, M), NEW i \in Server, NEW j \in Server, NEW n \in Nat, n # 0,
           state'[i] = "Leader", state[i] # "Leader"
    PROVE  ~Ack(i, j, n)'
<1> SUFFICES ASSUME Ack(i, j, n)' PROVE FALSE
  OBVIOUS
<1>1. matchIndex'[i][j] = 0
  BY Zenon DEF ledStep, votesStep, leaderStep
<1>2. ~(n <= matchIndex'[i][j])
  BY <1>1
<1>3. PICK r \in appendReplies' : r.args.Term = currentTerm'[i]
  BY <1>2, Zenon DEF Ack
<1>4. r.args \in requests
  BY Zenon DEF ledStep, soundStep, replyStep, requests
<1>5. r.args.Term \in DOMAIN L
  BY <1>4, Zenon DEF ledStep, LeaderInv, SentFrom
<1> QED BY <1>3, <1>5, NewLeaderTerm, Zenon DEF ledStep, LeaderInv

\* An entry a peer of the leader's term has acknowledged stays there.
LEMMA AckKept ==
    ASSUME NEW L, NEW M, ledStep(L, M), NEW j \in Server, NEW n \in Nat, NEW t \in DOMAIN L,
           currentTerm'[j] = t, SameUpTo(logPiece(log[j]), L[t], n)
    PROVE  SameUpTo(logPiece(log'[j]), M[t], n)
<1>0. /\ LogFacts /\ soundStep /\ LedTerms(L) /\ SentFrom(L) /\ Written(L)
      /\ L[t].hi \in Nat /\ M[t].hi \in Nat /\ SameUpTo(L[t], M[t], L[t].hi)
  BY Zenon DEF ledStep, LeaderInv, Grows, rooted
<1>1. n <= L[t].hi
  BY Zenon DEF SameUpTo
<1>2. \A u \in DOMAIN L : u = currentTerm'[j] => SameUpTo(L[t], L[u], n)
  BY <1>1, SameSelf, Zenon
<1>3. SameUpTo(logPiece(log'[j]), L[t], n)
  BY <1>0, <1>2, LogKeeps, Zenon
<1>4. SameUpTo(L[t], M[t], n)
  BY <1>0, <1>1, SameLess, Zenon
<1> QED BY <1>0, <1>3, <1>4, SameThrough, Zenon

\* What a leader is told is true.
LEMMA AcksTrueStep ==
    ASSUME NEW L, NEW M, ledStep(L, M), ackStep, AcksTrue(L)
    PROVE  AcksTrue(M)'
<1> SUFFICES ASSUME NEW i \in Server, NEW j \in Server, NEW n \in Nat \ {0},
                    state'[i] = "Leader", Ack(i, j, n)'
             PROVE  /\ n <= LastLog(log'[i]).Index /\ currentTerm'[i] <= currentTerm'[j]
                    /\ currentTerm'[j] = currentTerm'[i] =>
                         SameUpTo(logPiece(log'[j]), M[currentTerm'[i]], n)
  BY Zenon DEF AcksTrue
<1>1. n \in Nat /\ n # 0
  OBVIOUS
<1>2. state[i] = "Leader"
  BY <1>1, NewLeaderAcks, Zenon
<1>3. PICK t : t = currentTerm'[i]
  OBVIOUS
<1>4. /\ currentTerm[i] = t /\ t \in Nat /\ t \in DOMAIN L /\ t \in DOMAIN M
      /\ L[t] = logPiece(log[i]) /\ M[t] = logPiece(log'[i])
      /\ L[t].hi = LastLog(log[i]).Index /\ M[t].hi = LastLog(log'[i]).Index
      /\ L[t].hi \in Nat /\ M[t].hi \in Nat /\ L[t].hi <= M[t].hi
      /\ SameUpTo(L[t], M[t], L[t].hi)
  BY <1>2, <1>3, SameLeader, SMTT(30)
<1>5. LogFacts /\ currentTerm[j] \in Nat /\ currentTerm'[j] \in Nat /\ currentTerm[j] <= currentTerm'[j]
  BY TermsGrow, Zenon DEF ledStep, soundStep
<1>6. CASE Ack(i, j, n)
  <2>1. /\ n <= L[t].hi /\ t <= currentTerm[j]
        /\ currentTerm[j] = t => SameUpTo(logPiece(log[j]), L[t], n)
    BY <1>2, <1>4, <1>6, Zenon DEF AcksTrue
  <2>2. n <= M[t].hi /\ t <= currentTerm'[j] /\ (currentTerm'[j] = t => currentTerm[j] = t)
    BY <1>1, <1>4, <1>5, <2>1, SMTT(30)
  <2>3. currentTerm'[j] = t => SameUpTo(logPiece(log'[j]), M[t], n)
    BY <1>1, <1>4, <2>1, <2>2, AckKept, Zenon
  <2> QED BY <1>3, <1>4, <2>2, <2>3, Zenon
<1>7. ASSUME NEW m \in appendCalls, StoreEntries(m), m.LeaderId = i, m.peer = j, m.Term = t,
             n <= m.PrevLogIndex + Len(m.Entries)
      PROVE  n <= M[t].hi /\ t <= currentTerm'[j] /\ SameUpTo(logPiece(log'[j]), M[t], n)
  <2>1. PICK b : b = m.PrevLogIndex + Len(m.Entries)
    OBVIOUS
  <2>2. b \in Nat /\ b <= L[t].hi /\ SameUpTo(logPiece(log'[j]), L[t], b) /\ currentTerm'[j] = t
    BY <1>7, <2>1, StoredSame, Zenon
  <2>3. n <= b /\ n <= L[t].hi /\ n <= M[t].hi /\ t <= currentTerm'[j]
    BY <1>1, <1>4, <1>7, <2>1, <2>2
  <2>4. logPiece(log'[j]).hi \in Nat
    BY Zenon DEF ledStep, soundStep, LogsSound, rooted
  <2>5. SameUpTo(logPiece(log'[j]), L[t], n)
    BY <1>1, <1>4, <1>5, <2>2, <2>3, <2>4, SameLess, Zenon
  <2>6. SameUpTo(L[t], M[t], n)
    BY <1>1, <1>4, <1>5, <2>3, SameLess, Zenon
  <2> QED BY <1>5, <2>3, <2>5, <2>6, SameThrough, Zenon
<1>8. \/ Ack(i, j, n)
      \/ \E m \in appendCalls : /\ StoreEntries(m) /\ m.LeaderId = i /\ m.peer = j /\ m.Term = t
                                /\ n <= m.PrevLogIndex + Len(m.Entries)
  <2>1. currentTerm'[i] = currentTerm[i] /\ currentTerm[i] = t
    BY <1>3, <1>4, Zenon
  <2>2. \/ Ack(i, j, n)
        \/ \E m \in appendCalls : /\ StoreEntries(m) /\ m.LeaderId = i /\ m.peer = j
                                  /\ m.Term = currentTerm[i]
                                  /\ n <= m.PrevLogIndex + Len(m.Entries)
    BY <1>1, <1>2, <2>1 DEF ackStep
  <2> QED BY <2>1, <2>2, Zenon
<1> QED BY <1>3, <1>4, <1>6, <1>7, <1>8, Zenon

\* An entry the leader has just added is firm, if it can reach a majority at all:
\* then no later term has begun.
LEMMA NewEntryFirm ==
    ASSUME NEW L, NEW M, ledStep(L, M), NEW i \in Server, NEW t \in Nat, currentTerm'[i] = t,
           NEW n \in Nat, hasAt(i, n, t)',
           voteMajority({i} \cup {v \in Server : currentTerm'[v] <= t})
    PROVE  Firm(M, n, t, {i})'
<1>0. \A v \in Server : currentTerm'[v] \in Nat
  BY TermsGrow, Zenon DEF ledStep, soundStep
<1>1. ASSUME NEW u \in DOMAIN M, u > t PROVE FALSE
  <2>1. u \in Nat /\ Begun(u)'
    BY <1>1, Zenon DEF ledStep, LeaderInv, LedTerms
  <2>2. PICK c \in Server : Won(u, c)'
    BY <2>1, Zenon DEF Begun
  <2>3. PICK Q \in SUBSET Server :
          voteMajority(Q) /\ \A v \in Q : currentTerm'[v] > u \/ currentTerm'[v] = u
    BY <2>2, Zenon DEF Won, voteMajority
  <2>4. {i} \cup {v \in Server : currentTerm'[v] <= t} \in SUBSET Server
    BY Zenon
  <2>5. PICK v \in Q : v \in {i} \cup {k \in Server : currentTerm'[k] <= t}
    BY <2>3, <2>4, Zenon DEF ledStep, votesStep, MajorityFacts
  <2>6. v \in Server /\ (currentTerm'[v] = t \/ currentTerm'[v] <= t)
    BY <2>5, Zenon
  <2>7. currentTerm'[v] \in Nat /\ (currentTerm'[v] > u \/ currentTerm'[v] = u)
    BY <1>0, <2>3, <2>5, <2>6, Zenon
  <2> QED BY <1>1, <2>1, <2>6, <2>7
<1>2. ASSUME NEW g \in grants', g.voter \in {i}, g.term > t PROVE FALSE
  <2>1. g.term \in Nat /\ g.voter = i
    BY <1>2, Zenon DEF ledStep, votesStep, GrantsSound
  <2>2. currentTerm'[i] > g.term \/ currentTerm'[i] = g.term
    BY <1>2, <2>1, Zenon DEF ledStep, votesStep, ElectionInv, VotesHeld
  <2> QED BY <1>2, <2>1, <2>2
<1>3. \A v \in {i} : t <= currentTerm'[v] /\ hasAt(v, n, t)'
  <2>1. t <= currentTerm'[i]
    OBVIOUS
  <2> QED BY <2>1, Zenon
<1> QED BY <1>1, <1>2, <1>3, Zenon DEF Firm, keptBy

\* What a leader is told it has.
LEMMA AckWithin ==
    ASSUME NEW L, NEW M, ledStep(L, M), ackStep, AcksTrue(L), NEW i \in Server, NEW j \in Server,
           NEW n \in Nat, n # 0, NEW t, t = currentTerm'[i],
           state'[i] = "Leader", state[i] = "Leader", Ack(i, j, n)'
    PROVE  n <= L[t].hi /\ (Ack(i, j, n) \/ currentTerm'[j] = t)
<1>1. currentTerm[i] = t /\ L[t].hi = LastLog(log[i]).Index /\ L[t].hi \in Nat
  BY SameLeader
<1>2. currentTerm'[i] = currentTerm[i]
  BY <1>1, Zenon
<1>3. \/ Ack(i, j, n)
      \/ \E m \in appendCalls : /\ StoreEntries(m) /\ m.LeaderId = i /\ m.peer = j
                                /\ m.Term = currentTerm[i]
                                /\ n <= m.PrevLogIndex + Len(m.Entries)
  BY <1>2, SMTT(30) DEF ackStep
<1>4. CASE Ack(i, j, n)
  <2>1. n \in Nat \ {0}
    OBVIOUS
  <2> QED BY <1>1, <1>4, <2>1, Zenon DEF AcksTrue
<1>5. ASSUME NEW m \in appendCalls, StoreEntries(m), m.peer = j, m.Term = currentTerm[i],
             n <= m.PrevLogIndex + Len(m.Entries)
      PROVE  n <= L[t].hi /\ currentTerm'[j] = t
  <2>1. PICK b : b = m.PrevLogIndex + Len(m.Entries)
    OBVIOUS
  <2>2. b \in Nat /\ b <= L[t].hi /\ currentTerm'[j] = t
    BY <1>1, <1>5, <2>1, StoredSame, Zenon
  <2> QED BY <1>1, <1>5, <2>1, <2>2, SMTT(30)
<1> QED BY <1>3, <1>4, <1>5, Zenon

\* An entry of a leader's term that may still reach a majority is firm.
LEMMA AcksFirmStep ==
    ASSUME NEW L, NEW M, ledStep(L, M), ackStep, AcksTrue(L), AcksTrue(M)', AcksFirm(L)
    PROVE  AcksFirm(M)'
<1> SUFFICES ASSUME NEW i \in Server, state'[i] = "Leader",
                    NEW n \in 1 .. LastLog(log'[i]).Index,
                    at(log'[i], n).Term = currentTerm'[i],
                    voteMajority(holders(i, n)' \cup {v \in Server : currentTerm'[v] <= currentTerm'[i]})
             PROVE  Firm(M, n, currentTerm[i], holders(i, n))'
  BY Zenon DEF AcksFirm, notPast, voteMajority
<1>1. PICK t : t = currentTerm'[i]
  OBVIOUS
<1>2. PICK B : B = holders(i, n)'
  OBVIOUS
<1>3. B \in SUBSET Server /\ \A j \in B : j = i \/ Ack(i, j, n)'
  BY <1>2, Zenon DEF holders
<1>4. /\ LastLog(log'[i]).Index \in Nat /\ logPiece(log'[i]).hi = LastLog(log'[i]).Index
      /\ Indices(log'[i]) = 0 .. LastLog(log'[i]).Index
      /\ \A k \in Indices(log'[i]) : logPiece(log'[i]).e[k] = at(log'[i], k)
  BY Zenon DEF ledStep, soundStep, LogsSound
<1>5. n \in Nat /\ n # 0 /\ n \in 0 .. LastLog(log'[i]).Index /\ n <= LastLog(log'[i]).Index
  BY <1>4
<1>6. logPiece(log'[i]).e[n].Term = t
  BY <1>1, <1>4, <1>5, Zenon
<1>7. state[i] = "Leader"
  <2> SUFFICES ASSUME state[i] # "Leader" PROVE FALSE
    OBVIOUS
  <2>1. log' = log
    BY Zenon DEF ledStep, votesStep, leaderStep
  <2>2. n \in 1 .. logPiece(log[i]).hi /\ logPiece(log[i]).e[n].Term = t
    BY <1>4, <1>6, <2>1, Zenon
  <2>3. t \in DOMAIN L
    BY <2>2, Zenon DEF ledStep, LeaderInv, Written, writtenIn
  <2> QED BY <1>1, <2>3, NewLeaderTerm, Zenon DEF ledStep, LeaderInv
<1>8. /\ currentTerm[i] = t /\ t \in Nat /\ t \in DOMAIN L /\ t \in DOMAIN M
      /\ L[t] = logPiece(log[i]) /\ M[t] = logPiece(log'[i])
      /\ L[t].hi = LastLog(log[i]).Index /\ M[t].hi = LastLog(log'[i]).Index
      /\ L[t].hi \in Nat /\ M[t].hi \in Nat /\ L[t].hi <= M[t].hi
      /\ SameUpTo(L[t], M[t], L[t].hi)
  BY <1>1, <1>7, SameLeader, SMTT(30)
<1>9. voteMajority(B \cup {v \in Server : currentTerm'[v] <= t})
  BY <1>1, <1>2, Zenon
<1>10. CASE n <= L[t].hi
  <2>1. PICK A : A = holders(i, n)
    OBVIOUS
  <2>2. A \in SUBSET Server /\ i \in A /\ \A j \in Server : Ack(i, j, n) => j \in A
    BY <2>1, Zenon DEF holders
  <2>3. ASSUME NEW v \in B PROVE v \in A \/ currentTerm'[v] = t
    <3>1. CASE v = i
      BY <2>2, <3>1, Zenon
    <3>2. CASE v # i
      <4>1. Ack(i, v, n)' /\ v \in Server
        BY <1>3, <2>3, <3>2, Zenon
      <4>2. Ack(i, v, n) \/ currentTerm'[v] = t
        BY <1>1, <1>5, <1>7, <4>1, AckWithin, Zenon
      <4> QED BY <2>2, <4>1, <4>2, Zenon
    <3> QED BY <3>1, <3>2, Zenon
  <2>4. ASSUME NEW v \in B, v \notin A PROVE currentTerm'[v] = t /\ hasAt(v, n, t)'
    <3>1. currentTerm'[v] = t
      BY <2>3, <2>4, Zenon
    <3>2. v # i /\ v \in Server /\ Ack(i, v, n)' /\ n \in Nat \ {0}
      BY <1>3, <1>5, <2>2, <2>4, Zenon
    <3>3. SameUpTo(logPiece(log'[v]), M[t], n)
      BY <1>1, <3>1, <3>2, Zenon DEF AcksTrue
    <3>4. M[t].e[n].Term = t
      BY <1>6, <1>8, Zenon
    <3> QED BY <1>5, <3>1, <3>2, <3>3, <3>4, SameHasNext, Zenon DEF ledStep, soundStep, hasAt
  <2>5. at(log[i], n).Term = t /\ n \in 1 .. LastLog(log[i]).Index
    <3>1. n \in 0 .. L[t].hi /\ n \in 1 .. L[t].hi
      BY <1>5, <1>8, <1>10, SMTT(30)
    <3>2. L[t].e[n].Term = t
      BY <1>6, <1>8, <3>1, Zenon DEF SameUpTo
    <3>3. L[t].e[n] = at(log[i], n)
      BY <1>8, <3>1, Zenon DEF ledStep, soundStep, LogsSound
    <3> QED BY <1>8, <3>1, <3>2, <3>3, ZenonT(40)
  <2>6. voteMajority(A \cup notPast(t))
    <3>1. ASSUME NEW v \in Server, currentTerm'[v] <= t \/ currentTerm'[v] = t
          PROVE  currentTerm[v] <= t
      <4>1. currentTerm[v] \in Nat /\ currentTerm'[v] \in Nat /\ currentTerm[v] <= currentTerm'[v]
        BY TermsGrow, Zenon DEF ledStep, soundStep
      <4> QED BY <1>8, <3>1, <4>1
    <3>2. /\ B \cup {v \in Server : currentTerm'[v] <= t} \subseteq A \cup notPast(t)
          /\ B \cup {v \in Server : currentTerm'[v] <= t} \in SUBSET Server
          /\ A \cup notPast(t) \in SUBSET Server
      BY <1>3, <2>2, <2>3, <3>1, Zenon DEF notPast
    <3> QED BY <1>9, <3>2, Zenon DEF ledStep, votesStep, MajorityFacts
  <2>7. Firm(L, n, t, A)
    BY <1>7, <1>8, <2>1, <2>5, <2>6, Zenon DEF AcksFirm
  <2>8. Firm(M, n, t, B)'
    BY <1>3, <1>5, <1>8, <1>9, <2>2, <2>4, <2>7, FirmStep, Zenon
  <2> QED BY <1>1, <1>2, <2>8, ZenonT(40) DEF Firm
<1>11. CASE ~(n <= L[t].hi)
  <2>1. \A j \in Server : ~Ack(i, j, n)'
    BY <1>1, <1>5, <1>7, <1>11, AckWithin, Zenon
  <2>2. B = {i}
    BY <1>2, <2>1, Zenon DEF holders
  <2>3. hasAt(i, n, t)'
    BY <1>1, <1>5, Zenon DEF hasAt
  <2>4. Firm(M, n, t, {i})'
    BY <1>1, <1>5, <1>8, <1>9, <2>2, <2>3, NewEntryFirm, Zenon
  <2> QED BY <1>1, <1>2, <2>2, <2>4, Zenon DEF Firm
<1> QED BY <1>10, <1>11, Zenon

-----------------------------------------------------------------------------
(* Committed entries                                                         *)

\* All leaders since t have what is committed of its leader's entries.
LEMMA CoveredLeaders ==
    ASSUME LogFacts, NEW L, LedTerms(L), Written(L), NEW t \in DOMAIN L, NEW c \in Nat,
           covered(L, c, t), NEW u \in DOMAIN L, t <= u
    PROVE  SameUpTo(L[t], L[u], c)
<1>1. L[t].hi \in Nat /\ L[u].hi \in Nat
  BY Zenon DEF LedTerms, rooted
<1>2. PICK n \in 1 .. L[t].hi : \E A \in SUBSET Server : c <= n /\ Chosen(L, n, t, A)
  BY Zenon DEF covered
<1>3. n \in Nat /\ n # 0 /\ n <= L[t].hi
  BY <1>1, <1>2
<1>4. keptBy(L, n, t) /\ c <= n
  BY <1>2, Zenon DEF Chosen, Firm
<1>5. SameUpTo(L[t], L[u], n)
  BY <1>3, <1>4, LeadersHave, Zenon
<1> QED BY <1>1, <1>3, <1>4, <1>5, SameLess, Zenon

\* What is committed stays so.
LEMMA CoveredStep ==
    ASSUME NEW L, NEW M, ledStep(L, M), NEW t \in DOMAIN L, NEW c, covered(L, c, t)
    PROVE  t \in DOMAIN M /\ covered(M, c, t)'
<1>1. /\ t \in DOMAIN M /\ L[t].hi \in Nat /\ M[t].hi \in Nat /\ t \in Nat
      /\ SameUpTo(L[t], M[t], L[t].hi)
  BY Zenon DEF ledStep, LeaderInv, LedTerms, Grows, rooted
<1>2. PICK n \in 1 .. L[t].hi : \E A \in SUBSET Server : c <= n /\ Chosen(L, n, t, A)
  BY Zenon DEF covered
<1>3. PICK A \in SUBSET Server : c <= n /\ Chosen(L, n, t, A)
  BY <1>2, Zenon
<1>4. n \in Nat /\ n # 0 /\ n \in 0 .. L[t].hi /\ n <= L[t].hi
  BY <1>1, <1>2, SMTT(30)
<1>5. n \in 1 .. M[t].hi
  BY <1>1, <1>4 DEF SameUpTo
<1>6. M[t].e[n].Term = t
  BY <1>1, <1>3, <1>4, Zenon DEF Chosen, SameUpTo
<1>7. Firm(M, n, t, A)'
  <2>1. Firm(L, n, t, A) /\ voteMajority(A)
    BY <1>3, Zenon DEF Chosen
  <2>2. /\ A \cup {v \in Server : currentTerm'[v] <= t} \in SUBSET Server
        /\ A \subseteq A \cup {v \in Server : currentTerm'[v] <= t}
    BY Zenon
  <2>3. voteMajority(A \cup {v \in Server : currentTerm'[v] <= t})
    BY <2>1, <2>2, Zenon DEF ledStep, votesStep, MajorityFacts
  <2> QED BY <1>1, <1>4, <2>1, <2>3, FirmStep, Zenon
<1>8. Chosen(M, n, t, A)'
  BY <1>3, <1>6, <1>7, Zenon DEF Chosen, voteMajority
<1> QED BY <1>1, <1>3, <1>5, <1>8, Zenon DEF covered

\* What has the committed entries of L[t] has those of M[t].
LEMMA CoveredSame ==
    ASSUME NEW L, NEW M, ledStep(L, M), NEW t \in DOMAIN L, NEW c \in Nat, NEW f, SameUpTo(f, L[t], c)
    PROVE  SameUpTo(f, M[t], c)
<1>1. LogFacts /\ L[t].hi \in Nat /\ M[t].hi \in Nat /\ SameUpTo(L[t], M[t], L[t].hi)
  BY Zenon DEF ledStep, Grows, rooted
<1>2. c <= L[t].hi
  BY Zenon DEF SameUpTo
<1>3. SameUpTo(L[t], M[t], c)
  BY <1>1, <1>2, SameLess, Zenon
<1> QED BY <1>1, <1>3, SameThrough, Zenon

\* A peer keeps what it has committed.
LEMMA CommitKept ==
    ASSUME NEW L, NEW M, ledStep(L, M), NEW j \in Server, NEW c \in Nat, NEW t \in DOMAIN L,
           t <= currentTerm[j], covered(L, c, t), SameUpTo(logPiece(log[j]), L[t], c)
    PROVE  t <= currentTerm'[j] /\ SameUpTo(logPiece(log'[j]), L[t], c)
<1>1. LogFacts /\ soundStep /\ LedTerms(L) /\ SentFrom(L) /\ Written(L) /\ t \in Nat
  BY Zenon DEF ledStep, LeaderInv, LedTerms
<1>2. currentTerm[j] \in Nat /\ currentTerm'[j] \in Nat /\ currentTerm[j] <= currentTerm'[j]
  BY <1>1, TermsGrow, Zenon DEF soundStep
<1>3. t <= currentTerm'[j]
  BY <1>1, <1>2
<1>4. \A u \in DOMAIN L : u = currentTerm'[j] => SameUpTo(L[t], L[u], c)
  BY <1>1, <1>3, CoveredLeaders, Zenon
<1> QED BY <1>1, <1>3, <1>4, LogKeeps, Zenon

\* A follower that follows a call's LeaderCommit commits what is committed.
LEMMA FollowCommit ==
    ASSUME NEW L, NEW M, ledStep(L, M), CallsCommit(L), NEW m \in appendCalls, StoreEntries(m),
           m.LeaderCommit > 0, NEW c \in Nat, c <= m.LeaderCommit, m.LeaderCommit \in Nat
    PROVE  \E t \in DOMAIN L : /\ t <= currentTerm'[m.peer] /\ covered(L, c, t)
                               /\ SameUpTo(logPiece(log'[m.peer]), L[t], c)
<1> DEFINE j == m.peer
<1>0. LogFacts /\ soundStep /\ LedTerms(L) /\ Written(L)
  BY Zenon DEF ledStep, LeaderInv
<1>1. PICK b : b = m.PrevLogIndex + Len(m.Entries)
  OBVIOUS
<1>2. /\ j \in Server /\ m.Term \in DOMAIN L /\ currentTerm'[j] = m.Term /\ b \in Nat
      /\ b = callPiece(m).hi /\ SameUpTo(logPiece(log'[j]), L[m.Term], b)
  BY <1>1, StoredSame, Zenon
<1>3. m.LeaderCommit <= b
  BY <1>2, Zenon DEF CallsCommit
<1>4. PICK t \in DOMAIN L : t <= m.Term /\ covered(L, m.LeaderCommit, t)
  BY Zenon DEF CallsCommit
<1>5. c <= b /\ \A n \in Nat : m.LeaderCommit <= n => c <= n
  BY <1>2, <1>3
<1>6. covered(L, c, t)
  <2>1. L[t].hi \in Nat
    BY <1>0, <1>4, Zenon DEF LedTerms, rooted
  <2>2. \A n \in 1 .. L[t].hi : n \in Nat
    BY <2>1
  <2> QED BY <1>4, <1>5, <2>2, Zenon DEF covered
<1>7. SameUpTo(L[t], L[m.Term], c)
  BY <1>0, <1>2, <1>4, <1>6, CoveredLeaders, Zenon
<1>8. SameUpTo(logPiece(log'[j]), L[m.Term], c)
  <2>1. logPiece(log'[j]).hi \in Nat /\ L[m.Term].hi \in Nat
    BY <1>0, <1>2, Zenon DEF soundStep, LogsSound, LedTerms, rooted
  <2> QED BY <1>0, <1>2, <1>5, <2>1, SameLess, Zenon
<1>9. SameUpTo(L[m.Term], L[t], c)
  BY <1>0, <1>7, SameBack, Zenon
<1>10. SameUpTo(logPiece(log'[j]), L[t], c)
  BY <1>0, <1>8, <1>9, SameThrough, Zenon
<1> QED BY <1>2, <1>4, <1>6, <1>10, Zenon

\* The smaller of two.
LEMMA SmallerOfTwo ==
    ASSUME NEW a \in Nat, NEW b \in Nat PROVE Min({a, b}) \in Nat /\ Min({a, b}) <= a /\ Min({a, b}) <= b
<1> DEFINE m == IF a <= b THEN a ELSE b
<1>1. m \in {a, b} /\ \A y \in {a, b} : m =< y
  OBVIOUS
<1>2. \A x \in {a, b} : (\A y \in {a, b} : x =< y) => x = m
  OBVIOUS
<1>3. Min({a, b}) = m
  BY <1>1, <1>2, Zenon DEF Min
<1> QED BY <1>3

\* What a leader counts as committed is.
LEMMA CountedCommit ==
    ASSUME NEW L, NEW M, ledStep(L, M), AcksFirm(M)', NEW j \in Server, state'[j] = "Leader",
           NEW c \in 1 .. LastLog(log'[j]).Index, at(log'[j], c).Term = currentTerm'[j],
           commitMajority({j} \cup {k \in Server \ {j} : matchIndex'[j][k] >= c})
    PROVE  \E t \in DOMAIN M : /\ t <= currentTerm'[j] /\ covered(M, c, t)'
                               /\ SameUpTo(logPiece(log'[j]), M[t], c)
<1>1. PICK t : t = currentTerm'[j]
  OBVIOUS
<1>2. PICK A : A = holders(j, c)'
  OBVIOUS
<1>3. t \in DOMAIN M /\ M[t] = logPiece(log'[j]) /\ t \in Nat
  BY <1>1, Zenon DEF ledStep, nextLogs, LeaderInv, LedTerms
<1>4. /\ LastLog(log'[j]).Index \in Nat /\ M[t].hi = LastLog(log'[j]).Index
      /\ Indices(log'[j]) = 0 .. LastLog(log'[j]).Index
      /\ \A k \in Indices(log'[j]) : M[t].e[k] = at(log'[j], k)
  BY <1>3, Zenon DEF ledStep, soundStep, LogsSound
<1>5. c \in 0 .. M[t].hi /\ c <= M[t].hi /\ c \in Nat /\ c <= c /\ t <= t /\ c \in 1 .. M[t].hi
  BY <1>3, <1>4
<1>6. voteMajority(A) /\ A \in SUBSET Server
  <2>1. matchIndex' \in [Server -> [Server -> Nat]]
    BY Zenon DEF ledStep, soundStep, StorageInv, TypeOK
  <2>2. \A k \in Server : matchIndex'[j][k] >= c => c <= matchIndex'[j][k]
    <3>1. \A k \in Server : matchIndex'[j][k] \in Nat
      BY <2>1, Zenon
    <3> QED BY <1>5, <3>1
  <2>3. /\ {j} \cup {k \in Server \ {j} : matchIndex'[j][k] >= c} \subseteq A
        /\ A \in SUBSET Server
        /\ {j} \cup {k \in Server \ {j} : matchIndex'[j][k] >= c} \in SUBSET Server
    BY <1>2, <2>2, Zenon DEF holders, Ack
  <2> QED BY <2>3, Zenon DEF ledStep, votesStep, MajorityFacts
<1>7. Firm(M, c, t, A)'
  <2>1. PICK P : P = notPast(currentTerm[j])'
    OBVIOUS
  <2>2. P \in SUBSET Server
    BY <2>1, Zenon DEF notPast
  <2>3. A \cup P \in SUBSET Server /\ A \subseteq A \cup P
    BY <1>6, <2>2, Zenon
  <2>4. voteMajority(A \cup P)
    BY <1>6, <2>3, Zenon DEF ledStep, votesStep, MajorityFacts
  <2>5. voteMajority(holders(j, c) \cup notPast(currentTerm[j]))'
    BY <1>2, <2>1, <2>4, Zenon DEF voteMajority
  <2>6. Firm(M, c, currentTerm[j], holders(j, c))'
    BY <2>5, Zenon DEF AcksFirm
  <2> QED BY <1>1, <1>2, <2>6, Zenon DEF Firm
<1>8. M[t].e[c].Term = t
  BY <1>1, <1>4, <1>5, Zenon
<1>9. covered(M, c, t)'
  BY <1>5, <1>6, <1>7, <1>8, Zenon DEF covered, Chosen, voteMajority
<1>10. SameUpTo(logPiece(log'[j]), M[t], c)
  BY <1>3, <1>5, SameSelf, Zenon
<1> QED BY <1>1, <1>3, <1>5, <1>9, <1>10, Zenon

\* What the peers have committed stays committed.
LEMMA PeersCommitStep ==
    ASSUME NEW L, NEW M, ledStep(L, M), commitStep, PeersCommit(L), CallsCommit(L), AcksFirm(M)'
    PROVE  PeersCommit(M)'
<1> SUFFICES ASSUME NEW j \in Server, commitIndex'[j] > 0
             PROVE  \E t \in DOMAIN M : /\ t <= currentTerm'[j] /\ covered(M, commitIndex[j], t)'
                                        /\ SameUpTo(logPiece(log'[j]), M[t], commitIndex'[j])
  BY Zenon DEF PeersCommit
<1>1. PICK c : c = commitIndex'[j]
  OBVIOUS
<1>2. c \in Nat /\ c > 0 /\ commitIndex[j] \in Nat
  BY <1>1, Zenon DEF ledStep, soundStep, StorageInv, TypeOK
<1>3. SUFFICES \E t \in DOMAIN M : /\ t <= currentTerm'[j] /\ covered(M, c, t)'
                                   /\ SameUpTo(logPiece(log'[j]), M[t], c)
  BY <1>1, <1>3, Zenon DEF covered
<1>4. ASSUME NEW t \in DOMAIN L, t <= currentTerm'[j], covered(L, c, t),
             SameUpTo(logPiece(log'[j]), L[t], c)
      PROVE  \E u \in DOMAIN M : /\ u <= currentTerm'[j] /\ covered(M, c, u)'
                                 /\ SameUpTo(logPiece(log'[j]), M[u], c)
  <2>1. t \in DOMAIN M /\ covered(M, c, t)'
    BY <1>4, CoveredStep, Zenon
  <2>2. SameUpTo(logPiece(log'[j]), M[t], c)
    BY <1>2, <1>4, CoveredSame, Zenon
  <2> QED BY <1>4, <2>1, <2>2, Zenon
<1>5. CASE commitIndex'[j] = commitIndex[j]
  <2>1. PICK t \in DOMAIN L : /\ t <= currentTerm[j] /\ covered(L, c, t)
                              /\ SameUpTo(logPiece(log[j]), L[t], c)
    BY <1>1, <1>2, <1>5, Zenon DEF PeersCommit
  <2>2. t <= currentTerm'[j] /\ SameUpTo(logPiece(log'[j]), L[t], c)
    BY <1>2, <2>1, CommitKept, Zenon
  <2> QED BY <1>4, <2>1, <2>2, Zenon
<1>6. ASSUME NEW m \in appendCalls, StoreEntries(m), m.peer = j, m.LeaderCommit > 0,
             commitIndex'[j] = Min({m.LeaderCommit, LastLog(log'[j]).Index})
      PROVE  \E t \in DOMAIN M : /\ t <= currentTerm'[j] /\ covered(M, c, t)'
                                 /\ SameUpTo(logPiece(log'[j]), M[t], c)
  <2>1. m.LeaderCommit \in Nat /\ LastLog(log'[j]).Index \in Nat
    BY CallType, Zenon DEF ledStep, soundStep, AppendEntriesArgs, LogsSound
  <2>2. c <= m.LeaderCommit
    BY <1>1, <1>6, <2>1, SmallerOfTwo, Zenon
  <2>3. PICK t \in DOMAIN L : /\ t <= currentTerm'[j] /\ covered(L, c, t)
                              /\ SameUpTo(logPiece(log'[j]), L[t], c)
    BY <1>2, <1>6, <2>1, <2>2, FollowCommit, Zenon
  <2> QED BY <1>4, <2>3, Zenon
<1>7. ASSUME state'[j] = "Leader", log'[j] = log[j],
             commitIndex'[j] \in 1 .. LastLog(log[j]).Index,
             at(log[j], commitIndex'[j]).Term = currentTerm'[j],
             commitMajority({j} \cup {k \in Server \ {j} : matchIndex'[j][k] >= commitIndex'[j]})
      PROVE  \E t \in DOMAIN M : /\ t <= currentTerm'[j] /\ covered(M, c, t)'
                                 /\ SameUpTo(logPiece(log'[j]), M[t], c)
  <2>1. /\ c \in 1 .. LastLog(log'[j]).Index /\ at(log'[j], c).Term = currentTerm'[j]
        /\ commitMajority({j} \cup {k \in Server \ {j} : matchIndex'[j][k] >= c})
    BY <1>1, <1>7, Zenon
  <2> QED BY <1>7, <2>1, CountedCommit, Zenon
<1>8. commitIndex'[j] # 0
  BY <1>1, <1>2
<1>9. \/ commitIndex'[j] = commitIndex[j]
      \/ \E m \in appendCalls :
           /\ StoreEntries(m) /\ m.peer = j /\ m.LeaderCommit > 0
           /\ commitIndex'[j] = Min({m.LeaderCommit, LastLog(log'[j]).Index})
      \/ /\ state'[j] = "Leader" /\ log'[j] = log[j]
         /\ commitIndex'[j] \in 1 .. LastLog(log[j]).Index
         /\ at(log[j], commitIndex'[j]).Term = currentTerm'[j]
         /\ commitMajority({j} \cup {k \in Server \ {j} : matchIndex'[j][k] >= commitIndex'[j]})
  BY <1>8, Zenon DEF commitStep
<1> QED BY <1>5, <1>6, <1>7, <1>9, Zenon

\* What calls tell is committed stays committed.
LEMMA CallsCommitStep ==
    ASSUME NEW L, NEW M, ledStep(L, M), PeersCommit(L), CallsCommit(L)
    PROVE  CallsCommit(M)'
<1> SUFFICES ASSUME NEW m \in appendCalls'
             PROVE  /\ m.LeaderCommit <= callPiece(m).hi
                    /\ m.LeaderCommit > 0 =>
                         \E t \in DOMAIN M : t <= m.Term /\ covered(M, m.LeaderCommit, t)'
  BY Zenon DEF CallsCommit
<1>1. CASE twin(m)
  <2>1. PICK m0 \in appendCalls : /\ m.Term = m0.Term /\ callPiece(m) = callPiece(m0)
                                  /\ m.LeaderCommit = m0.LeaderCommit
    BY <1>1, Zenon DEF twin
  <2>2. /\ m.LeaderCommit <= callPiece(m).hi
        /\ m.LeaderCommit > 0 =>
             \E t \in DOMAIN L : t <= m.Term /\ covered(L, m.LeaderCommit, t)
    BY <2>1, Zenon DEF CallsCommit
  <2> QED BY <2>2, CoveredStep, Zenon
<1>2. CASE sent(m)
  <2>1. PICK i \in Server : i = m.LeaderId
    BY <1>2, Zenon DEF sent
  <2>2. /\ state'[i] = "Leader" /\ m.Term = currentTerm'[i] /\ m.LeaderCommit = commitIndex[i]
        /\ callPiece(m).hi = LastLog(log'[i]).Index
    BY <1>2, <2>1, Zenon DEF sent
  <2>3. PICK c : c = m.LeaderCommit
    OBVIOUS
  <2>4. c = commitIndex[i] /\ c \in Nat
    BY <2>2, <2>3, Zenon DEF ledStep, soundStep, StorageInv, TypeOK
  <2>5. /\ LastLog(log[i]).Index \in Nat /\ LastLog(log'[i]).Index \in Nat
        /\ logPiece(log[i]).hi = LastLog(log[i]).Index
        /\ LastLog(log[i]).Index <= LastLog(log'[i]).Index
    BY <2>2, LeaderGrows, Zenon DEF ledStep, soundStep, LogsSound
  <2>6. CASE c > 0
    <3>1. PICK t \in DOMAIN L : /\ t <= currentTerm[i] /\ covered(L, c, t)
                                /\ SameUpTo(logPiece(log[i]), L[t], c)
      BY <2>4, <2>6, Zenon DEF PeersCommit
    <3>2. c <= LastLog(log[i]).Index
      BY <2>5, <3>1, Zenon DEF SameUpTo
    <3>3. c <= callPiece(m).hi
      <4>1. c <= LastLog(log'[i]).Index
        BY <2>4, <2>5, <3>2
      <4> QED BY <2>2, <4>1, Zenon
    <3>4. m.Term = currentTerm[i]
      BY <2>2, Zenon DEF ledStep, soundStep, rolesStep
    <3>5. t \in DOMAIN M /\ covered(M, c, t)'
      BY <3>1, CoveredStep, Zenon
    <3> QED BY <2>3, <3>1, <3>3, <3>4, <3>5, Zenon
  <2>7. CASE ~(c > 0)
    <3>1. c <= LastLog(log'[i]).Index
      BY <2>4, <2>5, <2>7
    <3> QED BY <2>2, <2>3, <2>7, <3>1, Zenon
  <2> QED BY <2>6, <2>7, Zenon
<1> QED BY <1>1, <1>2, Zenon DEF ledStep, soundStep, orderly

\* Every step keeps the invariant of committed entries.
LEMMA CommittedStep ==
    ASSUME LogFacts, soundStep, votesStep, ackStep, commitStep, CommittedInv
    PROVE  CommittedInv'
<1>1. PICK L : CommitInv(L)
  BY Zenon DEF CommittedInv
<1>2. PICK M : nextLogs(L, M)
  BY NextLogs, Zenon DEF soundStep
<1>3. LeaderInv(L) /\ AcksTrue(L) /\ AcksFirm(L) /\ PeersCommit(L) /\ CallsCommit(L)
  BY <1>1, Zenon DEF CommitInv
<1>4. Grows(L, M) /\ LeaderInv(M)'
  BY <1>2, <1>3, LeaderInvStep, Zenon
<1>5. ledStep(L, M)
  BY <1>2, <1>3, <1>4, Zenon DEF ledStep
<1>6. AcksTrue(M)'
  BY <1>3, <1>5, AcksTrueStep, Zenon
<1>7. AcksFirm(M)'
  BY <1>3, <1>5, <1>6, AcksFirmStep, Zenon
<1>8. PeersCommit(M)' /\ CallsCommit(M)'
  BY <1>3, <1>5, <1>7, PeersCommitStep, CallsCommitStep, Zenon
<1>9. CommitInv(M)'
  BY <1>4, <1>6, <1>7, <1>8, Zenon DEF CommitInv
<1> QED BY <1>9, Zenon DEF CommittedInv

\* When Make starts the peers nothing is committed and nobody leads.
LEMMA CommittedInit == LogFacts /\ Init => CommittedInv /\ VoteCallsTrue
<1> SUFFICES ASSUME LogFacts, Init PROVE CommittedInv /\ VoteCallsTrue
  OBVIOUS
<1>1. PICK L : L = [u \in {} |-> 0]
  OBVIOUS
<1>2. DOMAIN L = {} /\ requests = {} /\ appendCalls = {} /\ voteCalls = {} /\ voteReplies = {}
  BY <1>1, Zenon DEF Init, requests
<1>3. ASSUME NEW i \in Server
      PROVE  /\ state[i] = "Follower" /\ state[i] # "Leader" /\ commitIndex[i] = 0
             /\ ~(commitIndex[i] > 0) /\ log[i] = EmptyLog
  <2>1. "Follower" # "Leader"
    OBVIOUS
  <2>2. state[i] = "Follower" /\ commitIndex[i] = 0 /\ log[i] = EmptyLog
    BY Zenon DEF Init
  <2>3. ~(commitIndex[i] > 0)
    BY <2>2
  <2> QED BY <2>1, <2>2, <2>3, Zenon
<1>4. writtenIn(L, logPiece(EmptyLog))
  <2>1. logPiece(EmptyLog).hi = 0
    <3>1. LastLog(EmptyLog).Index = 0
      BY DEF EmptyLog, LastLog, LogLen, at
    <3> QED BY <3>1, Zenon DEF logPiece
  <2>2. 1 .. 0 = {}
    OBVIOUS
  <2> QED BY <2>1, <2>2, Zenon DEF writtenIn
<1>5. LeaderInv(L)
  BY <1>2, <1>3, <1>4, Zenon DEF LeaderInv, LedTerms, LeaderLogs, SentFrom, Written
<1>6. CommitInv(L)
  BY <1>2, <1>3, <1>5, Zenon DEF CommitInv, AcksTrue, AcksFirm, PeersCommit, CallsCommit
<1>7. VoteCallsTrue
  BY <1>2, Zenon DEF VoteCallsTrue
<1> QED BY <1>6, <1>7, Zenon DEF CommittedInv

-----------------------------------------------------------------------------
(* What the invariant means                                                  *)

\* Logs that have the same entries as pieces have them.
LEMMA SameAt ==
    ASSUME LogsSound, NEW i \in Server, NEW j \in Server, NEW b \in Nat,
           SameUpTo(logPiece(log[i]), logPiece(log[j]), b), NEW n \in 0 .. b
    PROVE  n \in Indices(log[i]) /\ n \in Indices(log[j]) /\ at(log[i], n) = at(log[j], n)
<1>1. ASSUME NEW k \in Server
      PROVE  /\ LastLog(log[k]).Index \in Nat /\ Indices(log[k]) = 0 .. LastLog(log[k]).Index
             /\ logPiece(log[k]).hi = LastLog(log[k]).Index
             /\ \A x \in Indices(log[k]) : logPiece(log[k]).e[x] = at(log[k], x)
  BY <1>1, Zenon DEF LogsSound
<1>2. b <= LastLog(log[i]).Index /\ b <= LastLog(log[j]).Index
  BY <1>1, Zenon DEF SameUpTo
<1>3. LastLog(log[i]).Index \in Nat /\ LastLog(log[j]).Index \in Nat
  BY <1>1, Zenon
<1>4. n \in 0 .. LastLog(log[i]).Index /\ n \in 0 .. LastLog(log[j]).Index
  BY <1>2, <1>3
<1> QED BY <1>1, <1>4, Zenon DEF SameUpTo

\* What a leader believes of a peer of its term.
LEMMA AcksMatch == LogFacts /\ StorageInv /\ LogsSound /\ CommittedInv => MatchIndexTrue
<1> SUFFICES ASSUME LogFacts, StorageInv, LogsSound, CommittedInv, NEW i \in Server, NEW j \in Server,
                    state[i] = "Leader", currentTerm[j] = currentTerm[i],
                    NEW n \in 1 .. matchIndex[i][j]
             PROVE  /\ n \in Indices(log[i]) \cap Indices(log[j])
                    /\ at(log[i], n) = at(log[j], n)
  BY Zenon DEF MatchIndexTrue
<1>1. PICK L : CommitInv(L)
  BY Zenon DEF CommittedInv
<1>2. matchIndex[i][j] \in Nat
  BY Zenon DEF StorageInv, TypeOK
<1>3. n \in Nat \ {0} /\ n <= matchIndex[i][j] /\ n \in Nat /\ n \in 0 .. n
  BY <1>2
<1>4. Ack(i, j, n)
  BY <1>3, Zenon DEF Ack
<1>5. SameUpTo(logPiece(log[j]), logPiece(log[i]), n)
  <2>1. L[currentTerm[i]] = logPiece(log[i])
    BY <1>1, Zenon DEF CommitInv, LeaderInv, LeaderLogs
  <2>2. SameUpTo(logPiece(log[j]), L[currentTerm[i]], n)
    BY <1>1, <1>3, <1>4, Zenon DEF CommitInv, AcksTrue
  <2> QED BY <2>1, <2>2, Zenon
<1>6. n \in Nat /\ n \in 0 .. n
  BY <1>3, Zenon
<1>7. n \in Indices(log[j]) /\ n \in Indices(log[i]) /\ at(log[j], n) = at(log[i], n)
  BY <1>5, <1>6, SameAt, ZenonT(40)
<1> QED BY <1>7, Zenon

\* Where a peer's committed entries come from.
LEMMA CommittedOf ==
    ASSUME StorageInv, LogsSound, NEW L, CommitInv(L), NEW i \in Server,
           NEW n \in 1 .. commitIndex[i]
    PROVE  /\ n \in Nat /\ n # 0 /\ n <= commitIndex[i] /\ commitIndex[i] \in Nat
           /\ n \in 0 .. commitIndex[i] /\ n \in 0 .. n
           /\ logPiece(log[i]).hi \in Nat
           /\ \E t \in DOMAIN L : /\ t <= currentTerm[i] /\ covered(L, commitIndex[i], t)
                                  /\ SameUpTo(logPiece(log[i]), L[t], commitIndex[i])
<1>1. commitIndex[i] \in Nat
  BY Zenon DEF StorageInv, TypeOK
<1>2. /\ n \in Nat /\ n # 0 /\ n <= commitIndex[i] /\ n \in 0 .. commitIndex[i] /\ n \in 0 .. n
      /\ commitIndex[i] > 0
  BY <1>1
<1>3. logPiece(log[i]).hi \in Nat
  BY Zenon DEF LogsSound, rooted
<1> QED BY <1>1, <1>2, <1>3, Zenon DEF CommitInv, PeersCommit

\* Two peers that have both committed an entry have the same.
LEMMA CommittedSame ==
    ASSUME LogFacts, LogsSound, NEW L, LedTerms(L), Written(L), NEW i \in Server, NEW j \in Server,
           NEW n \in Nat, NEW b \in Nat, NEW c \in Nat, n <= b, n <= c,
           NEW t \in DOMAIN L, NEW u \in DOMAIN L, t <= u, covered(L, b, t),
           SameUpTo(logPiece(log[i]), L[t], b), SameUpTo(logPiece(log[j]), L[u], c)
    PROVE  SameUpTo(logPiece(log[i]), logPiece(log[j]), n)
<1>1. /\ L[t].hi \in Nat /\ L[u].hi \in Nat
      /\ logPiece(log[i]).hi \in Nat /\ logPiece(log[j]).hi \in Nat
  BY Zenon DEF LedTerms, LogsSound, rooted
<1>2. SameUpTo(L[t], L[u], b)
  BY CoveredLeaders, Zenon
<1>3. SameUpTo(logPiece(log[i]), L[u], b)
  BY <1>2, SameThrough, Zenon
<1>4. SameUpTo(logPiece(log[i]), L[u], n)
  BY <1>1, <1>3, SameLess, Zenon
<1>5. SameUpTo(logPiece(log[j]), L[u], n)
  BY <1>1, SameLess, Zenon
<1>6. SameUpTo(L[u], logPiece(log[j]), n)
  BY <1>5, SameBack, Zenon
<1> QED BY <1>4, <1>6, SameThrough, Zenon

\* No two peers hand out different entries.
LEMMA CommitsAgree == LogFacts /\ StorageInv /\ LogsSound /\ CommittedInv => StateMachineSafety
<1> SUFFICES ASSUME LogFacts, StorageInv, LogsSound, CommittedInv, NEW i \in Server, NEW j \in Server,
                    NEW n \in 1 .. Min({commitIndex[i], commitIndex[j]})
             PROVE  at(log[i], n) = at(log[j], n)
  BY Zenon DEF StateMachineSafety
<1>1. PICK L : CommitInv(L)
  BY Zenon DEF CommittedInv
<1>2. LedTerms(L) /\ Written(L)
  BY <1>1, Zenon DEF CommitInv, LeaderInv
<1>3. commitIndex[i] \in Nat /\ commitIndex[j] \in Nat
  BY Zenon DEF StorageInv, TypeOK
<1>4. n \in 1 .. commitIndex[i] /\ n \in 1 .. commitIndex[j]
  <2>1. PICK m : m = Min({commitIndex[i], commitIndex[j]})
    OBVIOUS
  <2>2. m \in Nat /\ m <= commitIndex[i] /\ m <= commitIndex[j]
    BY <1>3, <2>1, SmallerOfTwo, Zenon
  <2>3. n \in 1 .. m
    BY <2>1, Zenon
  <2> QED BY <1>3, <2>2, <2>3
<1>5. PICK t \in DOMAIN L : /\ t <= currentTerm[i] /\ covered(L, commitIndex[i], t)
                            /\ SameUpTo(logPiece(log[i]), L[t], commitIndex[i])
  BY <1>1, <1>4, CommittedOf, Zenon
<1>6. PICK u \in DOMAIN L : /\ u <= currentTerm[j] /\ covered(L, commitIndex[j], u)
                            /\ SameUpTo(logPiece(log[j]), L[u], commitIndex[j])
  BY <1>1, <1>4, CommittedOf, Zenon
<1>7. n \in Nat /\ n <= commitIndex[i] /\ n <= commitIndex[j] /\ n \in 0 .. n
  BY <1>1, <1>4, CommittedOf, Zenon
<1>8. t <= u \/ u <= t
  <2>1. t \in Nat /\ u \in Nat
    BY <1>2, <1>5, <1>6, Zenon DEF LedTerms
  <2> QED BY <2>1
<1>9. CASE t <= u
  <2>1. SameUpTo(logPiece(log[i]), logPiece(log[j]), n)
    BY <1>2, <1>3, <1>5, <1>6, <1>7, <1>9, CommittedSame, Zenon
  <2> QED BY <1>7, <2>1, SameAt
<1>10. CASE u <= t
  <2>1. SameUpTo(logPiece(log[j]), logPiece(log[i]), n)
    BY <1>2, <1>3, <1>5, <1>6, <1>7, <1>10, CommittedSame, Zenon
  <2> QED BY <1>7, <2>1, SameAt
<1> QED BY <1>8, <1>9, <1>10, Zenon

\* A leader has what was committed before its term.
LEMMA LeaderHolds == LogFacts /\ StorageInv /\ LogsSound /\ CommittedInv => LeaderCompleteness
<1> SUFFICES ASSUME LogFacts, StorageInv, LogsSound, CommittedInv, NEW i \in Server, NEW j \in Server,
                    state[i] = "Leader", currentTerm[j] <= currentTerm[i],
                    NEW n \in 1 .. commitIndex[j]
             PROVE  n \in Indices(log[i]) /\ at(log[i], n) = at(log[j], n)
  BY Zenon DEF LeaderCompleteness
<1>1. PICK L : CommitInv(L)
  BY Zenon DEF CommittedInv
<1>2. LedTerms(L) /\ Written(L) /\ currentTerm[i] \in DOMAIN L /\ L[currentTerm[i]] = logPiece(log[i])
  BY <1>1, Zenon DEF CommitInv, LeaderInv, LeaderLogs
<1>3. PICK t \in DOMAIN L : /\ t <= currentTerm[j] /\ covered(L, commitIndex[j], t)
                            /\ SameUpTo(logPiece(log[j]), L[t], commitIndex[j])
  BY <1>1, CommittedOf, Zenon
<1>4. commitIndex[j] \in Nat /\ n \in 0 .. commitIndex[j]
  BY <1>1, CommittedOf, Zenon
<1>5. t <= currentTerm[i]
  <2>1. t \in Nat /\ currentTerm[i] \in Nat /\ currentTerm[j] \in Nat
    BY <1>2, <1>3, Zenon DEF LedTerms, StorageInv, TypeOK
  <2> QED BY <1>3, <2>1
<1>6. SameUpTo(L[t], logPiece(log[i]), commitIndex[j])
  <2>1. SameUpTo(L[t], L[currentTerm[i]], commitIndex[j])
    BY <1>2, <1>3, <1>4, <1>5, CoveredLeaders, Zenon
  <2> QED BY <1>2, <2>1, Zenon
<1>7. SameUpTo(logPiece(log[j]), logPiece(log[i]), commitIndex[j])
  BY <1>3, <1>6, SameThrough, Zenon
<1> QED BY <1>4, <1>7, SameAt, Zenon

\* What a peer has committed is in a majority of the logs.
LEMMA CommitsHeld ==
    LogFacts /\ StorageInv /\ LogsSound /\ MajorityFacts /\ CommittedInv => CommittedOnMajority
<1> SUFFICES ASSUME LogFacts, StorageInv, LogsSound, MajorityFacts, CommittedInv, NEW i \in Server,
                    NEW n \in Indices(log[i]), n <= commitIndex[i]
             PROVE  commitMajority({j \in Server : n \in Indices(log[j])
                                                   /\ at(log[j], n) = at(log[i], n)})
  BY Zenon DEF CommittedOnMajority
<1> DEFINE S == {j \in Server : n \in Indices(log[j]) /\ at(log[j], n) = at(log[i], n)}
<1>1. /\ \A k \in Server : /\ LastLog(log[k]).Index \in Nat
                           /\ Indices(log[k]) = 0 .. LastLog(log[k]).Index
                           /\ logPiece(log[k]).e[0] = labelled(0, 0)
                           /\ \A x \in Indices(log[k]) : logPiece(log[k]).e[x] = at(log[k], x)
      /\ commitIndex[i] \in Nat
  BY Zenon DEF LogsSound, rooted, StorageInv, TypeOK
<1>2. n \in 0 .. LastLog(log[i]).Index /\ LastLog(log[i]).Index \in Nat
  BY <1>1, Zenon
<1>3. n \in Nat /\ (n # 0 => n \in 1 .. commitIndex[i])
  BY <1>1, <1>2
<1>4. SUFFICES voteMajority(S)
  <2>1. S \in SUBSET Server
    BY Zenon
  <2> QED BY <1>4, <2>1, Zenon DEF MajorityFacts
<1>5. CASE n = 0
  <2>1. ASSUME NEW k \in Server PROVE 0 \in Indices(log[k]) /\ at(log[k], 0) = labelled(0, 0)
    <3>1. LastLog(log[k]).Index \in Nat /\ Indices(log[k]) = 0 .. LastLog(log[k]).Index
      BY <1>1, Zenon
    <3>2. 0 \in Indices(log[k])
      BY <3>1
    <3> QED BY <1>1, <3>2, Zenon
  <2>2. S = Server
    BY <1>5, <2>1, Zenon
  <2>3. Server # {}
    BY Zenon
  <2> QED BY <2>2, <2>3, Zenon DEF MajorityFacts
<1>6. CASE n # 0
  <2>1. PICK L : CommitInv(L)
    BY Zenon DEF CommittedInv
  <2>2. LedTerms(L) /\ Written(L)
    BY <2>1, Zenon DEF CommitInv, LeaderInv
  <2>3. PICK t \in DOMAIN L : /\ covered(L, commitIndex[i], t)
                              /\ SameUpTo(logPiece(log[i]), L[t], commitIndex[i])
    BY <1>3, <1>6, <2>1, CommittedOf, Zenon
  <2>4. PICK m \in 1 .. L[t].hi : \E A \in SUBSET Server : commitIndex[i] <= m /\ Chosen(L, m, t, A)
    BY <2>3, Zenon DEF covered
  <2>5. PICK A \in SUBSET Server : commitIndex[i] <= m /\ Chosen(L, m, t, A)
    BY <2>4, Zenon
  <2>6. L[t].hi \in Nat
    BY <2>2, ZenonT(40) DEF LedTerms, rooted
  <2>7. m \in Nat /\ m # 0 /\ n <= m /\ n \in 0 .. n
    BY <1>1, <1>3, <2>4, <2>5, <2>6
  <2>8. ASSUME NEW v \in A PROVE v \in S
    <3>1. v \in Server /\ hasAt(v, m, t)
      BY <2>5, <2>8, Zenon DEF Chosen, Firm
    <3>2. SameUpTo(logPiece(log[v]), L[t], m)
      BY <2>2, <2>7, <3>1, HasSame, Zenon
    <3>3. logPiece(log[v]).hi \in Nat /\ logPiece(log[i]).hi \in Nat
      BY <3>1, Zenon DEF LogsSound, rooted
    <3>4. SameUpTo(logPiece(log[v]), L[t], n)
      BY <1>3, <2>6, <2>7, <3>2, <3>3, SameLess, Zenon
    <3>5. SameUpTo(logPiece(log[i]), L[t], n)
      BY <1>1, <1>3, <2>3, <2>6, <3>3, SameLess, Zenon
    <3>6. SameUpTo(L[t], logPiece(log[i]), n)
      BY <3>5, SameBack, Zenon
    <3>7. SameUpTo(logPiece(log[v]), logPiece(log[i]), n)
      BY <3>4, <3>6, SameThrough, Zenon
    <3>8. n \in Indices(log[v]) /\ at(log[v], n) = at(log[i], n)
      BY <1>3, <2>7, <3>1, <3>7, SameAt, SMTT(30)
    <3> QED BY <3>1, <3>8, Zenon
  <2>9. A \subseteq S /\ S \in SUBSET Server /\ voteMajority(A)
    BY <2>5, <2>8, Zenon DEF Chosen
  <2> HIDE DEF S
  <2> QED BY <2>9, Zenon DEF MajorityFacts
<1> QED BY <1>5, <1>6, Zenon

\* No step takes a committed entry out of a log.
LEMMA CommitsStay ==
    ASSUME LogFacts, soundStep, votesStep, CommittedInv, NEW i \in Server,
           NEW n \in 1 .. commitIndex[i]
    PROVE  n \in Indices(log'[i]) /\ at(log'[i], n) = at(log[i], n)
<1>1. PICK L : CommitInv(L)
  BY Zenon DEF CommittedInv
<1>2. PICK M : nextLogs(L, M)
  BY NextLogs, Zenon DEF soundStep
<1>3. ledStep(L, M)
  <2>1. LeaderInv(L)
    BY <1>1, Zenon DEF CommitInv
  <2>2. Grows(L, M) /\ LeaderInv(M)'
    BY <1>2, <2>1, LeaderInvStep, Zenon
  <2> QED BY <1>2, <2>1, <2>2, Zenon DEF ledStep
<1>4. StorageInv /\ LogsSound /\ LogsSound'
  BY Zenon DEF soundStep
<1>5. PICK t \in DOMAIN L : /\ t <= currentTerm[i] /\ covered(L, commitIndex[i], t)
                            /\ SameUpTo(logPiece(log[i]), L[t], commitIndex[i])
  BY <1>1, <1>4, CommittedOf, Zenon
<1>6. commitIndex[i] \in Nat /\ n \in 0 .. commitIndex[i] /\ n <= commitIndex[i] /\ n \in Nat
  BY <1>1, <1>4, CommittedOf, Zenon
<1>7. SameUpTo(logPiece(log'[i]), L[t], commitIndex[i])
  BY <1>3, <1>5, <1>6, CommitKept, Zenon
<1>8. /\ logPiece(log'[i]).e[n] = logPiece(log[i]).e[n]
      /\ commitIndex[i] <= logPiece(log'[i]).hi /\ commitIndex[i] <= logPiece(log[i]).hi
  BY <1>5, <1>6, <1>7, Zenon DEF SameUpTo
<1>9. /\ logPiece(log[i]).hi \in Nat /\ logPiece(log'[i]).hi \in Nat
      /\ Indices(log[i]) = 0 .. logPiece(log[i]).hi
      /\ Indices(log'[i]) = 0 .. logPiece(log'[i]).hi
  BY <1>4, Zenon DEF LogsSound
<1>10. n \in 0 .. logPiece(log[i]).hi /\ n \in 0 .. logPiece(log'[i]).hi
  BY <1>6, <1>8, <1>9
<1>11. logPiece(log[i]).e[n] = at(log[i], n) /\ logPiece(log'[i]).e[n] = at(log'[i], n)
  BY <1>4, <1>9, <1>10, Zenon DEF LogsSound
<1> QED BY <1>8, <1>9, <1>10, <1>11, Zenon
=============================================================================
