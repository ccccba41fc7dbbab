-------------------------------- MODULE Raft --------------------------------
(***************************************************************************)
(* The Raft peers of src/raft without service snapshots: elections        *)
(* (vote.go, leaderElection.go), replication and commitment (entry.go),   *)
(* the ticker, Start, persistence and restart (raft.go, persister.go).     *)
(*                                                                         *)
(* Every handler runs under rf.mu, so a handler is one action.  A remote   *)
(* call is a goroutine that sends, waits and handles the reply: the        *)
(* request in flight, its execution by the peer and the handling of the    *)
(* reply are three steps, and labrpc may lose, delay or reorder either     *)
(* message.                                                                *)
(***************************************************************************)
EXTENDS RaftLog, FiniteSets

CONSTANTS Server,        \* the peers
          LateReplies,   \* may an AppendEntries reply outlive its caller's term?
          MaxTerm,       \* bound: no election starts at this term
          MaxIndex,      \* bound: no Start once the log ends here
          MaxCalls,      \* bound: requests and replies in flight
          MaxRestarts    \* bound: crashes, over all peers

ASSUME ServerAssumption == IsFiniteSet(Server) /\ Nil \notin Server
ASSUME BoundsAssumption == /\ LateReplies \in BOOLEAN
                           /\ {MaxTerm, MaxIndex, MaxCalls, MaxRestarts} \subseteq Nat

VARIABLES state, currentTerm, votedFor, log, commitIndex,
          nextIndex, matchIndex,
          votes,          \* the peers counted in votecount, the peer's own vote included
          persister,      \* what SaveRaftState last stored, per peer
          voteCalls, voteReplies, appendCalls, appendReplies,   \* in flight
          restarts        \* crashes so far

peerVars == <<state, currentTerm, votedFor, persister>>
leaderVars == <<nextIndex, matchIndex>>
vars == <<state, currentTerm, votedFor, log, commitIndex, nextIndex, matchIndex,
          votes, persister, voteCalls, voteReplies, appendCalls, appendReplies,
          restarts>>

Roles == {"Follower", "Candidate", "Leader"}

\* Mutants (here and below, <name>_<slip>): the operator of that name with a
\* plausible slip.  Runs use them to show that a property is sensitive.
persistData_NoLog(t, v, l) == [currentTerm |-> t, votedFor |-> v, log |-> EmptyLog]

\* persistData: what is encoded, and decoded again by readPersist.
persistData(t, v, l) == [currentTerm |-> t, votedFor |-> v, log |-> l]

-----------------------------------------------------------------------------
(* The arguments and replies of the two calls.  "open" says that the         *)
(* goroutine that made the call still exists: a crash of the caller does not *)
(* recall the request, but nobody is left to take its reply.                 *)

RequestVoteArgs ==
    [Term : Nat, CandidateId : Server, peer : Server,
     LastLogIndex : Nat, LastLogTerm : Nat, open : BOOLEAN]

RequestVoteReply == [args : RequestVoteArgs, Term : Nat, VoteGranted : BOOLEAN]

AppendEntriesArgs ==
    [Term : Nat, LeaderId : Server, peer : Server, PrevLogIndex : Nat,
     PrevLogTerm : Nat, Entries : Seq(Entry), LeaderCommit : Nat, open : BOOLEAN]

AppendEntriesReply ==
    [args : AppendEntriesArgs, Term : Nat, Success : BOOLEAN, Conflict : BOOLEAN,
     XTerm : Int, XIndex : Int, XLen : Nat]

InFlight == Cardinality(voteCalls) + Cardinality(voteReplies)
            + Cardinality(appendCalls) + Cardinality(appendReplies)

\* Each call of a broadcast is a goroutine; the network loses some of them.
Broadcast(calls, pending) ==
    \E sent \in SUBSET calls : pending' = pending \cup sent /\ InFlight' <= MaxCalls

\* A vote is asked for once; its reply may be lost.
ReplyToVote(args, reply) ==
    /\ voteCalls' = voteCalls \ {args}
    /\ \/ voteReplies' = voteReplies
       \/ args.open /\ voteReplies' = voteReplies \cup {reply}

\* The ticker repeats a heartbeat as long as nothing changes, so a delivered
\* AppendEntries may have twins that are still in flight.
ReplyToAppend(args, reply) ==
    /\ appendCalls' \in {appendCalls, appendCalls \ {args}}
    /\ \/ appendReplies' = appendReplies
       \/ args.open /\ appendReplies' = appendReplies \cup {reply}
    /\ InFlight' <= MaxCalls

-----------------------------------------------------------------------------
(* vote.go and leaderElection.go                                             *)

SetPeer(i, s, t, v, saved) ==
    /\ state' = [state EXCEPT ![i] = s]
    /\ currentTerm' = [currentTerm EXCEPT ![i] = t]
    /\ votedFor' = [votedFor EXCEPT ![i] = v]
    /\ persister' = [persister EXCEPT ![i] = saved]

setNewTerm_SameTerm(i, term) ==
    IF term >= currentTerm[i]
    THEN [state |-> "Follower", currentTerm |-> term, votedFor |-> Nil,
          saved |-> persistData(term, Nil, log[i])]
    ELSE [state |-> state[i], currentTerm |-> currentTerm[i],
          votedFor |-> votedFor[i], saved |-> persister[i]]

\* What a peer is after "if term > rf.currentTerm { rf.setNewTerm(term) }".
setNewTerm(i, term) ==
    IF term > currentTerm[i]
    THEN [state |-> "Follower", currentTerm |-> term, votedFor |-> Nil,
          saved |-> persistData(term, Nil, log[i])]
    ELSE [state |-> state[i], currentTerm |-> currentTerm[i],
          votedFor |-> votedFor[i], saved |-> persister[i]]

StepDown(i, term) ==
    LET p == setNewTerm(i, term)
    IN  SetPeer(i, p.state, p.currentTerm, p.votedFor, p.saved)

upToDate_Any(args, last) == TRUE
upToDate_TermOnly(args, last) == args.LastLogTerm >= last.Term

\* "valid" in RequestVote: the candidate's log is at least as up to date.
upToDate(args, last) ==
    \/ args.LastLogTerm > last.Term
    \/ args.LastLogTerm = last.Term /\ args.LastLogIndex >= last.Index

mayVote(voted, candidate) == voted \in {Nil, candidate}

leaderElection(i) ==
    LET t == currentTerm[i] + 1
        last == LastLog(log[i])
    IN  /\ SetPeer(i, "Candidate", t, i, persistData(t, i, log[i]))
        /\ votes' = [votes EXCEPT ![i] = {i}]
        /\ UNCHANGED <<voteReplies, appendCalls, appendReplies>>
        /\ Broadcast({[Term |-> t, CandidateId |-> i, peer |-> j,
                       LastLogIndex |-> last.Index, LastLogTerm |-> last.Term,
                       open |-> TRUE] : j \in Server \ {i}}, voteCalls)

\* RequestVote turns down a candidate of an older term.
RefuseVote(args) ==
    LET i == args.peer
    IN  /\ args.Term < currentTerm[i]
        /\ ReplyToVote(args, [args |-> args, Term |-> currentTerm[i],
                              VoteGranted |-> FALSE])
        /\ UNCHANGED <<peerVars, log, commitIndex, leaderVars, votes,
                       appendCalls, appendReplies, restarts>>

savedVote_Early(p, v, l) == persistData(p.currentTerm, p.votedFor, l)

\* What RequestVote leaves in the persister: the vote before the reply is sent.
savedVote(p, v, l) == persistData(p.currentTerm, v, l)

ConsiderVote(args) ==
    LET i == args.peer
        p == setNewTerm(i, args.Term)
        grant == /\ mayVote(p.votedFor, args.CandidateId)
                 /\ upToDate(args, LastLog(log[i]))
    IN  /\ args.Term >= currentTerm[i]
        /\ IF grant
           THEN SetPeer(i, p.state, p.currentTerm, args.CandidateId,
                        savedVote(p, args.CandidateId, log[i]))
           ELSE StepDown(i, args.Term)
        /\ ReplyToVote(args, [args |-> args, Term |-> p.currentTerm,
                              VoteGranted |-> grant])
        /\ UNCHANGED <<log, commitIndex, leaderVars, votes,
                       appendCalls, appendReplies, restarts>>

RequestVote(args) == RefuseVote(args) \/ ConsiderVote(args)

-----------------------------------------------------------------------------
(* appendEntries: what a leader sends                                        *)

sendFrom_AtEnd(l, next) == LET last == LastLog(l).Index
                           IN  IF last < next THEN last ELSE next

\* The index the leader sends from: nextIndex, brought back into the log.
sendFrom(l, next) ==
    LET n == IF next <= 0 THEN 1 ELSE next
        last == LastLog(l).Index
    IN  IF last + 1 < n THEN last ELSE n

\* The peers that get entries: all of them on a heartbeat, else those behind.
behind(i, l, next, HeartBeat) ==
    {j \in Server \ {i} : HeartBeat \/ LastLog(l).Index >= next[j]}

\* The peers below Index0 get a snapshot instead (see NoSnapshotYet).
needSnapshot(l, next) == {j \in Server : sendFrom(l, next[j]) <= l.Index0}

entriesFor(i, j, l, n) ==
    [Term |-> currentTerm[i], LeaderId |-> i, peer |-> j,
     PrevLogIndex |-> at(l, n - 1).Index, PrevLogTerm |-> at(l, n - 1).Term,
     Entries |-> LogTail(l, n), LeaderCommit |-> commitIndex[i], open |-> TRUE]

\* l and next are the leader's log and nextIndex when appendEntries runs.
appendEntries(i, l, next, HeartBeat) ==
    Broadcast({entriesFor(i, j, l, sendFrom(l, next[j])) :
                 j \in behind(i, l, next, HeartBeat) \ needSnapshot(l, next)},
              appendCalls)

-----------------------------------------------------------------------------
(* candidateRequest: the reply to a vote request                             *)

\* 2*(*count) > len(rf.peers)
voteMajority(S) == 2 * Cardinality(S) > Cardinality(Server)

\* No vote: a newer term in the reply makes the caller step down.
VoteDenied(reply) ==
    LET i == reply.args.CandidateId
    IN  /\ ~reply.VoteGranted
        /\ StepDown(i, reply.Term)
        /\ voteReplies' = voteReplies \ {reply}
        /\ UNCHANGED <<log, commitIndex, leaderVars, votes, voteCalls,
                       appendCalls, appendReplies, restarts>>

\* The votes of reply's election once reply is counted.
countVote(i, reply) ==
    IF reply.args.Term = currentTerm[i] THEN votes[i] \cup {reply.args.peer}
                                        ELSE votes[i]

\* "the caller is still a candidate of the term it asked for, with a majority"
elected(i, reply) == /\ voteMajority(countVote(i, reply))
                     /\ currentTerm[i] = reply.args.Term
                     /\ state[i] = "Candidate"

VoteCounted(reply) ==
    LET i == reply.args.CandidateId
    IN  /\ reply.VoteGranted
        /\ ~elected(i, reply)
        /\ votes' = [votes EXCEPT ![i] = countVote(i, reply)]
        /\ voteReplies' = voteReplies \ {reply}
        /\ UNCHANGED <<peerVars, log, commitIndex, leaderVars, voteCalls,
                       appendCalls, appendReplies, restarts>>

becomeLeader(reply) ==
    LET i == reply.args.CandidateId
        next == [j \in Server |-> LastLog(log[i]).Index + 1]
    IN  /\ reply.VoteGranted
        /\ elected(i, reply)
        /\ votes' = [votes EXCEPT ![i] = countVote(i, reply)]
        /\ SetPeer(i, "Leader", currentTerm[i], votedFor[i],
                   persistData(currentTerm[i], votedFor[i], log[i]))
        /\ nextIndex' = [nextIndex EXCEPT ![i] = next]
        /\ matchIndex' = [matchIndex EXCEPT ![i] = [j \in Server |-> 0]]
        /\ voteReplies' = voteReplies \ {reply}
        /\ UNCHANGED <<log, commitIndex, voteCalls, appendReplies, restarts>>
        /\ appendEntries(i, log[i], next, TRUE)

candidateRequest(reply) ==
    VoteDenied(reply) \/ VoteCounted(reply) \/ becomeLeader(reply)

-----------------------------------------------------------------------------
(* AppendEntries: the follower's side                                        *)

\* A reply that reports no conflict.
answer(args, t, success) ==
    [args |-> args, Term |-> t, Success |-> success, Conflict |-> FALSE,
     XTerm |-> 0, XIndex |-> 0, XLen |-> 0]

\* The early returns: a caller of an older term, or a position that a
\* snapshot of this peer has swallowed.
RefuseEntries(args) ==
    LET i == args.peer
    IN  /\ args.Term < currentTerm[i] \/ args.PrevLogIndex < log[i].Index0
        /\ StepDown(i, args.Term)
        /\ UNCHANGED <<log, commitIndex, leaderVars, votes, voteCalls,
                       voteReplies, restarts>>
        /\ ReplyToAppend(args, answer(args, currentTerm[i], FALSE))

\* The peer past the early returns; a candidate gives way.
follow(i, args) ==
    LET p == setNewTerm(i, args.Term)
    IN  IF p.state = "Candidate"
        THEN [p EXCEPT !.state = "Follower",
                       !.saved = persistData(p.currentTerm, p.votedFor, log[i])]
        ELSE p

current(args) == /\ args.Term >= currentTerm[args.peer]
                 /\ args.PrevLogIndex >= log[args.peer].Index0

fits_LengthOnly(args) == LastLog(log[args.peer]).Index >= args.PrevLogIndex

fits(args) == /\ LastLog(log[args.peer]).Index >= args.PrevLogIndex
              /\ at(log[args.peer], args.PrevLogIndex).Term = args.PrevLogTerm

\* The log is too short, or has another term at PrevLogIndex.
conflict(args) ==
    LET l == log[args.peer]
        missing == LastLog(l).Index < args.PrevLogIndex
    IN  [args |-> args, Term |-> currentTerm[args.peer],
         Success |-> FALSE, Conflict |-> TRUE,
         XTerm |-> IF missing THEN -1 ELSE at(l, args.PrevLogIndex).Term,
         XIndex |-> IF missing THEN -1 ELSE firstOfTerm(l, args.PrevLogIndex),
         XLen |-> LogLen(l)]

ReportConflict(args) ==
    LET i == args.peer
        p == follow(i, args)
    IN  /\ current(args)
        /\ ~fits(args)
        /\ SetPeer(i, p.state, p.currentTerm, p.votedFor, p.saved)
        /\ UNCHANGED <<log, commitIndex, leaderVars, votes, voteCalls,
                       voteReplies, restarts>>
        /\ ReplyToAppend(args, conflict(args))

\* min(args.LeaderCommit, lastLog.Index), when it moves commitIndex forward
followCommit(commit, leaderCommit, l) ==
    IF leaderCommit > commit THEN Min({leaderCommit, LastLog(l).Index}) ELSE commit

StoreEntries(args) ==
    LET i == args.peer
        p == follow(i, args)
        l == merge(log[i], args.Entries)
    IN  /\ current(args)
        /\ fits(args)
        /\ log' = [log EXCEPT ![i] = l]
        /\ SetPeer(i, p.state, p.currentTerm, p.votedFor,
                   IF l = log[i] THEN p.saved
                   ELSE persistData(p.currentTerm, p.votedFor, l))
        /\ commitIndex' = [commitIndex EXCEPT
                             ![i] = followCommit(@, args.LeaderCommit, l)]
        /\ UNCHANGED <<leaderVars, votes, voteCalls, voteReplies, restarts>>
        /\ ReplyToAppend(args, answer(args, currentTerm[i], TRUE))

AppendEntries(args) ==
    RefuseEntries(args) \/ ReportConflict(args) \/ StoreEntries(args)

-----------------------------------------------------------------------------
(* leaderSendEntries and Commit: the leader's side of the reply              *)

backUp_PastEnd(l, reply) ==
    IF reply.XTerm = -1 THEN reply.XLen + 1
    ELSE LET n == findLastLogInTerm(l, reply.XTerm)
         IN  IF n > 0 THEN n ELSE reply.XIndex

\* nextIndex for a peer that reported a conflict.
backUp(l, reply) ==
    IF reply.XTerm = -1 THEN reply.XLen
    ELSE LET n == findLastLogInTerm(l, reply.XTerm)
         IN  IF n > 0 THEN n ELSE reply.XIndex

\* counter > len(rf.peers)/2
commitMajority(S) == Cardinality(S) > Cardinality(Server) \div 2

Commit_OneShort(i, match) ==
    LET ready == {n \in commitIndex[i] + 1 .. LastLog(log[i]).Index :
                    /\ at(log[i], n).Term = currentTerm[i]
                    /\ commitMajority({i} \cup {j \in Server \ {i} : match[j] >= n - 1})}
    IN  commitIndex' = [commitIndex EXCEPT ![i] = IF ready = {} THEN @ ELSE Max(ready)]

\* Commit: the last entry of the leader's own term that a majority holds.
Commit(i, match) ==
    LET ready == {n \in commitIndex[i] + 1 .. LastLog(log[i]).Index :
                    /\ at(log[i], n).Term = currentTerm[i]
                    /\ commitMajority({i} \cup {j \in Server \ {i} : match[j] >= n})}
    IN  commitIndex' = [commitIndex EXCEPT ![i] = IF ready = {} THEN @ ELSE Max(ready)]

matched_OneOver(reply) == reply.args.PrevLogIndex + Len(reply.args.Entries) + 1

matched(reply) == reply.args.PrevLogIndex + Len(reply.args.Entries)

\* "if !ok { return }": labrpc gives up on the call.
CallFailed(reply) == ~LateReplies /\ reply.args.Term # currentTerm[reply.args.LeaderId]

\* The reply is dropped, or shows a newer term, or comes to a peer that
\* leads no more.
IgnoreReply(reply) ==
    LET i == reply.args.LeaderId
    IN  /\ \/ CallFailed(reply) /\ UNCHANGED peerVars
           \/ /\ ~CallFailed(reply)
              /\ reply.Term > currentTerm[i] \/ state[i] # "Leader"
              /\ StepDown(i, reply.Term)
        /\ UNCHANGED <<log, commitIndex, leaderVars>>

\* Stored: the peer holds everything the call carried.
AdvancePeer(reply) ==
    LET i == reply.args.LeaderId
        j == reply.args.peer
        match == [matchIndex[i] EXCEPT ![j] = Max({@, matched(reply)})]
    IN  /\ reply.Success
        /\ nextIndex' = [nextIndex EXCEPT ![i][j] = Max({@, matched(reply) + 1})]
        /\ matchIndex' = [matchIndex EXCEPT ![i] = match]
        /\ Commit(i, match)

\* Not stored: the next call starts earlier if the peer said where.
BackUpPeer(reply) ==
    LET i == reply.args.LeaderId
    IN  /\ ~reply.Success
        /\ nextIndex' = IF reply.Conflict
                        THEN [nextIndex EXCEPT ![i][reply.args.peer] = backUp(log[i], reply)]
                        ELSE nextIndex
        /\ UNCHANGED matchIndex
        /\ Commit(i, matchIndex[i])

leads(reply) == LET i == reply.args.LeaderId
                IN  ~CallFailed(reply) /\ reply.Term <= currentTerm[i] /\ state[i] = "Leader"

leaderSendEntries(reply) ==
    /\ \/ IgnoreReply(reply)
       \/ /\ leads(reply)
          /\ AdvancePeer(reply) \/ BackUpPeer(reply)
          /\ UNCHANGED <<peerVars, log>>
    /\ appendReplies' \in {appendReplies, appendReplies \ {reply}}
    /\ UNCHANGED <<votes, voteCalls, voteReplies, appendCalls, restarts>>

-----------------------------------------------------------------------------
(* Start, the ticker, crash and restart                                      *)

Start(i, command) ==
    LET entry == [Command |-> command, Term |-> currentTerm[i],
                  Index |-> LastLog(log[i]).Index + 1]
        l == append(log[i], <<entry>>)
    IN  /\ state[i] = "Leader"
        /\ LastLog(log[i]).Index < MaxIndex
        /\ log' = [log EXCEPT ![i] = l]
        /\ persister' = [persister EXCEPT
                           ![i] = persistData(currentTerm[i], votedFor[i], l)]
        /\ UNCHANGED <<state, currentTerm, votedFor, commitIndex, leaderVars, votes,
                       voteCalls, voteReplies, appendReplies, restarts>>
        /\ appendEntries(i, l, nextIndex[i], FALSE)

\* The ticker of a leader; appendEntries also pushes its election time back.
HeartBeat(i) ==
    /\ state[i] = "Leader"
    /\ UNCHANGED <<peerVars, log, commitIndex, leaderVars, votes,
                   voteCalls, voteReplies, appendReplies, restarts>>
    /\ appendEntries(i, log[i], nextIndex[i], TRUE)

\* The ticker of any other peer, once its election time has passed.
Timeout(i) ==
    /\ state[i] # "Leader"
    /\ currentTerm[i] < MaxTerm
    /\ UNCHANGED <<log, commitIndex, leaderVars, restarts>>
    /\ leaderElection(i)

\* crash1, then start1 and Make: the peer comes back with what was persisted.
\* The replies it waited for are gone, and its own requests on the way find no
\* caller any more; a request to it is lost or reaches the new instance.
RestartFrom(i, saved) ==
    /\ restarts < MaxRestarts
    /\ restarts' = restarts + 1
    /\ SetPeer(i, "Follower", saved.currentTerm, saved.votedFor, saved)
    /\ log' = [log EXCEPT ![i] = saved.log]
    /\ commitIndex' = [commitIndex EXCEPT ![i] = saved.log.Index0]
    /\ nextIndex' = [nextIndex EXCEPT ![i] = [j \in Server |-> 0]]
    /\ matchIndex' = [matchIndex EXCEPT ![i] = [j \in Server |-> 0]]
    /\ votes' = [votes EXCEPT ![i] = {}]
    /\ \E lost \in SUBSET {m \in voteCalls : m.peer = i} :
         voteCalls' = {[m EXCEPT !.open = m.open /\ m.CandidateId # i] :
                         m \in voteCalls \ lost}
    /\ \E lost \in SUBSET {m \in appendCalls : m.peer = i} :
         appendCalls' = {[m EXCEPT !.open = m.open /\ m.LeaderId # i] :
                           m \in appendCalls \ lost}
    /\ voteReplies' = {r \in voteReplies : r.args.CandidateId # i}
    /\ appendReplies' = {r \in appendReplies : r.args.LeaderId # i}

Restart(i) == RestartFrom(i, persister[i])

\* A crash inside a handler that persists twice: RequestVote between the new
\* term and the vote, AppendEntries between the new term, the truncation and
\* the append.
CrashInVote(args) ==
    /\ args.Term > currentTerm[args.peer]
    /\ RestartFrom(args.peer, setNewTerm(args.peer, args.Term).saved)
    /\ args \notin voteCalls'

CrashInAppend(args) ==
    LET p == follow(args.peer, args)
    IN  /\ current(args)
        /\ \/ RestartFrom(args.peer, p.saved)
           \/ /\ fits(args)
              /\ RestartFrom(args.peer,
                             persistData(p.currentTerm, p.votedFor,
                                         cutBack(log[args.peer], args.Entries)))

-----------------------------------------------------------------------------
\* Make on an empty persister (readPersist returns at once).
Init ==
    /\ state = [i \in Server |-> "Follower"]
    /\ currentTerm = [i \in Server |-> 0]
    /\ votedFor = [i \in Server |-> Nil]
    /\ log = [i \in Server |-> EmptyLog]
    /\ commitIndex = [i \in Server |-> 0]
    /\ nextIndex = [i \in Server |-> [j \in Server |-> 0]]
    /\ matchIndex = [i \in Server |-> [j \in Server |-> 0]]
    /\ votes = [i \in Server |-> {}]
    /\ persister = [i \in Server |-> persistData(0, Nil, EmptyLog)]
    /\ voteCalls = {} /\ voteReplies = {} /\ appendCalls = {} /\ appendReplies = {}
    /\ restarts = 0

Next ==
    \/ \E i \in Server : Timeout(i) \/ HeartBeat(i) \/ Restart(i)
    \/ \E i \in Server, command \in Command : Start(i, command)
    \/ \E args \in voteCalls : RequestVote(args) \/ CrashInVote(args)
    \/ \E reply \in voteReplies : candidateRequest(reply)
    \/ \E args \in appendCalls : AppendEntries(args) \/ CrashInAppend(args)
    \/ \E reply \in appendReplies : leaderSendEntries(reply)

Spec == Init /\ [][Next]_vars

-----------------------------------------------------------------------------
(* Properties                                                                *)

\* Every variable of every peer, and every request and reply, has its Go type
\* whatever the handlers of vote.go and entry.go do.
TypeOK ==
    /\ state \in [Server -> Roles]
    /\ currentTerm \in [Server -> Nat]
    /\ votedFor \in [Server -> Server \cup {Nil}]
    /\ log \in [Server -> Log]
    /\ commitIndex \in [Server -> Nat]
    /\ nextIndex \in [Server -> [Server -> Int]]
    /\ matchIndex \in [Server -> [Server -> Nat]]
    /\ votes \in [Server -> SUBSET Server]
    /\ persister \in [Server -> [currentTerm : Nat, votedFor : Server \cup {Nil}, log : Log]]
    /\ voteCalls \subseteq RequestVoteArgs
    /\ voteReplies \subseteq RequestVoteReply
    /\ appendCalls \subseteq AppendEntriesArgs
    /\ appendReplies \subseteq AppendEntriesReply
    /\ restarts \in Nat

\* Whenever rf.mu is free, the persister holds the term, vote and log of the
\* peer: no handler of vote.go, entry.go or Start answers before it persists.
PersisterCurrent ==
    \A i \in Server : persister[i] = persistData(currentTerm[i], votedFor[i], log[i])

\* The index stored in an entry is its place in the log, in every peer and in
\* every call: AppendEntries truncates and appends by that index alone.
LogsIndexed ==
    /\ \A i \in Server : Indexed(log[i])
    /\ \A m \in appendCalls : Follows(m.PrevLogIndex, m.Entries)

\* The votes that count or may still count: granted replies on the way, and
\* the votes a candidate or leader has counted in its term.
grants ==
    {[voter |-> r.args.peer, term |-> r.args.Term, candidate |-> r.args.CandidateId] :
       r \in {r \in voteReplies : r.VoteGranted}}
    \cup UNION {{[voter |-> v, term |-> currentTerm[c], candidate |-> c] : v \in votes[c]} :
                 c \in {c \in Server : state[c] # "Follower"}}

\* A voter stands by each of its votes until its term moves on, over crashes
\* too: RequestVote answers only what its persister already holds.
VotesHeld ==
    \A g \in grants : \/ currentTerm[g.voter] > g.term
                      \/ currentTerm[g.voter] = g.term /\ votedFor[g.voter] = g.candidate

\* Nobody's vote counts for two candidates of a term.
VotesUnique ==
    \A g, h \in grants : g.voter = h.voter /\ g.term = h.term => g.candidate = h.candidate

\* checkOneLeader: a term has at most one leader, across lost and late votes,
\* concurrent elections, and crashes between granting a vote and answering.
ElectionSafety ==
    \A i, j \in Server :
        state[i] = "Leader" /\ state[j] = "Leader" /\ currentTerm[i] = currentTerm[j]
            => i = j

\* Two logs that agree on the term of an index agree on everything up to it:
\* what AppendEntries' PrevLog check, truncate and append have to maintain.
LogMatching ==
    \A i \in Server : \A j \in Server \ {i} :
        LET common == Indices(log[i]) \cap Indices(log[j])
        IN  \A n \in common :
                at(log[i], n).Term = at(log[j], n).Term =>
                    \A k \in common : k <= n => at(log[i], k) = at(log[j], k)

\* checkLogs: no two peers commit, and so apply, different entries at an index.
StateMachineSafety ==
    \A i, j \in Server :
        \A n \in 1 .. Min({commitIndex[i], commitIndex[j]}) :
            n \in Indices(log[i]) \cap Indices(log[j]) => at(log[i], n) = at(log[j], n)

\* What Commit counts is true: a committed entry is in the log of a majority,
\* then and ever after.
CommittedOnMajority ==
    \A i \in Server : \A n \in Indices(log[i]) :
        n <= commitIndex[i] =>
            commitMajority({j \in Server : n \in Indices(log[j])
                                           /\ at(log[j], n) = at(log[i], n)})

\* matchIndex never overstates a peer that is still in the leader's term.
MatchIndexTrue ==
    \A i, j \in Server :
        state[i] = "Leader" /\ currentTerm[j] = currentTerm[i] =>
            \A n \in 1 .. matchIndex[i][j] :
                /\ n \in Indices(log[i]) \cap Indices(log[j])
                /\ at(log[i], n) = at(log[j], n)

\* A leader has every entry committed by a peer of its term or an older one.
LeaderCompleteness ==
    \A i, j \in Server :
        state[i] = "Leader" /\ currentTerm[j] <= currentTerm[i] =>
            \A n \in 1 .. commitIndex[j] :
                n \in Indices(log[i]) /\ at(log[i], n) = at(log[j], n)

\* A leader without service snapshots never falls through to SendSnapshot: no
\* reply, however late, moves nextIndex out of the part of the log it has.
NoSnapshotYet ==
    \A i \in Server : state[i] = "Leader" => needSnapshot(log[i], nextIndex[i]) = {}

\* The conflict hints converge: handling one of the leader's own term makes
\* the next call start strictly earlier, and never below the first entry.
ConflictProgress ==
    \A r \in appendReplies :
        LET i == r.args.LeaderId
        IN  r.Conflict /\ state[i] = "Leader" /\ r.args.Term = currentTerm[i]
                => backUp(log[i], r) \in 1 .. r.args.PrevLogIndex

\* No step, a crash included, changes an entry that its peer has committed.
CommittedKept ==
    [][\A i \in Server : \A n \in 1 .. commitIndex[i] :
         n \in Indices(log'[i]) /\ at(log'[i], n) = at(log[i], n)]_vars

\* A crash or a late message never takes back a term, nor a vote of that term.
keepsVotes ==
    \A i \in Server :
        /\ currentTerm'[i] >= currentTerm[i]
        /\ currentTerm'[i] = currentTerm[i] /\ votedFor[i] # Nil
             => votedFor'[i] = votedFor[i]
VoteKept == [][keepsVotes]_vars
=============================================================================
