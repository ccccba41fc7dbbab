---------------------------- MODULE RaftSnapshot ----------------------------
(***************************************************************************)
(* Raft with service snapshots: the peers of module Raft, whose logs may    *)
(* now start at a snapshot, and SendSnapshot, InstallSnapShot, Snapshot and *)
(* CondInstallSnapshot of src/raft.                                         *)
(*                                                                         *)
(* The service applies what is committed at once and takes the snapshot an  *)
(* InstallSnapShot passes it in one step; RaftApply has those steps apart.  *)
(* A snapshot is the index up to which it holds commands.                   *)
(***************************************************************************)
EXTENDS Raft

CONSTANTS Zero,            \* peer number 0, Go's initial value of LeaderID
          MaxSnapCalls     \* bound: InstallSnapShot calls and replies in flight

ASSUME SnapshotAssumption ==
    Zero \in Server /\ MaxSnapCalls \in Nat

VARIABLES LeaderID, LastIndex, LastTerm,   \* as in struct Raft
          snapshot,        \* persister.snapshot, per peer
          sending,         \* SendSnapshot goroutines that wait for rf.mu: <<from, to>>
          snapCalls, snapReplies,
          fatal            \* why the tester's process ended, or ""

snapVars == <<LeaderID, LastIndex, LastTerm, snapshot, sending, snapCalls, snapReplies, fatal>>
allVars == <<vars, snapVars>>

-----------------------------------------------------------------------------
(* Scans that leave the log                                                  *)

\* The conflict scan of AppendEntries goes below Index0 unless the term of idx
\* begins in the log.
scanPanics(l, idx) ==
    l.Index0 > 0 /\ \A x \in l.Index0 + 1 .. idx : at(l, x - 1).Term = at(l, idx).Term

\* findLastLogInTerm goes below Index0 unless a term, or index 0, stops it.
findPanics(l, x) == l.Index0 > 1 /\ \A k \in Indices(l) : at(l, k).Term > x

Panic == fatal' = "index out of range" /\ UNCHANGED vars

-----------------------------------------------------------------------------
(* Handlers of Raft                                                          *)

\* The peers for which appendEntries starts SendSnapshot.
snapshotsFor(i, l, HB) ==
    {<<i, j>> : j \in behind(i, l, nextIndex[i], HB) \cap needSnapshot(l, nextIndex[i])}

SnapHeartBeat(i) ==
    /\ HeartBeat(i)
    /\ sending' = sending \cup snapshotsFor(i, log[i], TRUE)
    /\ UNCHANGED <<LeaderID, LastIndex, LastTerm, snapshot, snapCalls, snapReplies, fatal>>

SnapStart(i, command) ==
    /\ Start(i, command)
    /\ sending' = sending \cup snapshotsFor(i, log'[i], FALSE)
    /\ UNCHANGED <<LeaderID, LastIndex, LastTerm, snapshot, snapCalls, snapReplies, fatal>>

SnapAppendEntries(args) ==
    LET i == args.peer
        panics == /\ current(args) /\ ~fits(args)
                  /\ args.PrevLogIndex <= LastLog(log[i]).Index
                  /\ scanPanics(log[i], args.PrevLogIndex)
    IN  /\ IF panics THEN Panic ELSE AppendEntries(args) /\ UNCHANGED fatal
        /\ LeaderID' = [LeaderID EXCEPT ![i] = IF current(args) THEN args.LeaderId ELSE @]
        /\ UNCHANGED <<LastIndex, LastTerm, snapshot, sending, snapCalls, snapReplies>>

SnapLeaderSendEntries(reply) ==
    LET i == reply.args.LeaderId
        panics == /\ leads(reply) /\ reply.Conflict /\ reply.XTerm # -1
                  /\ findPanics(log[i], reply.XTerm)
    IN  /\ IF panics THEN Panic ELSE leaderSendEntries(reply) /\ UNCHANGED fatal
        /\ UNCHANGED <<LeaderID, LastIndex, LastTerm, snapshot, sending, snapCalls, snapReplies>>

-----------------------------------------------------------------------------
(* SendSnapshot and InstallSnapShot                                          *)

snapInFlight == Cardinality(snapCalls) + Cardinality(snapReplies)

snapshotArgs(i, j) ==
    [Term |-> currentTerm[i], LeaderID |-> LeaderID[i], from |-> i, peer |-> j,
     LastIncludedIndex |-> LastIndex[i], LastIncludedTerm |-> LastTerm[i],
     SnapShot |-> snapshot[i]]

\* The goroutine fills in its arguments when it gets rf.mu, whatever the peer
\* is by then; its call may be lost.
SendSnapshot(i, j) ==
    /\ sending' = sending \ {<<i, j>>}
    /\ snapCalls' \in {snapCalls, snapCalls \cup {snapshotArgs(i, j)}}
    /\ UNCHANGED <<vars, LeaderID, LastIndex, LastTerm, snapshot, snapReplies, fatal>>
    /\ snapInFlight' <= MaxSnapCalls

\* The log that holds nothing but the last entry of a snapshot.
dummy(k, t) == [Entries |-> <<[Command |-> Nil, Term |-> t, Index |-> k]>>, Index0 |-> k]

installed_DropTail(l, args) == dummy(args.LastIncludedIndex, args.LastIncludedTerm)
installed_NoTerm(l, args) == dummy(args.LastIncludedIndex, 0)

\* CondInstallSnapshot: the log from the snapshot on, if it has that entry.
installed(l, args) ==
    LET k == args.LastIncludedIndex
    IN  IF k \in Indices(l) /\ at(l, k).Term = args.LastIncludedTerm
        THEN [Entries |-> LogTail(l, k), Index0 |-> k]
        ELSE dummy(k, args.LastIncludedTerm)

\* rf.votedFor = args.LeaderID
vote(i, args) == args.LeaderID

\* Neither InstallSnapShot nor CondInstallSnapshot turns the snapshot down.
wanted(i, args) == args.LastIncludedIndex > log[i].Index0 /\ args.LastIncludedIndex > commitIndex[i]

\* The service that gets the snapshot compares its index (ingestSnap).
InstallSnapShot(args) ==
    LET i == args.peer
        k == args.LastIncludedIndex
        p == setNewTerm(i, args.Term)
        l == IF wanted(i, args) THEN installed(log[i], args) ELSE log[i]
    IN  /\ IF args.Term < currentTerm[i]
           THEN UNCHANGED <<peerVars, log, commitIndex, snapshot, fatal>>
           ELSE /\ SetPeer(i, "Follower", p.currentTerm, vote(i, args),
                           persistData(p.currentTerm, vote(i, args), l))
                /\ log' = [log EXCEPT ![i] = l]
                /\ commitIndex' = [commitIndex EXCEPT ![i] = IF wanted(i, args) THEN k ELSE @]
                /\ snapshot' = [snapshot EXCEPT ![i] = IF wanted(i, args) THEN args.SnapShot
                                                                          ELSE @]
                /\ fatal' = IF wanted(i, args) /\ args.SnapShot # k
                            THEN "snapshot doesn't match" ELSE ""
        /\ snapCalls' = snapCalls \ {args}
        /\ snapReplies' \in {snapReplies, snapReplies \cup {[args |-> args, Term |-> currentTerm[i]]}}
        /\ UNCHANGED <<leaderVars, votes, voteCalls, voteReplies, appendCalls, appendReplies,
                       restarts, LeaderID, LastIndex, LastTerm, sending>>

nextAfter_Last(i) == LastIndex[i]
nextAfter(i) == LastIndex[i] + 1

\* The rest of SendSnapshot: LastIndex is read again, after the call.
SnapshotSent(reply) ==
    LET i == reply.args.from
        j == reply.args.peer
        leading == reply.Term <= currentTerm[i] /\ state[i] = "Leader"
    IN  /\ StepDown(i, reply.Term)
        /\ nextIndex' = IF leading THEN [nextIndex EXCEPT ![i][j] = nextAfter(i)]
                                   ELSE nextIndex
        /\ matchIndex' = IF leading THEN [matchIndex EXCEPT ![i][j] = LastIndex[i]]
                                    ELSE matchIndex
        /\ snapReplies' = snapReplies \ {reply}
        /\ UNCHANGED <<log, commitIndex, votes, voteCalls, voteReplies, appendCalls,
                       appendReplies, restarts, LeaderID, LastIndex, LastTerm, snapshot,
                       sending, snapCalls, fatal>>

-----------------------------------------------------------------------------
(* Snapshot, and crashes                                                     *)

\* applierSnap passes an index it has just applied, so one above Index0.
Snapshot(i, k) ==
    LET l == [Entries |-> LogTail(log[i], k), Index0 |-> k]
    IN  /\ log[i].Index0 < k /\ k < LastLog(log[i]).Index /\ k <= commitIndex[i]
        /\ LastIndex' = [LastIndex EXCEPT ![i] = k]
        /\ LastTerm' = [LastTerm EXCEPT ![i] = at(log[i], k).Term]
        /\ log' = [log EXCEPT ![i] = l]
        /\ persister' = [persister EXCEPT ![i] = persistData(currentTerm[i], votedFor[i], l)]
        /\ snapshot' = [snapshot EXCEPT ![i] = k]
        /\ UNCHANGED <<state, currentTerm, votedFor, commitIndex, leaderVars, votes, voteCalls,
                       voteReplies, appendCalls, appendReplies, restarts, LeaderID, sending,
                       snapCalls, snapReplies, fatal>>

\* readPersist brings back the log, not LastIndex and LastTerm.
SnapRestart(i) ==
    /\ Restart(i)
    /\ LeaderID' = [LeaderID EXCEPT ![i] = Zero]
    /\ LastIndex' = [LastIndex EXCEPT ![i] = 0]
    /\ LastTerm' = [LastTerm EXCEPT ![i] = 0]
    /\ sending' = {s \in sending : s[1] # i}
    /\ snapReplies' = {r \in snapReplies : r.args.from # i}
    /\ UNCHANGED <<snapshot, snapCalls, fatal>>

-----------------------------------------------------------------------------
SnapInit ==
    /\ Init
    /\ LeaderID = [i \in Server |-> Zero]
    /\ LastIndex = [i \in Server |-> 0] /\ LastTerm = [i \in Server |-> 0]
    /\ snapshot = [i \in Server |-> 0]
    /\ sending = {} /\ snapCalls = {} /\ snapReplies = {} /\ fatal = ""

Elections ==
    /\ \/ \E i \in Server : Timeout(i)
       \/ \E args \in voteCalls : RequestVote(args)
       \/ \E reply \in voteReplies : candidateRequest(reply)
    /\ UNCHANGED snapVars

SnapNext ==
    /\ fatal = ""
    /\ \/ Elections
       \/ \E i \in Server : SnapHeartBeat(i) \/ SnapRestart(i)
       \/ \E i \in Server, command \in Command : SnapStart(i, command)
       \/ \E args \in appendCalls : SnapAppendEntries(args)
       \/ \E reply \in appendReplies : SnapLeaderSendEntries(reply)
       \/ \E i \in Server, k \in 1 .. MaxIndex : Snapshot(i, k)
       \/ \E s \in sending : SendSnapshot(s[1], s[2])
       \/ \E args \in snapCalls : InstallSnapShot(args)
       \/ \E reply \in snapReplies : SnapshotSent(reply)

SnapSpec == SnapInit /\ [][SnapNext]_allVars

\* The steps of i for its peer j: the ticker comes round and the call gets on
\* its way; the call is executed and answered; the answer is handled.
Beat(i, j) ==
    SnapHeartBeat(i) /\ (<<i, j>> \in sending' \/ \E m \in appendCalls' : m.peer = j)

Delivered(i, j) ==
    \E args \in appendCalls :
        /\ args.LeaderId = i /\ args.peer = j /\ SnapAppendEntries(args)
        /\ args \notin appendCalls' /\ \E r \in appendReplies' : r.args = args

Answered(i, j) ==
    \E reply \in appendReplies :
        /\ reply.args.LeaderId = i /\ reply.args.peer = j
        /\ SnapLeaderSendEntries(reply)
        /\ reply \notin appendReplies'

SnapshotOut(i, j) ==
    <<i, j>> \in sending /\ SendSnapshot(i, j) /\ \E m \in snapCalls' : m.peer = j

SnapshotIn(i, j) ==
    \E args \in snapCalls : /\ args.from = i /\ args.peer = j /\ InstallSnapShot(args)
                           /\ \E r \in snapReplies' : r.args = args

SnapshotOver(i, j) ==
    \E reply \in snapReplies :
        reply.args.from = i /\ reply.args.peer = j /\ SnapshotSent(reply)

\* Calls from i to j are not lost for ever.  Fairness is strong since the bounds
\* leave no room for a call while another one is in flight.
Fairness(i, j) ==
    /\ SF_allVars(fatal = "" /\ Beat(i, j))
    /\ SF_allVars(fatal = "" /\ Delivered(i, j)) /\ SF_allVars(fatal = "" /\ Answered(i, j))
    /\ SF_allVars(fatal = "" /\ SnapshotOut(i, j)) /\ SF_allVars(fatal = "" /\ SnapshotIn(i, j))
    /\ SF_allVars(fatal = "" /\ SnapshotOver(i, j))

-----------------------------------------------------------------------------
(* Properties                                                                *)

\* Peer j holds what i has at index n, in its log or in a snapshot.
holds(j, i, n) ==
    \/ n <= log[j].Index0
    \/ n \in Indices(log[j]) /\ (n \in Indices(log[i]) => at(log[j], n).Term = at(log[i], n).Term)

\* checkLogs of config.go, over snapshots: two peers that have both committed an index have
\* the same entry there, and the same term where one of them has a snapshot.
CommittedAgree ==
    \A i, j \in Server : \A n \in 1 .. Min({commitIndex[i], commitIndex[j]}) :
        n \in Indices(log[i]) \cap Indices(log[j]) =>
            /\ at(log[i], n).Term = at(log[j], n).Term
            /\ n > Max({log[i].Index0, log[j].Index0}) => at(log[i], n) = at(log[j], n)

\* What a peer commits, or learns from a snapshot to be committed, is held by a
\* majority, although SendSnapshot takes LastIndex for the peer's match before
\* the peer has installed anything.
CommittedHeld ==
    \A i \in Server : \A n \in 1 .. commitIndex[i] : commitMajority({j \in Server : holds(j, i, n)})

\* What a leader counts for a peer the peer holds, beyond the leader's own snapshot (which
\* SendSnapshot counts before the peer has it): the answer to an old call or snapshot never
\* makes it count more, and no late snapshot takes a counted entry from the peer again.
CountedHeld ==
    \A i, j \in Server : state[i] = "Leader" =>
        \A n \in LastIndex[i] + 1 .. matchIndex[i][j] : holds(j, i, n)

\* Peer j gets every entry of a leader i that stays, or a snapshot with it,
\* however far it is behind.
catchesUp(i, j) ==
    \A n \in 1 .. MaxIndex :
        (state[i] = "Leader" /\ LastLog(log[i]).Index >= n)
            ~> (state[i] # "Leader" \/ LastLog(log[j]).Index >= n)
=============================================================================
