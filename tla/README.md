# A verification project for the 6.824 labs

The repository (Go, under `src/src`) holds a Raft library with its test harness,
a MapReduce master and worker, the simulated network `labrpc`, the
linearizability checker `porcupine` with a key-value model, and skeletons of the
key-value and shard services with their harnesses. This directory models it in
TLA+. Paths below are relative to `src/src`.

## 1. The system and its modules

| Part | State | Modules |
|---|---|---|
| Raft log (`raft/log.go`) | `Entries`, `Index0` | `RaftLog`, `RaftLogProofs` |
| Raft elections, replication, persistence, restart (`raft/vote.go`, `entry.go`, `leaderElection.go`, `raft.go`, `persister.go`) | role, term, vote, log, commitIndex, nextIndex, matchIndex, what is saved | `Raft`; for the proofs `RaftPieces`, `RaftInvariants`, `RaftCommitted`, `RaftProofs`, `RaftMatchingProofs`, `RaftCommitProofs`, `RaftSafetyProofs`; TLC: `MCRaft`, `MCRaftLate` |
| Snapshots between peers (`SendSnapshot`, `InstallSnapShot`, `Snapshot`, `CondInstallSnapshot`) | LeaderID, LastIndex, LastTerm, saved snapshot | `RaftSnapshot` (extends `Raft`); TLC: `MCRaftSnapshot`, `MCRaftSnapshotNarrow` |
| Apply loop and the service behind it (`LoopCommit`, `applyCh`, `applier`, `applierSnap`, `checkLogs`, `ingestSnap` of `raft/config.go`) | lastApplied, the message being sent, cfg.logs, cfg.lastApplied | `RaftApply` (extends `RaftLog`), `RaftApplyProofs` |
| labrpc (`labrpc/labrpc.go`) | ends, connections, enabled, servers, calls under way | `LabRpc`, its promise `RpcPromise`, `LabProofs` |
| Harness of the key-value tests (`kvraft/config.go`) | servers, their ends and persisters, clerks, partitions | `KvHarness` (instantiates `LabRpc`), `KvHarnessProofs`; TLC: `MCKvHarness` |
| MapReduce (`mr/*.go`, `main/mrcoordinator.go`) | task queue, task table, phase, files, workers | `MapReduce`, `LabProofs` |
| porcupine (`porcupine/*.go`, `models/kv.go`) | per key a linked list, cache, stack and bit set; the collection of verdicts | `Porcupine`, `Bitset`; TLC: `MCPorcupine` |

Raft's peers call each other over labrpc, save to the persister and pass commands
to the service; the harnesses start, stop, connect and partition them; the
key-value tests give recorded histories to porcupine. What is hard to test about
this is listed line by line as the hazards of `PROJECT.json`.

### Raft

Every handler of `raft` runs under `rf.mu`, so a handler is one action. A remote
call is a goroutine that sends, waits and handles the reply, so it is three steps:
the request in flight (`voteCalls`, `appendCalls`), its execution by the peer,
which puts the reply in flight (`voteReplies`, `appendReplies`), and the handling
of the reply. A broadcast puts any subset of its calls in flight, a reply may be
dropped, and anything in flight may be taken at any time or never: loss, delay and
reordering. The ticker repeats a heartbeat every 50 ms with identical arguments, and
in-flight calls are a set; so an executed `AppendEntries` may stay in flight (its
twin) and be executed again.

| Action | Code |
|---|---|
| `Timeout`, `HeartBeat` | the two branches of `ticker`; a leader's `appendEntries` pushes its own election time back, so only other peers time out |
| `RequestVote` = `RefuseVote` \/ `ConsiderVote` | `vote.go` RequestVote |
| `candidateRequest` = `VoteDenied` \/ `VoteCounted` \/ `becomeLeader` | `vote.go` candidateRequest after the call |
| `AppendEntries` = `RefuseEntries` \/ `ReportConflict` \/ `StoreEntries` | `entry.go` AppendEntries |
| `leaderSendEntries` = `IgnoreReply` \/ `AdvancePeer` \/ `BackUpPeer`, with `Commit` | `entry.go` leaderSendEntries after the call |
| `Start` | `raft.go` Start on a leader (elsewhere it returns at once) |
| `Restart` | `config.go` crash1, start1, and `Make` with readPersist |
| `CrashInVote`, `CrashInAppend` | a crash between the persists of one handler |

`votes` holds the peers whose votes an election has counted, the code's `votecount`
with its voters named. A crash keeps the peer's own requests in flight without a
caller (`open` is FALSE: their replies go nowhere), because labrpc executes them
although the end they came from is disabled; a request to the crashed peer is lost
or reaches its next instance.

Commands are model values; `labgob` is the identity on what is persisted; time is
"the election time has passed". In `Raft` itself `Index0` stays 0: where the code
would fall through to SendSnapshot the model stops short, and `NoSnapshotYet` says
that without service snapshots this never happens. `LateReplies` is an assumption on
the environment. With FALSE, a call whose caller has left the term of the call fails
(`CallFailed`): the timing under which `leaderSendEntries` is right. With TRUE
nothing is assumed.

### Snapshots between peers

`RaftSnapshot` adds to each handler of `Raft` what it does once logs start at a
snapshot. `SendSnapshot` is three steps, as in the code: the goroutine is started
(`sending`), fills in its arguments whenever it gets `rf.mu` (also when it no longer
leads), and after the answer reads LastIndex a second time. A snapshot is the index up
to which it holds commands. Accesses below `Index0` set `fatal`, and so does the
tester's "snapshot doesn't match". The service applies at once here, and takes a
snapshot in the same step as InstallSnapShot receives it; the service's own steps, and
crashes between two saves, are those of `RaftApply`.

### Apply loop and service

`RaftApply` is one peer and its service, with and without snapshots. LoopCommit takes
a message under the lock and delivers it later; InstallSnapShot waits for the same
channel; the service takes commands and snapshots, calls Snapshot and
CondInstallSnapshot and ingests; crashes come between any two of these steps and
between the two saves inside Snapshot and CondInstallSnapshot. crash1 and the start1
after it are one step. What the killed instance has on its way stays behind (`killed`:
a message, snapshots waiting for the channel, one accepted and not yet ingested), and
its applier may still deliver it to the service at any time (`OldApplier`, `OldIngest`),
also while the new instance's applier is between a command and the snapshot after it.
The rest of the cluster is abstract: leaders bring any part of a fixed committed log and any snapshot
of it, deposed leaders bring entries that are never committed.

Three races of this code are modelled, and `races` records those that were lost: a
message delivered after a later snapshot (`overtaken`), a crash between the two saves
(`torn`), and a killed instance whose applier delivers a command or a snapshot into the
service of its successor (`lingering`). Properties say which of them they exclude.

### labrpc and the key-value harness

A call in `LabRpc` goes through the steps of `processReq`: taken by the network's
goroutine, matched with its end and server, dispatched or dropped, its reply received
or given up when the server is found dead, checked once more, delivered. All delays
are steps that come at any time. `KvHarness` runs clerks' calls over that network
while servers are shut down (disconnect, DeleteServer, copy of the persister: three
steps, as the comment in ShutdownServer asks) and started with fresh ends. Its
handlers stand for any that save their effect before they return.

### MapReduce

Every handler of the master runs under `mu`, so it is one action. Two of them send
to `TaskQueue`, a channel of capacity max(nReduce, files), with `mu` held; only
AssignTask, which needs `mu`, receives from it. A send to a full channel therefore
never returns: the action does what the handler did up to that send and sets
`master` to "blocked". AssignTask of a task number that `TaskMeta` lacks
dereferences nil and sets it to "panicked".

| Action | Code |
|---|---|
| `AssignTask`, `AssignExit` | AssignTask with a task, and after the last phase; with nothing to do the worker waits and asks again, which changes nothing |
| `TaskCompleted` | TaskCompleted; starts a goroutine, which `results` counts under its task |
| `processTaskResult` = `CollectMap` \/ `CollectReduce` | that goroutine, with createReduceTask |
| `catchTimeOut` | one round over any overdue tasks, in any order |
| `Done` | the main loop of `main/mrcoordinator.go` ends |
| `mapper`, `reducer` | the worker's halves; output appears by rename, in one step |
| `MasterGone` | `call` finds no master and exits |
| `Crash` | a worker is killed (as `mrapps/crash.go` does) |

Files are named by the map task that wrote them. All reduce tasks get files of the
same map tasks, so one sequence `Intermediates` stands for the code's nReduce
sequences. A behaviour has a timing, chosen at its start: "prompt", "slow" (a task
may be overdue while its worker still runs) or "late" (a report may come before the
result of the one before is collected). The code rules out none of them.

### porcupine

`checkSingle` is one goroutine per key with its own list, cache and stack, one action
per turn of its loop; `checkParallel` collects verdicts, may time out at any moment
and kills the others on a bad one. sort.Sort is not stable, so entries that compare
equal come in any order. The bit sets are words of `W` bits with the code's index
arithmetic (W = 2 in the run, so that three operations need two words).

## 2. Runs

| Run | Bounds | What it shows |
|---|---|---|
| `raft_replication` | 3 peers, 3 terms, 2 entries, 1 call in flight, no late replies | Leaders that come and go overwrite each other's uncommitted tails; logs match, committed entries agree, are on a majority and in every later leader; conflict hints move strictly back; no snapshot is asked for. Three terms and two entries are the least with a tail of two terms to repair. |
| `raft_crash` | 3 peers, 2 terms, 1 entry, 2 calls in flight, 1 crash, after it 1 AppendEntries or its reply in flight, late replies | Concurrent elections with one crash at any point: votes are never given twice or taken back, one leader per term. A heartbeat and an AppendEntries of one leader overtake each other: no committed entry is lost and matchIndex is never too high. |
| `apply` | 3 commands, a snapshot after each, 1 waiting snapshot, 1 crash | Without a race, commands are applied once and in order; whatever the races, only committed values are; the two halves of the persister fit unless a crash tore them; Raft and the service stay in step; what is committed is applied in the end. |
| `snapshot_led` | 3 peers, 3 entries, 1 ordinary and 1 snapshot call in flight, 1 crash; the leader and the peer that lags take snapshots | Snapshots are taken, sent, delayed, installed and answered while the leader takes the next one: what is committed or installed agrees and is held by a majority, and what the leader counts for a peer the peer holds. |
| `snapshot_served` | as above, no crash, third peer cut off | The peer that lags gets everything, by entries or by snapshot, unless a snapshot of its own has it refuse the leader's calls for ever. |
| `mr_job` | 2 maps, 3 reduces, 2 workers, 1 crash, 2 timeouts, all three timings | The job ends, with every output made from each map task exactly once, if workers are prompt; what still holds with slow workers and with late results. |
| `rpc_promise` | 2 calls (one may hang), 1 end, 1 server name, 2 instances | `LabRpc` implements `RpcPromise`, liveness included; hung calls return once the server is gone; no goroutine stays on `ech`. |
| `kv_harness` | 3 servers, 2 starts each (two restarts before the clerk calls, one after), 1 clerk, 1 call | An answered call is in the persister the server will be started from; links between connected servers are symmetric, also those made while a server is down; a partition leaves the leader in the minority. |
| `porcupine` | all histories of 3 operations on 2 instants: 1 key through checkOperations and checkEvents, 2 keys (at least two operations on the first) in parallel with a timeout; no operation | The verdict is that of the definition of linearizability; list, bit set and state fit the stack at every step; partial linearizations are the longest; checkParallel returns and leaves no goroutine. |
| `raft_late_reply` | 3 peers, 6 terms, 2 entries, one delayed reply | Violation of `StateMachineSafety` (finding 1). |
| `snapshot_vote` | 3 peers, 2 terms, 2 entries | Violation of `ElectionSafety` (finding 2). |
| `mr_incomplete` | 2 maps, 1 reduce, 2 workers, late results | Violation of `AllFilesHanded` (finding 3). |

Three peers are the smallest cluster with a majority that is not everybody, two
calls in flight what two candidates of one term need to race. Deadlock checking is
off where the bounds, a finished job or a finished check stop the system; it is on in
`rpc_promise`. The views leave out `nextIndex` and `matchIndex` of peers that do not
lead and `votes` of followers, which nothing reads before they are set again. Peers
are symmetric in `raft_replication` and `raft_crash`.

Constraints only prune. `AfterCrash` (`raft_crash`) leaves one AppendEntries or its
reply in flight once a peer has crashed; two at once are explored without a crash.
`FewRestarts` (`kv_harness`) bounds the restarts around the clerk's call, and once
the clerk has called has partitions and ConnectAll only while all servers run, as in the
tests; before, they come at any time. In `apply`, `noneLeft` lets no further
snapshot come in while a killed instance has snapshots left. With an interval of 1 the
service takes up to three snapshots of its own around the crash.
`Stages` (`snapshot_led`) explores the first election and term 1 of one leader from the start, and separately term 3 from a state written down in
`ElectedInit`: a leader with two entries of term 1 and a peer that never got them,
which is where snapshots matter. `Narrow` and `NarrowVote` restrict the two
violations to one story; the behaviours TLC prints are behaviours of `Raft` and of
`RaftSnapshot`.

Each property of a passing run has a mutant: an operator `<name>_<slip>` next to the
one it replaces, which breaks that property in that run.

### Fairness

* `apply`: LoopCommit and the applier are goroutines that run whenever they can
  (weak); getting `rf.mu` and the channel is strong, since Go's mutex and channels
  serve waiters in turn while others come and go.
* `snapshot_served`: calls between the two peers are not lost for ever. Strong,
  because the bound on calls in flight keeps disabling each step. Nothing is assumed of
  Snapshot: applierSnap calls it only after every tenth command.
* `rpc_promise`: each call's goroutines run and timers fire (weak), handlers end
  except those in `Hanging`.
* `mr_job`: weak fairness of each worker's loop, the result goroutines, catchTimeOut
  (a loop with a 5 s sleep) and the main loop (1 s).
* `porcupine`: weak fairness of each goroutine and of checkParallel, with the enabling
  conditions written out (`goroutineCan`, `checkParallelCan`).

### Findings

1. `leaderSendEntries` (`raft/entry.go:145`) accepts a reply if the peer is a leader
   when the reply arrives. A leads term 1 and writes two entries, B leads term 2 and
   writes one, A leads term 3 and sends its two entries to C, which stores them; that
   reply is delayed. B leads term 4 and overwrites C's log with its own entry. A gets
   that entry, leads term 5 and writes one on top; then the old reply says that C
   holds index 2. A commits it, though only A has it, and B in term 6 commits another
   entry there (`raft/config.go:147`). A check of `args.Term == rf.currentTerm`
   after the call removes it; `raft_replication` runs with exactly that assumption.
2. SendSnapshot passes on `rf.LeaderID` (`raft/entry.go:81`), which a leader never sets
   to itself, and InstallSnapShot stores it in `votedFor`, in the sender's own term.
   The receiver can then vote for peer 0 in a term in which it voted for the leader
   (`raft/config.go:450`).
3. Both map tasks are reported before the first goroutine collects; it finds all tasks
   done and starts the reduce phase without the other's files, against the comment at
   `mr/coordinator.go:213`.

### Conditions in the properties

Several properties hold only under a condition, because the code departs from what it
would promise without it. TLC produces each of these when the condition is dropped:

* `AppliedInOrder`, `InStep` and `ServiceNeverBack` exclude races. Overtaken: LoopCommit
  raises lastApplied and unlocks before it sends (`raft/raft.go:383`); a later snapshot
  delivered first makes the applier stop with "apply out of order". Lingering: the
  applier of a killed peer writes cfg.logs[i] (`raft/config.go:245`) or switches it to a
  snapshot (`raft/config.go:223`).
* `AppliedCommitted` allows a hole, and `SavedInSync` a saved snapshot with one, after a
  killed peer interfered: its snapshot takes the service back between a command and the
  snapshot applierSnap takes up to that command.
* `SavedInSync` excludes torn saves: Snapshot calls `persist` before
  SaveStateAndSnapshot (`raft/raft.go:234`), CondInstallSnapshot assigns
  `persister.snapshot` before it (`raft/raft.go:201`). A crash in between leaves a log
  and a snapshot that do not fit. `CommittedApplied` excludes them too: the log then
  starts after commands that the older snapshot lacks, nobody applies these again and
  no error is raised. It excludes a killed peer's snapshot for the same reason.
* Snapshot returns without trimming when its index is that of the last entry
  (`raft/raft.go:218`), so `trimmable` has a strict bound.
* `CaughtUp` excepts one case, `refused`: AppendEntries below the peer's `Index0` is
  refused without a hint (`raft/entry.go:212`), and a leader without a newer snapshot of
  its own repeats the call for ever. Nothing else leaves the peer behind.
* `CountedHeld` starts after the leader's LastIndex: SendSnapshot reads LastIndex again
  after its call (`raft/entry.go:101`) and may take a later snapshot than the one it sent
  for the peer's match. What it then counts wrongly is in its own snapshot, so it is
  committed already (`CommittedHeld`).
* CondInstallSnapshot does not set LastIndex and LastTerm, which `raft/entry.go:82` sends
  with the saved snapshot. A peer that took a snapshot, installed a later one and then
  leads would send the later one under the index of the earlier, and ingestSnap stops
  the test ("snapshot doesn't match"). The model has this (`fatal`), but only one peer
  leads with snapshots in the runs, so they do not reach it.
* The conflict scan (`raft/entry.go:253`) reads below `Index0` when all entries left are
  of the conflicting term. `scanPanics` models it; the shortest way there takes three
  elections, a crash and a snapshot and is outside the bounds of `snapshot_led`.
* `NothingTwice` and `MasterServes` exclude slow workers. A task queued again and then
  reported by its first worker is assigned again, AssignTask turns Completed back into
  InProgress, and its files are reduced twice (`mr/coordinator.go:195`). A map copy
  still queued when the reduce tasks are created makes the last send block with `mu`
  held; with more files than reduce tasks it is assigned in the reduce phase and has no
  entry in TaskMeta.
* `FinalOutput` and `PhaseForward` exclude late results and hold with slow workers. A
  result that is collected after the master has reached Exit starts the reduce phase
  again (`mr/coordinator.go:212`), and a map result collected in the reduce phase adds to
  its files.
* `LinksSound` is about servers that are connected. ConnectAll and partition have no
  condition on who runs (`kvraft/config.go:165`); called while a server is down they enable
  the ends of the instance that was shut down, and nothing disables these again. The
  tests call them only while all servers run.
* `Returns` excludes the empty history without a timeout, on which checkParallel waits
  for a first verdict for ever (`porcupine/checker.go:302`).

## 3. Proofs

All theorems hold for any values of the constants that satisfy the named assumptions:
any finite set of peers and any bounds (`ServerAssumption`, `BoundsAssumption`), any
calls, ends, servers and instances (`RpcAssumption`), any committed log and snapshot
interval (`ApplyAssumption`), any odd number of servers (`HarnessAssumption`), any
numbers of map and reduce tasks and any finite set of workers (`SizeAssumption`,
`BoundAssumption`, `WorkerAssumption`).

The log, and pieces of it (`RaftLogProofs`):

* `MergeProperty`: the loop of AppendEntries, whether it truncates, appends or does
  nothing, leaves a non-empty log whose entries stand at their own index, also in the
  state persisted between truncation and append.
* The piece lemmas (`TailPiece`, `CutBackPiece`, `ExtendPiece`, `MergePiece`,
  `JoinAgree`): a log, and the entries of a call with the PrevLogTerm before them, are
  pieces; two pieces agree if a common term at an index implies that they are the same
  below it. Cutting, extending and merging keep that. `LogFactsHold` collects them
  as `LogFacts`: the lemmas of `RaftMatchingProofs` and `RaftCommitProofs` assume it, and
  `RaftSafetyProofs` discharges it.

Raft, with crashes at any point and late, repeated and lost messages (`LateReplies`
may be TRUE):

* `RaftProofs!Storage`: `TypeOK`, `PersisterCurrent` and `LogsIndexed` always hold.
  The three are inductive only together (`StorageInv`): the type of a call depends
  on the indices of the sender's log, the indices of the receiver's log on those of
  the call, and a restart on what the persister holds. One lemma per action.
* `RaftProofs!OneLeader`: `ElectionSafety`. The inductive invariant
  (`ElectionInv`) speaks of `grants`, the votes that a candidate or leader has
  counted and the granted replies still on the way. `VotesHeld`: a voter's term is
  past the vote, or it is the vote's term and `votedFor` is its candidate.
  `VotesUnique`: no voter has votes for two candidates of a term. `LeaderElected`: a
  leader has a majority. A step keeps terms and votes (`keepsVotes`, which needs
  `PersisterCurrent` for crashes) and adds at most a vote its voter has just
  recorded (`newGrants`); that is enough for the invariant, and two majorities
  share a voter.
* `RaftProofs!VotesSound` and `NoVoteLost`: the invariant itself, and the
  action property `VoteKept`.
* `RaftSafetyProofs!LogsMatch`: `LogMatching`. The property of the logs alone is not
  inductive, because a call or a conflict hint in flight may meet a log much later.
  `MatchingInv` therefore speaks of all pieces there are: every log, call and hint.
  They agree with each other (`PiecesAgree`), their terms rise (`PiecesSound`), and a
  leader holds all there is of its term (`LeaderHasTerm`), so what Start adds meets
  nothing of the same index and term. The last one has to survive elections: a term
  that occurs anywhere was won by a peer that will not stand for it again (`Begun`).
  That is a statement about voters, and outlives the leader and its crash. The steps
  are proved in `RaftMatchingProofs`.
* `RaftSafetyProofs!ConflictsConverge` and `NeverSnapshots`: `ConflictProgress` and
  `NoSnapshotYet`. `HintInv` adds what a reply still says of its call: as long as the
  sender leads that term it has PrevLogTerm at PrevLogIndex (`PrevHeld`), a hint points
  at or below PrevLogIndex and names another term (`HintsSound`), and a leader with an
  empty log has sent nothing that anyone could have stored (`EmptyLogs`). Then both
  scans over the logs end at an earlier index that the leader has.

What is committed, with crashes and lost, repeated and reordered messages as before,
but under the assumption `~LateReplies`: a call fails whose caller has left the term of
the call. Without it the theorems are false, which is the first finding
(`raft_late_reply`); nothing else is assumed.

* `RaftSafetyProofs!PeersAgree` (`StateMachineSafety`), `LeadersComplete`
  (`LeaderCompleteness`), `CommitsOnMajority` (`CommittedOnMajority`), `MatchesTrue`
  (`MatchIndexTrue`) and the action property `CommitsKept` (`CommittedKept`). All
  follow from one invariant, `CommittedInv` of `RaftCommitted`. It says that there is a
  function L from the terms that have had a leader to the log each leader has or last
  had. The state does not keep these logs, so the invariant asks for some L, and
  every step shows how L grows (`nextLogs`).
* Why L: an entry may be copied and its writer overwritten before anyone commits it.
  `Written` says that a log with an entry of term T is up to there what the leader of T
  wrote, and `SentFrom` that every call is cut out of its leader's log.
* Why votes: an entry counts as soon as acknowledgements for it may still reach a
  majority, which is before any step commits it. `AcksFirm` says that such an entry of
  the leader's own term is `Firm` among the peers that acknowledged it: they have it,
  every later leader has it, and so does every candidate that holds a vote of one of
  them. A new leader's majority meets that majority in a voter, whose up-to-date check
  compares its last entry with one at least as late; that is where the restriction of
  Commit to entries of its own term (`entry.go:180`) is needed.
* `PeersCommit` and `CallsCommit` carry `Firm` over to commit indices and to
  LeaderCommit on its way: up to its commit index a log is that of a leader whose entry
  at or after that index is firm in a majority (`covered`).

The apply loop, with any races lost unless the property excludes them:

* `RaftApplyProofs!OnlyCommitted`, `InOrder`, `SavesFit`, `CountersAgree`, `NeverBack`:
  `AppliedCommitted`, `AppliedInOrder`, `SavedInSync`, `InStep` and the action property
  `ServiceNeverBack`. One inductive invariant, `ApplyInv`, serves all five: the log fits
  the committed one up to commitIndex (`LogInv`), what is on its way to the service is
  committed, including what killed instances left behind (`MsgInv`, `Remains`), the
  service's log has no gap as long as the applier reports none (`SvcInv`), without
  snapshots nothing of theirs is used (`PlainInv`), the two halves of the persister fit
  until a save is torn (`SavedInv`), and Raft's lastApplied is the service's count plus what is being sent or ingested until a race is
  lost (`OrderInv`). A saved snapshot is the cluster's, or has holes that a killed instance
  left (`savable`).

The network and the harness on top of it:

* `LabProofs!KeepsPromise`: every behaviour of `LabRpc` is one of `RpcPromise`, its
  fairness apart: initial states map to initial states and every step to a step or a
  stutter. It rests on `CallsInStep`, the inductive invariant `RpcInv`: a call that was
  not dispatched has no handler, one being checked has received its handler's result,
  `ok` is only true after that, and `executed` counts exactly the handlers that ended.
  Without it, neither "true only if executed" nor "at most once" can be concluded from
  the step that returns.
* `KvHarnessProofs!ToldIsKept`: `RepliesKept`. `HarnessInv` ties each call to the
  instance it reached (`reached`): if its handler has returned and the network still
  has that instance, the effect is in the server's persister (`fate`), because that
  instance owns it (`owned`). DeleteServer comes before the copy, and AddServer brings
  in an instance no call has reached; so neither can turn a stale effect into a reply.

The MapReduce job, in every timing unless the property excludes it:

* `LabProofs!FilesComplete`, `FilesOnce`, `NeverStuck`, `OutputsExact` and the action
  properties `OutputsFinal` and `PhasesAdvance`: `NothingMissing`, `NothingTwice`,
  `MasterServes`, `JobExact`, `FinalOutput` and `PhaseForward`. All rest on `JobInv`
  (`JobSound`).
* Without slow workers (`OneCopy`) each Idle entry of TaskMeta is in the queue at most
  once, each InProgress entry has at most one worker, and a queued or running task is
  the one its entry refers to. So there are never more tasks than entries, which is why
  no send finds the channel full although catchTimeOut and createReduceTask send with
  `mu` held, and no map task has two results (`OneResult`). The number of sends is
  bounded by counting: the queue and the overdue tasks map one to one into TaskMeta.
* Without late results (`OneToCollect`) there is at most one result to collect, of the
  present phase; a Completed map task is in `Intermediates` or is that one. So whoever
  finds all tasks done hands over all files, and a result of an old phase cannot start
  a phase a second time.
* Whatever the timing, an output is there before its task is reported
  (`OutputsWritten`), and only crashed workers leave before that (`NobodyLeaves`).

Model-checked only, and why:

* Snapshots between peers (`RaftSnapshot`): their properties hold within the conditions
  of section 2, and the proofs of `Raft` do not carry over to logs that start at a
  snapshot.
* `LinksSound` and `LeaderCutOff`: make_partition and ConnectAll are folds over the
  list of servers, and what a fold computes for every list needs induction.
* porcupine: its reference definition is recursive, and its bit sets use bitwise
  operators.
* Everything about progress: liveness, fairness, and with it the other half of
  `RpcPromise`, are beyond the prover.

## 4. Not modelled

* Timers and statistics of the harnesses and the scripted tests; sizes of persisters.
  `shardctrler/config.go` repeats `kvraft/config.go`, and `shardkv/config.go` does so for
  each group.
* `labgob`: encoding, and warnings about field names.
* porcupine's HTML and JSON output. The choice of what is marked is modelled.
* The servers of kvraft, shardctrler and shardkv: their handlers are empty, so the
  clerks' retry loops have nothing that answers them.
* The other programs in `main` and the map and reduce functions in `mrapps`.
* Elections and several terms together with snapshots beyond `Stages`, and more than
  one lagging peer: the state space of `RaftSnapshot` is too large for TLC there.
