------------------------------ MODULE RaftApply ------------------------------
(***************************************************************************)
(* How one peer applies its log (src/raft/raft.go): LoopCommit, which       *)
(* releases rf.mu while it sends on applyCh; InstallSnapShot, which sends   *)
(* on the same channel; the harness's service behind it (applier and        *)
(* applierSnap of src/raft/config.go), which calls Snapshot and             *)
(* CondInstallSnapshot; the persister; and crashes at every step.          *)
(*                                                                         *)
(* The cluster is abstract: its committed log is fixed, and the calls of    *)
(* leaders bring the peer any part of it, any commit index, any snapshot    *)
(* of it, and entries of deposed leaders that are never committed.         *)
(***************************************************************************)
EXTENDS RaftLog, FiniteSets

CONSTANTS SnapShotInterval,
          MaxIndex,          \* bound: the committed log of the cluster
          MaxSenders,        \* bound: InstallSnapShot handlers waiting for applyCh, none
                             \* while killed instances have snapshots left (noneLeft)
          MaxCrashes         \* bound

\* The committed log is one of commands: command k is the k-th, and 0 one that
\* is never committed.
ASSUME ApplyAssumption ==
    /\ SnapShotInterval \in Nat \ {0} /\ {MaxIndex, MaxSenders, MaxCrashes} \subseteq Nat
    /\ 0 .. MaxIndex \subseteq Command

VARIABLES snapshot,       \* make_config's choice: applierSnap, or applier
          log, commitIndex, lastApplied,
          loop,           \* LoopCommit: "ready", "wait" (applyCond), "send" (applyCh)
          applyMsg,       \* what it sends, built before it let go of rf.mu
          senders,        \* snapshots whose InstallSnapShot waits for applyCh
          persister,      \* raftstate (the log in it) and snapshot
          svc,            \* what applierSnap is doing: a step and its snapshot index
          svcApplied,     \* cfg.lastApplied[i]
          svcLog,         \* cfg.logs[i]
          killed,         \* what killed instances still hold for the service, by crash
          apply_error,    \* err_msg of the applier: log.Fatalf ends the test
          crashes,
          races           \* the races that were lost so far: "overtaken", "torn", "lingering"

raftVars == <<log, commitIndex, lastApplied, persister>>
serviceVars == <<svc, svcApplied, svcLog>>
loopVars == <<loop, applyMsg>>
vars == <<snapshot, log, commitIndex, lastApplied, loop, applyMsg, senders, persister, svc,
          svcApplied, svcLog, killed, apply_error, crashes, races>>

\* Three races decide what can be promised: the service switches to a snapshot
\* while LoopCommit holds a message it has not delivered ("overtaken"); a crash
\* falls between two saves ("torn"); a message that a killed peer left behind
\* reaches its successor's service ("lingering").
lost(race, happens) == races' = IF happens THEN races \cup {race} ELSE races

-----------------------------------------------------------------------------
(* The cluster.  Entry k of the committed log has term 2 * k; the odd terms   *)
(* are those of deposed leaders.                                             *)

committed(k) == IF k = 0 THEN EmptyLog.Entries[1]
                ELSE [Command |-> k, Term |-> 2 * k, Index |-> k]

\* An entry that a leader of an odd term puts after e.
uncommitted(e) == [Command |-> 0, Term |-> e.Term + 1 - (e.Term % 2), Index |-> e.Index + 1]

\* A snapshot that covers the first k commands of m: its index and xlog.
snapshotOf(k, m) ==
    [index |-> k, xlog |-> [n \in 0 .. k |-> IF n \in DOMAIN m THEN m[n] ELSE Nil]]

clusterSnapshot(k) == snapshotOf(k, [n \in 0 .. MaxIndex |-> committed(n).Command])

noSnapshot == [index |-> 0, xlog |-> <<>>]

Idle == [step |-> "idle", index |-> 0]

noMsg == [CommandIndex |-> 0, Command |-> Nil]

noError == ""

-----------------------------------------------------------------------------
(* LoopCommit                                                                *)

\* Mutants (here and below, <name>_<slip>): the operator of that name with a
\* plausible slip.
unapplied_Log == LastLog(log).Index > lastApplied

unapplied == commitIndex > lastApplied /\ LastLog(log).Index > lastApplied

\* Takes the next entry and lets go of rf.mu to send it.
LoopSend ==
    /\ loop = "ready" /\ unapplied
    /\ lost("overtaken", svc.step = "install")
    /\ lastApplied' = lastApplied + 1
    /\ loop' = "send"
    /\ applyMsg' = [CommandIndex |-> lastApplied + 1,
                    Command |-> at(log, lastApplied + 1).Command]
    /\ UNCHANGED <<log, commitIndex, senders, persister, serviceVars, killed,
                   apply_error, snapshot, crashes>>

LoopWait ==
    /\ loop = "ready" /\ ~unapplied
    /\ loop' = "wait"
    /\ UNCHANGED <<applyMsg, raftVars, senders, serviceVars, killed, apply_error, snapshot, crashes, races>>

SendMsg_Never == loop

\* SendMsg: applyCond.Broadcast
SendMsg == IF loop = "wait" THEN "ready" ELSE loop

-----------------------------------------------------------------------------
(* The leader's calls                                                        *)

\* AppendEntries past its checks, for entries that follow prev.
AppendEntries(prev, entries, LeaderCommit) ==
    LET l == merge(log, entries)
        forward == LeaderCommit > commitIndex
    IN  /\ prev \in Indices(log)
        /\ Follows(prev, entries)
        /\ log' = l
        /\ persister' = [persister EXCEPT !.raftstate = l]
        /\ commitIndex' = IF forward THEN Min({LeaderCommit, LastLog(l).Index})
                                     ELSE commitIndex
        /\ loop' = IF forward THEN SendMsg ELSE loop
        /\ UNCHANGED <<lastApplied, applyMsg, senders, serviceVars, killed, apply_error,
                       snapshot, crashes, races>>

\* A leader sends what it has: the committed log from a place that matches on.
FromLeader ==
    \E prev \in Indices(log), n \in 0 .. MaxIndex :
        /\ at(log, prev).Term = committed(prev).Term
        /\ \E LeaderCommit \in 0 .. n :
             AppendEntries(prev, [k \in 1 .. n - prev |-> committed(prev + k)], LeaderCommit)

\* A leader about to be deposed sends an entry nobody will commit.
FromDeposed ==
    /\ LastLog(log).Index < MaxIndex
    /\ AppendEntries(LastLog(log).Index, <<uncommitted(LastLog(log))>>, 0)

noneLeft == \A x \in DOMAIN killed : killed[x].senders \cup killed[x].ingesting = {}

\* InstallSnapShot past its checks: the handler waits for applyCh without rf.mu.
InstallSnapShot(k) ==
    /\ snapshot
    /\ k > log.Index0
    /\ Cardinality(senders \cup {k}) <= MaxSenders /\ noneLeft
    /\ senders' = senders \cup {k}
    /\ UNCHANGED <<raftVars, loopVars, serviceVars, killed, apply_error, snapshot, crashes, races>>

-----------------------------------------------------------------------------
(* The service: applier, applierSnap, checkLogs, ingestSnap                  *)

\* checkLogs, and the applier's test that nothing was skipped.
checkLogs(m) ==
    IF \/ m.Command # committed(m.CommandIndex).Command
       \/ m.CommandIndex \in DOMAIN svcLog /\ svcLog[m.CommandIndex] # m.Command
    THEN "another value committed"
    ELSE IF m.CommandIndex > 1 /\ m.CommandIndex - 1 \notin DOMAIN svcLog
         THEN "out of order" ELSE noError

\* applierSnap's own test, before checkLogs.
unexpected(m) == snapshot /\ m.CommandIndex # svcApplied + 1

\* What the applier does with a command.
Apply(m) ==
    /\ apply_error' = IF unexpected(m) THEN "out of order" ELSE checkLogs(m)
    /\ svcApplied' = IF snapshot THEN m.CommandIndex ELSE svcApplied
    /\ svcLog' = IF unexpected(m) THEN svcLog
                 ELSE [n \in DOMAIN svcLog \cup {m.CommandIndex} |->
                         IF n = m.CommandIndex THEN m.Command ELSE svcLog[n]]

ReceiveCommand ==
    /\ svc = Idle /\ loop = "send"
    /\ loop' = "ready" /\ applyMsg' = noMsg
    /\ Apply(applyMsg)
    /\ svc' = IF snapshot /\ (applyMsg.CommandIndex + 1) % SnapShotInterval = 0
              THEN [step |-> "snapshot", index |-> applyMsg.CommandIndex] ELSE Idle
    /\ UNCHANGED <<raftVars, senders, killed, snapshot, crashes, races>>

ReceiveSnapshot(k) ==
    /\ svc = Idle
    /\ lost("overtaken", loop = "send")
    /\ senders' = senders \ {k}
    /\ svc' = [step |-> "install", index |-> k]
    /\ UNCHANGED <<raftVars, loopVars, svcApplied, svcLog, killed, apply_error, snapshot, crashes>>

\* ingestSnap; the message has the index of its snapshot.
Ingest(s) == svcLog' = s.xlog /\ svcApplied' = s.index

ingestSnap ==
    /\ svc.step = "ingest"
    /\ Ingest(clusterSnapshot(svc.index))
    /\ svc' = Idle
    /\ UNCHANGED <<raftVars, loopVars, senders, killed, apply_error, snapshot, crashes, races>>

-----------------------------------------------------------------------------
(* Snapshot and CondInstallSnapshot                                          *)

\* Snapshot's early returns.
trimmable(k) == k < LastLog(log).Index /\ k >= log.Index0 /\ k <= commitIndex

trimmed(k) == [Entries |-> LogTail(log, k), Index0 |-> k]

Snapshot_StateOnly ==
    LET k == svc.index
    IN  /\ svc.step = "snapshot"
        /\ IF trimmable(k)
           THEN log' = trimmed(k) /\ persister' = [persister EXCEPT !.raftstate = trimmed(k)]
           ELSE UNCHANGED <<log, persister>>
        /\ svc' = Idle
        /\ UNCHANGED <<commitIndex, lastApplied, loopVars, senders, svcApplied, svcLog,
                       killed, apply_error, snapshot, crashes, races>>

\* The service's snapshot: commands 0 to k of cfg.logs[i].
Snapshot ==
    LET k == svc.index
    IN  /\ svc.step = "snapshot"
        /\ IF trimmable(k)
           THEN /\ log' = trimmed(k)
                /\ persister' = [raftstate |-> trimmed(k), snapshot |-> snapshotOf(k, svcLog)]
           ELSE UNCHANGED <<log, persister>>
        /\ svc' = Idle
        /\ UNCHANGED <<commitIndex, lastApplied, loopVars, senders, svcApplied, svcLog,
                       killed, apply_error, snapshot, crashes, races>>

\* The log once the snapshot up to k is in place: what follows k in the same
\* history, or nothing but the snapshot's own last entry.
installed(k) ==
    IF k <= LastLog(log).Index /\ at(log, k).Term = committed(k).Term
    THEN trimmed(k)
    ELSE [Entries |-> <<[Command |-> Nil, Term |-> committed(k).Term, Index |-> k]>>,
          Index0 |-> k]

outdated_Trimmed(k) == k <= log.Index0

\* "Only do so if Raft hasn't have more recent info"
outdated(k) == k <= commitIndex

CondInstallSnapshot_KeepsApplied ==
    LET k == svc.index
    IN  /\ svc.step = "install"
        /\ IF outdated(k) THEN UNCHANGED raftVars /\ svc' = Idle
           ELSE /\ log' = installed(k)
                /\ persister' = [raftstate |-> installed(k), snapshot |-> clusterSnapshot(k)]
                /\ commitIndex' = k /\ UNCHANGED lastApplied
                /\ svc' = [step |-> "ingest", index |-> k]
        /\ UNCHANGED <<loopVars, senders, svcApplied, svcLog, killed, apply_error, snapshot, crashes, races>>

CondInstallSnapshot ==
    LET k == svc.index
    IN  /\ svc.step = "install"
        /\ IF outdated(k) THEN UNCHANGED raftVars /\ svc' = Idle
           ELSE /\ log' = installed(k)
                /\ persister' = [raftstate |-> installed(k), snapshot |-> clusterSnapshot(k)]
                /\ commitIndex' = k /\ lastApplied' = k
                /\ svc' = [step |-> "ingest", index |-> k]
        /\ UNCHANGED <<loopVars, senders, svcApplied, svcLog, killed, apply_error, snapshot, crashes, races>>

-----------------------------------------------------------------------------
(* crash1, start1 and Make                                                   *)

\* What this instance still has for the service if it is killed: Kill stops neither
\* its applier nor those who wait for its applyCh, only LoopCommit ends after the
\* message it holds.  A snapshot its applier works on comes first; the ones that
\* its CondInstallSnapshot would turn down are left out.
remains ==
    [applyMsg |-> IF loop = "send" THEN applyMsg ELSE noMsg,
     ingesting |-> IF svc.step = "ingest" \/ (svc.step = "install" /\ ~outdated(svc.index))
                   THEN {svc.index} ELSE {},
     senders |-> {k \in senders : ~outdated(k)}]

\* start1 ingests the saved snapshot; without one cfg.logs[i] stays as it is.
StartFrom(saved) ==
    /\ crashes < MaxCrashes
    /\ crashes' = crashes + 1
    /\ log' = saved.raftstate
    /\ commitIndex' = saved.raftstate.Index0 /\ lastApplied' = saved.raftstate.Index0
    /\ persister' = saved
    /\ loop' = "ready" /\ applyMsg' = noMsg /\ senders' = {} /\ svc' = Idle
    /\ svcApplied' = saved.snapshot.index
    /\ svcLog' = IF saved.snapshot = noSnapshot THEN svcLog ELSE saved.snapshot.xlog
    /\ killed' = Append(killed, remains)
    /\ UNCHANGED <<snapshot, apply_error>>

Restart == StartFrom(persister) /\ UNCHANGED races

\* A crash between persist() and SaveStateAndSnapshot.
CrashInSnapshot ==
    /\ svc.step = "snapshot" /\ trimmable(svc.index)
    /\ StartFrom([persister EXCEPT !.raftstate = trimmed(svc.index)])
    /\ lost("torn", TRUE)

\* A crash between the assignment to persister.snapshot and the save.
CrashInInstall ==
    /\ svc.step = "install" /\ ~outdated(svc.index)
    /\ StartFrom([persister EXCEPT !.snapshot = clusterSnapshot(svc.index)])
    /\ lost("torn", TRUE)

\* The applier of killed instance x delivers a command into its successor's
\* cfg.logs[i]; the snapshot it may take of it goes to a persister nobody reads.
OldApplier(x) ==
    /\ killed[x].ingesting = {} /\ killed[x].applyMsg # noMsg
    /\ killed' = [killed EXCEPT ![x].applyMsg = noMsg]
    /\ Apply(killed[x].applyMsg)
    /\ lost("lingering", TRUE)
    /\ UNCHANGED <<snapshot, raftVars, loopVars, senders, svc, crashes>>

\* It ingests a snapshot there, once x's own CondInstallSnapshot has let it pass.
OldIngest(x, k) ==
    LET o == killed[x]
    IN  /\ k \in IF o.ingesting # {} THEN o.ingesting ELSE o.senders
        /\ killed' = [killed EXCEPT ![x].ingesting = {},
                                    ![x].senders = {j \in @ : j > k}]
        /\ Ingest(clusterSnapshot(k))
        /\ lost("lingering", TRUE)
        /\ UNCHANGED <<snapshot, raftVars, loopVars, senders, svc, apply_error, crashes>>

-----------------------------------------------------------------------------
Init ==
    /\ snapshot \in BOOLEAN
    /\ log = EmptyLog /\ commitIndex = 0 /\ lastApplied = 0
    /\ loop = "ready" /\ applyMsg = noMsg /\ senders = {}
    /\ persister = [raftstate |-> EmptyLog, snapshot |-> noSnapshot]
    /\ svc = Idle /\ svcApplied = 0 /\ svcLog = <<>>
    /\ killed = <<>> /\ apply_error = noError /\ crashes = 0 /\ races = {}

LoopCommit == LoopSend \/ LoopWait

applierSnap == \/ ReceiveCommand \/ ingestSnap \/ Snapshot \/ CondInstallSnapshot
               \/ \E k \in senders : ReceiveSnapshot(k)

Next ==
    /\ apply_error = noError
    /\ \/ LoopCommit \/ applierSnap \/ FromLeader \/ FromDeposed
       \/ \E k \in 1 .. MaxIndex : InstallSnapShot(k)
       \/ Restart \/ CrashInSnapshot \/ CrashInInstall
       \/ \E x \in DOMAIN killed : OldApplier(x) \/ \E k \in 1 .. MaxIndex : OldIngest(x, k)

\* LoopCommit and the applier are goroutines that run whenever they can;
\* rf.mu and applyCh serve those who wait for them in turn.
Spec == Init /\ [][Next]_vars /\ WF_vars(apply_error = noError /\ applierSnap)
             /\ SF_vars(apply_error = noError /\ LoopCommit)
             /\ SF_vars(apply_error = noError /\ ReceiveCommand)

-----------------------------------------------------------------------------
(* Properties                                                                *)

\* The service gets every command once, in index order, and the value the
\* cluster committed: the applier reports an error only after a message was
\* overtaken by a snapshot, a crash tore a save, or a killed peer's message came.
AppliedInOrder == races = {} => apply_error = noError

\* Whatever races are lost, no value but the committed one is ever applied or
\* ingested from a snapshot; only the snapshot of a killed peer can leave a hole, when
\* it comes between a command and the snapshot applierSnap takes after it.
AppliedCommitted ==
    \A n \in DOMAIN svcLog :
        svcLog[n] = committed(n).Command \/ ("lingering" \in races /\ svcLog[n] = Nil)

\* The two halves of the persister fit: the snapshot holds exactly the commands
\* that the saved log no longer has, whatever else goes wrong, unless a crash
\* tore the two saves apart; and it has no hole unless a killed peer interfered.
SavedInSync ==
    "torn" \notin races =>
        /\ persister.snapshot.index = persister.raftstate.Index0
        /\ "lingering" \notin races =>
             persister.snapshot \in {noSnapshot, clusterSnapshot(persister.snapshot.index)}

\* lastApplied of Raft is what the service has, or is about to ingest, plus the
\* message on its way: neither runs ahead of the other until a race is lost.
InStep ==
    /\ log.Index0 <= lastApplied /\ lastApplied <= commitIndex
    /\ snapshot /\ races = {} =>
         /\ lastApplied = (IF svc.step = "ingest" THEN svc.index ELSE svcApplied)
                          + (IF loop = "send" THEN 1 ELSE 0)
         /\ loop = "send" => applyMsg.CommandIndex = lastApplied

\* Only a crash takes the service back: no snapshot that arrives late does, nor
\* a message behind it, unless the snapshot overtook the message.
ServiceNeverBack ==
    [][crashes' = crashes /\ races' = {} => svcApplied' >= svcApplied]_vars

\* LoopCommit sleeps on applyCond only while there is nothing to do: what is
\* committed reaches the service, unless a crash forgets that it is committed, the
\* applier has stopped the test, a crash tore the two saves (the log then starts after
\* commands that the service never gets) or a killed peer took the service back.
CommittedApplied ==
    \A n \in 1 .. MaxIndex :
        commitIndex >= n ~> \/ n \in DOMAIN svcLog \/ commitIndex < n \/ apply_error # noError
                            \/ {"torn", "lingering"} \cap races # {}
=============================================================================
