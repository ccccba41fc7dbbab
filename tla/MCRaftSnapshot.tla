--------------------------- MODULE MCRaftSnapshot ---------------------------
EXTENDS RaftSnapshot

\* nextIndex and matchIndex are read by leaders only and reset on election;
\* votes are reset on a new election, and a follower's are never read.
LiveView ==
    <<state, currentTerm, votedFor, log, commitIndex, persister, snapVars,
      [i \in Server |-> IF state[i] = "Leader" THEN <<nextIndex[i], matchIndex[i]>> ELSE <<>>],
      [i \in Server |-> IF state[i] = "Follower" THEN {} ELSE votes[i]],
      voteCalls, voteReplies, appendCalls, appendReplies, restarts>>

CONSTANTS Elected,    \* the leader of term 1 in FairSpec
          Laggard     \* the peer it reaches; the third one is cut off

\* Elected led term 1 and committed two entries that Laggard never got, stepped
\* down when Laggard asked for votes in term 2, and leads term 3.
ElectedInit ==
    LET entry(k) == [Command |-> CHOOSE c \in Command : TRUE, Term |-> 1, Index |-> k]
        written == append(EmptyLog, <<entry(1), entry(2)>>)
        logs == [i \in Server |-> IF i = Laggard THEN EmptyLog ELSE written]
    IN  /\ state = [i \in Server |-> IF i = Elected THEN "Leader" ELSE "Follower"]
        /\ currentTerm = [i \in Server |-> 3] /\ votedFor = [i \in Server |-> Elected]
        /\ log = logs
        /\ commitIndex = [i \in Server |-> LastLog(logs[i]).Index]
        /\ nextIndex = [i \in Server |-> [j \in Server |-> IF i = Elected THEN 3 ELSE 0]]
        /\ matchIndex = [i \in Server |-> [j \in Server |-> 0]]
        /\ votes = [i \in Server |-> IF i = Elected THEN Server ELSE {i} \cap {Laggard}]
        /\ persister = [i \in Server |-> persistData(3, Elected, logs[i])]
        /\ voteCalls = {} /\ voteReplies = {} /\ appendCalls = {} /\ appendReplies = {}
        /\ restarts = 0
        /\ LeaderID = [i \in Server |-> IF i \in {Elected, Laggard} THEN Zero ELSE Elected]
        /\ LastIndex = [i \in Server |-> 0] /\ LastTerm = [i \in Server |-> 0]
        /\ snapshot = [i \in Server |-> 0]
        /\ sending = {} /\ snapCalls = {} /\ snapReplies = {} /\ fatal = ""

LedSpec == (SnapInit \/ ElectedInit) /\ [][SnapNext]_allVars

\* What LedSpec explores: Elected's term 1 from the start, with two entries and no
\* crash, and all of term 3 from ElectedInit, with one call or reply in flight in
\* all once a peer has crashed; Elected and Laggard trim their logs, the third peer
\* does not.  A constraint prunes states, it adds none.
Stages ==
    /\ \A i \in Server : currentTerm[i] # 2
    /\ \A i \in Server \ {Elected, Laggard} : log[i].Index0 = 0
    /\ restarts > 0 => InFlight + snapInFlight <= 1
    /\ (\E i \in Server : currentTerm[i] < 3) =>
         /\ restarts = 0 /\ \A i \in Server : LastLog(log[i]).Index <= 2
         /\ \A i \in Server : state[i] # "Follower" => i = Elected

\* The third peer hears nothing and does nothing.
CutOff ==
    LET third == Server \ {Elected, Laggard}
    IN  /\ \A m \in appendCalls' \cup snapCalls' : m.peer \notin third
        /\ \A i \in third : log'[i] = log[i]

FairSpec == ElectedInit /\ [][SnapNext /\ CutOff]_allVars /\ Fairness(Elected, Laggard)

\* The leader sends from below the start of the peer's log and has no snapshot of
\* that place: AppendEntries returns before it gives a hint.
refused == /\ log[Elected].Index0 < nextIndex[Elected][Laggard]
           /\ nextIndex[Elected][Laggard] <= log[Laggard].Index0

\* A peer that leaderSendEntries and SendSnapshot reach again gets every entry of
\* the leader, in AppendEntries or in a snapshot, although calls and answers get lost;
\* unless its own snapshot has it refuse the leader's calls for ever.
CaughtUp == <>[]refused \/ catchesUp(Elected, Laggard)
=============================================================================
