----------------------------- MODULE KvHarness -----------------------------
(***************************************************************************)
(* The harness of the key-value tests (src/kvraft/config.go) on top of the  *)
(* network: servers are shut down and started again with fresh ends and a   *)
(* copied persister while calls are on their way, clerks are connected and  *)
(* cut off, and the servers are partitioned with the leader in the          *)
(* minority.                                                                *)
(*                                                                         *)
(* Server i's ends of its k-th start are <<i, k, j>>, a clerk's are         *)
(* <<0, ck, j>>.  Handlers stand for any handler that persists its effect   *)
(* before it returns, as Raft's do.                                         *)
(***************************************************************************)
EXTENDS Naturals, SequencesExt

CONSTANTS n,            \* cfg.n
          MaxStarts,    \* bound: starts of one server
          Clerks,       \* bound: clerks ever made, a set of numbers
          Calls,        \* bound: calls ever made
          Nil

ASSUME HarnessAssumption ==
    /\ n \in Nat /\ n % 2 = 1     \* the tests run 1, 3, 5 or 7 servers
    /\ MaxStarts \in Nat \ {0} /\ Clerks \subseteq Nat
    /\ Nil \notin Nat \cup (Nat \X Nat)

VARIABLES ends, enabled, connections, servers, reliable, done, listening, call, executed,
          endnames,    \* the start whose ends a server has
          kvservers,   \* the start that runs, or Nil
          saved,       \* cfg.saved[i]: who writes to it, and the effects in it
          clerks,      \* clerks that exist
          step,        \* what the harness has still to do in the function it runs
          cut          \* the leader that make_partition put in the minority, as long as
                       \* no server is shut down or started, or Nil

Servers == 1 .. n
end(i, k, j) == <<i, k, j>>
endsOf(i, k) == {end(i, k, j) : j \in Servers}
AllEnds == (UNION {endsOf(i, k) : i \in Servers, k \in 1 .. MaxStarts})
           \cup (UNION {endsOf(0, ck) : ck \in Clerks})

Net == INSTANCE LabRpc WITH Ends <- AllEnds, ServerNames <- Servers,
                            Instances <- Servers \X (1 .. MaxStarts), Hanging <- {}

harnessVars == <<endnames, kvservers, saved, clerks, step, cut>>
rpcVars == <<ends, enabled, connections, servers, reliable, done, listening, call, executed>>
vars == <<rpcVars, harnessVars>>

idle == [do |-> "nothing", server |-> 0]

-----------------------------------------------------------------------------
(* Links                                                                     *)

outgoing(i, S) == {end(i, endnames[i], j) : j \in S}
incoming(i, S) == {end(j, endnames[j], i) : j \in S}

connectUnlocked(en, i, to) ==
    [e \in AllEnds |-> e \in outgoing(i, to) \cup incoming(i, to) \/ en[e]]

\* Mutants (here and below, <name>_<slip>): the operator of that name with a
\* plausible slip.
disconnectUnlocked_Incoming(en, i, from) ==
    [e \in AllEnds |-> e \notin incoming(i, from) /\ en[e]]

disconnectUnlocked(en, i, from) ==
    [e \in AllEnds |-> e \notin outgoing(i, from) \cup incoming(i, from) /\ en[e]]

\* The servers other than the leader l fill the first half, n/2+1 long, and
\* then the second, which l ends.
make_partition_LeaderFirst(l) ==
    LET all == [i \in Servers |-> i]
    IN  [p1 |-> SubSeq(all, 1, n \div 2 + 1), p2 |-> SubSeq(all, n \div 2 + 2, n)]

make_partition(l) ==
    LET others == SelectSeq([i \in Servers |-> i], LAMBDA i : i # l)
        p1 == SubSeq(others, 1, n \div 2 + 1)
        p2 == SubSeq(others, n \div 2 + 2, n - 1)
    IN  [p1 |-> p1, p2 |-> Append(p2, l)]

\* The links once every server of p was cut off from q and joined to p.
sided(en, p, q) ==
    FoldLeft(LAMBDA e, i : connectUnlocked(disconnectUnlocked(e, i, Range(q)), i, Range(p)),
             en, p)

partition(l) ==
    LET p == make_partition(l)
    IN  /\ step = idle /\ ~done /\ n > 1
        /\ enabled' = sided(sided(enabled, p.p1, p.p2), p.p2, p.p1)
        /\ cut' = l
        /\ UNCHANGED <<ends, connections, servers, reliable, done, listening, call, executed,
                       endnames, kvservers, saved, clerks, step>>

ConnectAll ==
    /\ step = idle /\ ~done
    /\ enabled' = FoldLeft(LAMBDA e, i : connectUnlocked(e, i, Servers), enabled,
                           [i \in Servers |-> i])
    /\ cut' = Nil
    /\ UNCHANGED <<ends, connections, servers, reliable, done, listening, call, executed,
                   endnames, kvservers, saved, clerks, step>>

-----------------------------------------------------------------------------
(* Clerks                                                                    *)

makeClient(ck, to) ==
    /\ step = idle /\ ~done /\ ck \in Clerks \ clerks
    /\ clerks' = clerks \cup {ck}
    /\ ends' = ends \cup endsOf(0, ck)
    /\ connections' = [e \in AllEnds |-> IF e \in endsOf(0, ck) THEN e[3] ELSE connections[e]]
    /\ enabled' = [e \in AllEnds |-> IF e \in endsOf(0, ck) THEN e[3] \in to ELSE enabled[e]]
    /\ UNCHANGED <<servers, reliable, done, listening, call, executed, endnames, kvservers,
                   saved, step, cut>>

ConnectClient(ck, to) ==
    /\ step = idle /\ ~done /\ ck \in clerks
    /\ enabled' = [e \in AllEnds |-> e \in {end(0, ck, j) : j \in to} \/ enabled[e]]
    /\ UNCHANGED <<ends, connections, servers, reliable, done, listening, call, executed,
                   harnessVars>>

DisconnectClient(ck, from) ==
    /\ step = idle /\ ~done /\ ck \in clerks
    /\ enabled' = [e \in AllEnds |-> e \notin {end(0, ck, j) : j \in from} /\ enabled[e]]
    /\ UNCHANGED <<ends, connections, servers, reliable, done, listening, call, executed,
                   harnessVars>>

-----------------------------------------------------------------------------
(* ShutdownServer and StartServer, each in the steps that others can see     *)

ShutdownServer(i) ==
    /\ step = idle /\ ~done /\ kvservers[i] # Nil
    /\ enabled' = disconnectUnlocked(enabled, i, Servers)
    /\ step' = [do |-> "DeleteServer", server |-> i]
    /\ cut' = Nil
    /\ UNCHANGED <<ends, connections, servers, reliable, done, listening, call, executed,
                   endnames, kvservers, saved, clerks>>

\* Persister.Copy: what it holds, in an object that nobody writes to yet.
Copy(ps) == [owner |-> Nil, effects |-> ps.effects]

DeleteServer(i) ==
    /\ step = [do |-> "DeleteServer", server |-> i]
    /\ Net!DeleteServer(i)
    /\ step' = [do |-> "Copy", server |-> i]
    /\ UNCHANGED <<endnames, kvservers, saved, clerks, cut>>

\* cfg.saved[i].Copy, Kill
CopyAndKill(i) ==
    /\ step = [do |-> "Copy", server |-> i]
    /\ saved' = [saved EXCEPT ![i] = Copy(@)]
    /\ kvservers' = [kvservers EXCEPT ![i] = Nil]
    /\ step' = idle
    /\ UNCHANGED <<rpcVars, endnames, clerks, cut>>

\* Fresh ends, and a fresh persister for the new instance.
StartServer(i) ==
    LET k == endnames[i] + 1
    IN  /\ step = idle /\ ~done /\ kvservers[i] = Nil /\ k <= MaxStarts
        /\ endnames' = [endnames EXCEPT ![i] = k]
        /\ ends' = ends \cup endsOf(i, k)
        /\ connections' = [e \in AllEnds |-> IF e \in endsOf(i, k) THEN e[3] ELSE connections[e]]
        /\ saved' = [saved EXCEPT ![i] = [owner |-> <<i, k>>, effects |-> Copy(@).effects]]
        /\ step' = [do |-> "AddServer", server |-> i]
        /\ cut' = Nil
        /\ UNCHANGED <<enabled, servers, reliable, done, listening, call, executed, kvservers,
                       clerks>>

AddServer(i) ==
    /\ step = [do |-> "AddServer", server |-> i]
    /\ kvservers' = [kvservers EXCEPT ![i] = endnames[i]]
    /\ Net!AddServer(i, <<i, endnames[i]>>)
    /\ step' = idle
    /\ UNCHANGED <<endnames, saved, clerks, cut>>

cleanup ==
    /\ step = idle /\ Net!Cleanup
    /\ UNCHANGED harnessVars

-----------------------------------------------------------------------------
(* The network at work                                                       *)

\* The handler of instance x writes into the persister x was started with.
dispatch(c) ==
    LET x == call[c].server
    IN  /\ Net!dispatch(c)
        /\ saved' = [saved EXCEPT ![x[1]].effects = IF saved[x[1]].owner = x THEN @ \cup {c}
                                                                            ELSE @]
        /\ UNCHANGED <<endnames, kvservers, clerks, step, cut>>

\* The calls are those of the clerks.
Network ==
    /\ \/ \E c \in Calls : \/ Net!processReq(c)
                           \/ \E ck \in Clerks, j \in Servers : Net!Call(c, end(0, ck, j))
       \/ Net!StopListening
    /\ UNCHANGED harnessVars

-----------------------------------------------------------------------------
\* make_config: every server started once, and all of them connected; what a
\* reliable network does, an unreliable one may do.
Init ==
    LET made == UNION {endsOf(i, 1) : i \in Servers}
    IN  /\ ends = made /\ enabled = [e \in AllEnds |-> e \in made]
        /\ connections = [e \in AllEnds |-> IF e \in made THEN e[3] ELSE Nil]
        /\ servers = [i \in Servers |-> <<i, 1>>] /\ reliable = FALSE
        /\ done = FALSE /\ listening = TRUE
        /\ call = [c \in Calls |-> Net!unsent] /\ executed = [c \in Calls |-> 0]
        /\ endnames = [i \in Servers |-> 1] /\ kvservers = [i \in Servers |-> 1]
        /\ saved = [i \in Servers |-> [owner |-> <<i, 1>>, effects |-> {}]]
        /\ clerks = {} /\ step = idle /\ cut = Nil

Next ==
    \/ \E l \in Servers : partition(l)
    \/ ConnectAll
    \/ \E ck \in Clerks, S \in SUBSET Servers :
         makeClient(ck, S) \/ ConnectClient(ck, S) \/ DisconnectClient(ck, S)
    \/ \E i \in Servers : \/ ShutdownServer(i) \/ DeleteServer(i) \/ CopyAndKill(i)
                          \/ StartServer(i) \/ AddServer(i)
    \/ \E c \in Calls : dispatch(c)
    \/ Network \/ cleanup

Spec == Init /\ [][Next]_vars

-----------------------------------------------------------------------------
(* Properties                                                                *)

\* "to avoid the possibility of the server returning a positive reply to an
\* Append but persisting the result in the superseded Persister": what a caller
\* was told was done is in the persister the server will be started from.
RepliesKept ==
    \A c \in Calls : call[c].pc = "returned" /\ call[c].ok
                       => c \in saved[call[c].servername].effects

\* The servers that i can send to.
reach(i) == {j \in Servers : enabled[end(i, endnames[i], j)]}

\* A link is up in both directions or in none, whatever servers were down when it was
\* made: one way only leads to a server that was started again and is not connected yet.
LinksSound ==
    \A i, j \in Servers : reach(i) # {} /\ reach(j) # {} => (j \in reach(i) <=> i \in reach(j))

\* "put current leader in minority": the leader is left with fewer than half of
\* the servers, and a majority remains that is connected among itself and to
\* nobody else.
LeaderCutOff ==
    cut # Nil =>
        /\ 2 * Cardinality(reach(cut)) < n
        /\ \A i \in Servers \ reach(cut) : reach(i) = Servers \ reach(cut)
=============================================================================
