------------------------------- MODULE LabRpc -------------------------------
(***************************************************************************)
(* The simulated network of src/labrpc/labrpc.go: client ends, the servers  *)
(* behind them, and the life of a call from ClientEnd.Call through          *)
(* processReq to its handler and back.                                      *)
(*                                                                         *)
(* Every delay of the code (the short delay of an unreliable network, the   *)
(* pause on a disabled end, LongDelays, LongReordering) is a step that may  *)
(* come at any time.  Payloads are left out: a call is its own request and  *)
(* reply.                                                                   *)
(***************************************************************************)
EXTENDS Naturals, FiniteSets

CONSTANTS Calls,        \* bound: the calls that are made, each once
          Hanging,      \* those whose handler may never return
          Ends,         \* names of client ends
          ServerNames,
          Instances,    \* the *Server values that are ever added
          Nil

ASSUME RpcAssumption == Hanging \subseteq Calls /\ Nil \notin ServerNames \cup Instances

VARIABLES ends,          \* the ends that exist
          enabled,       \* by end
          connections,   \* by end: a server name, or Nil
          servers,       \* by server name: an instance, or Nil
          reliable,
          done,          \* closed by Cleanup
          listening,     \* the goroutine that receives from endCh still runs
          call,          \* each call's reqMsg and the local variables of its processReq
          executed       \* how often its handler has run to its end

netVars == <<ends, enabled, connections, servers, reliable>>
rpcVars == <<ends, enabled, connections, servers, reliable, done, listening, call, executed>>

reqMsg(e) == [pc |-> "sending", endname |-> e, servername |-> Nil, server |-> Nil,
              reliable |-> TRUE, handler |-> "none", ok |-> FALSE]

\* A call nobody has made yet.
unsent == [reqMsg(Nil) EXCEPT !.pc = "idle"]

Goto(c, pc) == call' = [call EXCEPT ![c].pc = pc]

\* ok goes to replyCh, where Call waits for it.
Reply(c, ok) == call' = [call EXCEPT ![c].pc = "replying", ![c].ok = ok]

-----------------------------------------------------------------------------
(* ClientEnd.Call                                                            *)

Call(c, e) ==
    /\ call[c].pc = "idle" /\ e \in ends
    /\ call' = [call EXCEPT ![c] = reqMsg(e)]
    /\ UNCHANGED <<netVars, done, listening, executed>>

\* case e.ch <- req: the network's goroutine takes it.
Accept(c) ==
    /\ call[c].pc = "sending" /\ listening
    /\ Goto(c, "accepted")
    /\ UNCHANGED <<netVars, done, listening, executed>>

\* case <-e.done: "entire Network has been destroyed."
Abandon(c) ==
    /\ call[c].pc = "sending" /\ done
    /\ Goto(c, "returned")
    /\ UNCHANGED <<netVars, done, listening, executed>>

Deliver(c) ==
    /\ call[c].pc = "replying"
    /\ Goto(c, "returned")
    /\ UNCHANGED <<netVars, done, listening, executed>>

-----------------------------------------------------------------------------
(* processReq                                                                *)

answering(e) == enabled[e] /\ connections[e] # Nil /\ servers[connections[e]] # Nil

readEndnameInfo(c) ==
    LET e == call[c].endname
        s == connections[e]
    IN  /\ call[c].pc = "accepted"
        /\ IF answering(e)
           THEN call' = [call EXCEPT ![c].pc = "ready", ![c].servername = s,
                                     ![c].server = servers[s], ![c].reliable = reliable]
           ELSE Reply(c, FALSE)
        /\ UNCHANGED <<netVars, done, listening, executed>>

isServerDead(c) == ~enabled[call[c].endname] \/ servers[call[c].servername] # call[c].server

DropRequest(c) ==
    /\ call[c].pc = "ready" /\ ~call[c].reliable
    /\ Reply(c, FALSE)
    /\ UNCHANGED <<netVars, done, listening, executed>>

\* go func() { r := server.dispatch(req); ech <- r }
Dispatch(c) ==
    /\ call[c].pc = "ready"
    /\ call' = [call EXCEPT ![c].pc = "waiting", ![c].handler = "running"]
    /\ UNCHANGED <<netVars, done, listening, executed>>

\* Server.dispatch and Service.dispatch: the method runs, also on a server
\* that has been deleted since; its goroutine then waits on ech.
dispatch(c) ==
    /\ call[c].handler = "running"
    /\ call' = [call EXCEPT ![c].handler = "returned"]
    /\ executed' = [executed EXCEPT ![c] = @ + 1]
    /\ UNCHANGED <<netVars, done, listening>>

\* case reply = <-ech
ReceiveReply(c) ==
    /\ call[c].pc = "waiting" /\ call[c].handler = "returned"
    /\ call' = [call EXCEPT ![c].pc = "checking", ![c].handler = "done"]
    /\ UNCHANGED <<netVars, done, listening, executed>>

\* Mutants (here and below, <name>_<slip>): the operator of that name with a
\* plausible slip.
StopWaiting_ThenCheck(c) ==
    /\ call[c].pc = "waiting" /\ isServerDead(c)
    /\ Goto(c, "checking")
    /\ UNCHANGED <<netVars, done, listening, executed>>
StopWaiting_WhenDisabled(c) ==
    /\ call[c].pc = "waiting" /\ ~enabled[call[c].endname]
    /\ Reply(c, FALSE)
    /\ UNCHANGED <<netVars, done, listening, executed>>

\* case <-time.After(...): the server was deleted, replaced or cut off.
StopWaiting(c) ==
    /\ call[c].pc = "waiting" /\ isServerDead(c)
    /\ Reply(c, FALSE)
    /\ UNCHANGED <<netVars, done, listening, executed>>

drained_ByReceiver(c) == call[c].pc = "waiting"

\* "drain channel to let the goroutine created earlier terminate"
drained(c) == call[c].pc \in {"replying", "returned"}

Drain(c) ==
    /\ call[c].handler = "returned" /\ drained(c)
    /\ call' = [call EXCEPT ![c].handler = "done"]
    /\ UNCHANGED <<netVars, done, listening, executed>>

dead_NotChecked(c) == FALSE

\* "do not reply if DeleteServer() has been called"
dead(c) == isServerDead(c)

Check(c) ==
    /\ call[c].pc = "checking"
    /\ \/ Reply(c, ~dead(c))
       \/ ~call[c].reliable /\ Reply(c, FALSE)
    /\ UNCHANGED <<netVars, done, listening, executed>>

-----------------------------------------------------------------------------
(* The network's own operations                                              *)

MakeEnd(e) ==
    /\ e \notin ends
    /\ ends' = ends \cup {e}
    /\ enabled' = [enabled EXCEPT ![e] = FALSE]
    /\ connections' = [connections EXCEPT ![e] = Nil]
    /\ UNCHANGED <<servers, reliable, done, listening, call, executed>>

Connect(e, s) ==
    /\ e \in ends /\ connections[e] = Nil     \* "only be connected once in its lifetime"
    /\ connections' = [connections EXCEPT ![e] = s]
    /\ UNCHANGED <<ends, enabled, servers, reliable, done, listening, call, executed>>

Enable(e, yes) ==
    /\ e \in ends
    /\ enabled' = [enabled EXCEPT ![e] = yes]
    /\ UNCHANGED <<ends, connections, servers, reliable, done, listening, call, executed>>

AddServer(s, x) ==
    /\ servers' = [servers EXCEPT ![s] = x]
    /\ UNCHANGED <<ends, enabled, connections, reliable, done, listening, call, executed>>

DeleteServer(s) ==
    /\ servers' = [servers EXCEPT ![s] = Nil]
    /\ UNCHANGED <<ends, enabled, connections, reliable, done, listening, call, executed>>

Reliable(yes) ==
    /\ reliable' = yes
    /\ UNCHANGED <<ends, enabled, connections, servers, done, listening, call, executed>>

Cleanup ==
    /\ ~done /\ done' = TRUE
    /\ UNCHANGED <<netVars, listening, call, executed>>

\* The network's goroutine: case <-rn.done
StopListening ==
    /\ done /\ listening /\ listening' = FALSE
    /\ UNCHANGED <<netVars, done, call, executed>>

-----------------------------------------------------------------------------
MakeNetwork ==
    /\ ends = {} /\ enabled = [e \in Ends |-> FALSE] /\ connections = [e \in Ends |-> Nil]
    /\ servers = [s \in ServerNames |-> Nil] /\ reliable = TRUE
    /\ done = FALSE /\ listening = TRUE
    /\ call = [c \in Calls |-> unsent] /\ executed = [c \in Calls |-> 0]

\* What the goroutines of call c do, its handler apart.
processReq(c) ==
    \/ Accept(c) \/ Abandon(c) \/ readEndnameInfo(c) \/ DropRequest(c) \/ Dispatch(c)
    \/ ReceiveReply(c) \/ StopWaiting(c) \/ Drain(c) \/ Check(c) \/ Deliver(c)

\* The tester around the network: a server's instance is added once.
Environment ==
    \/ \E e \in Ends : \/ MakeEnd(e)
                       \/ \E s \in ServerNames : Connect(e, s)
                       \/ \E yes \in BOOLEAN : Enable(e, yes)
    \/ \E s \in ServerNames :
         \/ DeleteServer(s)
         \/ \E x \in Instances :
              /\ \A c \in Calls : call[c].server # x
              /\ \A t \in ServerNames : servers[t] # x
              /\ AddServer(s, x)
    \/ \E yes \in BOOLEAN : Reliable(yes)
    \/ Cleanup \/ StopListening

RpcNext == \/ \E c \in Calls : processReq(c) \/ dispatch(c) \/ \E e \in Ends : Call(c, e)
           \/ Environment

\* Goroutines run, timers fire, and handlers end but for the hanging ones.
RpcSpec == /\ MakeNetwork /\ [][RpcNext]_rpcVars
           /\ \A c \in Calls : WF_rpcVars(processReq(c)) /\ WF_rpcVars(Drain(c))
           /\ \A c \in Calls \ Hanging : WF_rpcVars(dispatch(c))

-----------------------------------------------------------------------------
(* Properties                                                                *)

\* What the network keeps of the promise of Call, whatever is lost, delayed,
\* cut off, deleted or cleaned up: see RpcPromise.
Promise == INSTANCE RpcPromise WITH
    Terminating <- Calls \ Hanging,
    result <- [c \in Calls |-> IF call[c].pc = "idle" THEN "none"
                               ELSE IF call[c].pc # "returned" THEN "pending"
                               ELSE IF call[c].ok THEN "true" ELSE "false"]
CallKeepsPromise == Promise!Spec

\* A call whose handler hangs returns all the same once its server is deleted
\* or its end cut off for good; processReq polls for that.
HungCallReturns ==
    \A c \in Hanging :
        []<>(call[c].pc \in {"idle", "returned"} \/ (call[c].pc = "waiting" /\ ~isServerDead(c)))

\* No goroutine is left behind on ech when processReq stops waiting for it.
NoGoroutineLeft ==
    \A c \in Calls : call[c].handler = "returned" ~> call[c].handler = "done"
=============================================================================
