----------------------------- MODULE LabProofs -----------------------------
(***************************************************************************)
(* The proofs about the two parts of the labs that stand without Raft: the  *)
(* MapReduce job and the simulated network.  They share no variable.        *)
(*                                                                         *)
(* The MapReduce job, for any number of map tasks, reduce tasks, workers,  *)
(* crashes and timeouts, and for every timing.  Two arguments carry it.     *)
(* If no task times out that is still running, the queue holds each Idle    *)
(* entry of TaskMeta once and each InProgress entry has at most one worker: *)
(* nothing is reported twice, and the queue is never too small.  If no      *)
(* report comes before an earlier one is collected, there is at most one    *)
(* result to collect, so the last of them finds the files of all others.    *)
(*                                                                         *)
(* The network, for any calls, ends and servers: every step of it is a step *)
(* of RpcPromise or leaves its variables alone.  The inductive invariant    *)
(* ties the place of a call in processReq to its handler: a handler starts  *)
(* only when the call is dispatched, it runs to its end at most once, and   *)
(* ok is true only after its result was received.                           *)
(***************************************************************************)
EXTENDS MapReduce, LabRpc, TLAPS

-----------------------------------------------------------------------------
(* The network                                                               *)

callRecord ==
    [pc : {"idle", "sending", "accepted", "ready", "waiting", "checking", "replying", "returned"},
     endname : Ends \cup {Nil}, servername : ServerNames \cup {Nil},
     server : Instances \cup {Nil}, reliable : BOOLEAN,
     handler : {"none", "running", "returned", "done"}, ok : BOOLEAN]

NetworkInv ==
    /\ ends \subseteq Ends /\ enabled \in [Ends -> BOOLEAN]
    /\ connections \in [Ends -> ServerNames \cup {Nil}]
    /\ servers \in [ServerNames -> Instances \cup {Nil}]
    /\ reliable \in BOOLEAN /\ done \in BOOLEAN /\ listening \in BOOLEAN

\* Where a call is and what has become of its handler.
callInv(r, n) ==
    /\ r.pc \in {"sending", "accepted", "ready"} => r.endname \in Ends
    /\ r.pc \in {"ready", "waiting", "checking"} => r.server \in Instances
    /\ r.pc \in {"idle", "sending", "accepted", "ready"} => r.handler = "none"
    /\ r.pc = "waiting" => r.handler \in {"running", "returned"}
    /\ r.pc = "checking" => r.handler = "done"
    /\ r.ok => r.handler = "done" /\ r.pc \in {"replying", "returned"}
    /\ n = IF r.handler \in {"returned", "done"} THEN 1 ELSE 0

CallInv ==
    /\ call \in [Calls -> callRecord] /\ executed \in [Calls -> {0, 1}]
    /\ \A c \in Calls : callInv(call[c], executed[c])

RpcInv == NetworkInv /\ CallInv

\* A step that changes one call only keeps CallInv if it keeps callInv of that call.
LEMMA OneCall ==
    ASSUME CallInv, NEW c \in Calls, NEW r \in callRecord, NEW n \in {0, 1}, callInv(r, n),
           call' = [call EXCEPT ![c] = r], executed' = [executed EXCEPT ![c] = n]
    PROVE  CallInv'
<1>1. call' \in [Calls -> callRecord] /\ executed' \in [Calls -> {0, 1}]
  BY Zenon DEF CallInv
<1>2. ASSUME NEW d \in Calls PROVE callInv(call'[d], executed'[d])
  <2>1. CASE d = c
    BY <2>1, Zenon DEF CallInv
  <2>2. CASE d # c
    <3>1. call'[d] = call[d] /\ executed'[d] = executed[d]
      BY <2>2, Zenon DEF CallInv
    <3> QED BY <3>1, Zenon DEF CallInv
  <2> QED BY <2>1, <2>2, Zenon
<1> QED BY <1>1, <1>2, Zenon DEF CallInv

\* The same for a step that does not run the handler to its end.
LEMMA OneCallOnly ==
    ASSUME CallInv, NEW c \in Calls, NEW r \in callRecord, callInv(r, executed[c]),
           call' = [call EXCEPT ![c] = r], executed' = executed
    PROVE  CallInv'
<1>1. call' \in [Calls -> callRecord] /\ executed' \in [Calls -> {0, 1}]
  BY Zenon DEF CallInv
<1>2. ASSUME NEW d \in Calls PROVE callInv(call'[d], executed'[d])
  <2>1. CASE d = c
    BY <2>1, Zenon DEF CallInv
  <2>2. CASE d # c
    <3>1. call'[d] = call[d]
      BY <2>2, Zenon DEF CallInv
    <3> QED BY <3>1, Zenon DEF CallInv
  <2> QED BY <2>1, <2>2, Zenon
<1> QED BY <1>1, <1>2, Zenon DEF CallInv

\* processReq and the handler keep the invariant, step by step.
LEMMA CallSteps ==
    ASSUME RpcInv, NEW c \in Calls,
           processReq(c) \/ dispatch(c) \/ \E e \in Ends : Call(c, e)
    PROVE  CallInv'
<1> DEFINE old == call[c]
<1>0. CallInv /\ old \in callRecord /\ callInv(old, executed[c]) /\ executed[c] \in {0, 1}
  BY Zenon DEF RpcInv, CallInv
<1>1. ASSUME NEW e \in Ends, Call(c, e) PROVE CallInv'
  <2> DEFINE r == reqMsg(e)
  <2>1. r \in callRecord /\ callInv(r, executed[c])
    BY <1>0, <1>1, Zenon DEF Call, reqMsg, callRecord, callInv
  <2> QED BY <1>0, <1>1, <2>1, OneCallOnly, Zenon DEF Call
<1>2. ASSUME NEW p \in {"accepted", "returned"}, Goto(c, p), old.pc = "sending",
             executed' = executed
      PROVE  CallInv'
  <2> DEFINE r == [old EXCEPT !.pc = p]
  <2>1. r \in callRecord /\ callInv(r, executed[c])
    BY <1>0, <1>2, Zenon DEF callRecord, callInv
  <2>2. call' = [call EXCEPT ![c] = r]
    BY <1>0, <1>2, Zenon DEF Goto, CallInv
  <2> QED BY <1>0, <1>2, <2>1, <2>2, OneCallOnly, Zenon
<1>3. ASSUME Deliver(c) PROVE CallInv'
  <2> DEFINE r == [old EXCEPT !.pc = "returned"]
  <2>1. r \in callRecord /\ callInv(r, executed[c])
    BY <1>0, <1>3, Zenon DEF callRecord, callInv, Deliver
  <2>2. call' = [call EXCEPT ![c] = r]
    BY <1>0, <1>3, Zenon DEF Goto, CallInv, Deliver
  <2> QED BY <1>0, <1>3, <2>1, <2>2, OneCallOnly, Zenon DEF Deliver
<1>4. ASSUME NEW ok \in BOOLEAN, Reply(c, ok), executed' = executed,
             old.pc \in {"accepted", "ready", "waiting", "checking"},
             ok => old.handler = "done"
      PROVE  CallInv'
  <2> DEFINE r == [old EXCEPT !.pc = "replying", !.ok = ok]
  <2>1. r \in callRecord /\ callInv(r, executed[c])
    BY <1>0, <1>4, Zenon DEF callRecord, callInv
  <2>2. call' = [call EXCEPT ![c] = r]
    BY <1>0, <1>4, Zenon DEF Reply, CallInv, callRecord
  <2> QED BY <1>0, <1>4, <2>1, <2>2, OneCallOnly, Zenon
<1>5. ASSUME readEndnameInfo(c) PROVE CallInv'
  <2>1. CASE ~answering(old.endname)
    BY <1>4, <1>5, <2>1, Zenon DEF readEndnameInfo
  <2>2. CASE answering(old.endname)
    <3> DEFINE s == connections[old.endname]
               r == [old EXCEPT !.pc = "ready", !.servername = s, !.server = servers[s],
                                !.reliable = reliable]
    <3>1. old.endname \in Ends /\ s \in ServerNames /\ servers[s] \in Instances
      BY <1>0, <1>5, <2>2, Zenon DEF RpcInv, NetworkInv, callInv, answering, readEndnameInfo
    <3>2. r \in callRecord /\ callInv(r, executed[c])
      BY <1>0, <1>5, <3>1, Zenon DEF callRecord, callInv, readEndnameInfo, RpcInv,
           NetworkInv
    <3>3. call' = [call EXCEPT ![c] = r]
      BY <1>0, <1>5, <2>2, Zenon DEF readEndnameInfo, CallInv, callRecord
    <3> QED BY <1>0, <1>5, <3>2, <3>3, OneCallOnly, Zenon DEF readEndnameInfo
  <2> QED BY <2>1, <2>2, Zenon
<1>6. ASSUME Dispatch(c) PROVE CallInv'
  <2> DEFINE r == [old EXCEPT !.pc = "waiting", !.handler = "running"]
  <2>1. r \in callRecord /\ callInv(r, executed[c])
    BY <1>0, <1>6, Zenon DEF callRecord, callInv, Dispatch
  <2>2. call' = [call EXCEPT ![c] = r]
    BY <1>0, <1>6, Zenon DEF Dispatch, CallInv, callRecord
  <2> QED BY <1>0, <1>6, <2>1, <2>2, OneCallOnly, Zenon DEF Dispatch
<1>7. ASSUME ReceiveReply(c) PROVE CallInv'
  <2> DEFINE r == [old EXCEPT !.pc = "checking", !.handler = "done"]
  <2>1. r \in callRecord /\ callInv(r, executed[c])
    BY <1>0, <1>7, Zenon DEF callRecord, callInv, ReceiveReply
  <2>2. call' = [call EXCEPT ![c] = r]
    BY <1>0, <1>7, Zenon DEF ReceiveReply, CallInv, callRecord
  <2> QED BY <1>0, <1>7, <2>1, <2>2, OneCallOnly, Zenon DEF ReceiveReply
<1>8. ASSUME Drain(c) PROVE CallInv'
  <2> DEFINE r == [old EXCEPT !.handler = "done"]
  <2>1. r \in callRecord /\ callInv(r, executed[c])
    BY <1>0, <1>8, Zenon DEF callRecord, callInv, Drain, drained
  <2>2. call' = [call EXCEPT ![c] = r]
    BY <1>0, <1>8, Zenon DEF Drain, CallInv
  <2> QED BY <1>0, <1>8, <2>1, <2>2, OneCallOnly, Zenon DEF Drain
<1>9. ASSUME dispatch(c) PROVE CallInv'
  <2> DEFINE r == [old EXCEPT !.handler = "returned"]
  <2>1. r \in callRecord /\ callInv(r, 1) /\ executed[c] = 0
    BY <1>0, <1>9, Zenon DEF callRecord, callInv, dispatch
  <2>2. call' = [call EXCEPT ![c] = r] /\ executed' = [executed EXCEPT ![c] = 1]
    BY <1>0, <1>9, <2>1 DEF dispatch, CallInv
  <2> QED BY <1>0, <2>1, <2>2, OneCall, Zenon
<1>10. ASSUME Check(c) PROVE CallInv'
  <2>1. old.handler = "done"
    BY <1>0, <1>10, Zenon DEF Check, callInv
  <2>2. PICK ok \in BOOLEAN : Reply(c, ok)
    BY <1>10, Zenon DEF Check, dead, isServerDead
  <2> QED BY <1>4, <1>10, <2>1, <2>2, Zenon DEF Check
<1>11. Accept(c) \/ Abandon(c) => CallInv'
  BY <1>2, Zenon DEF Accept, Abandon
<1>12. DropRequest(c) \/ StopWaiting(c) => CallInv'
  BY <1>4, Zenon DEF DropRequest, StopWaiting
<1> QED
  BY <1>1, <1>3, <1>5, <1>6, <1>7, <1>8, <1>9, <1>10, <1>11, <1>12, Zenon DEF processReq

\* The operations of Network on ends and servers touch no call.
LEMMA NetworkSteps == RpcInv /\ Environment => RpcInv'
<1> SUFFICES ASSUME RpcInv, Environment PROVE RpcInv'
  BY Zenon
<1>1. UNCHANGED <<call, executed>>
  BY Zenon DEF Environment, MakeEnd, Connect, Enable, AddServer, DeleteServer, Reliable,
       Cleanup, StopListening
<1>2. CallInv'
  BY <1>1, Zenon DEF RpcInv, CallInv
<1>3. ASSUME NEW e \in Ends, MakeEnd(e) PROVE NetworkInv'
  BY <1>3, Zenon DEF RpcInv, NetworkInv, MakeEnd
<1>4. ASSUME NEW e \in Ends, NEW s \in ServerNames, Connect(e, s) PROVE NetworkInv'
  BY <1>4, Zenon DEF RpcInv, NetworkInv, Connect
<1>5. ASSUME NEW e \in Ends, NEW yes \in BOOLEAN, Enable(e, yes) PROVE NetworkInv'
  BY <1>5, Zenon DEF RpcInv, NetworkInv, Enable
<1>6. ASSUME NEW s \in ServerNames, DeleteServer(s) PROVE NetworkInv'
  BY <1>6, Zenon DEF RpcInv, NetworkInv, DeleteServer
<1>7. ASSUME NEW s \in ServerNames, NEW x \in Instances, AddServer(s, x) PROVE NetworkInv'
  BY <1>7, Zenon DEF RpcInv, NetworkInv, AddServer
<1>8. ASSUME NEW yes \in BOOLEAN, Reliable(yes) PROVE NetworkInv'
  BY <1>8, Zenon DEF RpcInv, NetworkInv, Reliable
<1>9. Cleanup \/ StopListening => NetworkInv'
  BY Zenon DEF RpcInv, NetworkInv, Cleanup, StopListening, netVars
<1>10. NetworkInv'
  BY <1>3, <1>4, <1>5, <1>6, <1>7, <1>8, <1>9, Zenon DEF Environment
<1> QED BY <1>2, <1>10, Zenon DEF RpcInv

\* MakeNetwork establishes the invariant.
LEMMA RpcInvInit == MakeNetwork => RpcInv
<1> SUFFICES ASSUME MakeNetwork PROVE RpcInv
  BY Zenon
<1>1. unsent \in callRecord /\ callInv(unsent, 0)
  BY Zenon DEF unsent, reqMsg, callRecord, callInv
<1>2. CallInv
  BY <1>1, Zenon DEF MakeNetwork, CallInv
<1>3. NetworkInv
  BY Zenon DEF MakeNetwork, NetworkInv
<1> QED BY <1>2, <1>3, Zenon DEF RpcInv

\* Every step of the network keeps the invariant.
LEMMA RpcInvNext == RpcInv /\ [RpcNext]_rpcVars => RpcInv'
<1> SUFFICES ASSUME RpcInv, [RpcNext]_rpcVars PROVE RpcInv'
  BY Zenon
<1>1. ASSUME NEW c \in Calls, processReq(c) \/ dispatch(c) \/ \E e \in Ends : Call(c, e)
      PROVE  RpcInv'
  <2>1. CallInv'
    BY <1>1, CallSteps, Zenon
  <2>2. UNCHANGED <<ends, enabled, connections, servers, reliable, done, listening>>
    BY <1>1, Zenon DEF processReq, dispatch, Call, Accept, Abandon, readEndnameInfo,
         DropRequest, Dispatch, ReceiveReply, StopWaiting, Drain, Check, Deliver, netVars
  <2> QED BY <2>1, <2>2, Zenon DEF RpcInv, NetworkInv
<1>2. CASE UNCHANGED rpcVars
  BY <1>2, Zenon DEF rpcVars, RpcInv, NetworkInv, CallInv
<1> QED BY <1>1, <1>2, NetworkSteps, Zenon DEF RpcNext

\* Whatever is lost, delayed, cut off, deleted or cleaned up, processReq and
\* dispatch keep a call and its handler in step: the handler runs at most once, and
\* ok is never true before it has run.
THEOREM CallsInStep == RpcSpec => []RpcInv
<1> QED BY RpcInvInit, RpcInvNext, PTL DEF RpcSpec

-----------------------------------------------------------------------------
(* The refinement of RpcPromise                                              *)

\* What the caller has been told, as RpcPromise sees it.
told(r) == IF r.pc = "idle" THEN "none"
           ELSE IF r.pc # "returned" THEN "pending"
           ELSE IF r.ok THEN "true" ELSE "false"

\* A network without calls is an initial state of RpcPromise.
LEMMA PromiseInit == MakeNetwork => Promise!Init
BY DEF MakeNetwork, unsent, reqMsg, Promise!Init

result == [c \in Calls |-> told(call[c])]

\* A step that changes one call changes one result.
LEMMA OneAnswer ==
    ASSUME CallInv, NEW c \in Calls, NEW r, call' = [call EXCEPT ![c] = r]
    PROVE  result' = [result EXCEPT ![c] = told(r)]
<1>1. ASSUME NEW d \in Calls PROVE call'[d] = IF d = c THEN r ELSE call[d]
  BY Zenon DEF CallInv
<1>2. result' = [d \in Calls |-> told(call'[d])]
  BY Zenon DEF result, told
<1>3. result = [d \in Calls |-> told(call[d])]
  BY Zenon DEF result
<1> QED BY <1>1, <1>2, <1>3

\* The actions of RpcPromise under the mapping.
LEMMA PromiseActions ==
    ASSUME NEW c \in Calls
    PROVE  /\ result[c] = "none" /\ result' = [result EXCEPT ![c] = "pending"]
              /\ executed' = executed => Promise!Invoke(c)
           /\ result[c] # "none" /\ executed[c] = 0 /\ result' = result
              /\ executed' = [executed EXCEPT ![c] = 1] => Promise!Execute(c)
           /\ result[c] = "pending" /\ executed[c] = 1 /\ executed' = executed
              /\ result' = [result EXCEPT ![c] = "true"] => Promise!Return(c)
           /\ result[c] = "pending" /\ executed' = executed
              /\ result' = [result EXCEPT ![c] = "false"] => Promise!Return(c)
           /\ result' = result /\ executed' = executed => UNCHANGED Promise!vars
BY Zenon DEF result, told, Promise!Invoke, Promise!Execute, Promise!Return,
     Promise!ReturnTrue, Promise!ReturnFalse, Promise!vars

\* A step of processReq or of a handler is a step of RpcPromise, or none.
LEMMA CallRefines ==
    ASSUME RpcInv, NEW c \in Calls,
           processReq(c) \/ dispatch(c) \/ \E e \in Ends : Call(c, e)
    PROVE  Promise!Next \/ UNCHANGED Promise!vars
<1> DEFINE old == call[c]
<1>0. CallInv /\ old \in callRecord /\ callInv(old, executed[c]) /\ result[c] = told(old)
  BY Zenon DEF RpcInv, CallInv, result
<1>1. ASSUME NEW r, call' = [call EXCEPT ![c] = r], executed' = executed, told(r) = told(old)
      PROVE  UNCHANGED Promise!vars
  <2>1. result' = [result EXCEPT ![c] = result[c]]
    BY <1>0, <1>1, OneAnswer, Zenon
  <2>2. result' = result
    BY <2>1, Zenon DEF result
  <2> QED BY <1>1, <2>2, PromiseActions, Zenon
<1>2. ASSUME NEW e \in Ends, Call(c, e) PROVE Promise!Next
  <2>1. told(old) = "none" /\ told(reqMsg(e)) = "pending"
    BY <1>2, Zenon DEF Call, told, reqMsg
  <2>2. call' = [call EXCEPT ![c] = reqMsg(e)] /\ executed' = executed
    BY <1>2, Zenon DEF Call
  <2>3. result' = [result EXCEPT ![c] = told(reqMsg(e))]
    BY <1>0, <2>2, OneAnswer, Zenon
  <2>4. Promise!Invoke(c)
    BY <1>0, <2>1, <2>2, <2>3, PromiseActions, Zenon
  <2> QED BY <2>4, Zenon DEF Promise!Next
<1>3. ASSUME Abandon(c) \/ Deliver(c) PROVE Promise!Next
  <2> DEFINE r == [old EXCEPT !.pc = "returned"]
  <2>1. call' = [call EXCEPT ![c] = r] /\ executed' = executed
    BY <1>0, <1>3, Zenon DEF Abandon, Deliver, Goto, CallInv
  <2>2. told(old) = "pending" /\ told(r) = IF old.ok THEN "true" ELSE "false"
    BY <1>0, <1>3, Zenon DEF Abandon, Deliver, told, callRecord
  <2>3. old.ok => executed[c] = 1
    BY <1>0, Zenon DEF callInv
  <2>4. result' = [result EXCEPT ![c] = told(r)]
    BY <1>0, <2>1, OneAnswer, Zenon
  <2>5. Promise!Return(c)
    BY <1>0, <2>1, <2>2, <2>3, <2>4, PromiseActions, Zenon
  <2> QED BY <2>5, Zenon DEF Promise!Next
<1>4. ASSUME dispatch(c) PROVE Promise!Next
  <2> DEFINE r == [old EXCEPT !.handler = "returned"]
  <2>1. call' = [call EXCEPT ![c] = r]
    BY <1>0, <1>4, Zenon DEF dispatch, CallInv
  <2>2. told(r) = told(old) /\ told(old) # "none" /\ executed[c] = 0
    BY <1>0, <1>4, Zenon DEF dispatch, told, callRecord, callInv
  <2>3. executed' = [executed EXCEPT ![c] = 1]
    BY <1>4, <2>2 DEF dispatch
  <2>4. result' = [result EXCEPT ![c] = result[c]]
    BY <1>0, <2>1, <2>2, OneAnswer, Zenon
  <2>5. result' = result
    BY <2>4, Zenon DEF result
  <2>6. Promise!Execute(c)
    BY <1>0, <2>2, <2>3, <2>5, PromiseActions, Zenon
  <2> QED BY <2>6, Zenon DEF Promise!Next
<1>5. ASSUME NEW ok \in BOOLEAN, Reply(c, ok), executed' = executed,
             old.pc \in {"accepted", "ready", "waiting", "checking"}
      PROVE  UNCHANGED Promise!vars
  <2> DEFINE r == [old EXCEPT !.pc = "replying", !.ok = ok]
  <2>1. call' = [call EXCEPT ![c] = r]
    BY <1>0, <1>5, Zenon DEF Reply, CallInv, callRecord
  <2>2. told(r) = told(old)
    BY <1>0, <1>5, Zenon DEF told, callRecord
  <2> QED BY <1>1, <1>5, <2>1, <2>2, Zenon
<1>6. Accept(c) => UNCHANGED Promise!vars
  <2> SUFFICES ASSUME Accept(c) PROVE UNCHANGED Promise!vars
    BY Zenon
  <2> DEFINE r == [old EXCEPT !.pc = "accepted"]
  <2>1. call' = [call EXCEPT ![c] = r] /\ executed' = executed /\ told(r) = told(old)
    BY <1>0, Zenon DEF Accept, Goto, CallInv, callRecord, told
  <2> QED BY <1>1, <2>1, Zenon
<1>7. ASSUME readEndnameInfo(c) PROVE UNCHANGED Promise!vars
  <2>1. CASE ~answering(old.endname)
    BY <1>5, <1>7, <2>1, Zenon DEF readEndnameInfo
  <2>2. CASE answering(old.endname)
    <3> DEFINE s == connections[old.endname]
               r == [old EXCEPT !.pc = "ready", !.servername = s, !.server = servers[s],
                                !.reliable = reliable]
    <3>1. call' = [call EXCEPT ![c] = r] /\ executed' = executed
      BY <1>0, <1>7, <2>2, Zenon DEF readEndnameInfo, CallInv, callRecord
    <3>2. told(r) = told(old)
      BY <1>0, <1>7, Zenon DEF readEndnameInfo, callRecord, told
    <3> QED BY <1>1, <3>1, <3>2, Zenon
  <2> QED BY <2>1, <2>2, Zenon
<1>8. ASSUME Dispatch(c) PROVE UNCHANGED Promise!vars
  <2> DEFINE r == [old EXCEPT !.pc = "waiting", !.handler = "running"]
  <2>1. call' = [call EXCEPT ![c] = r] /\ executed' = executed /\ told(r) = told(old)
    BY <1>0, <1>8, Zenon DEF Dispatch, CallInv, callRecord, told
  <2> QED BY <1>1, <2>1, Zenon
<1>9. ASSUME ReceiveReply(c) PROVE UNCHANGED Promise!vars
  <2> DEFINE r == [old EXCEPT !.pc = "checking", !.handler = "done"]
  <2>1. call' = [call EXCEPT ![c] = r] /\ executed' = executed /\ told(r) = told(old)
    BY <1>0, <1>9, Zenon DEF ReceiveReply, CallInv, callRecord, told
  <2> QED BY <1>1, <2>1, Zenon
<1>10. ASSUME Drain(c) PROVE UNCHANGED Promise!vars
  <2> DEFINE r == [old EXCEPT !.handler = "done"]
  <2>1. call' = [call EXCEPT ![c] = r] /\ executed' = executed /\ told(r) = told(old)
    BY <1>0, <1>10, Zenon DEF Drain, CallInv, callRecord, told
  <2> QED BY <1>1, <2>1, Zenon
<1>11. ASSUME Check(c) PROVE UNCHANGED Promise!vars
  <2>1. PICK ok \in BOOLEAN : Reply(c, ok)
    BY <1>11, Zenon DEF Check, dead, isServerDead
  <2> QED BY <1>5, <1>11, <2>1, Zenon DEF Check
<1>12. DropRequest(c) \/ StopWaiting(c) => UNCHANGED Promise!vars
  BY <1>5, Zenon DEF DropRequest, StopWaiting
<1> QED
  BY <1>2, <1>3, <1>4, <1>6, <1>7, <1>8, <1>9, <1>10, <1>11, <1>12, Zenon DEF processReq

\* So is every step of the network.
LEMMA NextRefines == RpcInv /\ [RpcNext]_rpcVars => [Promise!Next]_(Promise!vars)
<1> SUFFICES ASSUME RpcInv, [RpcNext]_rpcVars PROVE Promise!Next \/ UNCHANGED Promise!vars
  BY Zenon
<1>1. CASE Environment \/ UNCHANGED rpcVars
  <2>1. UNCHANGED <<call, executed>>
    BY <1>1, Zenon DEF Environment, MakeEnd, Connect, Enable, AddServer, DeleteServer,
         Reliable, Cleanup, StopListening, rpcVars
  <2> QED BY <2>1, Zenon DEF Promise!vars
<1> QED BY <1>1, CallRefines, Zenon DEF RpcNext

\* The network implements the promise of Call, its liveness apart: a call returns
\* once, true only if its handler ran, and the handler runs at most once, for any
\* number of calls, ends and servers and any sequence of network operations.
THEOREM KeepsPromise == RpcSpec => Promise!Init /\ [][Promise!Next]_(Promise!vars)
<1> QED BY CallsInStep, PromiseInit, NextRefines, PTL DEF RpcSpec

-----------------------------------------------------------------------------
(* The MapReduce job                                                         *)

\* A channel filled in order, as makeTasks and catchTimeOut fill TaskQueue.
LEMMA FilledInOrder ==
    ASSUME NEW S, NEW k \in Nat, NEW q \in [1 .. k -> S]
    PROVE  q \in Seq(S)
OBVIOUS

-----------------------------------------------------------------------------
(* The invariant                                                             *)

Task == [TaskState : {"Map", "Reduce"}, TaskNumber : Nat, Intermediates : Seq(Nat)]

Meta == [TaskStatus : {"Idle", "InProgress", "Completed"}, TaskReference : Task]

\* Somebody works on a task.
busy(w) == worker[w].does \in {"run", "report"}

TypeInv ==
    /\ TaskQueue \in Seq(Task) /\ Len(TaskQueue) <= Capacity
    /\ DOMAIN TaskMeta \subseteq Nat
    /\ \A n \in DOMAIN TaskMeta : TaskMeta[n] \in Meta
    /\ MasterPhase \in {"Map", "Reduce", "Exit"}
    /\ Intermediates \in Seq(Nat)
    /\ DOMAIN results \subseteq Task
    /\ master \in {"up", "blocked", "panicked", "exited"}
    /\ worker \in [Worker -> [does : {"ask", "run", "report", "gone"}, task : Task]]
    /\ output \in [Reduces -> Seq(Nat)]
    /\ crashes \in Nat

\* One goroutine, which collects the result of this task.
just(task) == [t \in {task} |-> 1]

\* What a reduce task may be given, and an output made from.
goodFiles(files) ==
    /\ files # <<>>
    /\ ~SlowWorkers => IsInjective(files)
    /\ ~LateResults => files = Intermediates /\ Range(files) = Maps

goodTask(task) ==
    \/ task.TaskNumber \in Maps /\ task = MapTask(task.TaskNumber)
    \/ /\ task.TaskNumber \in Reduces /\ task.TaskState = "Reduce"
       /\ goodFiles(task.Intermediates)

\* The tasks there are, besides those of TaskMeta.
TasksGood ==
    /\ \A k \in 1 .. Len(TaskQueue) : goodTask(TaskQueue[k])
    /\ \A w \in Worker : busy(w) => goodTask(worker[w].task)
    /\ \A r \in Reduces : output[r] # <<>> => goodFiles(output[r])

\* In the map phase there is no trace of a reduce task.
MapPhase ==
    master = "up" /\ MasterPhase = "Map" =>
        /\ DOMAIN TaskMeta = Maps
        /\ \A n \in Maps : TaskMeta[n].TaskReference = MapTask(n)
        /\ \A k \in 1 .. Len(TaskQueue) : TaskQueue[k].TaskState = "Map"
        /\ \A w \in Worker : busy(w) => worker[w].task.TaskState = "Map"
        /\ \A task \in DOMAIN results : task.TaskState = "Map"
        /\ \A r \in Reduces : output[r] = <<>>

ReducePhase ==
    master = "up" /\ MasterPhase # "Map" =>
        /\ DOMAIN TaskMeta = Reduces
        /\ \A n \in Reduces :
             LET task == TaskMeta[n].TaskReference
             IN  /\ task.TaskState = "Reduce" /\ task.TaskNumber = n
                 /\ goodFiles(task.Intermediates)

\* An output is there before it is reported, and when the job ends.
OutputsWritten ==
    /\ \A w \in Worker : worker[w].does = "report" /\ worker[w].task.TaskState = "Reduce"
                           => output[worker[w].task.TaskNumber] # <<>>
    /\ master = "up" /\ MasterPhase # "Map" =>
         \A n \in Reduces : status(n) = "Completed" => output[n] # <<>>
    /\ MasterPhase = "Exit" => \A r \in Reduces : output[r] # <<>>
    /\ master = "exited" => MasterPhase = "Exit"

Gone == {w \in Worker : worker[w].does = "gone"}

\* Only crashed workers leave before.
NobodyLeaves ==
    master # "panicked" /\ Cardinality(Gone) > crashes
       => \A r \in Reduces : output[r] # <<>>

\* Unless a task times out that is still running.
OneCopy ==
    ~SlowWorkers =>
       /\ master \in {"up", "exited"}
       /\ \A k \in 1 .. Len(TaskQueue) :
            LET n == TaskQueue[k].TaskNumber
            IN  n \in DOMAIN TaskMeta /\ TaskMeta[n] = meta("Idle", TaskQueue[k])
       /\ \A j, k \in 1 .. Len(TaskQueue) :
            TaskQueue[j].TaskNumber = TaskQueue[k].TaskNumber => j = k
       /\ \A w \in Worker : busy(w) =>
            LET n == worker[w].task.TaskNumber
            IN  n \in DOMAIN TaskMeta /\ TaskMeta[n] = meta("InProgress", worker[w].task)
       /\ \A v, w \in Worker :
            busy(v) /\ busy(w) /\ worker[v].task.TaskNumber = worker[w].task.TaskNumber => v = w
       /\ MasterPhase = "Exit" => allTaskDone

finished(n) == n \in DOMAIN TaskMeta /\ status(n) = "Completed"

\* Then no map task has two results.
OneResult ==
    ~SlowWorkers =>
       /\ IsInjective(Intermediates)
       /\ \A task \in DOMAIN results : task.TaskState = "Map" =>
            /\ task = MapTask(task.TaskNumber)
            /\ results[task] = 1
            /\ task.TaskNumber \notin Range(Intermediates)
            /\ MasterPhase = "Map" => finished(task.TaskNumber)
       /\ MasterPhase = "Map" => \A n \in Range(Intermediates) : finished(n)

\* Unless a report comes before an earlier one is collected.
OneToCollect ==
    ~LateResults =>
       /\ results = noResults \/ \E task \in DOMAIN results :
                                   results = just(task) /\ task.TaskState = MasterPhase
       /\ Range(Intermediates) \subseteq Maps
       /\ \A task \in DOMAIN results : task.TaskState = "Map" => task.TaskNumber \in Maps
       /\ master = "up" /\ MasterPhase = "Map" =>
            \A n \in Maps : status(n) = "Completed" =>
               n \in Range(Intermediates) \/ MapTask(n) \in DOMAIN results

JobInv ==
    /\ TypeInv /\ TasksGood /\ MapPhase /\ ReducePhase /\ OutputsWritten /\ NobodyLeaves
    /\ OneCopy /\ OneResult /\ OneToCollect
-----------------------------------------------------------------------------
(* Sequences, the goroutines and the channel                                 *)

\* Min of the number of tasks and the room in the channel, as sent takes it.
LEMMA MinOfTwo ==
    ASSUME NEW a \in Int, NEW b \in Int
    PROVE  Min({a, b}) = IF a <= b THEN a ELSE b
<1> DEFINE m == IF a <= b THEN a ELSE b
<1>1. m \in {a, b} /\ \A y \in {a, b} : m <= y
  BY SMT
<1>2. ASSUME NEW x \in {a, b}, \A y \in {a, b} : x <= y
      PROVE  x = m
  BY <1>2, SMT
<1> HIDE DEF m
<1>3. (CHOOSE x \in {a, b} : \A y \in {a, b} : x <= y) = m
  BY <1>1, <1>2
<1> QED BY <1>3 DEF Min, m

\* The channel has room for every task of a phase (MakeMaster).
LEMMA Room == Capacity \in Nat /\ NMap <= Capacity /\ NReduce <= Capacity
BY SizeAssumption DEF Capacity

\* The front of a sequence.
LEMMA FrontOf ==
    ASSUME NEW S, NEW s \in Seq(S), NEW m \in Nat, m <= Len(s)
    PROVE  /\ SubSeq(s, 1, m) \in Seq(S) /\ Len(SubSeq(s, 1, m)) = m
           /\ \A k \in 1 .. m : SubSeq(s, 1, m)[k] = s[k]
OBVIOUS

\* What is sent is the front of the tasks, all of them if they fit, and the
\* channel never holds more than its capacity.
LEMMA SentFront ==
    ASSUME TaskQueue \in Seq(Task), Len(TaskQueue) <= Capacity, NEW tasks \in Seq(Task)
    PROVE  /\ sent(tasks) \in Seq(Task)
           /\ Len(sent(tasks)) \in Nat /\ Len(sent(tasks)) <= Len(tasks)
           /\ Len(TaskQueue) + Len(sent(tasks)) <= Capacity
           /\ \A k \in 1 .. Len(sent(tasks)) : sent(tasks)[k] = tasks[k]
           /\ fits(tasks) => Len(sent(tasks)) = Len(tasks)
<1> DEFINE room == Capacity - Len(TaskQueue)
<1>1. room \in Nat /\ Len(tasks) \in Nat /\ Len(TaskQueue) \in Nat
  BY Room
<1> HIDE DEF room
<1>2. PICK m \in Nat : m = Min({Len(tasks), room}) /\ m <= Len(tasks) /\ m <= room
                       /\ (Len(tasks) <= room => m = Len(tasks))
  BY <1>1, MinOfTwo
<1>3. sent(tasks) = SubSeq(tasks, 1, m)
  BY <1>2 DEF sent, room
<1>4. /\ SubSeq(tasks, 1, m) \in Seq(Task) /\ Len(SubSeq(tasks, 1, m)) = m
      /\ \A k \in 1 .. m : SubSeq(tasks, 1, m)[k] = tasks[k]
  <2>1. m \in Nat /\ m <= Len(tasks)
    BY <1>2
  <2> QED BY <2>1, FrontOf, Zenon
<1>5. Len(TaskQueue) + m <= Capacity
  BY <1>1, <1>2, Room DEF room
<1>6. fits(tasks) => m = Len(tasks)
  BY <1>1, <1>2, Room DEF fits, room
<1> QED BY <1>2, <1>3, <1>4, <1>5, <1>6, Zenon

\* The channel after a send.
LEMMA Joined ==
    ASSUME NEW S, NEW q \in Seq(S), NEW s \in Seq(S)
    PROVE  /\ q \o s \in Seq(S) /\ Len(q \o s) = Len(q) + Len(s)
           /\ \A k \in 1 .. Len(q) : (q \o s)[k] = q[k]
           /\ \A k \in 1 .. Len(s) : (q \o s)[Len(q) + k] = s[k]
           /\ \A k \in 1 .. Len(q \o s) :
                 \/ k \in 1 .. Len(q) /\ (q \o s)[k] = q[k]
                 \/ k - Len(q) \in 1 .. Len(s) /\ (q \o s)[k] = s[k - Len(q)]
OBVIOUS

\* The channel after a receive.
LEMMA Received ==
    ASSUME NEW S, NEW q \in Seq(S), q # <<>>
    PROVE  /\ Head(q) = q[1] /\ Head(q) \in S /\ 1 \in 1 .. Len(q)
           /\ Tail(q) \in Seq(S) /\ Len(Tail(q)) = Len(q) - 1
           /\ \A k \in 1 .. Len(Tail(q)) : k + 1 \in 1 .. Len(q) /\ Tail(q)[k] = q[k + 1]
OBVIOUS

\* The files after processTaskResult has added one.
LEMMA Added ==
    ASSUME NEW files \in Seq(Nat), NEW n \in Nat
    PROVE  /\ Append(files, n) \in Seq(Nat) /\ Append(files, n) # <<>>
           /\ Range(Append(files, n)) = Range(files) \cup {n}
           /\ IsInjective(files) /\ n \notin Range(files) => IsInjective(Append(files, n))
<1> DEFINE new == Append(files, n)
<1>1. /\ new \in Seq(Nat) /\ new # <<>> /\ DOMAIN new = 1 .. Len(files) + 1
      /\ DOMAIN files = 1 .. Len(files) /\ Len(files) \in Nat
      /\ new[Len(files) + 1] = n /\ \A k \in 1 .. Len(files) : new[k] = files[k]
  OBVIOUS
<1>2. \A k \in DOMAIN new : k \in DOMAIN files \/ k = Len(files) + 1
  BY <1>1
<1>3. DOMAIN files \subseteq DOMAIN new /\ Len(files) + 1 \in DOMAIN new
  BY <1>1
<1>4. \A k \in DOMAIN files : new[k] = files[k]
  BY <1>1
<1> HIDE DEF new
<1>5. Range(new) = Range(files) \cup {n}
  BY <1>1, <1>2, <1>3, <1>4, Zenon DEF Range
<1>6. IsInjective(files) /\ n \notin Range(files) => IsInjective(new)
  BY <1>1, <1>2, <1>3, <1>4, Zenon DEF Range, IsInjective
<1> QED BY <1>1, <1>5, <1>6 DEF new

\* A goroutine starts.
LEMMA OneMore ==
    ASSUME NEW task
    PROVE  /\ DOMAIN started(task) = DOMAIN results \cup {task}
           /\ \A t \in DOMAIN results \ {task} : started(task)[t] = results[t]
           /\ task \notin DOMAIN results => started(task)[task] = 1
           /\ results = noResults => started(task) = just(task)
BY DEF started, noResults, just

\* A goroutine has finished.
LEMMA OneLess ==
    ASSUME NEW task
    PROVE  /\ DOMAIN collected(task) \subseteq DOMAIN results
           /\ \A t \in DOMAIN collected(task) \ {task} : collected(task)[t] = results[t]
           /\ results[task] = 1 => task \notin DOMAIN collected(task)
           /\ results = just(task) => collected(task) = noResults
BY DEF collected, noResults, just

-----------------------------------------------------------------------------
(* The workers                                                               *)

\* A worker that does something else: nobody else changes.
LEMMA WorkerSet ==
    ASSUME TypeInv, NEW w \in Worker, NEW d \in {"ask", "run", "report", "gone"},
           worker' = [worker EXCEPT ![w].does = d]
    PROVE  /\ worker' \in [Worker -> [does : {"ask", "run", "report", "gone"}, task : Task]]
           /\ worker'[w].does = d
           /\ \A v \in Worker : /\ worker'[v].task = worker[v].task
                                /\ v # w => worker'[v].does = worker[v].does
<1> DEFINE R == [does : {"ask", "run", "report", "gone"}, task : Task]
<1>1. worker \in [Worker -> R]
  BY DEF TypeInv
<1>2. worker'[w] = [worker[w] EXCEPT !.does = d] /\ DOMAIN worker' = Worker
  BY <1>1
<1>3. \A v \in Worker : v # w => worker'[v] = worker[v]
  BY <1>1
<1>4. worker[w] \in R
  BY <1>1
<1>5. worker'[w] \in R /\ worker'[w].does = d /\ worker'[w].task = worker[w].task
  BY <1>2, <1>4
<1> HIDE DEF R
<1>6. worker' \in [Worker -> R]
  BY <1>1, <1>4, <1>5
<1> QED BY <1>3, <1>5, <1>6, Zenon DEF R

\* Two workers or more that are busy after a step were busy with the same tasks.
LEMMA StillBusy ==
    ASSUME TypeInv, NEW w \in Worker, NEW d \in {"ask", "report", "gone"},
           worker' = [worker EXCEPT ![w].does = d],
           d = "report" => worker[w].does = "run"
    PROVE  \A v \in Worker : busy(v)' => busy(v) /\ worker'[v].task = worker[v].task
BY WorkerSet DEF busy

\* Steps of a worker that the master does not see: the map function and the
\* reduce function have run, or the worker leaves; and a report it discards.
LEMMA WorkerMoves ==
    ASSUME JobInv, NEW w \in Worker, NEW d \in {"ask", "report", "gone"},
           UNCHANGED <<masterVars, timing>>,
           worker' = [worker EXCEPT ![w].does = d],
           d = "report" => /\ worker[w].does = "run"
                           /\ worker[w].task.TaskState = "Reduce"
                                => output'[worker[w].task.TaskNumber] # <<>>,
           output' \in [Reduces -> Seq(Nat)],
           \A r \in Reduces : output'[r] # output[r] =>
              /\ goodFiles(output'[r]) /\ output'[r] # <<>>
              /\ ~(master = "up" /\ MasterPhase = "Map"),
           crashes' \in Nat, NobodyLeaves'
    PROVE  JobInv'
<1> USE DEF JobInv
<1>1. /\ UNCHANGED <<TaskQueue, TaskMeta, MasterPhase, Intermediates, results, master>>
      /\ UNCHANGED timing
  BY DEF masterVars
<1>a. TypeInv /\ d \in {"ask", "run", "report", "gone"} /\ d \in {"ask", "report", "gone"}
  OBVIOUS
<1>2. /\ worker' \in [Worker -> [does : {"ask", "run", "report", "gone"}, task : Task]]
      /\ worker'[w].does = d
      /\ \A v \in Worker : /\ worker'[v].task = worker[v].task
                           /\ v # w => worker'[v].does = worker[v].does
  BY <1>a, WorkerSet, Zenon
<1>3. \A v \in Worker : busy(v)' => busy(v) /\ worker'[v].task = worker[v].task
  BY <1>a, StillBusy, Zenon
<1>4. TypeInv'
  BY <1>1, <1>2 DEF TypeInv
<1>5. TasksGood'
  <2>1. \A task : goodTask(task)' <=> goodTask(task)
    BY <1>1, Zenon DEF goodTask, goodFiles, SlowWorkers, LateResults
  <2>2. \A files : goodFiles(files)' <=> goodFiles(files)
    BY <1>1, Zenon DEF goodFiles, SlowWorkers, LateResults
  <2> QED BY <1>1, <1>3, <2>1, <2>2, Zenon DEF TasksGood
<1>6. MapPhase'
  BY <1>1, <1>3, Zenon DEF MapPhase
<1>7. ReducePhase'
  <2>1. \A files : goodFiles(files)' <=> goodFiles(files)
    BY <1>1, Zenon DEF goodFiles, SlowWorkers, LateResults
  <2> QED BY <1>1, <2>1, Zenon DEF ReducePhase
<1>8. OutputsWritten'
  <2>1. \A r \in Reduces : output[r] # <<>> => output'[r] # <<>>
    OBVIOUS
  <2>2. ASSUME NEW v \in Worker, worker'[v].does = "report", worker'[v].task.TaskState = "Reduce"
        PROVE  output'[worker'[v].task.TaskNumber] # <<>>
    <3>1. CASE v = w
      BY <1>2, <2>2, <3>1
    <3>2. CASE v # w
      <4>1. busy(v) /\ goodTask(worker[v].task) /\ worker[v].task.TaskState = "Reduce"
        BY <1>2, <2>2, <3>2, Zenon DEF TasksGood, busy
      <4>2. worker[v].task.TaskNumber \in Reduces
        BY <4>1 DEF goodTask, MapTask
      <4> QED BY <1>2, <2>1, <2>2, <3>2, <4>2, Zenon DEF OutputsWritten
    <3> QED BY <3>1, <3>2
  <2> QED BY <1>1, <2>1, <2>2, Zenon DEF OutputsWritten, status
<1>9. OneCopy'
  BY <1>1, <1>3, Zenon DEF OneCopy, SlowWorkers, allTaskDone, status
<1>10. OneResult'
  BY <1>1, Zenon DEF OneResult, SlowWorkers, finished, status
<1>11. OneToCollect'
  BY <1>1, Zenon DEF OneToCollect, LateResults, status
<1> QED BY <1>4, <1>5, <1>6, <1>7, <1>8, <1>9, <1>10, <1>11

\* mapper: the map function has run.
LEMMA MapperStep ==
    ASSUME JobInv, NEW w \in Worker, mapper(w)
    PROVE  JobInv'
<1>1. /\ worker[w].does = "run" /\ worker[w].task.TaskState = "Map"
      /\ worker' = [worker EXCEPT ![w].does = "report"]
      /\ UNCHANGED <<masterVars, timing>> /\ UNCHANGED <<master, output, crashes>>
  BY DEF mapper, masterVars
<1>2. TypeInv
  BY DEF JobInv
<1>3. /\ worker'[w].does = "report"
      /\ \A v \in Worker : v # w => worker'[v].does = worker[v].does
  BY <1>1, <1>2, "report" \in {"ask", "run", "report", "gone"}, WorkerSet, Zenon
<1>4. Gone' = Gone
  BY <1>1, <1>3 DEF Gone
<1>5. NobodyLeaves'
  BY <1>1, <1>4, Zenon DEF JobInv, NobodyLeaves
<1>6. output' \in [Reduces -> Seq(Nat)] /\ crashes' \in Nat
  BY <1>1, <1>2 DEF TypeInv
<1>7. worker[w].task.TaskState # "Reduce"
  BY <1>1
<1> QED BY <1>1, <1>5, <1>6, <1>7, WorkerMoves, Zenon

\* reducer: the output file is renamed, before the report.
LEMMA ReducerStep ==
    ASSUME JobInv, NEW w \in Worker, reducer(w)
    PROVE  JobInv'
<1> DEFINE task == worker[w].task
           n == task.TaskNumber
<1>1. /\ worker[w].does = "run" /\ task.TaskState = "Reduce"
      /\ worker' = [worker EXCEPT ![w].does = "report"]
      /\ output' = [output EXCEPT ![n] = task.Intermediates]
      /\ UNCHANGED <<masterVars, timing>> /\ UNCHANGED <<MasterPhase, master, crashes>>
  BY DEF reducer, masterVars
<1>2. TypeInv /\ busy(w)
  BY <1>1 DEF JobInv, busy
<1>3. /\ worker'[w].does = "report"
      /\ \A v \in Worker : v # w => worker'[v].does = worker[v].does
  BY <1>1, <1>2, "report" \in {"ask", "run", "report", "gone"}, WorkerSet, Zenon
<1>4. goodTask(task)
  BY <1>2, Zenon DEF JobInv, TasksGood
<1>5. n \in Reduces /\ goodFiles(task.Intermediates)
  BY <1>1, <1>4 DEF goodTask, MapTask
<1>6. task.Intermediates \in Seq(Nat) /\ output \in [Reduces -> Seq(Nat)] /\ crashes \in Nat
  <2>1. task \in Task
    BY <1>2 DEF TypeInv
  <2> QED BY <1>2, <2>1 DEF TypeInv, Task
<1> HIDE DEF n, task
<1>7. /\ output' \in [Reduces -> Seq(Nat)] /\ output'[n] = task.Intermediates
      /\ \A r \in Reduces : r # n => output'[r] = output[r]
  BY <1>1, <1>5, <1>6
<1>8. task.Intermediates # <<>>
  BY <1>5, Zenon DEF goodFiles
<1>9. Gone' = Gone
  BY <1>1, <1>3 DEF Gone
<1>10. NobodyLeaves'
  <2>1. \A r \in Reduces : output[r] # <<>> => output'[r] # <<>>
    BY <1>7, <1>8, Zenon
  <2> QED BY <1>1, <1>9, <2>1, Zenon DEF JobInv, NobodyLeaves
<1>11. ~(master = "up" /\ MasterPhase = "Map")
  BY <1>1, <1>2 DEF JobInv, MapPhase, task
<1>12. \A r \in Reduces : output'[r] # output[r] =>
          /\ goodFiles(output'[r]) /\ output'[r] # <<>>
          /\ ~(master = "up" /\ MasterPhase = "Map")
  BY <1>5, <1>7, <1>8, <1>11, Zenon
<1>13. output'[worker[w].task.TaskNumber] # <<>>
  BY <1>7, <1>8, Zenon DEF n, task
<1> QED BY <1>1, <1>6, <1>7, <1>10, <1>12, <1>13, WorkerMoves, Zenon

\* A worker that leaves although it did not crash, when it is told to or finds
\* no master.
LEMMA LeaveStep ==
    ASSUME JobInv, NEW w \in Worker, AssignExit(w) \/ MasterGone(w)
    PROVE  JobInv'
<1>1. /\ worker' = [worker EXCEPT ![w].does = "gone"]
      /\ UNCHANGED <<masterVars, timing>> /\ UNCHANGED <<master, output, crashes>>
  BY DEF AssignExit, MasterGone, masterVars
<1>2. master = "panicked" \/ MasterPhase = "Exit"
  BY DEF AssignExit, MasterGone, masterDead, JobInv, OutputsWritten
<1>3. NobodyLeaves'
  BY <1>1, <1>2, Zenon DEF JobInv, OutputsWritten, NobodyLeaves
<1>4. output' \in [Reduces -> Seq(Nat)] /\ crashes' \in Nat
  BY <1>1 DEF JobInv, TypeInv
<1>5. "gone" # "report"
  OBVIOUS
<1> QED BY <1>1, <1>3, <1>4, <1>5, WorkerMoves, Zenon

-----------------------------------------------------------------------------
(* The master                                                                *)

\* A change of status leaves the tasks of the table and its other entries.
LEMMA StatusSet ==
    ASSUME TypeInv, NEW S, NEW s \in {"Idle", "InProgress", "Completed"}, NEW T,
           T = setStatus(S, s)
    PROVE  /\ DOMAIN T = DOMAIN TaskMeta
           /\ \A n \in DOMAIN TaskMeta :
                /\ T[n] \in Meta /\ T[n].TaskReference = TaskMeta[n].TaskReference
                /\ n \in S => /\ T[n] = meta(s, TaskMeta[n].TaskReference)
                              /\ T[n].TaskStatus = s
                /\ n \notin S => T[n] = TaskMeta[n]
<1>1. DOMAIN T = DOMAIN TaskMeta
  BY DEF setStatus
<1>2. ASSUME NEW n \in DOMAIN TaskMeta
      PROVE  T[n] = IF n \in S THEN meta(s, TaskMeta[n].TaskReference) ELSE TaskMeta[n]
  BY DEF setStatus
<1>3. ASSUME NEW n \in DOMAIN TaskMeta
      PROVE  /\ meta(s, TaskMeta[n].TaskReference) \in Meta
             /\ meta(s, TaskMeta[n].TaskReference).TaskReference = TaskMeta[n].TaskReference
             /\ meta(s, TaskMeta[n].TaskReference).TaskStatus = s
  <2>1. TaskMeta[n] \in Meta
    BY DEF TypeInv
  <2> QED BY <2>1 DEF meta, Meta
<1>4. \A n \in DOMAIN TaskMeta : TaskMeta[n] \in Meta
  BY DEF TypeInv
<1> QED BY <1>1, <1>2, <1>3, <1>4, Zenon

\* AssignTask meets a task that has no entry any more.
LEMMA PanicStep ==
    ASSUME JobInv, NEW w \in Worker, AssignTask(w),
           Head(TaskQueue).TaskNumber \notin DOMAIN TaskMeta
    PROVE  JobInv'
<1> USE DEF JobInv
<1>1. /\ master = "up" /\ TaskQueue # <<>> /\ TaskQueue' = Tail(TaskQueue)
      /\ master' = "panicked"
      /\ UNCHANGED <<TaskMeta, worker, MasterPhase, Intermediates, results, output,
                     crashes, timing>>
  BY DEF AssignTask
<1>2. /\ Head(TaskQueue) = TaskQueue[1] /\ 1 \in 1 .. Len(TaskQueue)
      /\ TaskQueue' \in Seq(Task) /\ Len(TaskQueue') = Len(TaskQueue) - 1
      /\ \A k \in 1 .. Len(TaskQueue') : k + 1 \in 1 .. Len(TaskQueue)
                                         /\ TaskQueue'[k] = TaskQueue[k + 1]
  BY <1>1, Received DEF TypeInv
<1>3. SlowWorkers
  BY <1>2, Zenon DEF OneCopy
<1>4. TypeInv'
  <2>1. Len(TaskQueue') <= Capacity
    BY <1>2, Room DEF TypeInv
  <2> QED BY <1>1, <1>2, <2>1 DEF TypeInv
<1>5. TasksGood'
  <2>1. \A task : goodTask(task)' <=> goodTask(task)
    BY <1>1, Zenon DEF goodTask, goodFiles, SlowWorkers, LateResults
  <2>2. \A files : goodFiles(files)' <=> goodFiles(files)
    BY <1>1, Zenon DEF goodFiles, SlowWorkers, LateResults
  <2> QED BY <1>1, <1>2, <2>1, <2>2, Zenon DEF TasksGood, busy
<1>6. /\ MapPhase' /\ ReducePhase' /\ NobodyLeaves'
  BY <1>1 DEF MapPhase, ReducePhase, NobodyLeaves
<1>7. OutputsWritten'
  BY <1>1, SMTT(30) DEF OutputsWritten
<1>8. OneCopy' /\ OneResult'
  BY <1>1, <1>3 DEF OneCopy, OneResult, SlowWorkers
<1>9. OneToCollect'
  <2>1. master' # "up"
    BY <1>1
  <2> QED BY <1>1, <2>1, Zenon DEF OneToCollect, LateResults
<1> QED BY <1>4, <1>5, <1>6, <1>7, <1>8, <1>9

\* AssignTask: the task at the head of the queue goes to the worker.
LEMMA AssignStep ==
    ASSUME JobInv, NEW w \in Worker, AssignTask(w),
           Head(TaskQueue).TaskNumber \in DOMAIN TaskMeta
    PROVE  JobInv'
<1> USE DEF JobInv
<1> DEFINE task == TaskQueue[1]
           n == task.TaskNumber
<1>1. /\ master = "up" /\ worker[w].does = "ask" /\ TaskQueue # <<>>
      /\ TaskQueue' = Tail(TaskQueue)
      /\ UNCHANGED <<MasterPhase, Intermediates, results, output, crashes, timing, master>>
  BY DEF AssignTask
<1>2. /\ Head(TaskQueue) = task /\ 1 \in 1 .. Len(TaskQueue) /\ task \in Task
      /\ TaskQueue' \in Seq(Task) /\ Len(TaskQueue') = Len(TaskQueue) - 1
      /\ \A k \in 1 .. Len(TaskQueue') : k + 1 \in 1 .. Len(TaskQueue)
                                         /\ TaskQueue'[k] = TaskQueue[k + 1]
  BY <1>1, Received DEF TypeInv
<1>3. /\ n \in DOMAIN TaskMeta /\ TaskMeta' = setStatus({n}, "InProgress")
      /\ worker' = [worker EXCEPT ![w] = [does |-> "run", task |-> task]]
  BY <1>2 DEF AssignTask
<1>4. goodTask(task)
  BY <1>2, Zenon DEF TasksGood
<1>5. /\ worker' \in [Worker -> [does : {"ask", "run", "report", "gone"}, task : Task]]
      /\ worker'[w].does = "run" /\ worker'[w].task = task
      /\ \A v \in Worker : v # w => worker'[v] = worker[v]
  <2>1. worker \in [Worker -> [does : {"ask", "run", "report", "gone"}, task : Task]]
    BY DEF TypeInv
  <2>2. [does |-> "run", task |-> task] \in [does : {"ask", "run", "report", "gone"}, task : Task]
    BY <1>2
  <2> QED BY <1>3, <2>1, <2>2
<1>6. \A v \in Worker : busy(v)' => v = w \/ (busy(v) /\ worker'[v].task = worker[v].task)
  BY <1>5, Zenon DEF busy
<1>7. /\ DOMAIN TaskMeta' = DOMAIN TaskMeta
      /\ \A m \in DOMAIN TaskMeta :
           /\ TaskMeta'[m] \in Meta /\ TaskMeta'[m].TaskReference = TaskMeta[m].TaskReference
           /\ m = n => /\ TaskMeta'[m] = meta("InProgress", TaskMeta[m].TaskReference)
                       /\ TaskMeta'[m].TaskStatus = "InProgress"
           /\ m # n => TaskMeta'[m] = TaskMeta[m]
  <2>1. "InProgress" \in {"Idle", "InProgress", "Completed"}
    OBVIOUS
  <2>2. PICK T : T = TaskMeta'
    OBVIOUS
  <2>3. /\ DOMAIN T = DOMAIN TaskMeta
        /\ \A m \in DOMAIN TaskMeta :
             /\ T[m] \in Meta /\ T[m].TaskReference = TaskMeta[m].TaskReference
             /\ m \in {n} => /\ T[m] = meta("InProgress", TaskMeta[m].TaskReference)
                            /\ T[m].TaskStatus = "InProgress"
             /\ m \notin {n} => T[m] = TaskMeta[m]
    <3>1. TypeInv /\ T = setStatus({n}, "InProgress")
      BY <1>3, <2>2, Zenon
    <3> HIDE DEF JobInv
    <3> QED BY <2>1, <3>1, StatusSet
  <2> QED BY <2>2, <2>3, Zenon
<1>8. \A m \in DOMAIN TaskMeta : TaskMeta'[m].TaskStatus = "Completed" => status(m) = "Completed"
  BY <1>7, "InProgress" # "Completed", Zenon DEF status
<1> HIDE DEF n, task
<1>9. TypeInv'
  <2>1. Len(TaskQueue') <= Capacity
    BY <1>2, Room DEF TypeInv
  <2>2. DOMAIN TaskMeta' \subseteq Nat /\ \A m \in DOMAIN TaskMeta' : TaskMeta'[m] \in Meta
    BY <1>7, Zenon DEF TypeInv
  <2> QED BY <1>1, <1>2, <1>5, <2>1, <2>2 DEF TypeInv
<1>10. TasksGood'
  <2>1. \A t : goodTask(t)' <=> goodTask(t)
    BY <1>1, Zenon DEF goodTask, goodFiles, SlowWorkers, LateResults
  <2>2. \A files : goodFiles(files)' <=> goodFiles(files)
    BY <1>1, Zenon DEF goodFiles, SlowWorkers, LateResults
  <2> QED BY <1>1, <1>2, <1>4, <1>5, <1>6, <2>1, <2>2, Zenon DEF TasksGood
<1>11. MapPhase'
  <2>1. SUFFICES ASSUME MasterPhase = "Map" PROVE MapPhase'
    BY <1>1, Zenon DEF MapPhase
  <2>2. task.TaskState = "Map"
    BY <1>1, <1>2, <2>1, Zenon DEF MapPhase, task
  <2>3. DOMAIN TaskMeta' = Maps /\ \A m \in Maps : TaskMeta'[m].TaskReference = MapTask(m)
    BY <1>1, <1>7, <2>1, Zenon DEF MapPhase
  <2>4. \A k \in 1 .. Len(TaskQueue') : TaskQueue'[k].TaskState = "Map"
    BY <1>1, <1>2, <2>1, Zenon DEF MapPhase
  <2>5. \A v \in Worker : busy(v)' => worker'[v].task.TaskState = "Map"
    BY <1>1, <1>5, <1>6, <2>1, <2>2, Zenon DEF MapPhase
  <2> QED BY <1>1, <2>1, <2>3, <2>4, <2>5, Zenon DEF MapPhase
<1>12. ReducePhase'
  <2>1. \A files : goodFiles(files)' <=> goodFiles(files)
    BY <1>1, Zenon DEF goodFiles, SlowWorkers, LateResults
  <2> QED BY <1>1, <1>7, <2>1, ZenonT(40) DEF ReducePhase
<1>13. OutputsWritten'
  <2>1. \A v \in Worker : worker'[v].does = "report" =>
           worker[v].does = "report" /\ worker'[v].task = worker[v].task
    BY <1>5, "run" # "report", Zenon
  <2>2. master = "up" /\ MasterPhase # "Map" => DOMAIN TaskMeta = Reduces
    BY DEF ReducePhase
  <2>3. master = "up" /\ MasterPhase # "Map" =>
           \A m \in Reduces : TaskMeta'[m].TaskStatus = "Completed" => output[m] # <<>>
    BY <1>8, <2>2, Zenon DEF OutputsWritten
  <2> QED BY <1>1, <2>1, <2>3, Zenon DEF OutputsWritten, status
<1>14. NobodyLeaves'
  <2>1. Gone' = Gone
    BY <1>1, <1>5 DEF Gone
  <2> QED BY <1>1, <2>1, Zenon DEF NobodyLeaves
<1>15. OneCopy'
  <2>1. SUFFICES ASSUME ~SlowWorkers PROVE OneCopy'
    BY <1>1, Zenon DEF OneCopy, SlowWorkers
  <2>2. TaskMeta[n] = meta("Idle", task)
    BY <1>2, <2>1, Zenon DEF OneCopy, n, task
  <2>3. TaskMeta[n].TaskStatus = "Idle" /\ TaskMeta[n].TaskReference = task
    BY <2>2 DEF meta
  <2>4. ASSUME NEW k \in 1 .. Len(TaskQueue')
        PROVE  /\ TaskQueue'[k].TaskNumber \in DOMAIN TaskMeta'
               /\ TaskMeta'[TaskQueue'[k].TaskNumber] = meta("Idle", TaskQueue'[k])
    <3>1. PICK j : j = k + 1 /\ j # 1
      BY <2>4
    <3>2. j \in 1 .. Len(TaskQueue) /\ TaskQueue'[k] = TaskQueue[j]
      BY <1>2, <2>4, <3>1, Zenon
    <3>3. TaskQueue[j].TaskNumber # n
      BY <1>2, <2>1, <3>1, <3>2, Zenon DEF OneCopy, n, task
    <3>4. /\ TaskQueue[j].TaskNumber \in DOMAIN TaskMeta
          /\ TaskMeta[TaskQueue[j].TaskNumber] = meta("Idle", TaskQueue[j])
      BY <2>1, <3>2, Zenon DEF OneCopy
    <3> QED BY <1>7, <3>2, <3>3, <3>4, Zenon
  <2>5. ASSUME NEW j \in 1 .. Len(TaskQueue'), NEW k \in 1 .. Len(TaskQueue'),
               TaskQueue'[j].TaskNumber = TaskQueue'[k].TaskNumber
        PROVE  j = k
    <3>1. PICK a, b : /\ a = j + 1 /\ a \in 1 .. Len(TaskQueue) /\ TaskQueue'[j] = TaskQueue[a]
                      /\ b = k + 1 /\ b \in 1 .. Len(TaskQueue) /\ TaskQueue'[k] = TaskQueue[b]
      BY <1>2, <2>5, Zenon
    <3>2. a = b
      BY <2>1, <2>5, <3>1, Zenon DEF OneCopy
    <3> QED BY <3>1, <3>2
  <2>6. ASSUME NEW v \in Worker, busy(v)', v # w
        PROVE  /\ busy(v) /\ worker'[v].task = worker[v].task
               /\ worker[v].task.TaskNumber \in DOMAIN TaskMeta
               /\ TaskMeta[worker[v].task.TaskNumber] = meta("InProgress", worker[v].task)
               /\ worker[v].task.TaskNumber # n
    <3>1. /\ busy(v) /\ worker'[v].task = worker[v].task
          /\ worker[v].task.TaskNumber \in DOMAIN TaskMeta
          /\ TaskMeta[worker[v].task.TaskNumber] = meta("InProgress", worker[v].task)
      BY <1>6, <2>1, <2>6, Zenon DEF OneCopy
    <3>2. TaskMeta[worker[v].task.TaskNumber].TaskStatus = "InProgress"
      BY <3>1 DEF meta
    <3> QED BY <2>3, <3>1, <3>2
  <2>7. ASSUME NEW v \in Worker, busy(v)'
        PROVE  /\ worker'[v].task.TaskNumber \in DOMAIN TaskMeta'
               /\ TaskMeta'[worker'[v].task.TaskNumber] = meta("InProgress", worker'[v].task)
    <3>1. CASE v = w
      BY <1>3, <1>5, <1>7, <2>3, <3>1, ZenonT(40) DEF n
    <3>2. CASE v # w
      BY <1>7, <2>6, <2>7, <3>2, ZenonT(40)
    <3> QED BY <3>1, <3>2, Zenon
  <2>8. ASSUME NEW u \in Worker, NEW v \in Worker, busy(u)', busy(v)',
               worker'[u].task.TaskNumber = worker'[v].task.TaskNumber
        PROVE  u = v
    <3>1. CASE u # w /\ v # w
      BY <2>1, <2>6, <2>8, <3>1, Zenon DEF OneCopy
    <3>2. CASE u = w \/ v = w
      BY <1>5, <2>6, <2>8, <3>2, Zenon DEF n
    <3> QED BY <3>1, <3>2, Zenon
  <2>9. MasterPhase # "Exit"
    BY <1>3, <2>1, <2>3, "Idle" # "Completed", Zenon DEF OneCopy, allTaskDone, status
  <2> QED BY <1>1, <2>1, <2>4, <2>5, <2>7, <2>8, <2>9, Zenon DEF OneCopy
<1>16. OneResult'
  <2>1. SUFFICES ASSUME ~SlowWorkers PROVE OneResult'
    BY <1>1, Zenon DEF OneResult, SlowWorkers
  <2>2. TaskMeta[n] = meta("Idle", task)
    BY <1>2, <2>1, Zenon DEF OneCopy, n, task
  <2>3. status(n) # "Completed"
    BY <2>2 DEF meta, status
  <2>4. \A m : finished(m) => finished(m)'
    BY <1>7, <2>3, Zenon DEF finished, status
  <2> QED BY <1>1, <2>1, <2>4, Zenon DEF OneResult
<1>17. OneToCollect'
  <2>1. master = "up" /\ MasterPhase = "Map" => DOMAIN TaskMeta = Maps
    BY DEF MapPhase
  <2> QED BY <1>1, <1>8, <2>1, Zenon DEF OneToCollect, LateResults, status
<1> QED BY <1>9, <1>10, <1>11, <1>12, <1>13, <1>14, <1>15, <1>16, <1>17

\* TaskCompleted drops a report.
LEMMA DiscardStep ==
    ASSUME JobInv, NEW w \in Worker, TaskCompleted(w), discarded(worker[w].task)
    PROVE  JobInv'
<1>1. /\ worker[w].does = "report" /\ worker' = [worker EXCEPT ![w].does = "ask"]
      /\ UNCHANGED <<masterVars, timing>> /\ UNCHANGED <<master, output, crashes>>
  BY DEF TaskCompleted, masterVars
<1>2. TypeInv
  BY DEF JobInv
<1>3. /\ worker'[w].does = "ask"
      /\ \A v \in Worker : v # w => worker'[v].does = worker[v].does
  BY <1>1, <1>2, "ask" \in {"ask", "run", "report", "gone"}, WorkerSet, Zenon
<1>4. Gone' = Gone
  BY <1>1, <1>3 DEF Gone
<1>5. NobodyLeaves'
  BY <1>1, <1>4, Zenon DEF JobInv, NobodyLeaves
<1>6. output' \in [Reduces -> Seq(Nat)] /\ crashes' \in Nat
  BY <1>1, <1>2 DEF TypeInv
<1>7. "ask" # "report" /\ "ask" \in {"ask", "report", "gone"}
  OBVIOUS
<1> QED BY <1>1, <1>5, <1>6, <1>7, WorkerMoves, Zenon

\* TaskCompleted takes a report: the entry is Completed and a goroutine is to
\* collect the result.
LEMMA CompleteStep ==
    ASSUME JobInv, NEW w \in Worker, TaskCompleted(w), ~discarded(worker[w].task)
    PROVE  JobInv'
<1> USE DEF JobInv
<1> DEFINE task == worker[w].task
           n == task.TaskNumber
<1>1. /\ master = "up" /\ worker[w].does = "report"
      /\ LateResults \/ results = noResults
      /\ worker' = [worker EXCEPT ![w].does = "ask"]
      /\ TaskMeta' = setStatus({n}, "Completed")
      /\ results' = started(task)
      /\ UNCHANGED <<TaskQueue, MasterPhase, Intermediates, master, output, crashes, timing>>
  BY DEF TaskCompleted
<1>2. task.TaskState = MasterPhase /\ status(n) # "Completed"
  BY DEF discarded
<1>3. TypeInv /\ busy(w)
  BY <1>1 DEF busy
<1>4. /\ worker' \in [Worker -> [does : {"ask", "run", "report", "gone"}, task : Task]]
      /\ worker'[w].does = "ask"
      /\ \A v \in Worker : /\ worker'[v].task = worker[v].task
                           /\ v # w => worker'[v].does = worker[v].does
  BY <1>1, <1>3, "ask" \in {"ask", "run", "report", "gone"}, WorkerSet, Zenon
<1>5. \A v \in Worker : busy(v)' => v # w /\ busy(v) /\ worker'[v].task = worker[v].task
  BY <1>4 DEF busy
<1>6. task \in Task /\ task.TaskState \in {"Map", "Reduce"} /\ n \in Nat
  <2>1. task \in Task
    BY <1>3 DEF TypeInv
  <2> QED BY <2>1 DEF Task
<1>7. goodTask(task)
  BY <1>3, Zenon DEF TasksGood
<1>8. /\ MasterPhase = "Map" => n \in Maps /\ task = MapTask(n)
      /\ MasterPhase # "Map" => n \in Reduces /\ MasterPhase = "Reduce"
  BY <1>2, <1>6, <1>7 DEF goodTask, MapTask
<1>9. n \in DOMAIN TaskMeta
  BY <1>1, <1>8 DEF MapPhase, ReducePhase
<1>10. /\ DOMAIN TaskMeta' = DOMAIN TaskMeta
       /\ \A m \in DOMAIN TaskMeta :
            /\ TaskMeta'[m] \in Meta /\ TaskMeta'[m].TaskReference = TaskMeta[m].TaskReference
            /\ m = n => TaskMeta'[m].TaskStatus = "Completed"
            /\ m # n => TaskMeta'[m] = TaskMeta[m]
  <2>1. "Completed" \in {"Idle", "InProgress", "Completed"}
    OBVIOUS
  <2>2. PICK T : T = TaskMeta'
    OBVIOUS
  <2>3. T = setStatus({n}, "Completed")
    BY <1>1, <2>2, Zenon
  <2>4. /\ DOMAIN T = DOMAIN TaskMeta
        /\ \A m \in DOMAIN TaskMeta :
             /\ T[m] \in Meta /\ T[m].TaskReference = TaskMeta[m].TaskReference
             /\ m \in {n} => T[m].TaskStatus = "Completed"
             /\ m \notin {n} => T[m] = TaskMeta[m]
    <3> HIDE DEF JobInv
    <3> QED BY <1>3, <2>1, <2>3, StatusSet
  <2> QED BY <2>2, <2>4, Zenon
<1>11. /\ DOMAIN results' = DOMAIN results \cup {task}
       /\ \A t \in DOMAIN results \ {task} : results'[t] = results[t]
       /\ task \notin DOMAIN results => results'[task] = 1
       /\ results = noResults => results' = just(task)
  BY <1>1, OneMore, Zenon
<1> HIDE DEF task, n
<1>12. TypeInv'
  <2>1. DOMAIN TaskMeta' \subseteq Nat /\ \A m \in DOMAIN TaskMeta' : TaskMeta'[m] \in Meta
    BY <1>3, <1>10, Zenon DEF TypeInv
  <2>2. DOMAIN results' \subseteq Task
    BY <1>3, <1>6, <1>11, Zenon DEF TypeInv
  <2>3. UNCHANGED <<TaskQueue, MasterPhase, Intermediates, master, output, crashes>>
    BY <1>1, Zenon
  <2> QED BY <1>3, <1>4, <2>1, <2>2, <2>3, Zenon DEF TypeInv
<1>13. TasksGood'
  <2>1. \A t : goodTask(t)' <=> goodTask(t)
    BY <1>1, Zenon DEF goodTask, goodFiles, SlowWorkers, LateResults
  <2>2. \A files : goodFiles(files)' <=> goodFiles(files)
    BY <1>1, Zenon DEF goodFiles, SlowWorkers, LateResults
  <2> QED BY <1>1, <1>5, <2>1, <2>2, Zenon DEF TasksGood
<1>14. MapPhase'
  <2>1. SUFFICES ASSUME MasterPhase = "Map" PROVE MapPhase'
    BY <1>1, Zenon DEF MapPhase
  <2>2. DOMAIN TaskMeta' = Maps /\ \A m \in Maps : TaskMeta'[m].TaskReference = MapTask(m)
    BY <1>1, <1>10, <2>1, Zenon DEF MapPhase
  <2>3. \A v \in Worker : busy(v)' => worker'[v].task.TaskState = "Map"
    BY <1>1, <1>5, <2>1, Zenon DEF MapPhase
  <2>4. \A t \in DOMAIN results' : t.TaskState = "Map"
    BY <1>1, <1>2, <1>11, <2>1, Zenon DEF MapPhase
  <2> QED BY <1>1, <2>1, <2>2, <2>3, <2>4, Zenon DEF MapPhase
<1>15. ReducePhase'
  <2>1. \A files : goodFiles(files)' <=> goodFiles(files)
    BY <1>1, Zenon DEF goodFiles, SlowWorkers, LateResults
  <2>2. SUFFICES ASSUME MasterPhase # "Map" PROVE ReducePhase'
    BY <1>1, Zenon DEF ReducePhase
  <2>3. DOMAIN TaskMeta' = Reduces
    BY <1>1, <1>10, <2>2, Zenon DEF ReducePhase
  <2>4. \A m \in Reduces : TaskMeta'[m].TaskReference = TaskMeta[m].TaskReference
    BY <1>10, <2>3, Zenon
  <2> QED BY <1>1, <2>1, <2>2, <2>3, <2>4, ZenonT(40) DEF ReducePhase
<1>16. OutputsWritten'
  <2>1. \A v \in Worker : worker'[v].does = "report" =>
           worker[v].does = "report" /\ worker'[v].task = worker[v].task
    BY <1>4, "ask" # "report", Zenon
  <2>2. MasterPhase # "Map" => output[n] # <<>>
    BY <1>1, <1>2, <1>8, Zenon DEF OutputsWritten, task, n
  <2>3. MasterPhase # "Map" =>
           \A m \in Reduces : TaskMeta'[m].TaskStatus = "Completed" => output[m] # <<>>
    BY <1>1, <1>10, <2>2, Zenon DEF OutputsWritten, ReducePhase, status
  <2> QED BY <1>1, <2>1, <2>3, Zenon DEF OutputsWritten, status
<1>17. NobodyLeaves'
  <2>1. Gone' = Gone
    BY <1>1, <1>4 DEF Gone
  <2> QED BY <1>1, <2>1, Zenon DEF NobodyLeaves
<1>18. OneCopy'
  <2>1. SUFFICES ASSUME ~SlowWorkers PROVE OneCopy'
    BY <1>1, Zenon DEF OneCopy, SlowWorkers
  <2>2. TaskMeta[n] = meta("InProgress", task)
    BY <1>3, <2>1, Zenon DEF OneCopy, n, task
  <2>3. ASSUME NEW k \in 1 .. Len(TaskQueue)
        PROVE  /\ TaskQueue[k].TaskNumber \in DOMAIN TaskMeta'
               /\ TaskMeta'[TaskQueue[k].TaskNumber] = meta("Idle", TaskQueue[k])
    <3>1. /\ TaskQueue[k].TaskNumber \in DOMAIN TaskMeta
          /\ TaskMeta[TaskQueue[k].TaskNumber] = meta("Idle", TaskQueue[k])
      BY <2>1, <2>3, Zenon DEF OneCopy
    <3>2. TaskQueue[k].TaskNumber # n
      BY <2>2, <3>1 DEF meta
    <3> QED BY <1>10, <3>1, <3>2, Zenon
  <2>4. ASSUME NEW v \in Worker, busy(v)'
        PROVE  /\ worker'[v].task.TaskNumber \in DOMAIN TaskMeta'
               /\ TaskMeta'[worker'[v].task.TaskNumber] = meta("InProgress", worker'[v].task)
    <3>1. v # w /\ busy(v) /\ worker'[v].task = worker[v].task
      BY <1>5, <2>4, Zenon
    <3>2. worker[v].task.TaskNumber # n
      BY <1>3, <2>1, <3>1, Zenon DEF OneCopy, n, task
    <3>3. /\ worker[v].task.TaskNumber \in DOMAIN TaskMeta
          /\ TaskMeta[worker[v].task.TaskNumber] = meta("InProgress", worker[v].task)
      BY <2>1, <3>1, Zenon DEF OneCopy
    <3> QED BY <1>10, <3>1, <3>2, <3>3, Zenon
  <2>5. \A u, v \in Worker :
           busy(u)' /\ busy(v)' /\ worker'[u].task.TaskNumber = worker'[v].task.TaskNumber => u = v
    BY <1>5, <2>1, Zenon DEF OneCopy
  <2>6. MasterPhase # "Exit"
    BY <1>2, <1>6
  <2> QED BY <1>1, <2>1, <2>3, <2>4, <2>5, <2>6, Zenon DEF OneCopy
<1>19. OneResult'
  <2>1. SUFFICES ASSUME ~SlowWorkers PROVE OneResult'
    BY <1>1, Zenon DEF OneResult, SlowWorkers
  <2>2. \A m : finished(m) => finished(m)' /\ m # n
    BY <1>2, <1>10, Zenon DEF finished, status
  <2>3. \A m : m = n => finished(m)'
    BY <1>9, <1>10, Zenon DEF finished, status
  <2>4. task.TaskState = "Map" =>
          /\ task = MapTask(task.TaskNumber) /\ results'[task] = 1
          /\ task.TaskNumber \notin Range(Intermediates)
    <3>1. task.TaskState = "Map" => task \notin DOMAIN results /\ n \notin Range(Intermediates)
      BY <1>2, <2>1, <2>2, Zenon DEF OneResult, n
    <3> QED BY <1>2, <1>8, <1>11, <3>1, Zenon DEF n
  <2>5. ASSUME NEW t \in DOMAIN results', t.TaskState = "Map"
        PROVE  /\ t = MapTask(t.TaskNumber)
               /\ results'[t] = 1
               /\ t.TaskNumber \notin Range(Intermediates)
               /\ MasterPhase = "Map" => finished(t.TaskNumber)'
    <3>1. CASE t = task
      BY <2>3, <2>4, <2>5, <3>1, Zenon DEF n
    <3>2. CASE t # task
      <4>1. t \in DOMAIN results \ {task} /\ results[t] = 1
        BY <1>11, <2>1, <2>5, <3>2, Zenon DEF OneResult
      <4>2. results'[t] = 1
        BY <1>11, <4>1
      <4> QED BY <2>1, <2>2, <2>5, <4>1, <4>2, Zenon DEF OneResult
    <3> QED BY <3>1, <3>2, Zenon
  <2> QED BY <1>1, <2>1, <2>2, <2>5, Zenon DEF OneResult
<1>20. OneToCollect'
  <2>1. SUFFICES ASSUME ~LateResults PROVE OneToCollect'
    BY <1>1, Zenon DEF OneToCollect, LateResults
  <2>2. results' = just(task) /\ task \in DOMAIN results'
    BY <1>1, <1>11, <2>1, Zenon
  <2>3. \A t \in DOMAIN results' : t.TaskState = "Map" => t.TaskNumber \in Maps
    BY <1>2, <1>8, <1>11, <2>1, Zenon DEF OneToCollect, n
  <2>4. MasterPhase = "Map" =>
          \A m \in Maps : TaskMeta'[m].TaskStatus = "Completed" =>
             m \in Range(Intermediates) \/ MapTask(m) \in DOMAIN results'
    BY <1>1, <1>8, <1>10, <1>11, <2>1, Zenon DEF OneToCollect, MapPhase, status
  <2> QED BY <1>1, <1>2, <2>1, <2>2, <2>3, <2>4, Zenon DEF OneToCollect, status
<1> QED BY <1>12, <1>13, <1>14, <1>15, <1>16, <1>17, <1>18, <1>19, <1>20

\* The tasks of the table.
LEMMA References ==
    ASSUME TypeInv, MapPhase, ReducePhase, master = "up", NEW n \in DOMAIN TaskMeta
    PROVE  LET task == TaskMeta[n].TaskReference
           IN  /\ task \in Task /\ goodTask(task) /\ task.TaskNumber = n
               /\ MasterPhase = "Map" => task.TaskState = "Map"
<1>1. TaskMeta[n].TaskReference \in Task
  <2>1. TaskMeta[n] \in Meta
    BY Zenon DEF TypeInv
  <2> QED BY <2>1 DEF Meta
<1>2. CASE MasterPhase = "Map"
  <2>1. n \in Maps /\ TaskMeta[n].TaskReference = MapTask(n)
    BY <1>2, Zenon DEF MapPhase
  <2> QED BY <1>1, <2>1 DEF goodTask, MapTask
<1>3. CASE MasterPhase # "Map"
  <2>1. n \in Reduces
    BY <1>3, Zenon DEF ReducePhase
  <2>2. /\ TaskMeta[n].TaskReference.TaskState = "Reduce"
        /\ TaskMeta[n].TaskReference.TaskNumber = n
        /\ goodFiles(TaskMeta[n].TaskReference.Intermediates)
    BY <1>3, <2>1, Zenon DEF ReducePhase
  <2> QED BY <1>1, <1>3, <2>1, <2>2, Zenon DEF goodTask
<1> QED BY <1>2, <1>3, Zenon

\* catchTimeOut, for the overdue tasks in the order it meets them.
LEMMA TimeOutStep ==
    ASSUME JobInv, NEW order \in Seq(Nat), catchTimeOut(order),
           \A k \in 1 .. Len(order) : order[k] \in DOMAIN TaskMeta,
           \A j, k \in 1 .. Len(order) : order[j] = order[k] => j = k,
           ~SlowWorkers => Len(TaskQueue) + Len(order) <= Capacity
    PROVE  JobInv'
<1> USE DEF JobInv
<1> DEFINE again == [k \in 1 .. Len(order) |-> TaskMeta[order[k]].TaskReference]
           new == sent(again)
           queued == {order[k] : k \in 1 .. Len(new)}
<1>1. /\ master = "up" /\ MasterPhase # "Exit" /\ \A n \in Range(order) : overdue(n)
      /\ TaskQueue' = TaskQueue \o new /\ TaskMeta' = setStatus(queued, "Idle")
      /\ master' = IF fits(again) THEN "up" ELSE "blocked"
      /\ UNCHANGED <<MasterPhase, Intermediates, results, worker, output, crashes, timing>>
  BY DEF catchTimeOut, requeued
<1>2. TypeInv /\ Len(order) \in Nat /\ DOMAIN order = 1 .. Len(order)
  OBVIOUS
<1>3. ASSUME NEW k \in 1 .. Len(order)
      PROVE  order[k] \in DOMAIN TaskMeta /\ overdue(order[k]) /\ status(order[k]) = "InProgress"
  <2>1. order[k] \in Range(order)
    BY <1>2, <1>3, Zenon DEF Range
  <2> QED BY <1>1, <1>3, <2>1, Zenon DEF overdue
<1>4. again \in Seq(Task) /\ Len(again) = Len(order)
      /\ \A k \in 1 .. Len(order) : again[k] = TaskMeta[order[k]].TaskReference
  <2>1. \A k \in 1 .. Len(order) : TaskMeta[order[k]].TaskReference \in Task
    BY <1>1, <1>3, References, Zenon
  <2>2. again \in [1 .. Len(order) -> Task]
    BY <2>1, Zenon
  <2>3. again \in Seq(Task)
    BY <1>2, <2>2, FilledInOrder
  <2>4. Len(again) = Len(order)
    BY <1>2, <2>3
  <2> QED BY <2>3, <2>4, Zenon
<1> HIDE DEF again
<1>5. /\ new \in Seq(Task) /\ Len(new) <= Len(order) /\ Len(new) \in Nat
      /\ Len(TaskQueue) + Len(new) <= Capacity
      /\ \A k \in 1 .. Len(new) : new[k] = again[k]
      /\ fits(again) => Len(new) = Len(order)
  <2>1. TaskQueue \in Seq(Task) /\ Len(TaskQueue) <= Capacity
    BY <1>2, Zenon DEF TypeInv
  <2>2. /\ new \in Seq(Task) /\ Len(new) \in Nat /\ Len(new) <= Len(again)
        /\ Len(TaskQueue) + Len(new) <= Capacity
        /\ \A k \in 1 .. Len(new) : new[k] = again[k]
        /\ fits(again) => Len(new) = Len(again)
    BY <1>4, <2>1, SentFront, Zenon
  <2> QED BY <1>4, <2>2, Zenon
<1> HIDE DEF new
<1>6. ASSUME NEW j \in 1 .. Len(new)
      PROVE  /\ j \in 1 .. Len(order) /\ order[j] \in queued /\ order[j] \in DOMAIN TaskMeta
             /\ new[j] = TaskMeta[order[j]].TaskReference
  <2>1. j \in 1 .. Len(order)
    BY <1>2, <1>5, <1>6
  <2> QED BY <1>3, <1>4, <1>5, <1>6, <2>1, Zenon
<1>7. /\ TaskQueue' \in Seq(Task) /\ Len(TaskQueue') = Len(TaskQueue) + Len(new)
      /\ \A k \in 1 .. Len(TaskQueue') :
            \/ k \in 1 .. Len(TaskQueue) /\ TaskQueue'[k] = TaskQueue[k]
            \/ k - Len(TaskQueue) \in 1 .. Len(new) /\ TaskQueue'[k] = new[k - Len(TaskQueue)]
  <2>1. PICK q : q = TaskQueue
    OBVIOUS
  <2>2. q \in Seq(Task) /\ TaskQueue' = q \o new
    BY <1>1, <1>2, <2>1, Zenon DEF TypeInv
  <2>3. /\ q \o new \in Seq(Task) /\ Len(q \o new) = Len(q) + Len(new)
        /\ \A k \in 1 .. Len(q \o new) :
              \/ k \in 1 .. Len(q) /\ (q \o new)[k] = q[k]
              \/ k - Len(q) \in 1 .. Len(new) /\ (q \o new)[k] = new[k - Len(q)]
    <3>1. q \in Seq(Task) /\ new \in Seq(Task)
      BY <1>5, <2>2, Zenon
    <3> HIDE DEF JobInv
    <3> QED BY <3>1, Joined
  <2> QED BY <2>1, <2>2, <2>3, Zenon
<1>8. ASSUME NEW n \in queued
      PROVE  n \in DOMAIN TaskMeta /\ overdue(n) /\ status(n) = "InProgress"
  <2>1. PICK j \in 1 .. Len(new) : n = order[j]
    BY <1>8, Zenon
  <2> QED BY <1>3, <1>6, <2>1, Zenon
<1> HIDE DEF queued
<1>9. /\ DOMAIN TaskMeta' = DOMAIN TaskMeta
      /\ \A m \in DOMAIN TaskMeta :
           /\ TaskMeta'[m] \in Meta /\ TaskMeta'[m].TaskReference = TaskMeta[m].TaskReference
           /\ m \in queued => /\ TaskMeta'[m] = meta("Idle", TaskMeta[m].TaskReference)
                              /\ TaskMeta'[m].TaskStatus = "Idle"
           /\ m \notin queued => TaskMeta'[m] = TaskMeta[m]
  <2>1. "Idle" \in {"Idle", "InProgress", "Completed"}
    OBVIOUS
  <2>2. PICK T, Q : T = TaskMeta' /\ Q = queued
    BY Zenon
  <2>3. T = setStatus(Q, "Idle")
    BY <1>1, <2>2, Zenon
  <2>4. /\ DOMAIN T = DOMAIN TaskMeta
        /\ \A m \in DOMAIN TaskMeta :
             /\ T[m] \in Meta /\ T[m].TaskReference = TaskMeta[m].TaskReference
             /\ m \in Q => /\ T[m] = meta("Idle", TaskMeta[m].TaskReference)
                           /\ T[m].TaskStatus = "Idle"
             /\ m \notin Q => T[m] = TaskMeta[m]
    <3> HIDE DEF JobInv
    <3> QED BY <1>2, <2>1, <2>3, StatusSet
  <2> QED BY <2>2, <2>4, Zenon
<1>10. \A m \in DOMAIN TaskMeta : TaskMeta'[m].TaskStatus = "Completed" => status(m) = "Completed"
  BY <1>9, "Idle" # "Completed", Zenon DEF status
<1>11. TypeInv'
  <2>1. DOMAIN TaskMeta' \subseteq Nat /\ \A m \in DOMAIN TaskMeta' : TaskMeta'[m] \in Meta
    BY <1>2, <1>9, Zenon DEF TypeInv
  <2>2. Len(TaskQueue') <= Capacity
    BY <1>5, <1>7, Zenon
  <2>3. UNCHANGED <<MasterPhase, Intermediates, results, worker, output, crashes>>
    BY <1>1, Zenon
  <2>4. master' \in {"up", "blocked", "panicked", "exited"}
    BY <1>1, Zenon
  <2> QED BY <1>2, <1>7, <2>1, <2>2, <2>3, <2>4, Zenon DEF TypeInv
<1>12. TasksGood'
  <2>1. \A t : goodTask(t)' <=> goodTask(t)
    BY <1>1, Zenon DEF goodTask, goodFiles, SlowWorkers, LateResults
  <2>2. \A files : goodFiles(files)' <=> goodFiles(files)
    BY <1>1, Zenon DEF goodFiles, SlowWorkers, LateResults
  <2>3. \A j \in 1 .. Len(new) : goodTask(new[j])
    BY <1>1, <1>6, References, Zenon
  <2>4. \A k \in 1 .. Len(TaskQueue') : goodTask(TaskQueue'[k])
    BY <1>7, <2>3, Zenon DEF TasksGood
  <2> QED BY <1>1, <2>1, <2>2, <2>4, Zenon DEF TasksGood, busy
<1>13. MapPhase'
  <2>1. SUFFICES ASSUME MasterPhase = "Map" PROVE MapPhase'
    BY <1>1, Zenon DEF MapPhase
  <2>2. DOMAIN TaskMeta' = Maps /\ \A m \in Maps : TaskMeta'[m].TaskReference = MapTask(m)
    BY <1>1, <1>9, <2>1, Zenon DEF MapPhase
  <2>3. ASSUME NEW j \in 1 .. Len(new) PROVE new[j].TaskState = "Map"
    <3>1. order[j] \in DOMAIN TaskMeta /\ new[j] = TaskMeta[order[j]].TaskReference
      BY <1>6, <2>3, Zenon
    <3>2. TaskMeta[order[j]].TaskReference = MapTask(order[j])
      BY <1>1, <2>1, <3>1, Zenon DEF MapPhase
    <3> QED BY <3>1, <3>2 DEF MapTask
  <2>4. ASSUME NEW k \in 1 .. Len(TaskQueue') PROVE TaskQueue'[k].TaskState = "Map"
    <3>1. CASE k \in 1 .. Len(TaskQueue) /\ TaskQueue'[k] = TaskQueue[k]
      BY <1>1, <2>1, <3>1, Zenon DEF MapPhase
    <3>2. CASE k - Len(TaskQueue) \in 1 .. Len(new) /\ TaskQueue'[k] = new[k - Len(TaskQueue)]
      BY <2>3, <3>2, Zenon
    <3> QED BY <1>7, <2>4, <3>1, <3>2, Zenon
  <2> QED BY <1>1, <2>1, <2>2, <2>4, Zenon DEF MapPhase, busy
<1>14. ReducePhase'
  <2>1. \A files : goodFiles(files)' <=> goodFiles(files)
    BY <1>1, Zenon DEF goodFiles, SlowWorkers, LateResults
  <2>2. SUFFICES ASSUME MasterPhase # "Map" PROVE ReducePhase'
    BY <1>1, Zenon DEF ReducePhase
  <2>3. DOMAIN TaskMeta' = Reduces
    BY <1>1, <1>9, <2>2, Zenon DEF ReducePhase
  <2>4. \A m \in Reduces : TaskMeta'[m].TaskReference = TaskMeta[m].TaskReference
    BY <1>9, <2>3, Zenon
  <2> QED BY <1>1, <2>1, <2>2, <2>3, <2>4, ZenonT(40) DEF ReducePhase
<1>15. OutputsWritten'
  <2>1. master = "up" /\ MasterPhase # "Map" => DOMAIN TaskMeta = Reduces
    BY DEF ReducePhase
  <2>2. MasterPhase # "Map" =>
           \A m \in Reduces : TaskMeta'[m].TaskStatus = "Completed" => output[m] # <<>>
    BY <1>1, <1>10, <2>1, Zenon DEF OutputsWritten
  <2>3. master' # "exited"
    BY <1>1
  <2> QED BY <1>1, <2>2, <2>3, Zenon DEF OutputsWritten, status
<1>16. NobodyLeaves'
  <2>1. master # "panicked"
    BY <1>1
  <2> QED BY <1>1, <2>1, Zenon DEF NobodyLeaves, Gone
<1>17. OneCopy'
  <2>1. SUFFICES ASSUME ~SlowWorkers PROVE OneCopy'
    BY <1>1, Zenon DEF OneCopy, SlowWorkers
  <2>2. Len(TaskQueue) + Len(order) <= Capacity
    BY <2>1, Zenon
  <2>3. master' = "up"
    BY <1>1, <1>4, <2>2, Zenon DEF fits
  <2>4. ASSUME NEW k \in 1 .. Len(TaskQueue)
        PROVE  /\ TaskQueue[k].TaskNumber \in DOMAIN TaskMeta
               /\ TaskMeta[TaskQueue[k].TaskNumber] = meta("Idle", TaskQueue[k])
               /\ TaskQueue[k].TaskNumber \notin queued
    <3>1. /\ TaskQueue[k].TaskNumber \in DOMAIN TaskMeta
          /\ TaskMeta[TaskQueue[k].TaskNumber] = meta("Idle", TaskQueue[k])
      BY <2>1, <2>4, Zenon DEF OneCopy
    <3>2. status(TaskQueue[k].TaskNumber) = "Idle"
      BY <3>1 DEF status, meta
    <3> QED BY <1>8, <3>1, <3>2, "Idle" # "InProgress", Zenon
  <2>5. ASSUME NEW j \in 1 .. Len(new)
        PROVE  new[j].TaskNumber = order[j] /\ order[j] \in queued
    BY <1>1, <1>6, <2>5, References, Zenon
  <2>6. ASSUME NEW k \in 1 .. Len(TaskQueue')
        PROVE  /\ TaskQueue'[k].TaskNumber \in DOMAIN TaskMeta'
               /\ TaskMeta'[TaskQueue'[k].TaskNumber] = meta("Idle", TaskQueue'[k])
    <3>1. CASE k \in 1 .. Len(TaskQueue) /\ TaskQueue'[k] = TaskQueue[k]
      BY <1>9, <2>4, <3>1, Zenon
    <3>2. CASE k - Len(TaskQueue) \in 1 .. Len(new) /\ TaskQueue'[k] = new[k - Len(TaskQueue)]
      <4>1. PICK j \in 1 .. Len(new) : TaskQueue'[k] = new[j]
        BY <3>2, Zenon
      <4>2. order[j] \in DOMAIN TaskMeta /\ order[j] \in queued /\ new[j].TaskNumber = order[j]
            /\ new[j] = TaskMeta[order[j]].TaskReference
        BY <1>6, <2>5, <4>1, Zenon
      <4>3. TaskMeta'[order[j]] = meta("Idle", new[j])
        BY <1>9, <4>2, Zenon
      <4> QED BY <1>9, <4>1, <4>2, <4>3, Zenon
    <3> QED BY <1>7, <2>6, <3>1, <3>2, Zenon
  <2>7. ASSUME NEW a \in 1 .. Len(TaskQueue'), NEW b \in 1 .. Len(TaskQueue'),
               TaskQueue'[a].TaskNumber = TaskQueue'[b].TaskNumber
        PROVE  a = b
    <3>1. CASE /\ a \in 1 .. Len(TaskQueue) /\ TaskQueue'[a] = TaskQueue[a]
               /\ b \in 1 .. Len(TaskQueue) /\ TaskQueue'[b] = TaskQueue[b]
      BY <2>1, <2>7, <3>1, Zenon DEF OneCopy
    <3>2. CASE /\ a - Len(TaskQueue) \in 1 .. Len(new) /\ TaskQueue'[a] = new[a - Len(TaskQueue)]
               /\ b - Len(TaskQueue) \in 1 .. Len(new) /\ TaskQueue'[b] = new[b - Len(TaskQueue)]
      <4>1. PICK i, j : /\ i = a - Len(TaskQueue) /\ i \in 1 .. Len(new) /\ TaskQueue'[a] = new[i]
                        /\ j = b - Len(TaskQueue) /\ j \in 1 .. Len(new) /\ TaskQueue'[b] = new[j]
        BY <3>2, Zenon
      <4>2. new[i].TaskNumber = order[i] /\ new[j].TaskNumber = order[j]
        BY <2>5, <4>1, Zenon
      <4>3. i \in 1 .. Len(order) /\ j \in 1 .. Len(order)
        BY <1>6, <4>1, Zenon
      <4>4. i = j
        BY <2>7, <4>1, <4>2, <4>3, Zenon
      <4>5. Len(TaskQueue) \in Nat
        BY <1>2 DEF TypeInv
      <4> QED BY <2>7, <4>1, <4>4, <4>5
    <3>3. ASSUME NEW c \in 1 .. Len(TaskQueue), NEW j \in 1 .. Len(new)
          PROVE  TaskQueue[c].TaskNumber # new[j].TaskNumber
      BY <2>4, <2>5, <3>3, Zenon
    <3>4. CASE /\ a \in 1 .. Len(TaskQueue) /\ TaskQueue'[a] = TaskQueue[a]
               /\ b - Len(TaskQueue) \in 1 .. Len(new) /\ TaskQueue'[b] = new[b - Len(TaskQueue)]
      BY <2>7, <3>3, <3>4, Zenon
    <3>5. CASE /\ b \in 1 .. Len(TaskQueue) /\ TaskQueue'[b] = TaskQueue[b]
               /\ a - Len(TaskQueue) \in 1 .. Len(new) /\ TaskQueue'[a] = new[a - Len(TaskQueue)]
      BY <2>7, <3>3, <3>5, Zenon
    <3> QED BY <1>7, <2>7, <3>1, <3>2, <3>4, <3>5, Zenon
  <2>8. ASSUME NEW v \in Worker, busy(v)
        PROVE  /\ worker[v].task.TaskNumber \in DOMAIN TaskMeta'
               /\ TaskMeta'[worker[v].task.TaskNumber] = meta("InProgress", worker[v].task)
    <3>1. /\ worker[v].task.TaskNumber \in DOMAIN TaskMeta
          /\ TaskMeta[worker[v].task.TaskNumber] = meta("InProgress", worker[v].task)
      BY <2>1, <2>8, Zenon DEF OneCopy
    <3>2. worker[v].task.TaskNumber \notin queued
      BY <1>8, <2>1, <2>8, Zenon DEF overdue, running, busy
    <3> QED BY <1>9, <3>1, <3>2, Zenon
  <2>9. \A v \in Worker : busy(v)' <=> busy(v)
    BY <1>1, Zenon DEF busy
  <2> QED BY <1>1, <2>1, <2>3, <2>6, <2>7, <2>8, <2>9, Zenon DEF OneCopy
<1>18. OneResult'
  <2>1. \A m : finished(m) => finished(m)'
    BY <1>8, <1>9, "InProgress" # "Completed", Zenon DEF finished, status
  <2> QED BY <1>1, <2>1, Zenon DEF OneResult, SlowWorkers
<1>19. OneToCollect'
  <2>1. master = "up" /\ MasterPhase = "Map" => DOMAIN TaskMeta = Maps
    BY DEF MapPhase
  <2> QED BY <1>1, <1>10, <2>1, Zenon DEF OneToCollect, LateResults, status
<1> QED BY <1>11, <1>12, <1>13, <1>14, <1>15, <1>16, <1>17, <1>18, <1>19

\* Done.
LEMMA DoneStep == ASSUME JobInv, Done PROVE JobInv'
<1> USE DEF JobInv
<1>1. /\ master = "up" /\ MasterPhase = "Exit" /\ master' = "exited"
      /\ UNCHANGED <<TaskQueue, TaskMeta, MasterPhase, Intermediates, results, worker, output,
                     crashes, timing>>
  BY DEF Done
<1>2. TypeInv'
  BY <1>1 DEF TypeInv
<1>3. TasksGood'
  <2>1. \A t : goodTask(t)' <=> goodTask(t)
    BY <1>1, Zenon DEF goodTask, goodFiles, SlowWorkers, LateResults
  <2>2. \A files : goodFiles(files)' <=> goodFiles(files)
    BY <1>1, Zenon DEF goodFiles, SlowWorkers, LateResults
  <2> QED BY <1>1, <2>1, <2>2, Zenon DEF TasksGood, busy
<1>4. MapPhase' /\ ReducePhase'
  BY <1>1 DEF MapPhase, ReducePhase
<1>5. OutputsWritten'
  BY <1>1 DEF OutputsWritten
<1>6. NobodyLeaves'
  BY <1>1, Zenon DEF OutputsWritten, NobodyLeaves
<1>7. OneCopy'
  BY <1>1, Zenon DEF OneCopy, SlowWorkers, allTaskDone, status, busy
<1>8. OneResult'
  BY <1>1, Zenon DEF OneResult, SlowWorkers, finished, status
<1>9. OneToCollect'
  BY <1>1, Zenon DEF OneToCollect, LateResults, status
<1> QED BY <1>2, <1>3, <1>4, <1>5, <1>6, <1>7, <1>8, <1>9

\* The goroutines left after a result is collected.
LEMMA ResultGone ==
    ASSUME NEW task, processTaskResult(task)
    PROVE  /\ DOMAIN results' \subseteq DOMAIN results
           /\ \A t \in DOMAIN results' \ {task} : results'[t] = results[t]
           /\ results[task] = 1 => task \notin DOMAIN results'
           /\ results = just(task) => results' = noResults
BY OneLess, Zenon DEF processTaskResult

\* Without late results, the one to collect is the only one, and of this phase.
LEMMA OnlyResult ==
    ASSUME OneToCollect, ~LateResults, NEW task \in DOMAIN results
    PROVE  results = just(task) /\ DOMAIN results = {task} /\ task.TaskState = MasterPhase
<1>1. results # noResults
  BY DEF noResults
<1>2. PICK t \in DOMAIN results : results = just(t) /\ t.TaskState = MasterPhase
  BY <1>1, Zenon DEF OneToCollect
<1>3. DOMAIN results = {t}
  BY <1>2 DEF just
<1> QED BY <1>2, <1>3, Zenon

\* processTaskResult with a reduce task: the job may end.
LEMMA CollectReduceStep ==
    ASSUME JobInv, NEW task \in DOMAIN results, processTaskResult(task), CollectReduce(task)
    PROVE  JobInv'
<1> USE DEF JobInv
<1>1. /\ master = "up" /\ task.TaskState = "Reduce"
      /\ MasterPhase' = IF allTaskDone THEN "Exit" ELSE MasterPhase
      /\ UNCHANGED <<TaskQueue, TaskMeta, Intermediates, master, worker, output, crashes, timing>>
  BY DEF processTaskResult, CollectReduce
<1>2. /\ DOMAIN results' \subseteq DOMAIN results
      /\ \A t \in DOMAIN results' \ {task} : results'[t] = results[t]
      /\ results = just(task) => results' = noResults
  BY ResultGone, Zenon
<1>3. MasterPhase # "Map" /\ MasterPhase' # "Map"
  <2>1. MasterPhase # "Map"
    BY <1>1, "Reduce" # "Map", Zenon DEF MapPhase
  <2> QED BY <1>1, <2>1
<1>4. MasterPhase' = "Exit" => allTaskDone \/ MasterPhase = "Exit"
  BY <1>1, Zenon
<1>5. TypeInv'
  <2>1. MasterPhase' \in {"Map", "Reduce", "Exit"}
    BY <1>1 DEF TypeInv
  <2> QED BY <1>1, <1>2, <2>1, Zenon DEF TypeInv
<1>6. TasksGood'
  <2>1. \A t : goodTask(t)' <=> goodTask(t)
    BY <1>1, Zenon DEF goodTask, goodFiles, SlowWorkers, LateResults
  <2>2. \A files : goodFiles(files)' <=> goodFiles(files)
    BY <1>1, Zenon DEF goodFiles, SlowWorkers, LateResults
  <2> QED BY <1>1, <2>1, <2>2, Zenon DEF TasksGood, busy
<1>7. MapPhase'
  BY <1>3, Zenon DEF MapPhase
<1>8. ReducePhase'
  <2>1. \A files : goodFiles(files)' <=> goodFiles(files)
    BY <1>1, Zenon DEF goodFiles, SlowWorkers, LateResults
  <2> QED BY <1>1, <1>3, <2>1, Zenon DEF ReducePhase
<1>9. OutputsWritten'
  <2>1. allTaskDone => \A r \in Reduces : output[r] # <<>>
    BY <1>1, <1>3, Zenon DEF OutputsWritten, ReducePhase, allTaskDone
  <2>2. master' # "exited"
    BY <1>1
  <2> QED BY <1>1, <1>3, <1>4, <2>1, <2>2, Zenon DEF OutputsWritten, status
<1>10. NobodyLeaves'
  BY <1>1, Zenon DEF NobodyLeaves, Gone
<1>11. OneCopy'
  BY <1>1, <1>4, Zenon DEF OneCopy, SlowWorkers, allTaskDone, status, busy
<1>12. OneResult'
  <2>1. \A t \in DOMAIN results' : t.TaskState = "Map" =>
           t \in DOMAIN results /\ results'[t] = results[t]
    BY <1>1, <1>2, "Reduce" # "Map", Zenon
  <2> QED BY <1>1, <1>3, <2>1, Zenon DEF OneResult, SlowWorkers
<1>13. OneToCollect'
  <2>1. ~LateResults => results' = noResults
    BY <1>2, OnlyResult, Zenon
  <2> QED BY <1>1, <1>2, <1>3, <2>1, Zenon DEF OneToCollect, LateResults
<1> QED BY <1>5, <1>6, <1>7, <1>8, <1>9, <1>10, <1>11, <1>12, <1>13

\* processTaskResult with a map task: what the files collected so far are.  Only
\* when reports are late is there a reduce task yet that could have others.
LEMMA FilesCollected ==
    ASSUME JobInv, NEW task \in DOMAIN results, processTaskResult(task), CollectMap(task)
    PROVE  /\ Intermediates' \in Seq(Nat) /\ Intermediates' # <<>>
           /\ ~SlowWorkers =>
                /\ IsInjective(Intermediates')
                /\ \A t \in DOMAIN results' : t.TaskState = "Map" =>
                     /\ t \in DOMAIN results /\ t = MapTask(t.TaskNumber)
                     /\ results'[t] = 1 /\ t.TaskNumber \notin Range(Intermediates')
                /\ MasterPhase = "Map" => \A n \in Range(Intermediates') : finished(n)
           /\ ~LateResults =>
                /\ MasterPhase = "Map" /\ results' = noResults
                /\ Range(Intermediates') \subseteq Maps
                /\ \A n \in Maps : status(n) = "Completed" => n \in Range(Intermediates')
<1> USE DEF JobInv
<1>1. /\ master = "up" /\ task.TaskState = "Map"
      /\ Intermediates' = Append(Intermediates, task.TaskNumber)
  BY DEF processTaskResult, CollectMap
<1>2. PICK n : n = task.TaskNumber
  OBVIOUS
<1>3. n \in Nat /\ Intermediates \in Seq(Nat)
  <2>1. task \in Task
    BY Zenon DEF TypeInv
  <2> QED BY <1>2, <2>1 DEF Task, TypeInv
<1>4. /\ Intermediates' \in Seq(Nat) /\ Intermediates' # <<>>
      /\ Range(Intermediates') = Range(Intermediates) \cup {n}
      /\ IsInjective(Intermediates) /\ n \notin Range(Intermediates)
           => IsInjective(Intermediates')
  <2>1. PICK f, g : f = Intermediates /\ g = Intermediates'
    OBVIOUS
  <2>2. f \in Seq(Nat) /\ g = Append(f, n)
    BY <1>1, <1>2, <1>3, <2>1, Zenon
  <2>3. /\ g \in Seq(Nat) /\ g # <<>> /\ Range(g) = Range(f) \cup {n}
        /\ IsInjective(f) /\ n \notin Range(f) => IsInjective(g)
    BY <1>3, <2>2, Added, Zenon
  <2> QED BY <2>1, <2>3, Zenon
<1>5. ASSUME ~SlowWorkers
      PROVE  /\ IsInjective(Intermediates')
             /\ \A t \in DOMAIN results' : t.TaskState = "Map" =>
                  /\ t \in DOMAIN results /\ t = MapTask(t.TaskNumber)
                  /\ results'[t] = 1 /\ t.TaskNumber \notin Range(Intermediates')
             /\ MasterPhase = "Map" => \A m \in Range(Intermediates') : finished(m)
  <2>1. /\ IsInjective(Intermediates) /\ task = MapTask(n) /\ results[task] = 1
        /\ n \notin Range(Intermediates)
        /\ MasterPhase = "Map" => finished(n)
    BY <1>1, <1>2, <1>5, Zenon DEF OneResult
  <2>2. ASSUME NEW t \in DOMAIN results', t.TaskState = "Map"
        PROVE  /\ t \in DOMAIN results /\ t = MapTask(t.TaskNumber)
               /\ results'[t] = 1 /\ t.TaskNumber \notin Range(Intermediates')
    <3>1. t \in DOMAIN results /\ t # task /\ results'[t] = results[t]
      BY <2>1, <2>2, ResultGone, Zenon
    <3>2. /\ t = MapTask(t.TaskNumber) /\ results[t] = 1
          /\ t.TaskNumber \notin Range(Intermediates)
      BY <1>5, <2>2, <3>1, Zenon DEF OneResult
    <3>3. t.TaskNumber # n
      BY <2>1, <3>1, <3>2, Zenon
    <3> QED BY <1>4, <3>1, <3>2, <3>3, Zenon
  <2>3. MasterPhase = "Map" => \A m \in Range(Intermediates') : finished(m)
    BY <1>4, <1>5, <2>1, Zenon DEF OneResult
  <2> QED BY <1>4, <2>1, <2>2, <2>3, Zenon
<1>6. ASSUME ~LateResults
      PROVE  /\ MasterPhase = "Map" /\ results' = noResults
             /\ Range(Intermediates') \subseteq Maps
             /\ \A m \in Maps : status(m) = "Completed" => m \in Range(Intermediates')
  <2>1. results = just(task) /\ DOMAIN results = {task} /\ MasterPhase = "Map"
    BY <1>1, <1>6, OnlyResult, Zenon
  <2>2. results' = noResults
    BY <2>1, ResultGone, Zenon
  <2>3. n \in Maps /\ Range(Intermediates) \subseteq Maps
    BY <1>1, <1>2, <1>6, Zenon DEF OneToCollect
  <2>4. Range(Intermediates') \subseteq Maps
    BY <1>4, <2>3, Zenon
  <2>5. ASSUME NEW m \in Maps, status(m) = "Completed" PROVE m \in Range(Intermediates')
    <3>1. m \in Range(Intermediates) \/ MapTask(m) = task
      BY <1>1, <1>6, <2>1, <2>5, Zenon DEF OneToCollect
    <3>2. MapTask(m) = task => m = n
      BY <1>2 DEF MapTask
    <3> QED BY <1>4, <3>1, <3>2, Zenon
  <2> QED BY <2>1, <2>2, <2>4, <2>5, Zenon
<1> QED BY <1>4, <1>5, <1>6, Zenon

\* The tasks and outputs there are stay good.
LEMMA StillGood ==
    ASSUME JobInv, UNCHANGED timing, master = "up", ~LateResults => MasterPhase = "Map"
    PROVE  /\ \A k \in 1 .. Len(TaskQueue) : \A t : t = TaskQueue[k] => goodTask(t)'
           /\ \A v \in Worker : busy(v) => \A t : t = worker[v].task => goodTask(t)'
           /\ \A r \in Reduces : output[r] # <<>> => \A f : f = output[r] => goodFiles(f)'
<1> USE DEF JobInv
<1>1. LateResults => \A files : goodFiles(files) => goodFiles(files)'
  BY Zenon DEF goodFiles, SlowWorkers, LateResults
<1>2. LateResults => \A t : goodTask(t) => goodTask(t)'
  BY <1>1, Zenon DEF goodTask
<1>3. ASSUME NEW t, goodTask(t), t.TaskState = "Map" PROVE goodTask(t)'
  BY <1>3, "Map" # "Reduce", Zenon DEF goodTask
<1>4. CASE LateResults
  BY <1>1, <1>2, <1>4, Zenon DEF TasksGood
<1>5. CASE ~LateResults
  BY <1>3, <1>5, Zenon DEF TasksGood, MapPhase
<1> QED BY <1>4, <1>5, Zenon

\* processTaskResult with a map task that is not the last.
LEMMA CollectMapStep ==
    ASSUME JobInv, NEW task \in DOMAIN results, processTaskResult(task), CollectMap(task),
           ~allTaskDone
    PROVE  JobInv'
<1> USE DEF JobInv
<1>1. /\ master = "up"
      /\ UNCHANGED <<TaskQueue, TaskMeta, MasterPhase, master, worker, output, crashes, timing>>
  BY DEF processTaskResult, CollectMap
<1>2. /\ Intermediates' \in Seq(Nat)
      /\ ~SlowWorkers =>
           /\ IsInjective(Intermediates')
           /\ \A t \in DOMAIN results' : t.TaskState = "Map" =>
                /\ t \in DOMAIN results /\ t = MapTask(t.TaskNumber)
                /\ results'[t] = 1 /\ t.TaskNumber \notin Range(Intermediates')
           /\ MasterPhase = "Map" => \A n \in Range(Intermediates') : finished(n)
      /\ ~LateResults =>
           /\ MasterPhase = "Map" /\ results' = noResults
           /\ Range(Intermediates') \subseteq Maps
           /\ \A n \in Maps : status(n) = "Completed" => n \in Range(Intermediates')
  BY FilesCollected, Zenon
<1>3. DOMAIN results' \subseteq DOMAIN results
  BY ResultGone, Zenon
<1>4. \A v \in Worker : busy(v)' <=> busy(v)
  BY <1>1, Zenon DEF busy
<1>5. TypeInv'
  BY <1>1, <1>2, <1>3, Zenon DEF TypeInv
<1>6. TasksGood'
  <2>1. /\ \A k \in 1 .. Len(TaskQueue) : \A t : t = TaskQueue[k] => goodTask(t)'
        /\ \A v \in Worker : busy(v) => \A t : t = worker[v].task => goodTask(t)'
        /\ \A r \in Reduces : output[r] # <<>> => \A f : f = output[r] => goodFiles(f)'
    BY <1>1, <1>2, StillGood, Zenon
  <2> QED BY <1>1, <1>4, <2>1, Zenon DEF TasksGood
<1>7. MapPhase'
  BY <1>1, <1>3, <1>4, Zenon DEF MapPhase
<1>8. ReducePhase'
  <2>1. SUFFICES ASSUME MasterPhase # "Map" PROVE ReducePhase'
    BY <1>1, Zenon DEF ReducePhase
  <2>2. \A files : goodFiles(files) => goodFiles(files)'
    BY <1>1, <1>2, <2>1, Zenon DEF goodFiles, SlowWorkers, LateResults
  <2> QED BY <1>1, <2>1, <2>2, Zenon DEF ReducePhase
<1>9. OutputsWritten'
  BY <1>1, Zenon DEF OutputsWritten, status
<1>10. NobodyLeaves'
  BY <1>1, Zenon DEF NobodyLeaves, Gone
<1>11. OneCopy'
  BY <1>1, <1>4, Zenon DEF OneCopy, SlowWorkers, allTaskDone, status
<1>12. OneResult'
  <2>1. \A m : finished(m)' <=> finished(m)
    BY <1>1, Zenon DEF finished, status
  <2>2. ASSUME ~SlowWorkers, NEW t \in DOMAIN results, t.TaskState = "Map", MasterPhase = "Map"
        PROVE  finished(t.TaskNumber)
    BY <2>2, Zenon DEF OneResult
  <2> QED BY <1>1, <1>2, <2>1, <2>2, Zenon DEF OneResult, SlowWorkers
<1>13. OneToCollect'
  BY <1>1, <1>2, <1>3, Zenon DEF OneToCollect, LateResults, status
<1> QED BY <1>5, <1>6, <1>7, <1>8, <1>9, <1>10, <1>11, <1>12, <1>13

\* The tasks of the reduce phase.
LEMMA ReduceTasks ==
    ASSUME NEW files \in Seq(Nat)
    PROVE  /\ reduceTasks(files) \in Seq(Task) /\ Len(reduceTasks(files)) = NReduce
           /\ \A k \in 1 .. NReduce :
                /\ reduceTasks(files)[k] = ReduceTask(k - 1, files)
                /\ reduceTasks(files)[k].TaskState = "Reduce"
                /\ reduceTasks(files)[k].TaskNumber = k - 1
                /\ reduceTasks(files)[k].Intermediates = files
<1>1. NReduce \in Nat
  BY SizeAssumption
<1>2. ASSUME NEW k \in 1 .. NReduce
      PROVE  /\ ReduceTask(k - 1, files) \in Task
             /\ ReduceTask(k - 1, files).TaskState = "Reduce"
             /\ ReduceTask(k - 1, files).TaskNumber = k - 1
             /\ ReduceTask(k - 1, files).Intermediates = files
  BY <1>1, <1>2 DEF ReduceTask, Task
<1>3. reduceTasks(files) \in [1 .. NReduce -> Task]
  BY <1>2, Zenon DEF reduceTasks
<1>4. \A k \in 1 .. NReduce : reduceTasks(files)[k] = ReduceTask(k - 1, files)
  BY Zenon DEF reduceTasks
<1>5. reduceTasks(files) \in Seq(Task)
  BY <1>1, <1>3, FilledInOrder
<1>6. Len(reduceTasks(files)) = NReduce
  BY <1>1, <1>3, <1>5
<1> QED BY <1>2, <1>4, <1>5, <1>6, Zenon

\* When every task of the table is done, nothing is queued and nobody is busy.
LEMMA AllDone ==
    ASSUME OneCopy, ~SlowWorkers, allTaskDone
    PROVE  /\ \A k \in 1 .. Len(TaskQueue) : FALSE
           /\ \A v \in Worker : ~busy(v)
<1>1. ASSUME NEW k \in 1 .. Len(TaskQueue) PROVE FALSE
  <2>1. /\ TaskQueue[k].TaskNumber \in DOMAIN TaskMeta
        /\ TaskMeta[TaskQueue[k].TaskNumber] = meta("Idle", TaskQueue[k])
    BY <1>1, Zenon DEF OneCopy
  <2>2. status(TaskQueue[k].TaskNumber) = "Idle"
    BY <2>1 DEF status, meta
  <2> QED BY <2>1, <2>2, "Idle" # "Completed", Zenon DEF allTaskDone
<1>2. ASSUME NEW v \in Worker, busy(v) PROVE FALSE
  <2>1. /\ worker[v].task.TaskNumber \in DOMAIN TaskMeta
        /\ TaskMeta[worker[v].task.TaskNumber] = meta("InProgress", worker[v].task)
    BY <1>2, Zenon DEF OneCopy
  <2>2. status(worker[v].task.TaskNumber) = "InProgress"
    BY <2>1 DEF status, meta
  <2> QED BY <2>1, <2>2, "InProgress" # "Completed", Zenon DEF allTaskDone
<1> QED BY <1>1, <1>2, Zenon

\* processTaskResult with the last map task: createReduceTask.
LEMMA CreateStep ==
    ASSUME JobInv, NEW task \in DOMAIN results, processTaskResult(task), CollectMap(task),
           allTaskDone
    PROVE  JobInv'
<1> USE DEF JobInv
<1>1. PICK files : files = Intermediates'
  BY Zenon
<1> DEFINE tasks == reduceTasks(files)
           new == sent(tasks)
<1>2. /\ master = "up"
      /\ TaskQueue' = TaskQueue \o new
      /\ TaskMeta' = [n \in 0 .. Len(new) - 1 |-> meta("Idle", tasks[n + 1])]
      /\ fits(tasks) => MasterPhase' = "Reduce" /\ master' = master
      /\ ~fits(tasks) => master' = "blocked" /\ MasterPhase' = MasterPhase
      /\ UNCHANGED <<worker, output, crashes, timing>>
  BY <1>1 DEF processTaskResult, CollectMap, createReduceTask
<1>3. /\ files \in Seq(Nat) /\ files # <<>>
      /\ ~SlowWorkers =>
           /\ IsInjective(files)
           /\ \A t \in DOMAIN results' : t.TaskState = "Map" =>
                /\ t \in DOMAIN results /\ t = MapTask(t.TaskNumber)
                /\ results'[t] = 1 /\ t.TaskNumber \notin Range(files)
      /\ ~LateResults =>
           /\ MasterPhase = "Map" /\ results' = noResults
           /\ Range(files) \subseteq Maps
           /\ \A n \in Maps : status(n) = "Completed" => n \in Range(files)
  BY <1>1, FilesCollected, Zenon
<1>4. goodFiles(files)'
  <2>1. ~LateResults => Range(files) = Maps
    BY <1>2, <1>3, Zenon DEF MapPhase, allTaskDone
  <2> QED BY <1>1, <1>2, <1>3, <2>1, Zenon DEF goodFiles, SlowWorkers, LateResults
<1>5. /\ tasks \in Seq(Task) /\ Len(tasks) = NReduce /\ NReduce \in Nat \ {0}
      /\ \A k \in 1 .. NReduce : /\ tasks[k].TaskState = "Reduce"
                                 /\ tasks[k].TaskNumber = k - 1
                                 /\ tasks[k].Intermediates = files
  BY <1>3, ReduceTasks, SizeAssumption, ZenonT(40)
<1> HIDE DEF tasks
<1>6. TypeInv /\ TaskQueue \in Seq(Task) /\ Len(TaskQueue) <= Capacity /\ Len(TaskQueue) \in Nat
  BY DEF TypeInv
<1>7. /\ new \in Seq(Task) /\ Len(new) <= NReduce /\ Len(new) \in Nat
      /\ Len(TaskQueue) + Len(new) <= Capacity
      /\ \A k \in 1 .. Len(new) : k \in 1 .. NReduce /\ new[k] = tasks[k]
      /\ fits(tasks) => Len(new) = NReduce
  <2>1. /\ new \in Seq(Task) /\ Len(new) \in Nat /\ Len(new) <= Len(tasks)
        /\ Len(TaskQueue) + Len(new) <= Capacity
        /\ \A k \in 1 .. Len(new) : new[k] = tasks[k]
        /\ fits(tasks) => Len(new) = Len(tasks)
    BY <1>5, <1>6, SentFront, Zenon
  <2> HIDE DEF new, JobInv
  <2>2. \A k \in 1 .. Len(new) : k \in 1 .. NReduce
    BY <1>5, <2>1
  <2> QED BY <1>5, <2>1, <2>2, Zenon
<1> HIDE DEF new
<1>8. /\ TaskQueue' \in Seq(Task) /\ Len(TaskQueue') = Len(TaskQueue) + Len(new)
      /\ \A k \in 1 .. Len(TaskQueue') :
            \/ k \in 1 .. Len(TaskQueue) /\ TaskQueue'[k] = TaskQueue[k]
            \/ k - Len(TaskQueue) \in 1 .. Len(new) /\ TaskQueue'[k] = new[k - Len(TaskQueue)]
  <2>1. PICK q : q = TaskQueue
    OBVIOUS
  <2>2. q \in Seq(Task) /\ TaskQueue' = q \o new
    BY <1>2, <1>6, <2>1, ZenonT(40)
  <2>3. /\ q \o new \in Seq(Task) /\ Len(q \o new) = Len(q) + Len(new)
        /\ \A k \in 1 .. Len(q \o new) :
              \/ k \in 1 .. Len(q) /\ (q \o new)[k] = q[k]
              \/ k - Len(q) \in 1 .. Len(new) /\ (q \o new)[k] = new[k - Len(q)]
    <3> HIDE DEF JobInv
    <3> QED BY <1>7, <2>2, Joined, ZenonT(40)
  <2> QED BY <2>1, <2>2, <2>3, ZenonT(40)
<1>9. /\ DOMAIN TaskMeta' = 0 .. Len(new) - 1
      /\ \A n \in DOMAIN TaskMeta' :
           /\ n + 1 \in 1 .. NReduce /\ n \in Nat /\ tasks[n + 1].TaskNumber = n
           /\ TaskMeta'[n] = meta("Idle", tasks[n + 1])
           /\ TaskMeta'[n].TaskReference = tasks[n + 1] /\ TaskMeta'[n].TaskStatus = "Idle"
           /\ TaskMeta'[n] \in Meta
  <2>1. DOMAIN TaskMeta' = 0 .. Len(new) - 1
    BY <1>2, Zenon
  <2>2. ASSUME NEW n \in 0 .. Len(new) - 1
        PROVE  /\ n + 1 \in 1 .. NReduce /\ n \in Nat /\ tasks[n + 1].TaskNumber = n
               /\ TaskMeta'[n] = meta("Idle", tasks[n + 1])
               /\ TaskMeta'[n].TaskReference = tasks[n + 1] /\ TaskMeta'[n].TaskStatus = "Idle"
               /\ TaskMeta'[n] \in Meta
    <3>1. PICK k : k = n + 1
      OBVIOUS
    <3>2. k \in 1 .. NReduce /\ n \in Nat /\ k - 1 = n
      BY <1>5, <1>7, <2>2, <3>1
    <3>3. tasks[k] \in Task /\ tasks[k].TaskNumber = n
      BY <1>5, <3>2
    <3>4. TaskMeta'[n] = meta("Idle", tasks[k])
      BY <1>2, <2>2, <3>1, Zenon
    <3>5. /\ meta("Idle", tasks[k]) \in Meta /\ meta("Idle", tasks[k]).TaskStatus = "Idle"
          /\ meta("Idle", tasks[k]).TaskReference = tasks[k]
      BY <3>3 DEF meta, Meta
    <3> QED BY <3>1, <3>2, <3>3, <3>4, <3>5, Zenon
  <2> QED BY <2>1, <2>2, Zenon
<1>10. ASSUME NEW k \in 1 .. NReduce PROVE goodTask(tasks[k])'
  <2>1. PICK t : t = tasks[k]
    OBVIOUS
  <2>2. t.TaskState = "Reduce" /\ t.TaskNumber \in Reduces /\ t.Intermediates = files
    BY <1>5, <1>10, <2>1 DEF Reduces
  <2>3. goodTask(t)'
    BY <1>4, <2>2, Zenon DEF goodTask
  <2>4. tasks' = tasks
    BY DEF tasks, reduceTasks
  <2> QED BY <2>1, <2>3, <2>4, Zenon
<1>11. /\ master' = "up" => fits(tasks)
       /\ master' \in {"up", "blocked"} /\ ~(master' = "up" /\ MasterPhase' = "Map")
  BY <1>2
<1>12. DOMAIN results' \subseteq DOMAIN results
  BY ResultGone, Zenon
<1>13. \A v \in Worker : busy(v)' <=> busy(v)
  BY <1>2, Zenon DEF busy
<1>14. TypeInv'
  <2>1. DOMAIN TaskMeta' \subseteq Nat /\ \A m \in DOMAIN TaskMeta' : TaskMeta'[m] \in Meta
    BY <1>9, Zenon
  <2>2. Len(TaskQueue') <= Capacity /\ DOMAIN results' \subseteq Task
    BY <1>6, <1>7, <1>8, <1>12, Zenon DEF TypeInv
  <2>3. MasterPhase' \in {"Map", "Reduce", "Exit"}
    BY <1>2, <1>6, Zenon DEF TypeInv
  <2>4. master' \in {"up", "blocked", "panicked", "exited"}
    BY <1>11, Zenon
  <2>5. Intermediates' \in Seq(Nat) /\ UNCHANGED <<worker, output, crashes>>
    BY <1>1, <1>2, <1>3, Zenon
  <2> QED BY <1>6, <1>8, <2>1, <2>2, <2>3, <2>4, <2>5, Zenon DEF TypeInv
<1>15. TasksGood'
  <2>1. /\ \A k \in 1 .. Len(TaskQueue) : \A t : t = TaskQueue[k] => goodTask(t)'
        /\ \A v \in Worker : busy(v) => \A t : t = worker[v].task => goodTask(t)'
        /\ \A r \in Reduces : output[r] # <<>> => \A f : f = output[r] => goodFiles(f)'
    BY <1>2, <1>3, StillGood, Zenon
  <2>2. \A j \in 1 .. Len(new) : \A t : t = new[j] => goodTask(t)'
    <3>1. tasks' = tasks
      BY DEF tasks, reduceTasks
    <3> QED BY <1>7, <1>10, <3>1, Zenon
  <2>3. ASSUME NEW k \in 1 .. Len(TaskQueue'), NEW t, t = TaskQueue'[k] PROVE goodTask(t)'
    <3>1. CASE k \in 1 .. Len(TaskQueue) /\ TaskQueue'[k] = TaskQueue[k]
      BY <2>1, <2>3, <3>1, Zenon
    <3>2. CASE k - Len(TaskQueue) \in 1 .. Len(new) /\ TaskQueue'[k] = new[k - Len(TaskQueue)]
      BY <2>2, <2>3, <3>2, Zenon
    <3> QED BY <1>8, <2>3, <3>1, <3>2, Zenon
  <2> QED BY <1>2, <1>13, <2>1, <2>3, Zenon DEF TasksGood
<1>16. MapPhase'
  BY <1>11, Zenon DEF MapPhase
<1>17. ReducePhase'
  <2>1. SUFFICES ASSUME fits(tasks) PROVE ReducePhase'
    BY <1>11, Zenon DEF ReducePhase
  <2>2. DOMAIN TaskMeta' = Reduces
    BY <1>7, <1>9, <2>1, Zenon DEF Reduces
  <2>3. ASSUME NEW n \in Reduces, NEW t, t = TaskMeta'[n].TaskReference
        PROVE  t.TaskState = "Reduce" /\ t.TaskNumber = n /\ t.Intermediates = files
    <3>1. n \in DOMAIN TaskMeta'
      BY <2>2, <2>3, Zenon
    <3>2. n + 1 \in 1 .. NReduce /\ tasks[n + 1].TaskNumber = n /\ t = tasks[n + 1]
      BY <1>9, <2>3, <3>1, Zenon
    <3> QED BY <1>5, <3>2, Zenon
  <2>4. \A n \in Reduces : /\ TaskMeta'[n].TaskReference.TaskState = "Reduce"
                            /\ TaskMeta'[n].TaskReference.TaskNumber = n
                            /\ TaskMeta'[n].TaskReference.Intermediates = Intermediates'
    BY <1>1, <2>3, Zenon
  <2>5. goodFiles(Intermediates)'
    BY <1>1, <1>4, Zenon DEF goodFiles, SlowWorkers, LateResults
  <2>6. \A n \in Reduces : goodFiles(TaskMeta[n].TaskReference.Intermediates)'
    BY <2>4, <2>5, Zenon DEF goodFiles, SlowWorkers, LateResults
  <2> QED BY <2>2, <2>4, <2>6, Zenon DEF ReducePhase
<1>18. OutputsWritten'
  <2>1. master' # "exited"
    BY <1>11
  <2>2. MasterPhase' = "Exit" => MasterPhase = "Exit"
    BY <1>2
  <2>3. master' = "up" => \A n \in Reduces : TaskMeta'[n].TaskStatus # "Completed"
    <3>1. master' = "up" => DOMAIN TaskMeta' = Reduces
      BY <1>7, <1>9, <1>11, Zenon DEF Reduces
    <3> QED BY <1>9, <3>1, "Idle" # "Completed", Zenon
  <2> QED BY <1>2, <2>1, <2>2, <2>3, Zenon DEF OutputsWritten, status
<1>19. NobodyLeaves'
  <2>1. master # "panicked"
    BY <1>2
  <2> QED BY <1>2, <2>1, Zenon DEF NobodyLeaves, Gone
<1>20. OneCopy'
  <2>1. SUFFICES ASSUME ~SlowWorkers PROVE OneCopy'
    BY <1>2, Zenon DEF OneCopy, SlowWorkers
  <2>2. (\A k \in 1 .. Len(TaskQueue) : FALSE) /\ (\A v \in Worker : ~busy(v))
    BY <2>1, AllDone, Zenon
  <2>3. Len(TaskQueue) = 0
    BY <1>6, <2>2
  <2>4. fits(tasks)
    BY <1>5, <2>3, Room DEF fits
  <2>5. master' = "up" /\ MasterPhase' = "Reduce"
    BY <1>2, <2>4, Zenon
  <2>6. ASSUME NEW k \in 1 .. Len(TaskQueue')
        PROVE  /\ k \in 1 .. NReduce /\ TaskQueue'[k] = tasks[k] /\ tasks[k].TaskNumber = k - 1
               /\ k - 1 \in DOMAIN TaskMeta' /\ TaskMeta'[k - 1] = meta("Idle", tasks[k])
    <3>1. PICK j : j = k - Len(TaskQueue) /\ j \in 1 .. Len(new) /\ TaskQueue'[k] = new[j]
      BY <1>8, <2>2, <2>6, Zenon
    <3>2. j = k
      BY <2>3, <2>6, <3>1
    <3>3. k - 1 \in 0 .. Len(new) - 1 /\ (k - 1) + 1 = k
      BY <1>7, <3>1, <3>2
    <3>4. PICK n : n = k - 1 /\ n + 1 = k /\ n \in DOMAIN TaskMeta'
      BY <1>9, <3>3, Zenon
    <3>5. TaskMeta'[n] = meta("Idle", tasks[k])
      BY <1>9, <3>4, Zenon
    <3> QED BY <1>5, <1>7, <3>1, <3>2, <3>4, <3>5, Zenon
  <2>7. ASSUME NEW j \in 1 .. Len(TaskQueue'), NEW k \in 1 .. Len(TaskQueue'),
               TaskQueue'[j].TaskNumber = TaskQueue'[k].TaskNumber
        PROVE  j = k
    <3>1. j - 1 = k - 1
      BY <2>6, <2>7, Zenon
    <3> QED BY <2>7, <3>1
  <2>8. MasterPhase' # "Exit"
    BY <2>5
  <2>9. \A v \in Worker : ~busy(v)'
    BY <1>13, <2>2, Zenon
  <2>10. \A k \in 1 .. Len(TaskQueue') :
            /\ TaskQueue'[k].TaskNumber \in DOMAIN TaskMeta'
            /\ TaskMeta'[TaskQueue'[k].TaskNumber] = meta("Idle", TaskQueue'[k])
    BY <2>6, Zenon
  <2> QED BY <2>5, <2>7, <2>8, <2>9, <2>10, Zenon DEF OneCopy
<1>21. OneResult'
  <2>1. SUFFICES ASSUME ~SlowWorkers PROVE OneResult'
    BY <1>2, Zenon DEF OneResult, SlowWorkers
  <2>2. MasterPhase' # "Map"
    <3>1. master' \in {"up", "exited"}
      BY <1>2, <1>20, <2>1, Zenon DEF OneCopy, SlowWorkers
    <3> QED BY <1>11, <3>1
  <2> QED BY <1>1, <1>3, <2>1, <2>2, Zenon DEF OneResult
<1>22. OneToCollect'
  <2>1. SUFFICES ASSUME ~LateResults PROVE OneToCollect'
    BY <1>2, Zenon DEF OneToCollect, LateResults
  <2> QED BY <1>1, <1>3, <1>11, <1>12, <2>1, Zenon DEF OneToCollect
<1> QED BY <1>14, <1>15, <1>16, <1>17, <1>18, <1>19, <1>20, <1>21, <1>22

-----------------------------------------------------------------------------
(* Counting the tasks and the workers                                        *)

LOCAL Sets == INSTANCE FiniteSetTheorems

\* The library counts as MapReduce does (Worker, TaskMeta).
LEMMA SameCount ==
    ASSUME NEW S
    PROVE  /\ Sets!Cardinality(S) = Cardinality(S)
           /\ Sets!IsFiniteSet(S) <=> IsFiniteSet(S)
BY DEF Sets!Cardinality, Cardinality, Sets!IsFiniteSet, IsFiniteSet

\* The task numbers of a phase, and the positions of a queue.
LEMMA IntervalCount ==
    ASSUME NEW a \in Int, NEW b \in Int
    PROVE  /\ IsFiniteSet(a .. b)
           /\ Cardinality(a .. b) = IF a > b THEN 0 ELSE b - a + 1
BY SameCount, Sets!FS_Interval

\* How many there are in any finite set.
LEMMA CountType ==
    ASSUME NEW S, IsFiniteSet(S) PROVE Cardinality(S) \in Nat
BY SameCount, Sets!FS_CardinalityType

\* Some of the workers, some of the tasks.
LEMMA SubsetFinite ==
    ASSUME NEW S, IsFiniteSet(S), NEW T \in SUBSET S PROVE IsFiniteSet(T)
BY SameCount, Sets!FS_Subset

\* One worker more.
LEMMA OneMoreCount ==
    ASSUME NEW S, IsFiniteSet(S), NEW x, x \notin S
    PROVE  Cardinality(S \cup {x}) = Cardinality(S) + 1
BY SameCount, Sets!FS_AddElement

\* No worker.
LEMMA NoneCount == Cardinality({}) = 0
BY SameCount, Sets!FS_EmptySet

\* No more tasks than entries, if each has an entry of its own.
LEMMA InjectionCount ==
    ASSUME NEW S, NEW T, IsFiniteSet(T), NEW f \in Injection(S, T)
    PROVE  /\ IsFiniteSet(S) /\ Cardinality(S) <= Cardinality(T)
           /\ Cardinality(S) = Cardinality(T) <=> f \in Surjection(S, T)
<1>1. Sets!Injection(S, T) = Injection(S, T) /\ Sets!Surjection(S, T) = Surjection(S, T)
  BY DEF Sets!Injection, Injection, Sets!IsInjective, IsInjective, Sets!Surjection, Surjection
<1> QED BY <1>1, SameCount, Sets!FS_Injection

\* While the master serves, TaskMeta is the table of one phase.
LEMMA Table ==
    ASSUME MapPhase, ReducePhase, master = "up"
    PROVE  /\ DOMAIN TaskMeta \in {Maps, Reduces}
           /\ DOMAIN TaskMeta \subseteq Nat
           /\ IsFiniteSet(DOMAIN TaskMeta) /\ Cardinality(DOMAIN TaskMeta) <= Capacity
<1>1. DOMAIN TaskMeta \in {Maps, Reduces}
  BY DEF MapPhase, ReducePhase
<1>2. /\ IsFiniteSet(Maps) /\ Cardinality(Maps) = NMap
      /\ IsFiniteSet(Reduces) /\ Cardinality(Reduces) = NReduce
  BY SizeAssumption, IntervalCount DEF Maps, Reduces
<1>3. Maps \subseteq Nat /\ Reduces \subseteq Nat
  BY SizeAssumption DEF Maps, Reduces
<1>4. NMap <= Capacity /\ NReduce <= Capacity
  BY Room
<1>5. CASE DOMAIN TaskMeta = Maps
  BY <1>2, <1>3, <1>4, <1>5
<1>6. CASE DOMAIN TaskMeta = Reduces
  BY <1>2, <1>3, <1>4, <1>6
<1> QED BY <1>1, <1>5, <1>6, ZenonT(40)

\* The order in which catchTimeOut meets the overdue tasks.
LEMMA OrderOf ==
    ASSUME NEW late \in SUBSET Nat, IsFiniteSet(late),
           NEW order \in Bijection(1 .. Cardinality(late), late)
    PROVE  /\ order \in Seq(late) /\ order \in Seq(Nat)
           /\ \A k \in 1 .. Len(order) : order[k] \in late
           /\ \A j, k \in 1 .. Len(order) : order[j] = order[k] => j = k
<1>1. PICK c \in Nat : c = Cardinality(late)
  BY CountType
<1>2. order \in [1 .. c -> late] /\ \A j, k \in 1 .. c : j # k => order[j] # order[k]
  BY <1>1 DEF Bijection, Injection, IsInjective
<1>3. order \in Seq(late) /\ order \in Seq(Nat) /\ Len(order) = c
  <2>1. order \in Seq(late)
    BY <1>2, FilledInOrder
  <2>2. Len(order) \in Nat /\ 1 .. Len(order) = 1 .. c
    BY <1>2, <2>1
  <2>3. order \in [1 .. c -> Nat]
    <3>1. \A k \in 1 .. c : order[k] \in late
      BY <1>2, Zenon
    <3>2. order = [k \in 1 .. c |-> order[k]]
      BY <1>2
    <3> QED BY <3>1, <3>2, late \subseteq Nat, Zenon
  <2>4. order \in Seq(Nat)
    BY <2>3, FilledInOrder
  <2>5. Len(order) = c
    BY <1>1, <2>2
  <2> QED BY <2>1, <2>4, <2>5, Zenon
<1> QED BY <1>2, <1>3

\* A task in the queue is Idle and an overdue one InProgress, so the queue has
\* room for every overdue task.
LEMMA QueueFits ==
    ASSUME TypeInv, MapPhase, ReducePhase, OneCopy, ~SlowWorkers, master = "up",
           NEW order \in Seq(Nat),
           \A k \in 1 .. Len(order) : /\ order[k] \in DOMAIN TaskMeta
                                      /\ status(order[k]) = "InProgress",
           \A j, k \in 1 .. Len(order) : order[j] = order[k] => j = k
    PROVE  Len(TaskQueue) + Len(order) <= Capacity
<1> DEFINE L == Len(TaskQueue)
           D == DOMAIN TaskMeta
           f == [k \in 1 .. L + Len(order) |->
                   IF k <= L THEN TaskQueue[k].TaskNumber ELSE order[k - L]]
<1>1. L \in Nat /\ Len(order) \in Nat
  BY DEF TypeInv
<1>2. ASSUME NEW k \in 1 .. L
      PROVE  TaskQueue[k].TaskNumber \in D /\ status(TaskQueue[k].TaskNumber) = "Idle"
  <2>1. /\ TaskQueue[k].TaskNumber \in DOMAIN TaskMeta
        /\ TaskMeta[TaskQueue[k].TaskNumber] = meta("Idle", TaskQueue[k])
    BY <1>2, Zenon DEF OneCopy
  <2> QED BY <2>1 DEF meta, status
<1>3. \A j, k \in 1 .. L : TaskQueue[j].TaskNumber = TaskQueue[k].TaskNumber => j = k
  BY DEF OneCopy
<1> HIDE DEF L, D
<1>4. ASSUME NEW k \in 1 .. L + Len(order)
      PROVE  /\ k \in 1 .. L => f[k] = TaskQueue[k].TaskNumber
             /\ k \notin 1 .. L => k - L \in 1 .. Len(order) /\ f[k] = order[k - L]
  BY <1>1, <1>4
<1> HIDE DEF f
<1>5. ASSUME NEW k \in 1 .. L + Len(order) PROVE f[k] \in D
  BY <1>2, <1>4, <1>5 DEF D
<1>6. ASSUME NEW j \in 1 .. L + Len(order), NEW k \in 1 .. L + Len(order), f[j] = f[k]
      PROVE  j = k
  <2>1. CASE j \in 1 .. L /\ k \in 1 .. L
    BY <1>3, <1>4, <1>6, <2>1
  <2>2. CASE j \notin 1 .. L /\ k \notin 1 .. L
    <3>1. j - L = k - L
      BY <1>4, <1>6, <2>2
    <3> QED BY <1>1, <3>1
  <2>3. ASSUME NEW a \in 1 .. L, NEW b \in 1 .. Len(order)
        PROVE  TaskQueue[a].TaskNumber # order[b]
    BY <1>2, <2>3, "Idle" # "InProgress"
  <2> QED BY <1>4, <1>6, <2>1, <2>2, <2>3
<1>7. f \in Injection(1 .. L + Len(order), D)
  <2>1. f \in [1 .. L + Len(order) -> D]
    BY <1>5 DEF f
  <2>2. IsInjective(f)
    BY <1>6, <2>1, Zenon DEF IsInjective
  <2> QED BY <2>1, <2>2, Zenon DEF Injection
<1>8. IsFiniteSet(D) /\ Cardinality(D) <= Capacity
  BY Table, Zenon DEF D
<1>9. Cardinality(1 .. L + Len(order)) <= Cardinality(D)
  BY <1>7, <1>8, InjectionCount, ZenonT(40)
<1>10. Cardinality(1 .. L + Len(order)) = L + Len(order)
  BY <1>1, IntervalCount
<1>11. Cardinality(D) \in Nat
  BY <1>8, CountType, Zenon
<1> QED BY <1>1, <1>8, <1>9, <1>10, <1>11, Room DEF L

\* The workers that have left are finitely many.
LEMMA GoneFinite == IsFiniteSet(Gone) /\ Cardinality(Gone) \in Nat
<1>1. Gone \in SUBSET Worker
  BY DEF Gone
<1>2. IsFiniteSet(Gone)
  BY <1>1, WorkerAssumption, SubsetFinite, Zenon
<1> QED BY <1>2, CountType, Zenon

\* Crash: one more worker is gone, one more has crashed.
LEMMA CrashStep ==
    ASSUME JobInv, NEW w \in Worker, Crash(w)
    PROVE  JobInv'
<1>1. /\ worker' = [worker EXCEPT ![w].does = "gone"] /\ crashes' = crashes + 1
      /\ UNCHANGED <<masterVars, timing>> /\ UNCHANGED <<master, output>>
      /\ worker[w].does # "gone"
  BY DEF Crash, masterVars
<1>2. TypeInv
  BY DEF JobInv
<1>3. /\ worker'[w].does = "gone"
      /\ \A v \in Worker : v # w => worker'[v].does = worker[v].does
  BY <1>1, <1>2, "gone" \in {"ask", "run", "report", "gone"}, WorkerSet, Zenon
<1>4. Gone' = Gone \cup {w} /\ w \notin Gone
  BY <1>1, <1>3 DEF Gone
<1>5. Cardinality(Gone') = Cardinality(Gone) + 1
  BY <1>4, GoneFinite, OneMoreCount
<1>6. output' \in [Reduces -> Seq(Nat)] /\ crashes \in Nat /\ crashes' \in Nat
  BY <1>1, <1>2 DEF TypeInv
<1>7. Cardinality(Gone') > crashes' => Cardinality(Gone) > crashes
  BY <1>1, <1>5, <1>6, GoneFinite
<1>8. NobodyLeaves'
  BY <1>1, <1>7, Zenon DEF JobInv, NobodyLeaves
<1>9. "gone" # "report"
  OBVIOUS
<1> QED BY <1>1, <1>6, <1>8, <1>9, WorkerMoves, Zenon

\* One round of catchTimeOut.
LEMMA OverdueStep == ASSUME JobInv, Overdue PROVE JobInv'
<1>1. PICK late \in SUBSET (DOMAIN TaskMeta) \ {{}} :
        \E order \in Bijection(1 .. Cardinality(late), late) : catchTimeOut(order)
  BY Zenon DEF Overdue
<1>2. PICK order \in Bijection(1 .. Cardinality(late), late) : catchTimeOut(order)
  BY <1>1, Zenon
<1>3. DOMAIN TaskMeta \subseteq Nat /\ IsFiniteSet(DOMAIN TaskMeta)
  <2>1. MapPhase /\ ReducePhase /\ master = "up"
    BY <1>2 DEF JobInv, catchTimeOut
  <2> QED BY <2>1, Table, ZenonT(40)
<1>4. late \in SUBSET (DOMAIN TaskMeta)
  BY <1>1, Zenon
<1>5. late \in SUBSET Nat /\ IsFiniteSet(late)
  BY <1>3, <1>4, SubsetFinite, Zenon
<1>6. /\ order \in Seq(Nat) /\ \A k \in 1 .. Len(order) : order[k] \in late
      /\ \A j, k \in 1 .. Len(order) : order[j] = order[k] => j = k
  BY <1>2, <1>5, OrderOf, Zenon
<1>7. \A k \in 1 .. Len(order) : order[k] \in DOMAIN TaskMeta
  BY <1>4, <1>6, Zenon
<1>8. ASSUME ~SlowWorkers PROVE Len(TaskQueue) + Len(order) <= Capacity
  <2>1. TypeInv /\ MapPhase /\ ReducePhase /\ OneCopy /\ master = "up"
    BY <1>2 DEF JobInv, catchTimeOut
  <2>2. \A k \in 1 .. Len(order) : status(order[k]) = "InProgress"
    <3>1. \A n \in Range(order) : status(n) = "InProgress"
      BY <1>2, Zenon DEF catchTimeOut, overdue
    <3>2. DOMAIN order = 1 .. Len(order)
      BY <1>6
    <3> QED BY <3>1, <3>2, Zenon DEF Range
  <2> QED BY <1>6, <1>7, <1>8, <2>1, <2>2, QueueFits, Zenon
<1> QED BY <1>2, <1>6, <1>7, <1>8, TimeOutStep, Zenon

\* MakeMaster.
LEMMA JobInit == Init => JobInv
<1> SUFFICES ASSUME Init PROVE JobInv
  OBVIOUS
<1>1. /\ TaskQueue = mapTasks /\ TaskMeta = [n \in Maps |-> meta("Idle", MapTask(n))]
      /\ MasterPhase = "Map" /\ Intermediates = <<>> /\ results = noResults /\ master = "up"
      /\ worker = [w \in Worker |-> [does |-> "ask", task |-> NoTask]]
      /\ output = [r \in Reduces |-> <<>>] /\ crashes = 0
  BY DEF Init
<1>2. NMap \in Nat /\ NMap <= Capacity /\ Maps \subseteq Nat
  BY SizeAssumption, Room DEF Maps
<1>3. ASSUME NEW n \in Nat
      PROVE  /\ MapTask(n) \in Task /\ MapTask(n).TaskState = "Map" /\ MapTask(n).TaskNumber = n
             /\ meta("Idle", MapTask(n)) \in Meta
             /\ meta("Idle", MapTask(n)).TaskReference = MapTask(n)
             /\ meta("Idle", MapTask(n)).TaskStatus = "Idle"
  <2>1. MapTask(n) \in Task /\ MapTask(n).TaskState = "Map" /\ MapTask(n).TaskNumber = n
    BY <1>3 DEF MapTask, Task
  <2> QED BY <2>1 DEF meta, Meta
<1>4. ASSUME NEW k \in 1 .. NMap
      PROVE  /\ k - 1 \in Nat /\ k - 1 \in Maps /\ mapTasks[k] = MapTask(k - 1)
             /\ mapTasks[k] \in Task /\ mapTasks[k].TaskState = "Map"
             /\ mapTasks[k].TaskNumber = k - 1
  <2>1. k - 1 \in Nat /\ k - 1 \in Maps
    BY <1>2, <1>4 DEF Maps
  <2>2. mapTasks[k] = MapTask(k - 1)
    BY <1>4, Zenon DEF mapTasks
  <2> QED BY <1>3, <2>1, <2>2, Zenon
<1>5. TaskQueue \in Seq(Task) /\ Len(TaskQueue) = NMap
  <2>1. mapTasks \in [1 .. NMap -> Task]
    <3>1. mapTasks = [k \in 1 .. NMap |-> mapTasks[k]]
      BY DEF mapTasks
    <3> QED BY <1>4, <3>1, Zenon
  <2>2. mapTasks \in Seq(Task)
    BY <1>2, <2>1, FilledInOrder
  <2> QED BY <1>1, <1>2, <2>1, <2>2
<1>6. /\ DOMAIN TaskMeta = Maps
      /\ \A n \in Maps : /\ TaskMeta[n] = meta("Idle", MapTask(n)) /\ TaskMeta[n] \in Meta
                         /\ TaskMeta[n].TaskReference = MapTask(n) /\ status(n) = "Idle"
  BY <1>1, <1>2, <1>3, Zenon DEF status
<1>7. DOMAIN results = {}
  BY <1>1 DEF noResults
<1>8. \A w \in Worker : worker[w].does = "ask" /\ ~busy(w)
  BY <1>1 DEF busy
<1>9. TypeInv
  <2>1. worker \in [Worker -> [does : {"ask", "run", "report", "gone"}, task : Task]]
    BY <1>1, <1>3 DEF NoTask
  <2>2. output \in [Reduces -> Seq(Nat)] /\ Intermediates \in Seq(Nat) /\ crashes \in Nat
    BY <1>1
  <2>3. Len(TaskQueue) <= Capacity
    BY <1>2, <1>5
  <2> QED BY <1>1, <1>2, <1>5, <1>6, <1>7, <2>1, <2>2, <2>3, Zenon DEF TypeInv
<1>10. TasksGood
  <2>1. \A k \in 1 .. NMap : goodTask(mapTasks[k])
    BY <1>4, Zenon DEF goodTask
  <2> QED BY <1>1, <1>5, <1>8, <2>1, Zenon DEF TasksGood
<1>11. MapPhase /\ ReducePhase
  BY <1>1, <1>4, <1>5, <1>6, <1>7, <1>8, Zenon DEF MapPhase, ReducePhase
<1>12. OutputsWritten
  BY <1>1, <1>8 DEF OutputsWritten
<1>13. NobodyLeaves
  <2>1. Gone = {}
    BY <1>8 DEF Gone
  <2>2. Cardinality(Gone) = 0
    BY <2>1, NoneCount
  <2> QED BY <1>1, <2>2 DEF NobodyLeaves
<1>14. OneCopy
  <2>1. ASSUME NEW k \in 1 .. Len(TaskQueue)
        PROVE  /\ TaskQueue[k].TaskNumber \in DOMAIN TaskMeta
               /\ TaskMeta[TaskQueue[k].TaskNumber] = meta("Idle", TaskQueue[k])
    BY <1>1, <1>4, <1>5, <1>6, <2>1, Zenon
  <2>2. ASSUME NEW j \in 1 .. Len(TaskQueue), NEW k \in 1 .. Len(TaskQueue),
               TaskQueue[j].TaskNumber = TaskQueue[k].TaskNumber
        PROVE  j = k
    <3>1. j - 1 = k - 1
      BY <1>1, <1>4, <1>5, <2>2, Zenon
    <3> QED BY <2>2, <3>1
  <2>3. master \in {"up", "exited"} /\ MasterPhase # "Exit"
    BY <1>1
  <2> QED BY <1>8, <2>1, <2>2, <2>3, Zenon DEF OneCopy
<1>15. Range(Intermediates) = {} /\ IsInjective(Intermediates)
  BY <1>1 DEF Range, IsInjective
<1>16. OneResult /\ OneToCollect
  <2>1. \A n \in Maps : status(n) # "Completed"
    BY <1>6, "Idle" # "Completed", Zenon
  <2> QED BY <1>1, <1>7, <1>15, <2>1, Zenon DEF OneResult, OneToCollect
<1> QED BY <1>9, <1>10, <1>11, <1>12, <1>13, <1>14, <1>16 DEF JobInv

\* A step that changes nothing.
LEMMA JobStutter == ASSUME JobInv, UNCHANGED vars PROVE JobInv'
<1> USE DEF JobInv
<1>1. UNCHANGED <<TaskQueue, TaskMeta, MasterPhase, Intermediates, results, master, worker,
                  output, crashes, timing>>
  BY DEF vars
<1>2. \A t : goodTask(t)' <=> goodTask(t)
  BY <1>1, Zenon DEF goodTask, goodFiles, SlowWorkers, LateResults
<1>3. \A files : goodFiles(files)' <=> goodFiles(files)
  BY <1>1, Zenon DEF goodFiles, SlowWorkers, LateResults
<1>4. TypeInv' /\ MapPhase' /\ NobodyLeaves'
  BY <1>1, Zenon DEF TypeInv, MapPhase, NobodyLeaves, busy, Gone
<1>5. TasksGood' /\ ReducePhase'
  BY <1>1, <1>2, <1>3, Zenon DEF TasksGood, ReducePhase, busy
<1>6. OutputsWritten' /\ OneToCollect'
  BY <1>1, Zenon DEF OutputsWritten, OneToCollect, LateResults, status
<1>7. OneCopy' /\ OneResult'
  BY <1>1, Zenon DEF OneCopy, OneResult, SlowWorkers, allTaskDone, finished, status, busy
<1> QED BY <1>4, <1>5, <1>6, <1>7

\* Every step of the job keeps the invariant.
LEMMA JobStep == JobInv /\ [Next]_vars => JobInv'
<1> SUFFICES ASSUME JobInv, [Next]_vars PROVE JobInv'
  OBVIOUS
<1>1. ASSUME NEW w \in Worker, AssignTask(w) PROVE JobInv'
  BY <1>1, PanicStep, AssignStep, Zenon
<1>2. ASSUME NEW w \in Worker, AssignExit(w) \/ MasterGone(w) PROVE JobInv'
  BY <1>2, LeaveStep, Zenon
<1>3. ASSUME NEW w \in Worker, TaskCompleted(w) PROVE JobInv'
  BY <1>3, DiscardStep, CompleteStep, Zenon
<1>4. ASSUME NEW w \in Worker, mapper(w) \/ reducer(w) PROVE JobInv'
  BY <1>4, MapperStep, ReducerStep, Zenon
<1>5. ASSUME NEW w \in Worker, Crash(w) PROVE JobInv'
  BY <1>5, CrashStep, Zenon
<1>6. CASE Collect
  <2>1. PICK task \in DOMAIN results : processTaskResult(task)
    BY <1>6, Zenon DEF Collect
  <2>2. CollectMap(task) \/ CollectReduce(task)
    BY <2>1, Zenon DEF processTaskResult
  <2> QED BY <2>1, <2>2, CollectMapStep, CreateStep, CollectReduceStep, Zenon
<1>7. CASE Overdue
  BY <1>7, OverdueStep, Zenon
<1>8. CASE Done
  BY <1>8, DoneStep, Zenon
<1>9. CASE UNCHANGED vars
  BY <1>9, JobStutter, Zenon
<1> QED BY <1>1, <1>2, <1>3, <1>4, <1>5, <1>6, <1>7, <1>8, <1>9, Zenon DEF Next, Work

-----------------------------------------------------------------------------
(* Theorems                                                                  *)

\* In every reachable state of the job the invariant holds, whatever the timing
\* (the handlers of coordinator.go and the loops of worker.go).
THEOREM JobSound == Spec => []JobInv
BY JobInit, JobStep, PTL DEF Spec

\* A file that is named once for each map task has the length it should.
LEMMA OncePerMap ==
    ASSUME NEW files \in Seq(Nat), IsInjective(files), Range(files) = Maps
    PROVE  Len(files) = NMap
<1>1. Len(files) \in Nat /\ DOMAIN files = 1 .. Len(files)
  OBVIOUS
<1>2. files \in [1 .. Len(files) -> Maps]
  <2>1. \A k \in DOMAIN files : files[k] \in Maps
    BY Zenon DEF Range
  <2>2. files = [k \in DOMAIN files |-> files[k]]
    OBVIOUS
  <2> QED BY <1>1, <2>1, <2>2, Zenon
<1>3. files \in Injection(1 .. Len(files), Maps)
  BY <1>2, Zenon DEF Injection
<1>4. files \in Surjection(1 .. Len(files), Maps)
  <2>1. \A m \in Maps : \E k \in 1 .. Len(files) : files[k] = m
    BY <1>1, Zenon DEF Range
  <2> QED BY <1>2, <2>1, Zenon DEF Surjection
<1>5. IsFiniteSet(Maps) /\ Cardinality(Maps) = NMap
  BY SizeAssumption, IntervalCount DEF Maps
<1>6. Cardinality(1 .. Len(files)) = NMap
  <2>1. PICK S, T : S = 1 .. Len(files) /\ T = Maps
    OBVIOUS
  <2>2. files \in Injection(S, T) /\ files \in Surjection(S, T) /\ IsFiniteSet(T)
    BY <1>3, <1>4, <1>5, <2>1, Zenon
  <2>3. Cardinality(S) = Cardinality(T) <=> files \in Surjection(S, T)
    BY <2>2, InjectionCount
  <2> QED BY <1>5, <2>1, <2>2, <2>3, Zenon
<1>7. Cardinality(1 .. Len(files)) = Len(files)
  <2>1. PICK m \in Nat : m = Len(files)
    BY <1>1, Zenon
  <2>2. Cardinality(1 .. m) = m
    BY IntervalCount
  <2> QED BY <2>1, <2>2
<1> QED BY <1>6, <1>7

\* Unless a report comes before an earlier one is collected, a reduce task is
\* handed the files of every map task (processTaskResult, coordinator.go:213).
THEOREM FilesComplete == Spec => []NothingMissing
<1>1. JobInv => NothingMissing
  <2> SUFFICES ASSUME JobInv, ~LateResults, NEW w \in Worker, worker[w].does = "run",
                      worker[w].task.TaskState = "Reduce"
               PROVE  Range(worker[w].task.Intermediates) = Maps
    BY DEF NothingMissing, AllFilesHanded
  <2>1. goodTask(worker[w].task)
    BY DEF JobInv, TasksGood, busy
  <2>2. goodFiles(worker[w].task.Intermediates)
    BY <2>1 DEF goodTask, MapTask
  <2> QED BY <2>2, Zenon DEF goodFiles
<1> QED BY <1>1, JobSound, PTL

\* Unless a task times out that is still running, no file is collected twice
\* (TaskCompleted, coordinator.go:195).
THEOREM FilesOnce == Spec => []NothingTwice
<1>1. JobInv => NothingTwice
  BY ZenonT(40) DEF JobInv, OneResult, NothingTwice
<1> QED BY <1>1, JobSound, PTL

\* Unless a task times out that is still running, the master never blocks on its
\* task queue and never panics in AssignTask, however many tasks, workers and
\* timeouts there are (MakeMaster gives the queue its capacity).
THEOREM NeverStuck == Spec => []MasterServes
<1>1. JobInv => MasterServes
  BY DEF JobInv, OneCopy, MasterServes
<1> QED BY <1>1, JobSound, PTL

\* When the job is done, or a worker left that did not crash, the outputs are
\* there; with prompt workers each is made from every map task's file, once.
THEOREM OutputsExact == Spec => []JobExact
<1>1. JobInv => JobExact
  <2> SUFFICES ASSUME JobInv, master # "panicked",
                      MasterPhase = "Exit" \/ Cardinality(Gone) > crashes,
                      NEW r \in Reduces
               PROVE  /\ output[r] # <<>>
                      /\ timing = "prompt" => Range(output[r]) = Maps /\ Len(output[r]) = NMap
    BY Zenon DEF JobExact, Gone
  <2>1. output[r] # <<>>
    BY Zenon DEF JobInv, OutputsWritten, NobodyLeaves
  <2>2. ASSUME timing = "prompt" PROVE Range(output[r]) = Maps /\ Len(output[r]) = NMap
    <3>1. ~SlowWorkers /\ ~LateResults
      BY <2>2 DEF SlowWorkers, LateResults
    <3>2. goodFiles(output[r])
      BY <2>1, Zenon DEF JobInv, TasksGood
    <3>3. IsInjective(output[r]) /\ Range(output[r]) = Maps
      BY <3>1, <3>2, Zenon DEF goodFiles
    <3>4. output[r] \in Seq(Nat)
      BY DEF JobInv, TypeInv
    <3> QED BY <3>3, <3>4, OncePerMap, Zenon
  <2> QED BY <2>1, <2>2, Zenon
<1> QED BY <1>1, JobSound, PTL

\* Only a reducer writes an output, and only results move the phase and
\* bring files.
LEMMA WhoWrites ==
    ASSUME [Next]_vars
    PROVE  /\ output' = output \/ \E w \in Worker : reducer(w)
           /\ \/ MasterPhase' = MasterPhase /\ Intermediates' = Intermediates
              \/ \E task \in DOMAIN results : processTaskResult(task)
<1>1. ASSUME NEW w \in Worker, Work(w) \/ Crash(w)
      PROVE  /\ MasterPhase' = MasterPhase /\ Intermediates' = Intermediates
             /\ output' = output \/ reducer(w)
  BY <1>1 DEF Work, AssignTask, AssignExit, TaskCompleted, mapper, reducer, MasterGone, Crash,
              masterVars
<1>2. CASE Collect
  BY <1>2, Zenon DEF Collect, processTaskResult
<1>3. CASE Overdue \/ Done \/ UNCHANGED vars
  BY <1>3, Zenon DEF Overdue, catchTimeOut, Done, vars
<1> QED BY <1>1, <1>2, <1>3, ZenonT(40) DEF Next

\* Of a result that is collected in time, the phase is that of the master.
LEMMA InPhase ==
    ASSUME JobInv, ~LateResults, NEW task \in DOMAIN results, processTaskResult(task)
    PROVE  \/ MasterPhase = "Map" /\ CollectMap(task)
           \/ MasterPhase = "Reduce" /\ CollectReduce(task)
<1>1. task.TaskState = MasterPhase
  BY OnlyResult, ZenonT(40) DEF JobInv
<1>2. CollectMap(task) => task.TaskState = "Map"
  BY Zenon DEF CollectMap
<1>3. CollectReduce(task) => task.TaskState = "Reduce"
  BY Zenon DEF CollectReduce
<1> QED BY <1>1, <1>2, <1>3, Zenon DEF processTaskResult

\* Unless a report comes before an earlier one is collected, the job stays done
\* (processTaskResult, coordinator.go:203) and a slow reducer, which may still write
\* its output, writes what is there already (reducer, worker.go).
THEOREM OutputsFinal == Spec => FinalOutput
<1>1. JobInv /\ [Next]_vars =>
        [~LateResults /\ MasterPhase = "Exit" => MasterPhase' = "Exit" /\ output' = output]_vars
  <2> SUFFICES ASSUME JobInv, [Next]_vars, ~LateResults, MasterPhase = "Exit"
               PROVE  MasterPhase' = "Exit" /\ output' = output
    OBVIOUS
  <2>1. MasterPhase' = "Exit"
    <3>1. ~ \E task \in DOMAIN results : processTaskResult(task)
      BY InPhase
    <3> QED BY <3>1, WhoWrites, Zenon
  <2>2. ASSUME NEW w \in Worker, reducer(w) PROVE output' = output
    <3> DEFINE task == worker[w].task
               n == task.TaskNumber
    <3>1. /\ worker[w].does = "run" /\ task.TaskState = "Reduce"
          /\ output' = [output EXCEPT ![n] = task.Intermediates]
      BY <2>2 DEF reducer
    <3>2. busy(w) /\ goodTask(task)
      BY <3>1, SMTT(30) DEF JobInv, TasksGood, busy
    <3>3. n \in Reduces /\ goodFiles(task.Intermediates)
      BY <3>1, <3>2 DEF goodTask, MapTask
    <3>4. goodFiles(output[n])
      BY <3>3, Zenon DEF JobInv, OutputsWritten, TasksGood
    <3>5. output[n] = task.Intermediates
      BY <3>3, <3>4, Zenon DEF goodFiles
    <3>6. output \in [Reduces -> Seq(Nat)]
      BY DEF JobInv, TypeInv
    <3> QED BY <3>1, <3>3, <3>5, <3>6
  <2> QED BY <2>1, <2>2, WhoWrites, Zenon
<1> QED BY <1>1, JobSound, PTL DEF Spec, FinalOutput

\* Unless a report comes before an earlier one is collected, the files of a reduce
\* phase do not change while it lasts (processTaskResult, coordinator.go:209).
THEOREM PhasesAdvance == Spec => PhaseForward
<1>1. JobInv /\ [Next]_vars =>
        [~LateResults /\ MasterPhase = "Reduce"
           => MasterPhase' # "Map" /\ Intermediates' = Intermediates]_vars
  <2> SUFFICES ASSUME JobInv, [Next]_vars, ~LateResults, MasterPhase = "Reduce"
               PROVE  MasterPhase' # "Map" /\ Intermediates' = Intermediates
    OBVIOUS
  <2>1. ASSUME NEW task \in DOMAIN results, processTaskResult(task)
        PROVE  MasterPhase' # "Map" /\ Intermediates' = Intermediates
    <3>1. CollectReduce(task)
      BY <2>1, InPhase
    <3> QED BY <3>1 DEF CollectReduce
  <2> QED BY <2>1, WhoWrites
<1> QED BY <1>1, JobSound, PTL DEF Spec, PhaseForward
=============================================================================
