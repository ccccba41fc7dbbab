--------------------------- MODULE KvHarnessProofs ---------------------------
(***************************************************************************)
(* For any number of servers, clerks, calls and restarts: what a caller was *)
(* told was done is in the persister its server will be started from.       *)
(* ShutdownServer deletes the server from the network before it copies the  *)
(* persister, and the network answers only for a server that is still       *)
(* there; the invariant ties the two together.                              *)
(***************************************************************************)
EXTENDS KvHarness, TLAPS

callRecord ==
    [pc : {"idle", "sending", "accepted", "ready", "waiting", "checking", "replying", "returned"},
     endname : AllEnds \cup {Nil}, servername : Servers \cup {Nil},
     server : (Nat \X Nat) \cup {Nil}, reliable : BOOLEAN,
     handler : {"none", "running", "returned", "done"}, ok : BOOLEAN]

TypeInv ==
    /\ ends \subseteq AllEnds /\ connections \in [AllEnds -> Servers \cup {Nil}]
    /\ reliable \in BOOLEAN
    /\ servers \in [Servers -> (Nat \X Nat) \cup {Nil}]
    /\ endnames \in [Servers -> Nat \ {0}] /\ kvservers \in [Servers -> Nat \cup {Nil}]
    /\ saved \in [Servers -> [owner : (Nat \X Nat) \cup {Nil}, effects : SUBSET Calls]]
    /\ call \in [Calls -> callRecord]

doing(what, i) == [do |-> what, server |-> i]

\* A call reached an instance of its server: the one that runs or an earlier
\* one, never the one that AddServer is about to bring in.
reached(r, en, st) ==
    /\ r.servername \in Servers
    /\ \E k \in 1 .. en[r.servername] :
         /\ r.server = <<r.servername, k>>
         /\ st = doing("AddServer", r.servername) => k < en[r.servername]

\* What became of call c: if its handler has returned and its server is still
\* the one that the network has, then its effect is in that server's persister.
fate(c, r, srv, en, sav, st) ==
    /\ r.pc \in {"sending", "accepted"} => r.endname \in AllEnds
    /\ r.pc \in {"idle", "sending", "accepted", "ready"} => r.handler = "none"
    /\ r.pc = "waiting" => r.handler \in {"running", "returned"}
    /\ r.pc = "checking" => r.handler = "done"
    /\ r.pc \in {"ready", "waiting", "checking"} \/ r.handler # "none" => reached(r, en, st)
    /\ r.pc \in {"waiting", "checking"} /\ r.handler \in {"returned", "done"}
         /\ srv[r.servername] = r.server => c \in sav[r.servername].effects
    /\ r.ok => /\ r.pc \in {"replying", "returned"} /\ r.servername \in Servers
               /\ c \in sav[r.servername].effects

CallsInv == \A c \in Calls : fate(c, call[c], servers, endnames, saved, step)

\* Which persister a server that the network has writes to.
owned(i, srv, en, kv, sav, st) ==
    /\ srv[i] # Nil => /\ srv[i] = <<i, en[i]>> /\ sav[i].owner = <<i, en[i]>>
                       /\ st # doing("AddServer", i)
    /\ kv[i] = Nil => srv[i] = Nil
    /\ st = doing("Copy", i) => srv[i] = Nil
    /\ st = doing("AddServer", i) => sav[i].owner = <<i, en[i]>>

OwnersInv == \A i \in Servers : owned(i, servers, endnames, kvservers, saved, step)

HarnessInv == TypeInv /\ CallsInv /\ OwnersInv

-----------------------------------------------------------------------------
\* The third part of an end is the server it leads to.
LEMMA EndsLead == \A e \in AllEnds : e[3] \in Servers
BY DEF AllEnds, endsOf, end

\* A server is a positive number, and Nil is neither a number nor an instance.
LEMMA ServersPositive ==
    /\ Servers \subseteq Nat /\ \A i \in Servers : i # Nil /\ \A k \in Nat : <<i, k>> # Nil
<1>1. Servers \subseteq Nat
  BY DEF Servers
<1>2. ASSUME NEW i \in Servers, NEW k \in Nat PROVE i # Nil /\ <<i, k>> # Nil
  <2>1. i \in Nat /\ <<i, k>> \in Nat \X Nat
    BY <1>1, Zenon
  <2> QED BY <2>1, HarnessAssumption, Zenon
<1> QED
  <2>1. 0 \in Nat
    BY Zenon
  <2> QED BY <1>1, <1>2, <2>1, Zenon

LEMMA HarnessInit == Init => HarnessInv
<1> SUFFICES ASSUME Init PROVE HarnessInv
  OBVIOUS
<1> DEFINE made == UNION {endsOf(i, 1) : i \in Servers}
<1>1. made \subseteq AllEnds
  <2>1. 1 \in 1 .. MaxStarts
    BY HarnessAssumption
  <2> QED BY <2>1 DEF AllEnds
<1>2. /\ ends = made
      /\ connections = [e \in AllEnds |-> IF e \in made THEN e[3] ELSE Nil]
      /\ servers = [i \in Servers |-> <<i, 1>>] /\ reliable = FALSE
      /\ call = [c \in Calls |-> Net!unsent]
      /\ endnames = [i \in Servers |-> 1] /\ kvservers = [i \in Servers |-> 1]
      /\ saved = [i \in Servers |-> [owner |-> <<i, 1>>, effects |-> {}]]
      /\ step = idle
  BY Zenon DEF Init
<1> HIDE DEF made
<1>3. /\ Net!unsent \in callRecord /\ Net!unsent.pc = "idle" /\ Net!unsent.handler = "none"
      /\ Net!unsent.ok = FALSE
  BY Zenon DEF Net!unsent, Net!reqMsg, callRecord
<1>4. connections \in [AllEnds -> Servers \cup {Nil}]
  BY <1>2, EndsLead, Zenon
<1>5. TypeInv
  <2>1. \A i \in Servers : <<i, 1>> \in Nat \X Nat
    BY ServersPositive
  <2>2. 1 \in Nat \ {0} /\ 1 \in Nat
    OBVIOUS
  <2>6. reliable \in BOOLEAN
    BY <1>2, Zenon
  <2>3. servers \in [Servers -> (Nat \X Nat) \cup {Nil}]
    BY <1>2, <2>1, Zenon
  <2>4. saved \in [Servers -> [owner : (Nat \X Nat) \cup {Nil}, effects : SUBSET Calls]]
    BY <1>2, <2>1
  <2>5. endnames \in [Servers -> Nat \ {0}] /\ kvservers \in [Servers -> Nat \cup {Nil}]
        /\ call \in [Calls -> callRecord]
    BY <1>2, <1>3, <2>2, Zenon
  <2> QED BY <1>1, <1>2, <1>4, <2>3, <2>4, <2>5, <2>6, Zenon DEF TypeInv
<1>6. CallsInv
  <2>1. ASSUME NEW c \in Calls PROVE fate(c, call[c], servers, endnames, saved, step)
    <3>1. call[c] = Net!unsent
      BY <1>2, Zenon
    <3> QED BY <1>3, <3>1, Zenon DEF fate
  <2> QED BY <2>1, Zenon DEF CallsInv
<1>7. OwnersInv
  <2>1. ASSUME NEW i \in Servers PROVE owned(i, servers, endnames, kvservers, saved, step)
    <3>1. /\ servers[i] = <<i, endnames[i]>> /\ saved[i].owner = <<i, endnames[i]>>
          /\ kvservers[i] = 1
      BY <1>2
    <3>2. step # doing("AddServer", i) /\ step # doing("Copy", i)
      BY <1>2, Zenon DEF idle, doing
    <3>3. 1 # Nil
      BY HarnessAssumption
    <3> QED BY <3>1, <3>2, <3>3, Zenon DEF owned
  <2> QED BY <2>1, Zenon DEF OwnersInv
<1> QED BY <1>5, <1>6, <1>7, Zenon DEF HarnessInv

-----------------------------------------------------------------------------
(* Steps of calls                                                            *)

\* A step of one call keeps CallsInv if it keeps the fate of that call.
LEMMA OneFate ==
    ASSUME TypeInv, CallsInv, NEW c \in Calls, NEW r \in callRecord,
           call' = [call EXCEPT ![c] = r], UNCHANGED <<servers, endnames, saved, step>>,
           fate(c, r, servers, endnames, saved, step)
    PROVE  CallsInv' /\ call' \in [Calls -> callRecord]
<1>1. call \in [Calls -> callRecord]
  BY Zenon DEF TypeInv
<1>2. call' \in [Calls -> callRecord]
  BY <1>1, Zenon
<1>3. ASSUME NEW d \in Calls PROVE fate(d, call'[d], servers, endnames, saved, step)
  <2>1. CASE d = c
    <3>1. call'[d] = r
      BY <1>1, <2>1
    <3> QED BY <2>1, <3>1, Zenon
  <2>2. CASE d # c
    <3>1. call'[d] = call[d]
      BY <1>1, <2>2, Zenon
    <3> QED BY <3>1, Zenon DEF CallsInv
  <2> QED BY <2>1, <2>2
<1>4. servers' = servers /\ endnames' = endnames /\ saved' = saved /\ step' = step
  OBVIOUS
<1> QED BY <1>2, <1>3, <1>4, Zenon DEF CallsInv

\* Call and processReq keep the fate of every call.
LEMMA CallStep ==
    ASSUME HarnessInv, NEW c \in Calls, UNCHANGED harnessVars,
           Net!processReq(c) \/ \E e \in AllEnds : Net!Call(c, e)
    PROVE  /\ CallsInv' /\ call' \in [Calls -> callRecord]
           /\ UNCHANGED <<ends, connections, servers, reliable>>
<1> DEFINE old == call[c]
           good(r) == r \in callRecord /\ fate(c, r, servers, endnames, saved, step)
<1>0. TypeInv /\ CallsInv /\ OwnersInv /\ call \in [Calls -> callRecord]
  BY Zenon DEF HarnessInv, TypeInv
<1>1. old \in callRecord /\ fate(c, old, servers, endnames, saved, step)
  BY <1>0, Zenon DEF CallsInv
<1>2. UNCHANGED <<ends, enabled, connections, servers, reliable>>
  BY Zenon DEF Net!processReq, Net!Call, Net!Accept, Net!Abandon, Net!readEndnameInfo,
       Net!DropRequest, Net!Dispatch, Net!ReceiveReply, Net!StopWaiting, Net!Drain,
       Net!Check, Net!Deliver, Net!netVars
<1>3. UNCHANGED <<servers, endnames, saved, step>>
  BY <1>2, Zenon DEF harnessVars
<1>4. ASSUME NEW r, call' = [call EXCEPT ![c] = r], good(r)
      PROVE  CallsInv' /\ call' \in [Calls -> callRecord]
  BY <1>0, <1>3, <1>4, OneFate, Zenon
<1>5. ASSUME NEW e \in AllEnds, Net!Call(c, e)
      PROVE  CallsInv' /\ call' \in [Calls -> callRecord]
  <2>1. good(Net!reqMsg(e))
    BY <1>1, Zenon DEF Net!reqMsg, callRecord, fate
  <2>2. call' = [call EXCEPT ![c] = Net!reqMsg(e)]
    BY <1>5, Zenon DEF Net!Call
  <2> QED BY <1>4, <2>1, <2>2, Zenon
<1>6. ASSUME NEW p \in {"accepted", "returned"}, Net!Goto(c, p), old.pc \in {"sending", "replying"},
             p = "accepted" => old.pc = "sending"
      PROVE  CallsInv' /\ call' \in [Calls -> callRecord]
  <2> DEFINE r == [old EXCEPT !.pc = p]
  <2>1. good(r)
    BY <1>1, <1>6 DEF callRecord, fate, reached
  <2>2. call' = [call EXCEPT ![c] = r]
    BY <1>0, <1>6, Zenon DEF Net!Goto
  <2> HIDE DEF r, good
  <2> QED BY <1>4, <2>1, <2>2, Zenon
<1>7. ASSUME NEW ok \in BOOLEAN, Net!Reply(c, ok),
             old.pc \in {"accepted", "ready", "waiting", "checking"},
             ok => old.pc = "checking" /\ servers[old.servername] = old.server
      PROVE  CallsInv' /\ call' \in [Calls -> callRecord]
  <2> DEFINE r == [old EXCEPT !.pc = "replying", !.ok = ok]
  <2>1. r \in callRecord
    BY <1>1, <1>7, Zenon DEF callRecord
  <2>2. /\ r.pc = "replying" /\ r.ok = ok /\ r.handler = old.handler /\ r.server = old.server
        /\ r.servername = old.servername
    BY <1>1, Zenon DEF callRecord
  <2>3. call' = [call EXCEPT ![c] = r]
    BY <1>0, <1>7, Zenon DEF Net!Reply, callRecord
  <2> HIDE DEF r
  <2>4. ok => old.servername \in Servers /\ c \in saved[old.servername].effects
    BY <1>1, <1>7, Zenon DEF fate, reached
  <2>5. r.handler # "none" => reached(r, endnames, step)
    BY <1>1, <2>2, Zenon DEF fate, reached
  <2>6. r.pc \notin {"idle", "sending", "accepted", "ready", "waiting", "checking"}
    BY <2>2, Zenon
  <2>7. fate(c, r, servers, endnames, saved, step)
    BY <2>2, <2>4, <2>5, <2>6, Zenon DEF fate
  <2> QED BY <1>4, <2>1, <2>3, <2>7, Zenon
<1>8. ASSUME Net!readEndnameInfo(c) PROVE CallsInv' /\ call' \in [Calls -> callRecord]
  <2>1. CASE ~Net!answering(old.endname)
    BY <1>7, <1>8, <2>1, Zenon DEF Net!readEndnameInfo
  <2>2. CASE Net!answering(old.endname)
    <3> DEFINE s == connections[old.endname]
               r == [old EXCEPT !.pc = "ready", !.servername = s, !.server = servers[s],
                                !.reliable = reliable]
    <3>1. old.pc = "accepted" /\ s # Nil /\ servers[s] # Nil
      BY <1>8, <2>2, Zenon DEF Net!readEndnameInfo, Net!answering
    <3>2. old.endname \in AllEnds /\ old.handler = "none" /\ ~old.ok
      BY <1>1, <3>1, Zenon DEF fate
    <3>3. s \in Servers /\ reliable \in BOOLEAN
      BY <1>0, <3>1, <3>2, Zenon DEF TypeInv
    <3>4. servers[s] = <<s, endnames[s]>> /\ step # doing("AddServer", s)
      BY <1>0, <3>1, <3>3, Zenon DEF OwnersInv, owned
    <3>5. endnames[s] \in Nat \ {0} /\ servers[s] \in (Nat \X Nat) \cup {Nil}
      BY <1>0, <3>3, Zenon DEF TypeInv
    <3>6. call' = [call EXCEPT ![c] = r]
      BY <1>0, <1>8, <2>2, Zenon DEF Net!readEndnameInfo, callRecord
    <3> HIDE DEF s
    <3>7. r \in callRecord
      BY <1>1, <3>3, <3>5, Zenon DEF callRecord
    <3>8. /\ r.pc = "ready" /\ r.servername = s /\ r.server = servers[s] /\ r.handler = "none"
          /\ ~r.ok
      BY <1>1, <3>2, Zenon DEF callRecord
    <3> HIDE DEF r
    <3>9. reached(r, endnames, step)
      <4>1. endnames[s] \in 1 .. endnames[s]
        BY <3>5
      <4> QED BY <3>3, <3>4, <3>8, <4>1, Zenon DEF reached
    <3>10. fate(c, r, servers, endnames, saved, step)
      BY <3>8, <3>9, Zenon DEF fate
    <3> QED BY <1>4, <3>6, <3>7, <3>10, Zenon
  <2> QED BY <2>1, <2>2
<1>9. ASSUME Net!Dispatch(c) PROVE CallsInv' /\ call' \in [Calls -> callRecord]
  <2> DEFINE r == [old EXCEPT !.pc = "waiting", !.handler = "running"]
  <2>1. good(r)
    BY <1>1, <1>9, Zenon DEF callRecord, fate, reached, Net!Dispatch
  <2>2. call' = [call EXCEPT ![c] = r]
    BY <1>0, <1>9, Zenon DEF Net!Dispatch, callRecord
  <2> HIDE DEF r, good
  <2> QED BY <1>4, <2>1, <2>2, Zenon
<1>10. ASSUME Net!ReceiveReply(c) PROVE CallsInv' /\ call' \in [Calls -> callRecord]
  <2> DEFINE r == [old EXCEPT !.pc = "checking", !.handler = "done"]
  <2>1. good(r)
    BY <1>1, <1>10, Zenon DEF callRecord, fate, reached, Net!ReceiveReply
  <2>2. call' = [call EXCEPT ![c] = r]
    BY <1>0, <1>10, Zenon DEF Net!ReceiveReply, callRecord
  <2> HIDE DEF r, good
  <2> QED BY <1>4, <2>1, <2>2, Zenon
<1>11. ASSUME Net!Drain(c) PROVE CallsInv' /\ call' \in [Calls -> callRecord]
  <2> DEFINE r == [old EXCEPT !.handler = "done"]
  <2>1. good(r)
    BY <1>1, <1>11 DEF callRecord, fate, reached, Net!Drain, Net!drained
  <2>2. call' = [call EXCEPT ![c] = r]
    BY <1>0, <1>11, Zenon DEF Net!Drain, callRecord
  <2> HIDE DEF r, good
  <2> QED BY <1>4, <2>1, <2>2, Zenon
<1>12. ASSUME Net!Check(c) PROVE CallsInv' /\ call' \in [Calls -> callRecord]
  <2>1. CASE Net!Reply(c, FALSE)
    BY <1>7, <1>12, <2>1, Zenon DEF Net!Check
  <2>2. CASE Net!Reply(c, ~Net!dead(c)) /\ ~Net!dead(c)
    <3>1. Net!Reply(c, TRUE)
      BY <2>2, Zenon
    <3>2. old.pc = "checking" /\ servers[old.servername] = old.server
      BY <1>12, <2>2, Zenon DEF Net!Check, Net!dead, Net!isServerDead
    <3> QED BY <1>7, <3>1, <3>2, Zenon
  <2>3. Net!Reply(c, FALSE) \/ Net!Reply(c, ~Net!dead(c))
    BY <1>12, Zenon DEF Net!Check
  <2>4. CASE Net!Reply(c, ~Net!dead(c)) /\ Net!dead(c)
    <3>1. Net!Reply(c, FALSE)
      BY <2>4, Zenon
    <3> QED BY <2>1, <3>1
  <2> QED BY <2>1, <2>2, <2>3, <2>4, Zenon
<1>13. Net!Accept(c) \/ Net!Abandon(c) \/ Net!Deliver(c)
         => CallsInv' /\ call' \in [Calls -> callRecord]
  BY <1>6 DEF Net!Accept, Net!Abandon, Net!Deliver
<1>14. Net!DropRequest(c) \/ Net!StopWaiting(c)
         => CallsInv' /\ call' \in [Calls -> callRecord]
  BY <1>7, Zenon DEF Net!DropRequest, Net!StopWaiting
<1> QED BY <1>2, <1>5, <1>8, <1>9, <1>10, <1>11, <1>12, <1>13, <1>14, Zenon DEF
       Net!processReq

-----------------------------------------------------------------------------
(* Steps of the harness                                                      *)

\* What may become of the servers and their persisters without any call being
\* told a lie: a server goes away, or AddServer brings in the new instance,
\* which no call has reached; a persister only gains effects; and the ends are
\* fresh when AddServer is next.
harmless(srv2, en2, sav2, st2) ==
    \A i \in Servers :
        /\ endnames[i] \in Nat /\ en2[i] \in Nat /\ endnames[i] <= en2[i]
        /\ saved[i].effects \subseteq sav2[i].effects
        /\ \/ srv2[i] = servers[i] \/ srv2[i] = Nil
           \/ srv2[i] = <<i, endnames[i]>> /\ step = doing("AddServer", i)
        /\ st2 = doing("AddServer", i) => step = st2 \/ endnames[i] < en2[i]

LEMMA FateKept ==
    ASSUME NEW c, NEW r, NEW srv2, NEW en2, NEW sav2, NEW st2,
           fate(c, r, servers, endnames, saved, step), harmless(srv2, en2, sav2, st2)
    PROVE  fate(c, r, srv2, en2, sav2, st2)
<1> DEFINE s == r.servername
<1>1. ASSUME reached(r, endnames, step) PROVE reached(r, en2, st2)
  <2>1. s \in Servers
    BY <1>1, Zenon DEF reached
  <2>2. PICK k \in 1 .. endnames[s] : /\ r.server = <<s, k>>
                                      /\ step = doing("AddServer", s) => k < endnames[s]
    BY <1>1, Zenon DEF reached
  <2>3. /\ endnames[s] \in Nat /\ en2[s] \in Nat /\ endnames[s] <= en2[s]
        /\ st2 = doing("AddServer", s) => step = st2 \/ endnames[s] < en2[s]
    BY <2>1, Zenon DEF harmless
  <2>4. k \in 1 .. en2[s]
    BY <2>2, <2>3
  <2>5. st2 = doing("AddServer", s) => k < en2[s]
    BY <2>2, <2>3
  <2> QED BY <2>1, <2>2, <2>4, <2>5, Zenon DEF reached
<1>2. ASSUME reached(r, endnames, step), srv2[s] = r.server PROVE servers[s] = r.server
  <2>1. s \in Servers
    BY <1>2, Zenon DEF reached
  <2>2. PICK k \in 1 .. endnames[s] : /\ r.server = <<s, k>>
                                      /\ step = doing("AddServer", s) => k < endnames[s]
    BY <1>2, Zenon DEF reached
  <2>3. /\ endnames[s] \in Nat
        /\ \/ srv2[s] = servers[s] \/ srv2[s] = Nil
           \/ srv2[s] = <<s, endnames[s]>> /\ step = doing("AddServer", s)
    BY <2>1, Zenon DEF harmless
  <2>4. k \in Nat
    BY <2>2, <2>3
  <2>5. r.server # Nil
    BY <2>1, <2>2, <2>4, ServersPositive, Zenon
  <2>6. ~(srv2[s] = <<s, endnames[s]>> /\ step = doing("AddServer", s))
    BY <1>2, <2>2, <2>3
  <2> QED BY <1>2, <2>3, <2>5, <2>6, Zenon
<1>3. s \in Servers => saved[s].effects \subseteq sav2[s].effects
  BY Zenon DEF harmless
<1>4. reached(r, endnames, step) => s \in Servers
  BY Zenon DEF reached
<1> HIDE DEF s
<1>5. s = r.servername
  BY DEF s
<1> QED BY <1>1, <1>2, <1>3, <1>4, <1>5 DEF fate

LEMMA HarmlessStep ==
    ASSUME CallsInv, harmless(servers', endnames', saved', step'), UNCHANGED call
    PROVE  CallsInv'
BY FateKept, Zenon DEF CallsInv

\* The handler of a call writes into the persister of the server that the
\* network has, if it runs for that one.
LEMMA HandlerStep == ASSUME HarnessInv, NEW c \in Calls, dispatch(c) PROVE HarnessInv'
<1> DEFINE old == call[c]
           x == old.server
           s == old.servername
           r == [old EXCEPT !.handler = "returned"]
<1>1. TypeInv /\ CallsInv /\ OwnersInv /\ call \in [Calls -> callRecord]
  BY Zenon DEF HarnessInv, TypeInv
<1>2. old \in callRecord /\ fate(c, old, servers, endnames, saved, step)
  BY <1>1, Zenon DEF CallsInv
<1>3. /\ old.handler = "running"
      /\ call' = [call EXCEPT ![c].handler = "returned"]
      /\ UNCHANGED <<ends, connections, servers, reliable>>
      /\ saved' = [saved EXCEPT ![x[1]].effects = IF saved[x[1]].owner = x THEN @ \cup {c} ELSE @]
      /\ UNCHANGED <<endnames, kvservers, step>>
  BY Zenon DEF dispatch, Net!dispatch, Net!netVars
<1>4. reached(old, endnames, step)
  BY <1>2, <1>3 DEF fate
<1>5. s \in Servers
  BY <1>4, Zenon DEF reached
<1>6. PICK k \in 1 .. endnames[s] : x = <<s, k>>
  BY <1>4, Zenon DEF reached
<1>7. x[1] = s
  BY <1>6
<1>8. /\ saved \in [Servers -> [owner : (Nat \X Nat) \cup {Nil}, effects : SUBSET Calls]]
      /\ endnames \in [Servers -> Nat \ {0}]
  BY <1>1, Zenon DEF TypeInv
<1> DEFINE new == IF saved[s].owner = x THEN saved[s].effects \cup {c} ELSE saved[s].effects
           psr == [saved[s] EXCEPT !.effects = new]
<1>9. saved' = [saved EXCEPT ![s] = psr]
  BY <1>3, <1>5, <1>7, <1>8, Zenon
<1>10. new \subseteq Calls /\ saved[s].effects \subseteq new /\ (saved[s].owner = x => c \in new)
  BY <1>5, <1>8
<1> HIDE DEF new
<1>11. /\ psr \in [owner : (Nat \X Nat) \cup {Nil}, effects : SUBSET Calls]
       /\ psr.effects = new /\ psr.owner = saved[s].owner
  BY <1>5, <1>8, <1>10, Zenon
<1> HIDE DEF psr
<1>12. saved' \in [Servers -> [owner : (Nat \X Nat) \cup {Nil}, effects : SUBSET Calls]]
  BY <1>5, <1>8, <1>9, <1>11, Zenon
<1>13. /\ saved'[s] = psr /\ \A i \in Servers : i # s => saved'[i] = saved[i]
  BY <1>5, <1>8, <1>9, Zenon
<1>14. \A i \in Servers : saved[i].effects \subseteq saved'[i].effects /\ saved'[i].owner = saved[i].owner
  BY <1>10, <1>11, <1>13, Zenon
<1>15. harmless(servers', endnames', saved', step')
  <2>1. \A i \in Servers : endnames[i] \in Nat /\ endnames[i] <= endnames[i]
    BY <1>8
  <2> QED BY <1>3, <1>14, <2>1, Zenon DEF harmless
<1>16. \A d \in Calls : fate(d, call[d], servers', endnames', saved', step')
  BY <1>1, <1>15, FateKept, Zenon DEF CallsInv
<1>17. r \in callRecord /\ call' = [call EXCEPT ![c] = r]
  BY <1>1, <1>2, <1>3, Zenon DEF callRecord
<1>18. servers[s] = x => c \in saved'[s].effects
  <2>1. ASSUME servers[s] = x PROVE saved[s].owner = x
    <3>1. endnames[s] \in Nat
      BY <1>5, <1>8
    <3>2. k \in Nat
      BY <1>6, <3>1
    <3>3. servers[s] # Nil
      BY <1>5, <1>6, <2>1, <3>2, ServersPositive, Zenon
    <3> QED BY <1>1, <1>5, <2>1, <3>3, Zenon DEF OwnersInv, owned
  <2> QED BY <1>10, <1>11, <1>13, <2>1, Zenon
<1>19. /\ r.handler = "returned" /\ r.pc = old.pc /\ r.server = x /\ r.servername = s
       /\ r.endname = old.endname /\ r.ok = old.ok
  BY <1>2, SMTT(30) DEF callRecord
<1> HIDE DEF r
<1>20. fate(c, r, servers', endnames', saved', step')
  <2>1. fate(c, old, servers', endnames', saved', step')
    BY <1>16, Zenon
  <2>2. reached(old, endnames', step') => reached(r, endnames', step')
    BY <1>19, Zenon DEF reached
  <2>3. servers' = servers
    BY <1>3, Zenon
  <2> QED BY <1>3, <1>18, <1>19, <2>1, <2>2, <2>3, Zenon DEF fate
<1>21. CallsInv' /\ call' \in [Calls -> callRecord]
  <2>1. \A d \in Calls : call'[d] = IF d = c THEN r ELSE call[d]
    BY <1>1, <1>17, Zenon
  <2>2. call' \in [Calls -> callRecord]
    BY <1>1, <1>17, Zenon
  <2> QED BY <1>16, <1>20, <2>1, <2>2, Zenon DEF CallsInv
<1>22. TypeInv'
  BY <1>1, <1>3, <1>12, <1>21, Zenon DEF TypeInv
<1>23. OwnersInv'
  <2>1. servers' = servers /\ endnames' = endnames /\ kvservers' = kvservers /\ step' = step
    BY <1>3, Zenon
  <2> QED BY <1>1, <1>14, <2>1, Zenon DEF OwnersInv, owned
<1> QED BY <1>21, <1>22, <1>23, Zenon DEF HarnessInv

\* A step that changes no server, persister or call keeps the invariant; the
\* links may change as they please.
LEMMA LinkStep ==
    ASSUME HarnessInv, UNCHANGED <<servers, reliable, call, endnames, kvservers, saved>>,
           step' = step \/ \A i \in Servers : step' # doing("AddServer", i) /\ step' # doing("Copy", i),
           ends' \subseteq AllEnds, connections' \in [AllEnds -> Servers \cup {Nil}]
    PROVE  HarnessInv'
<1>1. TypeInv /\ CallsInv /\ OwnersInv
  BY Zenon DEF HarnessInv
<1>2. /\ servers' = servers /\ reliable' = reliable /\ call' = call
      /\ endnames' = endnames /\ kvservers' = kvservers /\ saved' = saved
  OBVIOUS
<1>3. TypeInv'
  BY <1>1, <1>2, Zenon DEF TypeInv
<1>4. CallsInv'
  <2>1. endnames \in [Servers -> Nat \ {0}]
    BY <1>1, Zenon DEF TypeInv
  <2>2. \A i \in Servers : endnames[i] \in Nat /\ endnames[i] <= endnames[i]
    BY <2>1
  <2>3. \A i \in Servers : saved[i].effects \subseteq saved[i].effects
    BY Zenon
  <2>4. harmless(servers', endnames', saved', step')
    BY <1>2, <2>2, <2>3, Zenon DEF harmless
  <2> QED BY <1>1, <1>2, <2>4, HarmlessStep, Zenon
<1>5. OwnersInv'
  BY <1>1, <1>2, Zenon DEF OwnersInv, owned
<1> QED BY <1>3, <1>4, <1>5, Zenon DEF HarnessInv

\* Ends that are made in a step are among the named ones, and connected each to
\* its server.
LEMMA EndsMade ==
    ASSUME TypeInv, NEW S \in SUBSET AllEnds, ends' = ends \cup S,
           connections' = [e \in AllEnds |-> IF e \in S THEN e[3] ELSE connections[e]]
    PROVE  ends' \subseteq AllEnds /\ connections' \in [AllEnds -> Servers \cup {Nil}]
<1>1. ends \subseteq AllEnds /\ connections \in [AllEnds -> Servers \cup {Nil}]
  BY Zenon DEF TypeInv
<1> QED BY <1>1, EndsLead, Zenon

LEMMA DeleteStep == ASSUME HarnessInv, NEW i \in Servers, DeleteServer(i) PROVE HarnessInv'
<1>1. TypeInv /\ CallsInv /\ OwnersInv
  BY Zenon DEF HarnessInv
<1>2. /\ step = doing("DeleteServer", i) /\ step' = doing("Copy", i)
      /\ servers' = [servers EXCEPT ![i] = Nil]
      /\ ends' = ends /\ connections' = connections /\ reliable' = reliable /\ call' = call
      /\ endnames' = endnames /\ kvservers' = kvservers /\ saved' = saved
  BY Zenon DEF DeleteServer, Net!DeleteServer, doing
<1>3. /\ servers \in [Servers -> (Nat \X Nat) \cup {Nil}] /\ endnames \in [Servers -> Nat \ {0}]
  BY <1>1, Zenon DEF TypeInv
<1>4. /\ servers' \in [Servers -> (Nat \X Nat) \cup {Nil}]
      /\ \A j \in Servers : servers'[j] = IF j = i THEN Nil ELSE servers[j]
  BY <1>2, <1>3, Zenon
<1>5. \A j \in Servers : step' # doing("AddServer", j) /\ (step' = doing("Copy", j) => j = i)
  BY <1>2, Zenon DEF doing
<1>6. TypeInv'
  BY <1>1, <1>2, <1>4, Zenon DEF TypeInv
<1>7. CallsInv'
  <2>1. \A j \in Servers : endnames[j] \in Nat /\ endnames[j] <= endnames[j]
    BY <1>3
  <2>2. harmless(servers', endnames', saved', step')
    BY <1>2, <1>4, <1>5, <2>1, Zenon DEF harmless
  <2> QED BY <1>1, <1>2, <2>2, HarmlessStep, Zenon
<1>8. OwnersInv'
  BY <1>1, <1>2, <1>4, <1>5, Zenon DEF OwnersInv, owned
<1> QED BY <1>6, <1>7, <1>8, Zenon DEF HarnessInv

\* The copied persister holds what the old one held, and DeleteServer came first.
LEMMA CopyStep == ASSUME HarnessInv, NEW i \in Servers, CopyAndKill(i) PROVE HarnessInv'
<1>1. TypeInv /\ CallsInv /\ OwnersInv
  BY Zenon DEF HarnessInv
<1>2. /\ step = doing("Copy", i) /\ step' = idle
      /\ saved' = [saved EXCEPT ![i] = Copy(@)]
      /\ kvservers' = [kvservers EXCEPT ![i] = Nil]
      /\ ends' = ends /\ connections' = connections /\ reliable' = reliable /\ call' = call
      /\ servers' = servers /\ endnames' = endnames
  BY Zenon DEF CopyAndKill, doing, rpcVars
<1>3. /\ saved \in [Servers -> [owner : (Nat \X Nat) \cup {Nil}, effects : SUBSET Calls]]
      /\ kvservers \in [Servers -> Nat \cup {Nil}] /\ endnames \in [Servers -> Nat \ {0}]
  BY <1>1, Zenon DEF TypeInv
<1>4. /\ Copy(saved[i]) \in [owner : (Nat \X Nat) \cup {Nil}, effects : SUBSET Calls]
      /\ Copy(saved[i]).effects = saved[i].effects
  BY <1>3, Zenon DEF Copy
<1>5. /\ saved' \in [Servers -> [owner : (Nat \X Nat) \cup {Nil}, effects : SUBSET Calls]]
      /\ \A j \in Servers : saved'[j] = IF j = i THEN Copy(saved[i]) ELSE saved[j]
  BY <1>2, <1>3, <1>4, Zenon
<1>6. /\ kvservers' \in [Servers -> Nat \cup {Nil}]
      /\ \A j \in Servers : j # i => kvservers'[j] = kvservers[j]
  BY <1>2, <1>3, Zenon
<1>7. \A j \in Servers : step' # doing("AddServer", j) /\ step' # doing("Copy", j)
  BY <1>2 DEF idle, doing
<1>8. TypeInv'
  BY <1>1, <1>2, <1>5, <1>6, Zenon DEF TypeInv
<1>9. CallsInv'
  <2>1. \A j \in Servers : endnames[j] \in Nat /\ endnames[j] <= endnames[j]
    BY <1>3
  <2>2. \A j \in Servers : saved[j].effects \subseteq saved'[j].effects
    BY <1>4, <1>5, Zenon
  <2>3. harmless(servers', endnames', saved', step')
    BY <1>2, <1>7, <2>1, <2>2, Zenon DEF harmless
  <2> QED BY <1>1, <1>2, <2>3, HarmlessStep, Zenon
<1>10. servers[i] = Nil
  BY <1>1, <1>2, Zenon DEF OwnersInv, owned
<1>11. OwnersInv'
  <2>1. ASSUME NEW j \in Servers PROVE owned(j, servers', endnames', kvservers', saved', step')
    <3>1. owned(j, servers, endnames, kvservers, saved, step)
      BY <1>1, Zenon DEF OwnersInv
    <3>2. CASE j = i
      BY <1>2, <1>7, <1>10, <3>2, Zenon DEF owned
    <3>3. CASE j # i
      BY <1>2, <1>5, <1>6, <1>7, <3>1, <3>3, Zenon DEF owned
    <3> QED BY <3>2, <3>3
  <2> QED BY <2>1, Zenon DEF OwnersInv
<1> QED BY <1>8, <1>9, <1>11, Zenon DEF HarnessInv

\* The new instance is one that no call has reached, and its persister is its own.
LEMMA StartStep == ASSUME HarnessInv, NEW i \in Servers, StartServer(i) PROVE HarnessInv'
<1> DEFINE k == endnames[i] + 1
           psr == [owner |-> <<i, k>>, effects |-> Copy(saved[i]).effects]
<1>1. TypeInv /\ CallsInv /\ OwnersInv
  BY Zenon DEF HarnessInv
<1>2. /\ step = idle /\ step' = doing("AddServer", i) /\ k <= MaxStarts
      /\ kvservers[i] = Nil
      /\ endnames' = [endnames EXCEPT ![i] = k]
      /\ ends' = ends \cup endsOf(i, k)
      /\ connections' = [e \in AllEnds |-> IF e \in endsOf(i, k) THEN e[3] ELSE connections[e]]
      /\ saved' = [saved EXCEPT ![i] = psr]
      /\ reliable' = reliable /\ call' = call /\ servers' = servers /\ kvservers' = kvservers
  BY DEF StartServer, doing
<1>3. /\ saved \in [Servers -> [owner : (Nat \X Nat) \cup {Nil}, effects : SUBSET Calls]]
      /\ endnames \in [Servers -> Nat \ {0}]
  BY <1>1, Zenon DEF TypeInv
<1>4. k \in Nat \ {0} /\ k \in Nat /\ endnames[i] < k /\ endnames[i] <= k /\ i \in Nat
  BY <1>3, ServersPositive
<1>5. endsOf(i, k) \subseteq AllEnds
  <2>1. k \in 1 .. MaxStarts
    BY <1>2, <1>4, HarnessAssumption
  <2> HIDE DEF k
  <2> QED BY <2>1 DEF AllEnds
<1>6. ends' \subseteq AllEnds /\ connections' \in [AllEnds -> Servers \cup {Nil}]
  BY <1>1, <1>2, <1>5, EndsMade, Zenon
<1> HIDE DEF k
<1>7. /\ psr \in [owner : (Nat \X Nat) \cup {Nil}, effects : SUBSET Calls]
      /\ psr.effects = saved[i].effects /\ psr.owner = <<i, k>>
  BY <1>3, <1>4 DEF Copy
<1> HIDE DEF psr
<1>8. /\ saved' \in [Servers -> [owner : (Nat \X Nat) \cup {Nil}, effects : SUBSET Calls]]
      /\ \A j \in Servers : saved'[j] = IF j = i THEN psr ELSE saved[j]
  BY <1>2, <1>3, <1>7, Zenon
<1>9. /\ endnames' \in [Servers -> Nat \ {0}]
      /\ \A j \in Servers : endnames'[j] = IF j = i THEN k ELSE endnames[j]
  BY <1>2, <1>3, <1>4, Zenon
<1>10. \A j \in Servers : step' # doing("Copy", j) /\ (step' = doing("AddServer", j) => j = i)
  BY <1>2 DEF doing
<1>11. TypeInv'
  BY <1>1, <1>2, <1>6, <1>8, <1>9, Zenon DEF TypeInv
<1>12. CallsInv'
  <2>1. \A j \in Servers : endnames[j] \in Nat /\ endnames[j] <= endnames[j]
    BY <1>3
  <2>2. \A j \in Servers : saved[j].effects \subseteq saved'[j].effects
    BY <1>7, <1>8, Zenon
  <2>3. \A j \in Servers : endnames[j] \in Nat /\ endnames'[j] \in Nat /\ endnames[j] <= endnames'[j]
    BY <1>4, <1>9, <2>1, Zenon
  <2>4. \A j \in Servers : step' = doing("AddServer", j) => endnames[j] < endnames'[j]
    BY <1>4, <1>9, <1>10, Zenon
  <2>5. harmless(servers', endnames', saved', step')
    BY <1>2, <2>2, <2>3, <2>4, Zenon DEF harmless
  <2> QED BY <1>1, <1>2, <2>5, HarmlessStep, Zenon
<1>13. servers[i] = Nil
  BY <1>1, <1>2, Zenon DEF OwnersInv, owned
<1>14. OwnersInv'
  <2>1. ASSUME NEW j \in Servers PROVE owned(j, servers', endnames', kvservers', saved', step')
    <3>1. owned(j, servers, endnames, kvservers, saved, step)
      BY <1>1, Zenon DEF OwnersInv
    <3>2. CASE j = i
      BY <1>2, <1>7, <1>8, <1>9, <1>10, <1>13, <3>2, Zenon DEF owned
    <3>3. CASE j # i
      BY <1>2, <1>8, <1>9, <1>10, <3>1, <3>3, Zenon DEF owned
    <3> QED BY <3>2, <3>3, Zenon
  <2> QED BY <2>1, Zenon DEF OwnersInv
<1> QED BY <1>11, <1>12, <1>14, Zenon DEF HarnessInv

LEMMA AddStep == ASSUME HarnessInv, NEW i \in Servers, AddServer(i) PROVE HarnessInv'
<1>1. TypeInv /\ CallsInv /\ OwnersInv
  BY Zenon DEF HarnessInv
<1>2. /\ step = doing("AddServer", i) /\ step' = idle
      /\ servers' = [servers EXCEPT ![i] = <<i, endnames[i]>>]
      /\ kvservers' = [kvservers EXCEPT ![i] = endnames[i]]
      /\ ends' = ends /\ connections' = connections /\ reliable' = reliable /\ call' = call
      /\ endnames' = endnames /\ saved' = saved
  BY Zenon DEF AddServer, Net!AddServer, doing
<1>3. /\ servers \in [Servers -> (Nat \X Nat) \cup {Nil}] /\ endnames \in [Servers -> Nat \ {0}]
      /\ kvservers \in [Servers -> Nat \cup {Nil}]
  BY <1>1, Zenon DEF TypeInv
<1>4. endnames[i] \in Nat /\ <<i, endnames[i]>> \in Nat \X Nat /\ endnames[i] # Nil
  BY <1>3, ServersPositive, HarnessAssumption, Zenon
<1>5. /\ servers' \in [Servers -> (Nat \X Nat) \cup {Nil}]
      /\ \A j \in Servers : servers'[j] = IF j = i THEN <<i, endnames[i]>> ELSE servers[j]
  BY <1>2, <1>3, <1>4, Zenon
<1>6. /\ kvservers' \in [Servers -> Nat \cup {Nil}]
      /\ \A j \in Servers : kvservers'[j] = IF j = i THEN endnames[i] ELSE kvservers[j]
  BY <1>2, <1>3, <1>4, Zenon
<1>7. \A j \in Servers : step' # doing("AddServer", j) /\ step' # doing("Copy", j)
  BY <1>2 DEF idle, doing
<1>8. TypeInv'
  BY <1>1, <1>2, <1>5, <1>6, Zenon DEF TypeInv
<1>9. CallsInv'
  <2>1. \A j \in Servers : endnames[j] \in Nat /\ endnames[j] <= endnames[j]
    BY <1>3
  <2>2. harmless(servers', endnames', saved', step')
    BY <1>2, <1>5, <1>7, <2>1, Zenon DEF harmless
  <2> QED BY <1>1, <1>2, <2>2, HarmlessStep, Zenon
<1>10. saved[i].owner = <<i, endnames[i]>>
  BY <1>1, <1>2, Zenon DEF OwnersInv, owned
<1>11. OwnersInv'
  <2>1. ASSUME NEW j \in Servers PROVE owned(j, servers', endnames', kvservers', saved', step')
    <3>1. owned(j, servers, endnames, kvservers, saved, step)
      BY <1>1, Zenon DEF OwnersInv
    <3>2. CASE j = i
      BY <1>2, <1>4, <1>5, <1>6, <1>7, <1>10, <3>2, Zenon DEF owned
    <3>3. CASE j # i
      BY <1>2, <1>5, <1>6, <1>7, <3>1, <3>3, Zenon DEF owned
    <3> QED BY <3>2, <3>3, Zenon
  <2> QED BY <2>1, Zenon DEF OwnersInv
<1> QED BY <1>8, <1>9, <1>11, Zenon DEF HarnessInv

-----------------------------------------------------------------------------
\* A step of a call leaves the servers and their persisters alone.
LEMMA NetworkStep == ASSUME HarnessInv, Network PROVE HarnessInv'
<1>1. UNCHANGED harnessVars
  BY Zenon DEF Network
<1>2. endnames' = endnames /\ kvservers' = kvservers /\ saved' = saved /\ step' = step
  BY <1>1 DEF harnessVars
<1>3. TypeInv /\ CallsInv /\ OwnersInv
  BY Zenon DEF HarnessInv
<1>4. ends \subseteq AllEnds /\ connections \in [AllEnds -> Servers \cup {Nil}]
  BY <1>3, Zenon DEF TypeInv
<1>5. CASE Net!StopListening
  <2>1. UNCHANGED <<ends, connections, servers, reliable, call>>
    BY <1>5, Zenon DEF Net!StopListening, Net!netVars
  <2> QED BY <1>2, <1>4, <2>1, LinkStep, Zenon
<1>6. ASSUME NEW c \in Calls,
             Net!processReq(c) \/ \E ck \in Clerks, j \in Servers : Net!Call(c, end(0, ck, j))
      PROVE  HarnessInv'
  <2>1. \A ck \in Clerks, j \in Servers : end(0, ck, j) \in AllEnds
    BY DEF AllEnds, endsOf
  <2>2. Net!processReq(c) \/ \E e \in AllEnds : Net!Call(c, e)
    BY <1>6, <2>1, Zenon
  <2>3. /\ CallsInv' /\ call' \in [Calls -> callRecord]
        /\ UNCHANGED <<ends, connections, servers, reliable>>
    BY <1>1, <2>2, CallStep, Zenon
  <2>4. TypeInv'
    BY <1>2, <1>3, <2>3, Zenon DEF TypeInv
  <2>5. OwnersInv'
    BY <1>2, <1>3, <2>3, Zenon DEF OwnersInv
  <2> QED BY <2>3, <2>4, <2>5, Zenon DEF HarnessInv
<1> QED BY <1>5, <1>6, Zenon DEF Network

LEMMA HarnessInvariant == HarnessInv /\ [Next]_vars => HarnessInv'
<1> SUFFICES ASSUME HarnessInv, [Next]_vars PROVE HarnessInv'
  BY Zenon
<1>0. /\ TypeInv /\ ends \subseteq AllEnds /\ connections \in [AllEnds -> Servers \cup {Nil}]
  BY Zenon DEF HarnessInv, TypeInv
<1> DEFINE kept == UNCHANGED <<servers, reliable, call, endnames, kvservers, saved, step>>
<1>1. ASSUME kept, UNCHANGED <<ends, connections>> PROVE HarnessInv'
  BY <1>0, <1>1, LinkStep, Zenon
<1>2. ASSUME NEW l \in Servers, partition(l) PROVE HarnessInv'
  <2>1. kept /\ UNCHANGED <<ends, connections>>
    BY <1>2, Zenon DEF partition
  <2> QED BY <1>1, <2>1
<1>3. CASE ConnectAll
  <2>1. kept /\ UNCHANGED <<ends, connections>>
    BY <1>3, Zenon DEF ConnectAll
  <2> QED BY <1>1, <2>1
<1>4. ASSUME NEW ck \in Clerks, NEW S, makeClient(ck, S) PROVE HarnessInv'
  <2>1. /\ kept /\ ends' = ends \cup endsOf(0, ck)
        /\ connections' = [e \in AllEnds |-> IF e \in endsOf(0, ck) THEN e[3] ELSE connections[e]]
    BY <1>4, Zenon DEF makeClient
  <2>2. endsOf(0, ck) \subseteq AllEnds
    BY DEF AllEnds
  <2>3. ends' \subseteq AllEnds /\ connections' \in [AllEnds -> Servers \cup {Nil}]
    BY <1>0, <2>1, <2>2, EndsMade, Zenon
  <2> QED BY <2>1, <2>3, LinkStep
<1>5. ASSUME NEW ck, NEW S, ConnectClient(ck, S) \/ DisconnectClient(ck, S) PROVE HarnessInv'
  <2>1. kept /\ UNCHANGED <<ends, connections>>
    BY <1>5, Zenon DEF ConnectClient, DisconnectClient, harnessVars
  <2> QED BY <1>1, <2>1, Zenon
<1>6. ASSUME NEW i \in Servers, ShutdownServer(i) PROVE HarnessInv'
  <2>1. /\ UNCHANGED <<servers, reliable, call, endnames, kvservers, saved, ends, connections>>
        /\ step' = doing("DeleteServer", i)
    BY <1>6, Zenon DEF ShutdownServer, doing
  <2>2. \A j \in Servers : step' # doing("AddServer", j) /\ step' # doing("Copy", j)
    BY <2>1, Zenon DEF doing
  <2> QED BY <1>0, <2>1, <2>2, LinkStep, Zenon
<1>7. CASE cleanup
  <2>1. kept /\ UNCHANGED <<ends, connections>>
    BY <1>7, Zenon DEF cleanup, Net!Cleanup, Net!netVars, harnessVars
  <2> QED BY <1>1, <2>1, Zenon
<1>8. CASE UNCHANGED vars
  <2>1. kept /\ UNCHANGED <<ends, connections>>
    BY <1>8 DEF vars, rpcVars, harnessVars
  <2> QED BY <1>1, <2>1, Zenon
<1>9. CASE Next
  BY <1>2, <1>3, <1>4, <1>5, <1>6, <1>7, <1>9, DeleteStep, CopyStep, StartStep, AddStep,
       HandlerStep, NetworkStep, Zenon DEF Next
<1> QED BY <1>8, <1>9

\* A call that returned true was executed by an instance whose persister, copied
\* through every ShutdownServer and StartServer since, still holds its effect:
\* for any number of servers, clerks, calls, restarts and partitions.
THEOREM ToldIsKept == Spec => []RepliesKept
<1>1. HarnessInv => RepliesKept
  BY Zenon DEF HarnessInv, CallsInv, fate, RepliesKept
<1> QED BY <1>1, HarnessInit, HarnessInvariant, PTL DEF Spec
=============================================================================
