------------------------- MODULE RaftMatchingProofs -------------------------
(***************************************************************************)
(* Log matching, for any number of peers, terms, entries and calls.  The   *)
(* argument: every log, every call of AppendEntries in flight and every    *)
(* conflict hint on its way back is a piece of a log; pieces that share a  *)
(* term at an index agree below it (Agree).  Sending cuts pieces out of a   *)
(* log and AppendEntries joins two at an index where their terms agree;    *)
(* both keep Agree.  Start adds an entry of the leader's term, and nobody   *)
(* else has that entry's index with that term, because a leader holds all  *)
(* there is of its term (LeaderHasTerm) and a term that has entries was     *)
(* won by a peer that will not stand for it again (Begun).                  *)
(***************************************************************************)
EXTENDS RaftInvariants, TLAPS

\* The length of a sequence.
LEMMA SeqLen == ASSUME NEW S, NEW s \in Seq(S) PROVE Len(s) \in Nat
OBVIOUS

(* The pieces of logs there are.                                            *)

\* A conflict hint: the follower had term XTerm at PrevLogIndex.
hintPiece(r) == entriesPiece(r.args.PrevLogIndex, r.XTerm, <<>>)

hints == {r \in appendReplies : r.Conflict /\ r.XTerm # -1}

pieces == {logPiece(log[i]) : i \in Server} \cup {callPiece(m) : m \in appendCalls}
          \cup {hintPiece(r) : r \in hints}

(* The invariant.                                                            *)

\* No log has lost the sentinel makeEmptyLog put at index 0.
Bootstrapped == \A i \in Server : log[i].Index0 = 0 /\ at(log[i], 0) = labelled(0, 0)

PiecesAgree == \A f, g \in pieces : Agree(f, g)

PiecesSound == \A f \in pieces : Sound(f)

\* A term that occurs in a piece has had its leader.
TermsBegun == \A f \in pieces : \A n \in span(f) : n # 0 => Begun(f.e[n].Term)

\* Nobody stands in term 0.
CandidateTerm == \A i \in Server : state[i] # "Follower" => currentTerm[i] >= 1

\* No entry is of a later term than the peer that has it, or the call.
TermsBounded ==
    /\ \A i \in Server : \A n \in Indices(log[i]) : at(log[i], n).Term <= currentTerm[i]
    /\ \A m \in appendCalls : \A n \in span(callPiece(m)) : callPiece(m).e[n].Term <= m.Term

\* Calls come from the peer that won their term, and go to others.
CallsFromWinner ==
    \A m \in appendCalls : /\ Won(m.Term, m.LeaderId) /\ Past(m.Term, m.LeaderId)
                           /\ m.peer # m.LeaderId

\* A leader has all there is of its term.
LeaderHasTerm ==
    \A i \in Server : state[i] = "Leader" =>
        \A f \in pieces : \A n \in span(f) : f.e[n].Term = currentTerm[i] =>
            n <= LastLog(log[i]).Index /\ at(log[i], n).Term = currentTerm[i]

MatchingInv ==
    /\ Bootstrapped /\ PiecesAgree /\ PiecesSound /\ TermsBegun /\ CandidateTerm
    /\ TermsBounded /\ CallsFromWinner /\ LeaderHasTerm

-----------------------------------------------------------------------------
(* Terms that are won stay won                                               *)

\* What a step does to terms and votes takes no victory back.
LEMMA WonStable ==
    ASSUME StorageInv, StorageInv', keepsVotes, newGrants, NEW t \in Nat, NEW c \in Server,
           Won(t, c)
    PROVE  Won(t, c)'
<1>1. PICK Q \in SUBSET Server :
        /\ voteMajority(Q)
        /\ \A v \in Q :
             /\ currentTerm[v] > t \/ (currentTerm[v] = t /\ votedFor[v] = c)
             /\ \A g \in grants : g.voter = v /\ g.term = t => g.candidate = c
  BY Zenon DEF Won
<1>2. ASSUME NEW v \in Q
      PROVE  /\ currentTerm'[v] > t \/ (currentTerm'[v] = t /\ votedFor'[v] = c)
             /\ \A g \in grants' : g.voter = v /\ g.term = t => g.candidate = c
  <2>1. v \in Server /\ currentTerm[v] \in Nat /\ currentTerm'[v] \in Nat /\ c # Nil
    BY ServerAssumption, Zenon DEF StorageInv, TypeOK
  <2>2. currentTerm'[v] > t \/ (currentTerm'[v] = t /\ votedFor'[v] = c)
    BY <1>1, <2>1 DEF keepsVotes
  <2>3. ASSUME NEW g \in grants', g.voter = v, g.term = t PROVE g.candidate = c
    <3>1. CASE g \in grants
      BY <1>1, <2>3, <3>1, Zenon
    <3>2. CASE currentTerm'[g.voter] = g.term /\ votedFor'[g.voter] = g.candidate
      BY <2>1, <2>2, <2>3, <3>2
    <3> QED BY <3>1, <3>2, Zenon DEF newGrants
  <2> QED BY <2>2, <2>3, Zenon
<1>3. voteMajority(Q)'
  BY <1>1, Zenon DEF voteMajority
<1> QED BY <1>2, <1>3, Zenon DEF Won

\* Nor does it start a candidacy in a term that is past.
LEMMA PastStable ==
    ASSUME StorageInv, StorageInv', keepsVotes, rolesStep, NEW t \in Nat, NEW c \in Server,
           Past(t, c)
    PROVE  Past(t, c)'
<1>1. currentTerm[c] \in Nat /\ currentTerm'[c] \in Nat
  BY Zenon DEF StorageInv, TypeOK
<1> QED BY <1>1 DEF keepsVotes, rolesStep, Past

\* Terms that have begun have begun for good.
LEMMA BegunStable ==
    ASSUME StorageInv, StorageInv', keepsVotes, newGrants, rolesStep, NEW t \in Nat, Begun(t)
    PROVE  Begun(t)'
BY WonStable, PastStable, Zenon DEF Begun

-----------------------------------------------------------------------------
(* What every step has to show                                               *)

\* Every piece after the step is cut out of one of W.
piecesFrom(W) == \A f \in pieces' : \E g \in W : PartOf(f, g)

\* The leader j has just appended an entry of its term at n.
justStarted(j, t, n) == /\ state[j] = "Leader" /\ currentTerm[j] = t
                        /\ n = LastLog(log'[j]).Index /\ at(log'[j], n).Term = t

\* A term at an index was there before the step, or is what a leader starts.
termsFrom ==
    \A f \in pieces' : \A n \in span(f) :
        \/ \E g \in pieces : n \in span(g) /\ g.e[n].Term = f.e[n].Term
        \/ \E j \in Server : justStarted(j, f.e[n].Term, n)

\* The log of a leader only grows.
leadersKeep ==
    \A i \in Server : state'[i] = "Leader" =>
        /\ LastLog(log'[i]).Index >= LastLog(log[i]).Index
        /\ \A n \in Indices(log[i]) : at(log'[i], n) = at(log[i], n)

\* A call was in flight before the step, or is what a leader sends.
callsFrom ==
    \A m \in appendCalls' :
        \/ \E m0 \in appendCalls : /\ m.Term = m0.Term /\ m.LeaderId = m0.LeaderId
                                   /\ m.peer = m0.peer
        \/ /\ state'[m.LeaderId] = "Leader" /\ m.Term = currentTerm'[m.LeaderId]
           /\ m.LeaderId \in Server /\ m.peer # m.LeaderId

\* The steps so described keep the invariant.
LEMMA MatchingKept ==
    ASSUME LogFacts, StorageInv, StorageInv', Winners, Winners', MatchingInv,
           keepsVotes, newGrants, rolesStep,
           NEW W, \A f, g \in W : Agree(f, g), \A f \in W : Sound(f), piecesFrom(W),
           termsFrom, leadersKeep, callsFrom, Bootstrapped', TermsBounded'
    PROVE  MatchingInv'
<1>1. PiecesAgree'
  <2>1. ASSUME NEW f \in pieces', NEW g \in pieces' PROVE Agree(f, g)
    <3>1. PICK f0 \in W : PartOf(f, f0)
      BY Zenon DEF piecesFrom
    <3>2. PICK g0 \in W : PartOf(g, g0)
      BY Zenon DEF piecesFrom
    <3>3. Agree(f0, g0) /\ IsPiece(f0) /\ IsPiece(g0)
      BY Zenon DEF Sound
    <3> QED BY <3>1, <3>2, <3>3, Zenon DEF LogFacts, CutFact
  <2> QED BY <2>1, Zenon DEF PiecesAgree
<1>2. PiecesSound'
  <2>1. ASSUME NEW f \in pieces' PROVE Sound(f)
    <3>1. PICK g \in W : PartOf(f, g)
      BY Zenon DEF piecesFrom
    <3>2. Sound(g) /\ IsPiece(g)
      BY <3>1, Zenon DEF Sound
    <3> QED BY <3>1, <3>2, Zenon DEF LogFacts, CutFact
  <2> QED BY <2>1, Zenon DEF PiecesSound
<1>3. CandidateTerm'
  <2>1. ASSUME NEW i \in Server, state'[i] # "Follower" PROVE currentTerm'[i] >= 1
    <3>1. currentTerm[i] \in Nat /\ currentTerm'[i] \in Nat
          /\ state'[i] \in {"Follower", "Candidate", "Leader"}
      BY Zenon DEF StorageInv, TypeOK, Roles
    <3> QED BY <2>1, <3>1 DEF rolesStep, MatchingInv, CandidateTerm
  <2> QED BY <2>1, Zenon DEF CandidateTerm
<1>4. LeaderUnique' /\ LeadersWon'
  BY Zenon DEF Winners
<1>5. \A j \in Server : state[j] = "Leader" => Begun(currentTerm[j])
  BY Zenon DEF Winners, LeadersWon, Begun
<1>6. \A g \in pieces : \A n \in span(g) : g.e[n].Term \in Nat /\ n \in Nat
                                           /\ (g.e[n].Term = 0 <=> n = 0)
  BY DEF MatchingInv, PiecesSound, Sound, IsPiece, Rising, span
<1>7. TermsBegun'
  <2>1. ASSUME NEW f \in pieces', NEW n \in span(f), n # 0 PROVE Begun(f.e[n].Term)'
    <3>1. CASE \E g \in pieces : n \in span(g) /\ g.e[n].Term = f.e[n].Term
      <4>1. PICK g \in pieces : n \in span(g) /\ g.e[n].Term = f.e[n].Term
        BY <3>1, Zenon
      <4>2. f.e[n].Term \in Nat /\ Begun(f.e[n].Term)
        BY <1>6, <2>1, <4>1, Zenon DEF MatchingInv, TermsBegun
      <4> QED BY <4>2, BegunStable, Zenon
    <3>2. CASE \E j \in Server : justStarted(j, f.e[n].Term, n)
      <4>1. PICK j \in Server : state[j] = "Leader" /\ currentTerm[j] = f.e[n].Term
        BY <3>2, Zenon DEF justStarted
      <4>2. f.e[n].Term \in Nat /\ Begun(f.e[n].Term)
        BY <1>5, <4>1, Zenon DEF StorageInv, TypeOK
      <4> QED BY <4>2, BegunStable, Zenon
    <3> QED BY <3>1, <3>2, Zenon DEF termsFrom
  <2> QED BY <2>1, Zenon DEF TermsBegun
<1>8. CallsFromWinner'
  <2>1. ASSUME NEW m \in appendCalls'
        PROVE  Won(m.Term, m.LeaderId)' /\ Past(m.Term, m.LeaderId)' /\ m.peer # m.LeaderId
    <3>1. CASE \E m0 \in appendCalls : /\ m.Term = m0.Term /\ m.LeaderId = m0.LeaderId
                                       /\ m.peer = m0.peer
      <4>1. /\ m.Term \in Nat /\ m.LeaderId \in Server /\ m.peer # m.LeaderId
            /\ Won(m.Term, m.LeaderId) /\ Past(m.Term, m.LeaderId)
        <5>1. PICK m0 \in appendCalls : /\ m.Term = m0.Term /\ m.LeaderId = m0.LeaderId
                                        /\ m.peer = m0.peer
          BY <3>1, Zenon
        <5>2. m0.Term \in Nat /\ m0.LeaderId \in Server
          BY Zenon DEF StorageInv, TypeOK, AppendEntriesArgs
        <5> QED BY <5>1, <5>2, Zenon DEF MatchingInv, CallsFromWinner
      <4> QED BY <4>1, WonStable, PastStable, Zenon
    <3>2. CASE /\ state'[m.LeaderId] = "Leader" /\ m.Term = currentTerm'[m.LeaderId]
               /\ m.LeaderId \in Server /\ m.peer # m.LeaderId
      BY <1>4, <3>2 DEF LeadersWon, Won, Past
    <3> QED BY <3>1, <3>2, Zenon DEF callsFrom
  <2> QED BY <2>1, Zenon DEF CallsFromWinner
<1>9. LeaderHasTerm'
  <2>1. ASSUME NEW i \in Server, state'[i] = "Leader", NEW f \in pieces', NEW n \in span(f),
               f.e[n].Term = currentTerm'[i]
        PROVE  n <= LastLog(log'[i]).Index /\ at(log'[i], n).Term = currentTerm'[i]
    <3> DEFINE t == currentTerm[i]
    <3>1. /\ currentTerm'[i] = t /\ t \in Nat /\ t >= 1
          /\ state[i] = "Leader" \/ state[i] = "Candidate"
      BY <2>1, Zenon DEF rolesStep, MatchingInv, CandidateTerm, StorageInv, TypeOK
    <3>2. ASSUME NEW c \in Server, Won(t, c) PROVE i = c
      <4>1. Won(t, c)'
        BY <3>1, <3>2, WonStable, Zenon
      <4> QED BY <1>4, <2>1, <4>1, <3>1, Zenon DEF LeaderUnique, Won
    <3>3. CASE \E g \in pieces : n \in span(g) /\ g.e[n].Term = f.e[n].Term
      <4>1. PICK g \in pieces : n \in span(g) /\ g.e[n].Term = t
        BY <2>1, <3>1, <3>3, Zenon
      <4>2. CASE state[i] = "Leader"
        <5>1. n <= LastLog(log[i]).Index /\ at(log[i], n).Term = t /\ n \in Nat
          BY <1>6, <4>1, <4>2, Zenon DEF MatchingInv, LeaderHasTerm
        <5>2. /\ log[i] \in Log /\ Indexed(log[i]) /\ log[i].Index0 = 0
              /\ log'[i] \in Log /\ Indexed(log'[i])
          BY Zenon DEF MatchingInv, Bootstrapped, StorageInv, TypeOK, LogsIndexed
        <5>3. n \in Indices(log[i]) /\ LastLog(log[i]).Index \in Nat
              /\ LastLog(log'[i]).Index \in Nat
          BY <5>1, <5>2 DEF LogFacts, LastLogFact, Indices
        <5> QED BY <2>1, <3>1, <5>1, <5>3, SMTT(30) DEF leadersKeep
      <4>3. CASE state[i] = "Candidate"
        <5>1. Begun(t)
          BY <1>6, <3>1, <4>1 DEF MatchingInv, TermsBegun
        <5>2. Past(t, i)
          BY <3>2, <5>1, Zenon DEF Begun
        <5> QED BY <3>1, <4>3, <5>2 DEF Past
      <4> QED BY <3>1, <4>2, <4>3, Zenon
    <3>4. CASE \E j \in Server : justStarted(j, f.e[n].Term, n)
      <4>1. PICK j \in Server : justStarted(j, t, n)
        BY <2>1, <3>1, <3>4, Zenon
      <4>2. Won(t, j) /\ state[j] = "Leader"
        BY <4>1, Zenon DEF justStarted, Winners, LeadersWon
      <4>3. i = j
        BY <3>2, <4>2, Zenon
      <4>4. n = LastLog(log'[i]).Index /\ at(log'[i], n).Term = t
        BY <4>1, <4>3, Zenon DEF justStarted
      <4>5. LastLog(log'[i]).Index \in Nat
        BY Zenon DEF LogFacts, LastLogFact, StorageInv, TypeOK, LogsIndexed
      <4> QED BY <3>1, <4>4, <4>5
    <3> QED BY <3>3, <3>4, Zenon DEF termsFrom
  <2> QED BY <2>1, Zenon DEF LeaderHasTerm
<1> QED BY <1>1, <1>2, <1>3, <1>7, <1>8, <1>9, Zenon DEF MatchingInv

-----------------------------------------------------------------------------
(* Steps that only cut                                                       *)

\* What a call in flight holds, and the log of its receiver.
LEMMA CallType ==
    ASSUME StorageInv, NEW args \in appendCalls
    PROVE  /\ args \in AppendEntriesArgs /\ args.peer \in Server /\ args.Term \in Nat
           /\ args.PrevLogIndex \in Nat /\ args.Entries \in Seq(Entry)
           /\ Follows(args.PrevLogIndex, args.Entries)
           /\ log[args.peer] \in Log /\ Indexed(log[args.peer])
           /\ currentTerm[args.peer] \in Nat
BY Zenon DEF StorageInv, TypeOK, LogsIndexed, AppendEntriesArgs

\* Membership in pieces, by kind.
LEMMA PiecesDef ==
    /\ \A i \in Server : logPiece(log[i]) \in pieces
    /\ \A m \in appendCalls : callPiece(m) \in pieces
    /\ \A r \in hints : hintPiece(r) \in pieces
BY Zenon DEF pieces

\* The same after the step, the other way round.
LEMMA PiecesDefPrime ==
    \A f \in pieces' : \/ \E i \in Server : f = logPiece(log'[i])
                       \/ \E m \in appendCalls' : f = callPiece(m)
                       \/ \E r \in hints' : f = hintPiece(r)
BY Zenon DEF pieces

\* What the parts of the invariant say of one log.
LEMMA LogSound ==
    ASSUME LogFacts, StorageInv, MatchingInv, NEW i \in Server
    PROVE  /\ log[i] \in Log /\ Indexed(log[i]) /\ log[i].Index0 = 0
           /\ LastLog(log[i]).Index \in Nat /\ Indices(log[i]) = 0 .. LastLog(log[i]).Index
           /\ Sound(logPiece(log[i])) /\ span(logPiece(log[i])) = Indices(log[i])
           /\ logPiece(log[i]).lo = 0 /\ logPiece(log[i]).hi = LastLog(log[i]).Index
           /\ \A n \in Indices(log[i]) : /\ logPiece(log[i]).e[n] = at(log[i], n)
                                         /\ at(log[i], n).Term \in Nat
                                         /\ at(log[i], n).Term <= currentTerm[i]
<1>1. log[i] \in Log /\ Indexed(log[i]) /\ log[i].Index0 = 0
  BY Zenon DEF StorageInv, TypeOK, LogsIndexed, MatchingInv, Bootstrapped
<1>2. LastLog(log[i]).Index \in Nat /\ Indices(log[i]) = 0 .. LastLog(log[i]).Index
  BY <1>1, Zenon DEF LogFacts, LastLogFact, Indices
<1>3. Sound(logPiece(log[i]))
  BY PiecesDef, Zenon DEF MatchingInv, PiecesSound
<1>4. /\ span(logPiece(log[i])) = Indices(log[i])
      /\ logPiece(log[i]).lo = 0 /\ logPiece(log[i]).hi = LastLog(log[i]).Index
      /\ \A n \in Indices(log[i]) : /\ logPiece(log[i]).e[n] = at(log[i], n)
                                    /\ at(log[i], n).Term \in Nat
  BY <1>1, Zenon DEF LogFacts, LogPieceFact, Entry
<1> QED BY <1>1, <1>2, <1>3, <1>4, Zenon DEF MatchingInv, TermsBounded

\* A piece is a part of itself.
LEMMA PartOfItself == ASSUME NEW f, IsPiece(f) PROVE PartOf(f, f)
BY DEF IsPiece, PartOf

\* m was in flight already; a crash may have closed it.
twin(m) == \E m0 \in appendCalls : /\ m.Term = m0.Term /\ m.LeaderId = m0.LeaderId
                                   /\ m.peer = m0.peer /\ callPiece(m) = callPiece(m0)
                                   /\ m.LeaderCommit = m0.LeaderCommit

\* m is what a leader sends in this step.
sent(m) == /\ m.LeaderId \in Server /\ state'[m.LeaderId] = "Leader"
           /\ m.Term = currentTerm'[m.LeaderId] /\ m.peer # m.LeaderId
           /\ PartOf(callPiece(m), logPiece(log'[m.LeaderId]))
           /\ callPiece(m).hi = LastLog(log'[m.LeaderId]).Index
           /\ m.LeaderCommit = commitIndex[m.LeaderId]

\* Leaders keep their entries, and calls are old or cut out of a leader's log.
orderly == leadersKeep /\ \A m \in appendCalls' : twin(m) \/ sent(m)

\* Nothing is added to any log.
cutStep ==
    /\ \A i \in Server : /\ PartOf(logPiece(log'[i]), logPiece(log[i]))
                         /\ log'[i].Index0 = 0 /\ at(log'[i], 0) = at(log[i], 0)
                         /\ state'[i] = "Leader" => log'[i] = log[i]
    /\ \A m \in appendCalls' : twin(m) \/ sent(m)
    /\ \A r \in hints' : r \in hints \/ \E i \in Server : PartOf(hintPiece(r), logPiece(log[i]))

\* Parts of parts are parts.
LEMMA PartOfPart ==
    ASSUME LogFacts, NEW f, NEW g, NEW h, IsPiece(h), PartOf(f, g), PartOf(g, h)
    PROVE  PartOf(f, h)
<1>1. IsPiece(g) /\ IsPiece(f) /\ span(f) \subseteq span(g)
  BY Zenon DEF LogFacts, CutFact
<1>2. /\ f.lo \in Nat /\ f.hi \in Nat /\ g.lo \in Nat /\ g.hi \in Nat
      /\ h.lo \in Nat /\ h.hi \in Nat
      /\ g.lo <= f.lo /\ f.hi <= g.hi /\ h.lo <= g.lo /\ g.hi <= h.hi
  BY <1>1, Zenon DEF IsPiece, PartOf
<1>3. \A n \in span(f) : n \in Int /\ (n > f.lo => n > g.lo)
  BY <1>2 DEF span
<1>4. h.lo <= f.lo /\ f.hi <= h.hi
  BY <1>2
<1> QED BY <1>1, <1>2, <1>3, <1>4, Zenon DEF PartOf

\* No entry of a call is of a later term than the call, when calls are old or
\* cut out of a log that has no later term than its peer.
LEMMA CallsBounded ==
    ASSUME LogFacts, StorageInv', MatchingInv, NEW m \in appendCalls', twin(m) \/ sent(m),
           \A i \in Server : \A n \in Indices(log'[i]) : at(log'[i], n).Term <= currentTerm'[i],
           NEW n \in span(callPiece(m))
    PROVE  callPiece(m).e[n].Term <= m.Term
<1>1. CASE twin(m)
  BY <1>1, Zenon DEF twin, MatchingInv, TermsBounded
<1>2. CASE sent(m)
  <2> DEFINE i == m.LeaderId
             l == log'[i]
  <2>1. /\ i \in Server /\ m.Term = currentTerm'[i] /\ PartOf(callPiece(m), logPiece(l))
    BY <1>2, Zenon DEF sent
  <2>2. l \in Log /\ Indexed(l)
    BY <2>1, Zenon DEF StorageInv, TypeOK, LogsIndexed
  <2>3. /\ IsPiece(logPiece(l)) /\ span(logPiece(l)) = Indices(l)
        /\ \A k \in Indices(l) : logPiece(l).e[k] = at(l, k)
    BY <2>2, Zenon DEF LogFacts, LogPieceFact
  <2> HIDE DEF l
  <2>4. n \in Indices(l) /\ callPiece(m).e[n].Term = at(l, n).Term
    BY <2>1, <2>3 DEF LogFacts, CutFact, PartOf
  <2> QED BY <2>1, <2>4, Zenon DEF l
<1> QED BY <1>1, <1>2, Zenon

\* A step that only cuts keeps the invariant.
LEMMA CutStep ==
    ASSUME LogFacts, StorageInv, StorageInv', MatchingInv, keepsVotes, cutStep
    PROVE  /\ piecesFrom(pieces) /\ termsFrom /\ leadersKeep /\ callsFrom
           /\ Bootstrapped' /\ TermsBounded'
<1>1. \A g \in pieces : IsPiece(g)
  BY Zenon DEF MatchingInv, PiecesSound, Sound
<1>2. piecesFrom(pieces)
  <2>1. ASSUME NEW f \in pieces' PROVE \E g \in pieces : PartOf(f, g)
    <3>1. CASE \E i \in Server : f = logPiece(log'[i])
      BY <3>1, PiecesDef, Zenon DEF cutStep
    <3>2. CASE \E m \in appendCalls' : f = callPiece(m)
      <4>1. PICK m \in appendCalls' : f = callPiece(m)
        BY <3>2, Zenon
      <4>2. CASE twin(m)
        BY <1>1, <4>1, <4>2, PiecesDef, PartOfItself, Zenon DEF twin
      <4>3. CASE sent(m)
        <5>1. /\ m.LeaderId \in Server /\ PartOf(f, logPiece(log'[m.LeaderId]))
              /\ PartOf(logPiece(log'[m.LeaderId]), logPiece(log[m.LeaderId]))
          BY <4>1, <4>3, Zenon DEF sent, cutStep
        <5>2. logPiece(log[m.LeaderId]) \in pieces
          BY <5>1, PiecesDef, Zenon
        <5> QED BY <1>1, <5>1, <5>2, PartOfPart, Zenon
      <4> QED BY <4>2, <4>3, Zenon DEF cutStep
    <3>3. CASE \E r \in hints' : f = hintPiece(r)
      BY <1>1, <3>3, PiecesDef, PartOfItself, Zenon DEF cutStep
    <3> QED BY <3>1, <3>2, <3>3, PiecesDefPrime, Zenon
  <2> QED BY <2>1, Zenon DEF piecesFrom
<1>3. termsFrom
  <2>1. ASSUME NEW f \in pieces', NEW n \in span(f)
        PROVE  \E g \in pieces : n \in span(g) /\ g.e[n].Term = f.e[n].Term
    <3>1. PICK g \in pieces : PartOf(f, g)
      BY <1>2, Zenon DEF piecesFrom
    <3>2. n \in span(g) /\ g.e[n].Term = f.e[n].Term
      BY <1>1, <3>1, Zenon DEF LogFacts, CutFact, PartOf
    <3> QED BY <3>2, Zenon
  <2> QED BY <2>1, Zenon DEF termsFrom
<1>4. leadersKeep
  BY LogSound, SMTT(60) DEF cutStep, leadersKeep
<1>5. callsFrom
  BY Zenon DEF cutStep, callsFrom, twin, sent
<1>6. Bootstrapped'
  BY Zenon DEF Bootstrapped, cutStep, MatchingInv
<1>7. ASSUME NEW i \in Server, NEW n \in Indices(log'[i])
      PROVE  at(log'[i], n).Term <= currentTerm'[i]
  <2>1. log'[i] \in Log /\ Indexed(log'[i]) /\ currentTerm[i] \in Nat /\ currentTerm'[i] \in Nat
    BY Zenon DEF StorageInv, TypeOK, LogsIndexed
  <2>2. /\ span(logPiece(log'[i])) = Indices(log'[i])
        /\ logPiece(log'[i]).e[n] = at(log'[i], n)
    BY <2>1, Zenon DEF LogFacts, LogPieceFact
  <2>3. /\ PartOf(logPiece(log'[i]), logPiece(log[i])) /\ IsPiece(logPiece(log[i]))
        /\ span(logPiece(log[i])) = Indices(log[i])
    BY LogSound, Zenon DEF cutStep, Sound
  <2>4. n \in Indices(log[i]) /\ at(log'[i], n).Term = logPiece(log[i]).e[n].Term
    BY <2>2, <2>3, SMTT(30) DEF LogFacts, CutFact, PartOf
  <2>5. /\ logPiece(log[i]).e[n].Term <= currentTerm[i] /\ logPiece(log[i]).e[n].Term \in Nat
    BY <2>4, LogSound, Zenon
  <2>6. currentTerm[i] <= currentTerm'[i]
    BY <2>1, Zenon DEF keepsVotes
  <2> QED BY <2>1, <2>4, <2>5, <2>6
<1>8. \A m \in appendCalls' : \A n \in span(callPiece(m)) : callPiece(m).e[n].Term <= m.Term
  BY <1>7, CallsBounded, Zenon DEF cutStep
<1>9. TermsBounded'
  BY <1>7, <1>8, Zenon DEF TermsBounded
<1> QED BY <1>2, <1>3, <1>4, <1>5, <1>6, <1>9, Zenon

\* Steps that leave the logs alone.
LEMMA SameLogsCut ==
    ASSUME LogFacts, StorageInv, MatchingInv, log' = log, \A m \in appendCalls' : twin(m) \/ sent(m),
           \A r \in hints' : r \in hints \/ \E i \in Server : PartOf(hintPiece(r), logPiece(log[i]))
    PROVE  cutStep
BY LogSound, PartOfItself, Zenon DEF cutStep, Sound

\* Steps that leave the logs alone, send nothing and report no conflict.
LEMMA QuietCut ==
    ASSUME LogFacts, StorageInv, MatchingInv, log' = log, appendCalls' \subseteq appendCalls,
           appendReplies' \subseteq appendReplies
    PROVE  cutStep
<1>1. \A m \in appendCalls' : twin(m)
  BY Zenon DEF twin
<1>2. hints' \subseteq hints
  BY Zenon DEF hints
<1> QED BY <1>1, <1>2, SameLogsCut, Zenon

\* AppendEntries refused: the reply carries no hint.
LEMMA RefuseEntriesCut ==
    ASSUME LogFacts, StorageInv, MatchingInv, NEW args \in appendCalls, RefuseEntries(args)
    PROVE  cutStep
<1> DEFINE r == answer(args, currentTerm[args.peer], FALSE)
<1>1. /\ log' = log /\ appendCalls' \subseteq appendCalls
      /\ appendReplies' \subseteq appendReplies \cup {r}
  BY Zenon DEF RefuseEntries, ReplyToAppend
<1>2. r.Conflict = FALSE
  BY Zenon DEF answer
<1> HIDE DEF r
<1>3. hints' \subseteq hints
  BY <1>1, <1>2, Zenon DEF hints
<1>4. \A m \in appendCalls' : twin(m)
  BY <1>1, Zenon DEF twin
<1> QED BY <1>1, <1>3, <1>4, SameLogsCut, Zenon

\* AppendEntries reports a conflict: the hint is an index and its term in the
\* follower's log.
LEMMA ReportConflictCut ==
    ASSUME LogFacts, StorageInv, MatchingInv, NEW args \in appendCalls, ReportConflict(args)
    PROVE  cutStep
<1> DEFINE i == args.peer
           l == log[i]
           n == args.PrevLogIndex
           r == conflict(args)
<1>1. /\ log' = log /\ appendCalls' \subseteq appendCalls
      /\ appendReplies' \subseteq appendReplies \cup {r}
  BY Zenon DEF ReportConflict, ReplyToAppend
<1>2. i \in Server /\ n \in Nat
  BY CallType, Zenon
<1>3. /\ r.args = args
      /\ r.XTerm = IF LastLog(l).Index < n THEN -1 ELSE at(l, n).Term
  BY Zenon DEF conflict
<1> HIDE DEF r
<1>4. ASSUME r.XTerm # -1 PROVE PartOf(hintPiece(r), logPiece(l))
  <2>1. ~(LastLog(l).Index < n) /\ r.XTerm = at(l, n).Term
    BY <1>3, <1>4, Zenon
  <2>2. /\ Sound(logPiece(l)) /\ span(logPiece(l)) = Indices(l) /\ Indices(l) = 0 .. LastLog(l).Index
        /\ LastLog(l).Index \in Nat /\ logPiece(l).lo = 0 /\ logPiece(l).hi = LastLog(l).Index
        /\ \A k \in Indices(l) : logPiece(l).e[k] = at(l, k) /\ at(l, k).Term \in Nat
    BY <1>2, LogSound, Zenon
  <2>3. n \in Indices(l)
    BY <1>2, <2>1, <2>2, SMTT(60)
  <2>4. r.XTerm \in Nat
    BY <2>1, <2>2, <2>3, Zenon
  <2> DEFINE h == entriesPiece(n, r.XTerm, <<>>)
  <2>5. h.lo = n /\ h.hi = n /\ span(h) = n .. n /\ h.e[n].Term = r.XTerm
    BY <1>2, <2>4, SMTT(30) DEF entriesPiece, span, labelled
  <2>6. hintPiece(r) = h
    BY <1>3, Zenon DEF hintPiece
  <2> HIDE DEF h, l, n
  <2>7. PartOf(h, logPiece(l))
    <3>1. h.lo \in Nat /\ h.hi \in Nat /\ 0 <= n /\ n <= LastLog(l).Index
      BY <1>2, <2>2, <2>3, <2>5, SMTT(30)
    <3>2. \A k \in span(h) : k = n
      BY <1>2, <2>5, SMTT(30)
    <3>3. h.e[n].Term = logPiece(l).e[n].Term
      BY <2>1, <2>2, <2>3, <2>5, Zenon
    <3>4. ~(n > n)
      BY <1>2
    <3> QED BY <2>2, <2>5, <3>1, <3>2, <3>3, <3>4, Zenon DEF PartOf
  <2> QED BY <2>6, <2>7, Zenon
<1>5. \A h \in hints' : h \in hints \/ \E j \in Server : PartOf(hintPiece(h), logPiece(log[j]))
  <2>1. \A h \in hints' : h \in hints \/ (h = r /\ r.XTerm # -1)
    BY <1>1, Zenon DEF hints
  <2> QED BY <1>2, <1>4, <2>1, Zenon
<1>6. \A m \in appendCalls' : twin(m)
  BY <1>1, Zenon DEF twin
<1> QED BY <1>1, <1>5, <1>6, SameLogsCut, Zenon

\* appendEntries: every call is cut out of the leader's log.
LEMMA SendCut ==
    ASSUME LogFacts, StorageInv, NEW i \in Server, NEW l \in Log, Indexed(l), log'[i] = l,
           NEW next \in [Server -> Int], NEW hb \in BOOLEAN, appendEntries(i, l, next, hb),
           state'[i] = "Leader", currentTerm'[i] = currentTerm[i]
    PROVE  \A m \in appendCalls' : m \in appendCalls \/ sent(m)
<1> DEFINE calls == {entriesFor(i, j, l, sendFrom(l, next[j])) :
                       j \in behind(i, l, next, hb) \ needSnapshot(l, next)}
<1>1. PICK new \in SUBSET calls : appendCalls' = appendCalls \cup new
  BY Zenon DEF appendEntries, Broadcast
<1>2. ASSUME NEW m \in calls PROVE sent(m)
  <2>1. PICK j \in Server : /\ j # i /\ j \notin needSnapshot(l, next)
                            /\ m = entriesFor(i, j, l, sendFrom(l, next[j]))
    BY Zenon DEF behind
  <2> DEFINE n == sendFrom(l, next[j])
  <2>2. next[j] \in Int /\ LastLog(l).Index \in Nat /\ l.Index0 \in Nat
    BY Zenon DEF LogFacts, LastLogFact
  <2>3. n \in Int /\ n <= LastLog(l).Index + 1
    BY <2>2, SMTT(60) DEF sendFrom
  <2>4. ~(n <= l.Index0)
    BY <2>1, Zenon DEF needSnapshot
  <2> HIDE DEF n
  <2>5. n \in l.Index0 + 1 .. LastLog(l).Index + 1
    BY <2>2, <2>3, <2>4, SMTT(60)
  <2>6. n - 1 \in Indices(l)
    BY <2>2, <2>5, SMTT(60) DEF LogFacts, LastLogFact, Indices
  <2>7. at(l, n - 1).Index = n - 1
    BY <2>6, Zenon DEF LogFacts, AtFact
  <2>8. /\ m.LeaderId = i /\ m.Term = currentTerm[i] /\ m.peer = j
        /\ m.PrevLogIndex = n - 1 /\ m.PrevLogTerm = at(l, n - 1).Term
        /\ m.Entries = LogTail(l, n) /\ m.LeaderCommit = commitIndex[i]
    BY <2>1, <2>7, Zenon DEF entriesFor, n
  <2>9. PartOf(callPiece(m), logPiece(l)) /\ callPiece(m).hi = LastLog(l).Index
    <3>1. PartOf(entriesPiece(n - 1, at(l, n - 1).Term, LogTail(l, n)), logPiece(l))
      BY <2>5 DEF LogFacts, TailFact
    <3>2. entriesPiece(n - 1, at(l, n - 1).Term, LogTail(l, n)).hi = LastLog(l).Index
      BY <2>5 DEF LogFacts, TailFact
    <3> QED BY <2>8, <3>1, <3>2, Zenon DEF callPiece
  <2> QED BY <2>1, <2>8, <2>9, Zenon DEF sent
<1> HIDE DEF calls
<1> QED BY <1>1, <1>2, Zenon

\* HeartBeat.
LEMMA HeartBeatCut ==
    ASSUME LogFacts, StorageInv, MatchingInv, NEW i \in Server, HeartBeat(i)
    PROVE  cutStep
<1>1. /\ log' = log /\ state'[i] = "Leader" /\ currentTerm'[i] = currentTerm[i]
      /\ appendReplies' = appendReplies /\ appendEntries(i, log[i], nextIndex[i], TRUE)
  BY Zenon DEF HeartBeat, peerVars
<1>2. log[i] \in Log /\ Indexed(log[i]) /\ nextIndex[i] \in [Server -> Int]
  BY Zenon DEF StorageInv, TypeOK, LogsIndexed
<1>3. \A m \in appendCalls' : twin(m) \/ sent(m)
  BY <1>1, <1>2, SendCut, Zenon DEF twin
<1>4. hints' = hints
  BY <1>1, Zenon DEF hints
<1> QED BY <1>1, <1>3, <1>4, SameLogsCut, Zenon

\* The first calls of a leader.
LEMMA BecomeLeaderCut ==
    ASSUME LogFacts, StorageInv, MatchingInv, NEW reply \in voteReplies, becomeLeader(reply)
    PROVE  cutStep
<1> DEFINE i == reply.args.CandidateId
           next == [j \in Server |-> LastLog(log[i]).Index + 1]
<1>0. i \in Server
  BY Zenon DEF StorageInv, TypeOK, RequestVoteReply, RequestVoteArgs
<1>1. /\ log' = log /\ appendReplies' = appendReplies
      /\ appendEntries(i, log[i], next, TRUE)
      /\ \E v, saved : SetPeer(i, "Leader", currentTerm[i], v, saved)
  BY Zenon DEF becomeLeader
<1>2. state'[i] = "Leader" /\ currentTerm'[i] = currentTerm[i]
  BY <1>0, <1>1, SMTT(30) DEF SetPeer, StorageInv, TypeOK
<1>3. log[i] \in Log /\ Indexed(log[i])
  BY <1>0, Zenon DEF StorageInv, TypeOK, LogsIndexed
<1>4. next \in [Server -> Int]
  BY <1>3, SMTT(30) DEF LogFacts, LastLogFact
<1> HIDE DEF next
<1>5. \A m \in appendCalls' : twin(m) \/ sent(m)
  BY <1>0, <1>1, <1>2, <1>3, <1>4, SendCut, Zenon DEF twin
<1>6. hints' = hints
  BY <1>1, Zenon DEF hints
<1> QED BY <1>1, <1>5, <1>6, SameLogsCut, Zenon

\* A restart closes the calls of the peer and forgets its replies.
LEMMA RestartCalls ==
    ASSUME StorageInv, NEW i, NEW saved, RestartFrom(i, saved)
    PROVE  (\A m \in appendCalls' : twin(m)) /\ hints' \subseteq hints
<1>1. /\ \A m \in appendCalls' : \E m0 \in appendCalls :
            m = [m0 EXCEPT !.open = m0.open /\ m0.LeaderId # i]
      /\ appendReplies' \subseteq appendReplies
  BY Zenon DEF RestartFrom
<1>2. ASSUME NEW m \in appendCalls' PROVE twin(m)
  <2>1. PICK m0 \in appendCalls : m = [m0 EXCEPT !.open = m0.open /\ m0.LeaderId # i]
    BY <1>1, Zenon
  <2>2. m0 \in AppendEntriesArgs
    BY Zenon DEF StorageInv, TypeOK
  <2>3. /\ m.Term = m0.Term /\ m.LeaderId = m0.LeaderId /\ m.peer = m0.peer
        /\ m.PrevLogIndex = m0.PrevLogIndex /\ m.PrevLogTerm = m0.PrevLogTerm
        /\ m.Entries = m0.Entries /\ m.LeaderCommit = m0.LeaderCommit
    BY <2>1, <2>2, Zenon DEF AppendEntriesArgs
  <2> QED BY <2>3, Zenon DEF twin, callPiece
<1>3. hints' \subseteq hints
  BY <1>1, Zenon DEF hints
<1> QED BY <1>2, <1>3, Zenon

\* A crash at a moment when the log is what was persisted.
LEMMA RestartCut ==
    ASSUME LogFacts, StorageInv, MatchingInv, NEW i \in Server, NEW t, NEW v,
           RestartFrom(i, persistData(t, v, log[i]))
    PROVE  cutStep
<1>1. log' = log
  BY Zenon DEF RestartFrom, persistData, StorageInv, TypeOK
<1> QED BY <1>1, RestartCalls, SameLogsCut, Zenon

\* A crash between the truncation and the append leaves the cut log.
LEMMA CutBackCut ==
    ASSUME LogFacts, StorageInv, MatchingInv, NEW args \in appendCalls, current(args), fits(args),
           NEW t, NEW v,
           RestartFrom(args.peer, persistData(t, v, cutBack(log[args.peer], args.Entries)))
    PROVE  cutStep
<1> DEFINE i == args.peer
           l == log[i]
           e == args.Entries
           prev == args.PrevLogIndex
           c == cutBack(l, e)
<1>1. /\ i \in Server /\ prev \in Nat /\ e \in Seq(Entry) /\ Follows(prev, e)
      /\ l \in Log /\ Indexed(l) /\ l.Index0 = 0 /\ LastLog(l).Index \in Nat
  BY CallType, LogSound, Zenon
<1>2. prev <= LastLog(l).Index
  BY Zenon DEF fits
<1>3. log' = [log EXCEPT ![i] = c] /\ state' = [state EXCEPT ![i] = "Follower"]
  BY Zenon DEF RestartFrom, persistData, SetPeer
<1>4. c.Index0 = 0
  BY <1>1, Zenon DEF cutBack, truncate
<1> HIDE DEF i, l, e, prev, c
<1>5. prev \in l.Index0 .. LastLog(l).Index
  BY <1>1, <1>2
<1>6. PartOf(logPiece(c), logPiece(l))
  BY <1>1, <1>5, Zenon DEF LogFacts, MergeFact, mergeable, c
<1>7. at(c, 0) = at(l, 0)
  <2>1. \/ c = l
        \/ \E q \in 1 .. Len(e) : \A k \in l.Index0 .. prev + q - 1 : at(c, k) = at(l, k)
    <3>1. mergeable(l, e, prev)
      BY <1>1, <1>5, Zenon DEF mergeable
    <3>2. c = l \/ \E q \in 1 .. Len(e) : mergedAt(l, e, prev, q)
      BY <1>1, <3>1, Zenon DEF LogFacts, MergeAtFact, c
    <3> QED BY <3>2, Zenon DEF mergedAt, c
  <2>2. \A q \in 1 .. Len(e) : 0 \in l.Index0 .. prev + q - 1
    BY <1>1
  <2> QED BY <2>1, <2>2, Zenon
<1>8. ASSUME NEW j \in Server
      PROVE  /\ PartOf(logPiece(log'[j]), logPiece(log[j]))
             /\ log'[j].Index0 = 0 /\ at(log'[j], 0) = at(log[j], 0)
             /\ state'[j] = "Leader" => log'[j] = log[j]
  <2>1. log \in [Server -> Log] /\ state \in [Server -> Roles]
    BY Zenon DEF StorageInv, TypeOK
  <2>2. CASE j = i
    <3>1. log'[j] = c /\ log[j] = l /\ state'[j] = "Follower"
      BY <1>3, <2>1, <2>2, Zenon DEF l
    <3> QED BY <1>4, <1>6, <1>7, <3>1, Zenon
  <2>3. CASE j # i
    <3>1. log'[j] = log[j]
      BY <1>3, <2>1, <2>3, Zenon
    <3> QED BY <3>1, LogSound, PartOfItself, Zenon DEF Sound
  <2> QED BY <2>2, <2>3, Zenon
<1>9. (\A m \in appendCalls' : twin(m)) /\ hints' \subseteq hints
  BY RestartCalls
<1> QED BY <1>8, <1>9, Zenon DEF cutStep

\* Every step cuts, but Start and AppendEntries that stores.
LEMMA CutOrAdd ==
    ASSUME LogFacts, StorageInv, MatchingInv, [Next]_vars
    PROVE  \/ cutStep
           \/ \E i \in Server, command \in Command : Start(i, command)
           \/ \E args \in appendCalls : StoreEntries(args)
<1>1. ASSUME NEW i \in Server, Timeout(i) PROVE cutStep
  BY <1>1, QuietCut, Zenon DEF Timeout, leaderElection
<1>2. ASSUME NEW i \in Server, Restart(i) PROVE cutStep
  <2>1. persister[i] = persistData(currentTerm[i], votedFor[i], log[i])
    BY Zenon DEF StorageInv, PersisterCurrent
  <2> QED BY <1>2, <2>1, RestartCut, Zenon DEF Restart
<1>3. ASSUME NEW args \in voteCalls, RequestVote(args) PROVE cutStep
  BY <1>3, QuietCut, Zenon DEF RequestVote, RefuseVote, ConsiderVote
<1>4. ASSUME NEW args \in voteCalls, CrashInVote(args) PROVE cutStep
  <2>1. args.peer \in Server /\ args.Term \in Nat
    BY Zenon DEF StorageInv, TypeOK, RequestVoteArgs
  <2>2. PICK t, v : setNewTerm(args.peer, args.Term).saved = persistData(t, v, log[args.peer])
    BY <2>1, Zenon DEF StorageInv, PersisterCurrent, setNewTerm
  <2> QED BY <1>4, <2>1, <2>2, RestartCut, Zenon DEF CrashInVote
<1>5. ASSUME NEW reply \in voteReplies, candidateRequest(reply) PROVE cutStep
  <2>1. CASE VoteDenied(reply) \/ VoteCounted(reply)
    BY <2>1, QuietCut, Zenon DEF VoteDenied, VoteCounted
  <2> QED BY <1>5, <2>1, BecomeLeaderCut, Zenon DEF candidateRequest
<1>6. ASSUME NEW args \in appendCalls, AppendEntries(args), ~StoreEntries(args) PROVE cutStep
  BY <1>6, RefuseEntriesCut, ReportConflictCut, Zenon DEF AppendEntries
<1>7. ASSUME NEW args \in appendCalls, CrashInAppend(args) PROVE cutStep
  <2> DEFINE p == follow(args.peer, args)
  <2>1. args.peer \in Server /\ p.saved = persistData(p.currentTerm, p.votedFor, log[args.peer])
    BY CallType, Zenon DEF StorageInv, PersisterCurrent, setNewTerm, follow
  <2>2. CASE RestartFrom(args.peer, p.saved)
    BY <2>1, <2>2, RestartCut, Zenon
  <2>3. CASE fits(args) /\ RestartFrom(args.peer, persistData(p.currentTerm, p.votedFor,
                             cutBack(log[args.peer], args.Entries)))
    <3>1. current(args)
      BY <1>7, Zenon DEF CrashInAppend
    <3> HIDE DEF p
    <3> QED BY <2>3, <3>1, CutBackCut, Zenon
  <2> QED BY <1>7, <2>2, <2>3, Zenon DEF CrashInAppend
<1>8. ASSUME NEW reply \in appendReplies, leaderSendEntries(reply) PROVE cutStep
  <2>1. log' = log /\ appendCalls' = appendCalls /\ appendReplies' \subseteq appendReplies
    BY <1>8, Zenon DEF leaderSendEntries, IgnoreReply
  <2> QED BY <2>1, QuietCut, Zenon
<1>9. CASE UNCHANGED vars
  BY <1>9, QuietCut, Zenon DEF vars
<1> QED BY <1>1, <1>2, <1>3, <1>4, <1>5, <1>6, <1>7, <1>8, <1>9, HeartBeatCut, Zenon DEF
       Next

-----------------------------------------------------------------------------
(* Start and AppendEntries that stores                                       *)

\* Start: the entry is the first with its term at its index, because the leader
\* has all there is of its term.
LEMMA StartMatching ==
    ASSUME LogFacts, StorageInv, StorageInv', Winners, Winners', MatchingInv,
           keepsVotes, newGrants, rolesStep,
           NEW i \in Server, NEW command \in Command, Start(i, command)
    PROVE  MatchingInv' /\ orderly
<1> DEFINE l == log[i]
           t == currentTerm[i]
           x == [Command |-> command, Term |-> t, Index |-> LastLog(l).Index + 1]
           a == append(l, <<x>>)
           f == logPiece(l)
           w == logPiece(a)
           W == pieces \cup {w}
<1>1. /\ state[i] = "Leader" /\ state' = state /\ currentTerm' = currentTerm
      /\ log' = [log EXCEPT ![i] = a] /\ appendReplies' = appendReplies
      /\ appendEntries(i, a, nextIndex[i], FALSE)
  BY Zenon DEF Start
<1>2. /\ l \in Log /\ Indexed(l) /\ l.Index0 = 0 /\ LastLog(l).Index \in Nat
      /\ Sound(f) /\ span(f) = Indices(l) /\ Indices(l) = 0 .. LastLog(l).Index
      /\ f.lo = 0 /\ f.hi = LastLog(l).Index
      /\ \A n \in Indices(l) : f.e[n] = at(l, n) /\ at(l, n).Term \in Nat /\ at(l, n).Term <= t
  BY LogSound, Zenon
<1>3. t \in Nat /\ t >= 1 /\ nextIndex[i] \in [Server -> Int]
  BY <1>1, Zenon DEF StorageInv, TypeOK, MatchingInv, CandidateTerm
<1>4. x \in Entry /\ x.Index = LastLog(l).Index + 1 /\ x.Term = t
  <2> HIDE DEF l, t
  <2> QED BY <1>2, <1>3 DEF Entry
<1> HIDE DEF x
<1>5. /\ a \in Log /\ Indexed(a) /\ IsPiece(w) /\ a.Index0 = l.Index0
      /\ w.lo = f.lo /\ w.hi = f.hi + 1 /\ f.lo <= f.hi
      /\ \A n \in span(f) : w.e[n] = f.e[n]
      /\ w.e[w.hi] = x
  BY <1>2, <1>4, Zenon DEF LogFacts, StartFact, startedFrom
<1>6. /\ LastLog(a).Index = w.hi /\ span(w) = Indices(a)
      /\ \A n \in Indices(a) : w.e[n] = at(a, n)
  BY <1>5, Zenon DEF LogFacts, LogPieceFact
<1>7. log'[i] = a /\ \A j \in Server \ {i} : log'[j] = log[j]
  BY <1>1, Zenon DEF StorageInv, TypeOK
<1>8. \A m \in appendCalls' : twin(m) \/ sent(m)
  BY <1>1, <1>3, <1>5, <1>7, SendCut, Zenon DEF twin
<1>9. hints' = hints
  BY <1>1, Zenon DEF hints
<1>10. f \in pieces /\ \A j \in Server : logPiece(log[j]) \in pieces
  BY PiecesDef, Zenon
<1>11. \A g \in pieces : \A n \in span(g) : g.e[n].Term = t => n <= f.hi /\ at(l, n).Term = t
  BY <1>1, <1>2, Zenon DEF MatchingInv, LeaderHasTerm
<1> HIDE DEF l, t, a, f, w
<1>12. w.lo = 0 /\ w.hi \in Nat /\ span(w) = 0 .. w.hi /\ w.hi = f.hi + 1 /\ f.hi \in Nat
       /\ span(f) = 0 .. f.hi
  BY <1>2, <1>5 DEF span
<1>13. \A n \in span(w) : \/ n \in span(f) /\ w.e[n].Term = f.e[n].Term /\ f.e[n].Term <= t
                                /\ f.e[n].Term \in Nat
                          \/ n = w.hi /\ w.e[n].Term = t
  <2>1. \A n \in span(w) : n \in span(f) \/ n = w.hi
    BY <1>12
  <2> QED BY <1>2, <1>4, <1>5, <2>1, Zenon
<1>14. Sound(w)
  <2>1. ASSUME NEW b \in span(w), NEW c \in span(w), b <= c PROVE w.e[b].Term <= w.e[c].Term
    <3>1. b \in Nat /\ c \in Nat /\ b <= w.hi /\ c <= w.hi
      BY <1>12
    <3>2. CASE c \in span(f)
      <4>1. b \in span(f)
        BY <1>12, <2>1, <3>1, <3>2
      <4> QED BY <1>2, <1>5, <2>1, <3>2, <4>1, Zenon DEF Sound, Rising
    <3>3. CASE c = w.hi /\ w.e[c].Term = t
      BY <1>3, <1>13, <3>3
    <3> QED BY <1>13, <3>2, <3>3, Zenon
  <2>2. ASSUME NEW n \in span(w) PROVE w.e[n].Term = 0 <=> n = 0
    <3>1. CASE n \in span(f) /\ w.e[n].Term = f.e[n].Term
      BY <1>2, <3>1, Zenon DEF Sound, Rising
    <3>2. CASE n = w.hi /\ w.e[n].Term = t
      BY <1>3, <1>12, <3>2
    <3> QED BY <1>13, <3>1, <3>2, Zenon
  <2> QED BY <1>5, <2>1, <2>2, Zenon DEF Sound, Rising
<1>15. \A g \in W : Sound(g)
  BY <1>14, Zenon DEF MatchingInv, PiecesSound
<1>16. \A g, h \in W : Agree(g, h)
  <2>1. ASSUME NEW h \in pieces PROVE Agree(w, h) /\ Agree(h, w)
    <3>1. Sound(h) /\ Agree(f, h) /\ Agree(h, f)
      BY <1>10, Zenon DEF MatchingInv, PiecesSound, PiecesAgree
    <3>2. ASSUME NEW n \in span(h), h.e[n].Term = t PROVE n \in span(f) /\ f.e[n].Term = t
      <4>1. n \in Nat
        BY <3>1 DEF Sound, IsPiece, span
      <4>2. n \in span(f)
        BY <1>11, <1>12, <3>2, <4>1
      <4> QED BY <1>2, <1>11, <3>2, <4>2, Zenon
    <3>3. \A n \in span(f) : w.e[n] = f.e[n] /\ f.e[n].Term <= t
      BY <1>2, <1>5, Zenon
    <3>4. w.e[w.hi].Term = t
      BY <1>4, <1>5, Zenon
    <3> HIDE DEF f, w, t
    <3>5. Sound(f) /\ t \in Nat /\ w.lo = f.lo /\ w.hi = f.hi + 1 /\ f.lo <= f.hi
      BY <1>2, <1>3, <1>5, Zenon
    <3> QED BY <3>1, <3>2, <3>3, <3>4, <3>5 DEF LogFacts, ExtendFact, extendsBy
  <2>2. Agree(w, w)
    BY <1>14, Zenon DEF LogFacts, SelfFact
  <2> QED BY <2>1, <2>2, Zenon DEF MatchingInv, PiecesAgree
<1>17. \A g \in W : IsPiece(g)
  BY <1>15, Zenon DEF Sound
<1>18. piecesFrom(W)
  <2>1. \A j \in Server : logPiece(log'[j]) \in W
    BY <1>7, <1>10, Zenon DEF w
  <2>2. ASSUME NEW g \in pieces' PROVE \E h \in W : PartOf(g, h)
    <3>1. CASE \E j \in Server : g = logPiece(log'[j])
      BY <1>17, <2>1, <3>1, PartOfItself, Zenon
    <3>2. CASE \E m \in appendCalls' : g = callPiece(m)
      BY <1>8, <1>17, <2>1, <3>2, PiecesDef, PartOfItself, Zenon DEF twin, sent
    <3>3. CASE \E r \in hints' : g = hintPiece(r)
      BY <1>9, <1>17, <3>3, PiecesDef, PartOfItself, Zenon
    <3> QED BY <3>1, <3>2, <3>3, PiecesDefPrime, Zenon
  <2> HIDE DEF W
  <2> QED BY <2>2, Zenon DEF piecesFrom
<1>19. termsFrom
  <2>1. ASSUME NEW g \in pieces', NEW n \in span(g)
        PROVE  \/ \E h \in pieces : n \in span(h) /\ h.e[n].Term = g.e[n].Term
               \/ \E j \in Server : justStarted(j, g.e[n].Term, n)
    <3>1. PICK h \in W : PartOf(g, h)
      BY <1>18, Zenon DEF piecesFrom
    <3>2. n \in span(h) /\ h.e[n].Term = g.e[n].Term
      BY <1>17, <3>1 DEF LogFacts, CutFact, PartOf
    <3>3. CASE h = w
      <4>1. CASE n \in span(f) /\ w.e[n].Term = f.e[n].Term
        BY <1>10, <3>2, <3>3, <4>1, Zenon
      <4>2. CASE n = w.hi /\ w.e[n].Term = t
        <5>1. at(a, n).Term = t
          BY <1>6, <3>2, <3>3, <4>2, Zenon
        <5>2. justStarted(i, t, n)
          BY <1>1, <1>6, <1>7, <4>2, <5>1, Zenon DEF justStarted, t
        <5> QED BY <3>2, <3>3, <4>2, <5>2
      <4> QED BY <1>13, <3>2, <3>3, <4>1, <4>2, Zenon
    <3> QED BY <3>1, <3>2, <3>3, Zenon
  <2> QED BY <2>1, Zenon DEF termsFrom
<1>20. \A n \in Indices(l) : at(a, n) = at(l, n)
  <2>1. Indices(l) \subseteq Indices(a)
    BY <1>2, <1>6, <1>12
  <2> QED BY <1>2, <1>5, <1>6, <2>1
<1>21. leadersKeep
  <2>1. \A j \in Server : LastLog(log[j]).Index \in Nat
    BY LogSound, Zenon
  <2>2. LastLog(a).Index >= LastLog(l).Index
    BY <1>2, <1>6, <1>12, SMTT(30)
  <2> QED BY <1>7, <1>20, <2>1, <2>2 DEF leadersKeep, l
<1>22. callsFrom
  BY <1>8, Zenon DEF callsFrom, twin, sent
<1>23. Bootstrapped'
  <2>1. at(a, 0) = at(l, 0) /\ a.Index0 = 0
    BY <1>2, <1>5, <1>20
  <2> QED BY <1>7, <2>1, Zenon DEF Bootstrapped, MatchingInv, l
<1>24. TermsBounded'
  <2>1. ASSUME NEW j \in Server, NEW n \in Indices(log'[j])
        PROVE  at(log'[j], n).Term <= currentTerm'[j]
    <3>1. CASE j # i
      BY <1>1, <1>7, <2>1, <3>1, Zenon DEF MatchingInv, TermsBounded
    <3>2. CASE j = i
      <4>1. n \in span(w) /\ at(a, n) = w.e[n]
        BY <1>6, <1>7, <2>1, <3>2, Zenon
      <4>2. at(a, n).Term <= t
        BY <1>3, <1>13, <4>1
      <4> QED BY <1>1, <1>7, <3>2, <4>2, Zenon DEF t
    <3> QED BY <3>1, <3>2, Zenon
  <2>2. \A m \in appendCalls' : \A n \in span(callPiece(m)) : callPiece(m).e[n].Term <= m.Term
    BY <1>8, <2>1, CallsBounded, Zenon
  <2> QED BY <2>1, <2>2, Zenon DEF TermsBounded
<1> HIDE DEF W
<1> QED BY <1>8, <1>15, <1>16, <1>18, <1>19, <1>21, <1>22, <1>23, <1>24, MatchingKept, Zenon
       DEF orderly

\* The peer that stores the entries of a call is in the call's term, and does
\* not lead it.
LEMMA StoreRole ==
    ASSUME StorageInv, Winners, MatchingInv, NEW args \in appendCalls, StoreEntries(args)
    PROVE  currentTerm'[args.peer] = args.Term /\ state'[args.peer] # "Leader"
<1> DEFINE i == args.peer
           q == setNewTerm(i, args.Term)
           p == follow(i, args)
<1>1. i \in Server /\ args.Term \in Nat /\ currentTerm[i] \in Nat /\ args.LeaderId \in Server
  BY CallType, Zenon DEF AppendEntriesArgs
<1>2. /\ args.Term >= currentTerm[i]
      /\ \E saved : SetPeer(i, p.state, p.currentTerm, p.votedFor, saved)
  BY Zenon DEF StoreEntries, current
<1>3. state'[i] = p.state /\ currentTerm'[i] = p.currentTerm
  <2>1. state \in [Server -> Roles] /\ currentTerm \in [Server -> Nat]
    BY Zenon DEF StorageInv, TypeOK
  <2>2. /\ state' = [state EXCEPT ![i] = p.state]
        /\ currentTerm' = [currentTerm EXCEPT ![i] = p.currentTerm]
    BY <1>2, Zenon DEF SetPeer
  <2> QED BY <1>1, <2>1, <2>2, Zenon
<1>4. /\ q.currentTerm = args.Term
      /\ q.state = "Leader" => state[i] = "Leader" /\ args.Term = currentTerm[i]
  BY <1>1, <1>2, SMTT(60) DEF setNewTerm
<1>5. q = [state |-> q.state, currentTerm |-> q.currentTerm, votedFor |-> q.votedFor,
           saved |-> q.saved]
  BY Zenon DEF setNewTerm
<1>6. p = IF q.state = "Candidate"
          THEN [q EXCEPT !.state = "Follower",
                         !.saved = persistData(q.currentTerm, q.votedFor, log[i])]
          ELSE q
  BY Zenon DEF follow
<1> HIDE DEF p, q
<1>7. p.currentTerm = args.Term /\ (p.state = "Leader" => q.state = "Leader")
  BY <1>4, <1>5, <1>6, Zenon
<1>8. ASSUME state[i] = "Leader", args.Term = currentTerm[i] PROVE FALSE
  <2>1. Won(args.Term, args.LeaderId) /\ args.peer # args.LeaderId
    BY Zenon DEF MatchingInv, CallsFromWinner
  <2>2. LeaderUnique
    BY Zenon DEF Winners
  <2> QED BY <1>1, <1>8, <2>1, <2>2, Zenon DEF LeaderUnique
<1> QED BY <1>3, <1>4, <1>7, <1>8, Zenon

\* AppendEntries that stores: where it joins the call to the log, both have the
\* same term.
LEMMA StoreMatching ==
    ASSUME LogFacts, StorageInv, StorageInv', Winners, Winners', MatchingInv,
           keepsVotes, newGrants, rolesStep,
           NEW args \in appendCalls, StoreEntries(args)
    PROVE  MatchingInv' /\ orderly
<1> DEFINE i == args.peer
           l == log[i]
           e == args.Entries
           prev == args.PrevLogIndex
           a == merge(l, e)
           f == logPiece(l)
           m == callPiece(args)
           w == logPiece(a)
           W == pieces \cup {w}
           r == answer(args, currentTerm[i], TRUE)
<1>1. /\ log' = [log EXCEPT ![i] = a] /\ current(args) /\ fits(args)
      /\ appendCalls' \subseteq appendCalls /\ appendReplies' \subseteq appendReplies \cup {r}
  BY Zenon DEF StoreEntries, ReplyToAppend
<1>2. /\ i \in Server /\ prev \in Nat /\ e \in Seq(Entry) /\ Follows(prev, e)
      /\ args.PrevLogTerm \in Nat /\ args.Term \in Nat
  BY CallType, Zenon DEF AppendEntriesArgs
<1>3. /\ l \in Log /\ Indexed(l) /\ l.Index0 = 0 /\ LastLog(l).Index \in Nat
      /\ Sound(f) /\ span(f) = Indices(l) /\ Indices(l) = 0 .. LastLog(l).Index
      /\ f.lo = 0 /\ f.hi = LastLog(l).Index
      /\ \A n \in Indices(l) : /\ f.e[n] = at(l, n) /\ at(l, n).Term \in Nat
                               /\ at(l, n).Term <= currentTerm[i]
  BY <1>2, LogSound, Zenon
<1>4. prev <= LastLog(l).Index /\ at(l, prev).Term = args.PrevLogTerm
  BY <1>1, Zenon DEF fits
<1>5. a \in Log /\ Indexed(a)
  BY <1>2, <1>3, <1>4 DEF LogFacts, MergeFact, mergeable
<1>6. hints' \subseteq hints
  <2>1. r.Conflict = FALSE
    BY Zenon DEF answer
  <2> HIDE DEF r
  <2> QED BY <1>1, <2>1, Zenon DEF hints
<1>7. log'[i] = a /\ \A j \in Server \ {i} : log'[j] = log[j]
  BY <1>1, <1>2, Zenon DEF StorageInv, TypeOK
<1>8. \A c \in appendCalls' : twin(c)
  BY <1>1, Zenon DEF twin
<1>9. f \in pieces /\ m \in pieces /\ \A j \in Server : logPiece(log[j]) \in pieces
  BY <1>2, PiecesDef, Zenon
<1>10. m = entriesPiece(prev, args.PrevLogTerm, e)
  BY Zenon DEF callPiece
<1>11. \A g, h \in pieces : Agree(g, h) /\ Sound(g) /\ Sound(h)
  BY Zenon DEF MatchingInv, PiecesAgree, PiecesSound
<1>12. \A n \in span(m) : m.e[n].Term <= args.Term
  BY Zenon DEF MatchingInv, TermsBounded
<1>13. currentTerm'[i] = args.Term /\ state'[i] # "Leader" /\ args.Term >= currentTerm[i]
  BY <1>1, StoreRole, Zenon DEF current
<1> HIDE DEF r, l, e, prev, a, m
<1>14. CASE a = l
  <2>1. log' = log
    BY <1>1, <1>14 DEF StorageInv, TypeOK, l
  <2>2. cutStep
    BY <1>6, <1>8, <2>1, SameLogsCut, Zenon
  <2> QED BY <1>8, <1>11, <2>2, CutStep, MatchingKept, Zenon DEF orderly
<1>15. CASE a # l
  <2>1. prev \in l.Index0 .. LastLog(l).Index
    BY <1>2, <1>3, <1>4
  <2>2. /\ IsPiece(m) /\ m.lo = prev /\ m.hi = prev + Len(e) /\ m.lo <= m.hi
        /\ m.e[prev].Term = args.PrevLogTerm
    <3>1. holdsEntries(m, prev, args.PrevLogTerm, e)
      BY <1>2, <1>10, Zenon DEF LogFacts, EntriesFact
    <3> QED BY <3>1, Zenon DEF holdsEntries
  <2>3. /\ w.lo = f.lo /\ w.hi = m.hi /\ m.hi >= 1
        /\ \A k \in span(f) : k <= m.lo => w.e[k] = f.e[k]
        /\ \A k \in span(m) : k > m.lo => w.e[k] = m.e[k]
    <3>1. Match(f, m)
      BY <1>9, <1>11, Zenon DEF Agree
    <3>2. mergeable(l, e, prev)
      BY <1>2, <1>3, <2>1, Zenon DEF mergeable
    <3>3. joined(w, f, m) /\ prev + Len(e) >= 1
      BY <1>2, <1>3, <1>4, <1>10, <1>15, <3>1, <3>2, Zenon DEF LogFacts, MergePieceFact, a
    <3> QED BY <2>2, <3>3, Zenon DEF joined
  <2>4. /\ IsPiece(w) /\ span(w) = Indices(a) /\ w.lo = a.Index0
        /\ \A n \in Indices(a) : w.e[n] = at(a, n)
    BY <1>5, Zenon DEF LogFacts, LogPieceFact
  <2> HIDE DEF f, w
  <2>5. /\ m.lo \in span(f) /\ f.e[m.lo].Term = m.e[m.lo].Term
    BY <1>3, <1>4, <2>1, <2>2, Zenon
  <2>6. /\ m.lo \in Nat /\ m.hi \in Nat /\ span(m) = m.lo .. m.hi
        /\ f.hi \in Nat /\ span(f) = 0 .. f.hi
        /\ w.lo = 0 /\ span(w) = 0 .. m.hi /\ m.lo <= f.hi
    BY <1>2, <1>3, <1>4, <2>2, <2>3, Zenon DEF IsPiece, span
  <2>7. \A n \in span(w) : \/ n \in span(f) /\ n <= m.lo /\ w.e[n] = f.e[n]
                           \/ n \in span(m) /\ n > m.lo /\ w.e[n] = m.e[n]
    BY <2>3, <2>6, SMTT(30)
  <2>8. Sound(f) /\ Sound(m) /\ m.lo \in span(m)
    BY <1>9, <1>11, <2>2, <2>6
  <2>9. Sound(w)
    <3>1. ASSUME NEW b \in span(w), NEW c \in span(w), b <= c PROVE w.e[b].Term <= w.e[c].Term
      <4>1. CASE c \in span(f) /\ c <= m.lo /\ w.e[c] = f.e[c]
        <5>1. b \in span(f) /\ b <= m.lo
          BY <2>6, <3>1, <4>1
        <5> QED BY <2>3, <2>8, <3>1, <4>1, <5>1, Zenon DEF Sound, Rising
      <4>2. CASE c \in span(m) /\ c > m.lo /\ w.e[c] = m.e[c]
        <5>1. m.e[m.lo].Term <= m.e[c].Term
          <6>1. m.lo <= c
            BY <2>6, <4>2, SMTT(30)
          <6> QED BY <2>8, <4>2, <6>1, Zenon DEF Sound, Rising
        <5>2. CASE b \in span(f) /\ b <= m.lo /\ w.e[b] = f.e[b]
          <6>1. f.e[b].Term <= f.e[m.lo].Term
            BY <2>5, <2>8, <5>2, Zenon DEF Sound, Rising
          <6>2. f.e[b].Term \in Nat /\ m.e[c].Term \in Nat /\ m.e[m.lo].Term \in Nat
            BY <2>8, <4>2, <5>2, Zenon DEF Sound, IsPiece
          <6> QED BY <2>5, <4>2, <5>1, <5>2, <6>1, <6>2
        <5>3. CASE b \in span(m) /\ b > m.lo /\ w.e[b] = m.e[b]
          BY <2>8, <3>1, <4>2, <5>3, Zenon DEF Sound, Rising
        <5> QED BY <2>7, <5>2, <5>3, Zenon
      <4> QED BY <2>7, <4>1, <4>2, Zenon
    <3>2. ASSUME NEW n \in span(w) PROVE w.e[n].Term = 0 <=> n = 0
      BY <2>7, <2>8, Zenon DEF Sound, Rising
    <3> QED BY <2>4, <3>1, <3>2, Zenon DEF Sound, Rising
  <2>10. \A g \in W : Sound(g) /\ IsPiece(g)
    BY <1>11, <2>9, Zenon DEF Sound
  <2>11. \A g, h \in W : Agree(g, h)
    <3>1. ASSUME NEW h \in pieces PROVE Agree(w, h) /\ Agree(h, w)
      <4>1. Sound(h) /\ Agree(f, h) /\ Agree(h, f) /\ Agree(m, h) /\ Agree(h, m)
        BY <1>9, <1>11, Zenon
      <4> QED BY <2>2, <2>3, <2>5, <2>8, <4>1, SMTT(30) DEF LogFacts, JoinFact, joined
    <3>2. Agree(w, w)
      BY <2>9, Zenon DEF LogFacts, SelfFact
    <3> QED BY <1>11, <3>1, <3>2, Zenon
  <2>12. piecesFrom(W)
    <3>1. \A j \in Server : logPiece(log'[j]) \in W
      BY <1>7, <1>9, Zenon DEF w
    <3>2. ASSUME NEW g \in pieces' PROVE g \in W
      BY <1>1, <1>6, <3>1, PiecesDef, PiecesDefPrime, Zenon
    <3> HIDE DEF W
    <3> QED BY <2>10, <3>2, PartOfItself, Zenon DEF piecesFrom
  <2>13. termsFrom
    <3>1. ASSUME NEW g \in pieces', NEW n \in span(g)
          PROVE  \E h \in pieces : n \in span(h) /\ h.e[n].Term = g.e[n].Term
      <4>1. PICK h \in W : PartOf(g, h)
        BY <2>12, Zenon DEF piecesFrom
      <4>2. n \in span(h) /\ h.e[n].Term = g.e[n].Term
        BY <2>10, <4>1, Zenon DEF LogFacts, CutFact, PartOf
      <4> QED BY <1>9, <2>7, <4>1, <4>2, Zenon
    <3> QED BY <3>1, Zenon DEF termsFrom
  <2>14. leadersKeep
    <3>1. \A j \in Server : LastLog(log[j]).Index \in Nat
      BY LogSound, Zenon
    <3> QED BY <1>7, <1>13, <3>1, SMTT(60) DEF leadersKeep
  <2>15. callsFrom
    BY <1>8, Zenon DEF callsFrom, twin
  <2>16. Bootstrapped'
    <3>1. 0 \in span(f) /\ 0 <= m.lo /\ 0 \in span(w)
      BY <2>6, SMTT(30)
    <3>2. at(a, 0) = at(l, 0) /\ a.Index0 = 0
      BY <1>3, <2>3, <2>4, <2>6, <3>1, Zenon
    <3> QED BY <1>7, <3>2, Zenon DEF Bootstrapped, MatchingInv, l
  <2>17. TermsBounded'
    <3>1. ASSUME NEW j \in Server, NEW n \in Indices(log'[j])
          PROVE  at(log'[j], n).Term <= currentTerm'[j]
      <4>0. at(log[j], n).Term \in Nat \/ n \notin Indices(log[j])
        BY LogSound, Zenon
      <4>1. currentTerm[j] \in Nat /\ currentTerm'[j] \in Nat /\ currentTerm[j] <= currentTerm'[j]
        BY Zenon DEF keepsVotes, StorageInv, TypeOK
      <4>2. CASE j # i
        BY <1>7, <3>1, <4>0, <4>1, <4>2, SMTT(60) DEF MatchingInv, TermsBounded
      <4>3. CASE j = i
        <5>1. n \in span(w) /\ at(a, n) = w.e[n]
          BY <1>7, <2>4, <3>1, <4>3, Zenon
        <5>2. at(a, n).Term <= args.Term
          BY <1>2, <1>3, <1>12, <1>13, <2>7, <4>1, <4>3, <5>1, SMTT(60)
        <5> QED BY <1>7, <1>13, <4>3, <5>2, Zenon
      <4> QED BY <4>2, <4>3, Zenon
    <3>2. \A c \in appendCalls' : \A n \in span(callPiece(c)) : callPiece(c).e[n].Term <= c.Term
      BY <1>8, <3>1, CallsBounded, Zenon
    <3> QED BY <3>1, <3>2, Zenon DEF TermsBounded
  <2> HIDE DEF W
  <2> QED BY <1>8, <2>10, <2>11, <2>12, <2>13, <2>14, <2>15, <2>16, <2>17, MatchingKept,
         Zenon DEF orderly
<1> QED BY <1>14, <1>15, Zenon

-----------------------------------------------------------------------------
(* The theorem                                                               *)

\* Make gives every peer the sentinel and nothing else.
LEMMA MatchingInit == LogFacts /\ Init => MatchingInv
<1> SUFFICES ASSUME LogFacts, Init PROVE MatchingInv
  BY Zenon
<1> DEFINE f == logPiece(EmptyLog)
<1>1. EmptyLog \in Log /\ Indexed(EmptyLog)
  BY Zenon DEF LogFacts, EmptyFact
<1>2. EmptyLog.Index0 = 0 /\ LastLog(EmptyLog) = labelled(0, 0) /\ Indices(EmptyLog) = {0}
      /\ at(EmptyLog, 0) = labelled(0, 0)
  BY DEF EmptyLog, LastLog, LogLen, at, Indices, labelled
<1>3. /\ IsPiece(f) /\ span(f) = {0} /\ f.e[0] = labelled(0, 0)
  BY <1>1, <1>2, Zenon DEF LogFacts, LogPieceFact
<1>4. Sound(f)
  <2>1. f.e[0].Term = 0
    BY <1>3 DEF labelled
  <2> QED BY <1>3, <2>1, Zenon DEF Sound, Rising
<1> HIDE DEF f
<1>5. Agree(f, f)
  BY <1>4, Zenon DEF LogFacts, SelfFact
<1>6. /\ \A i \in Server : log[i] = EmptyLog /\ state[i] = "Follower" /\ currentTerm[i] = 0
      /\ appendCalls = {} /\ hints = {}
  BY Zenon DEF Init, hints
<1>7. \A g \in pieces : g = f
  BY <1>6, Zenon DEF f, pieces
<1>8. Bootstrapped /\ PiecesAgree /\ PiecesSound /\ TermsBegun
  BY <1>2, <1>3, <1>4, <1>5, <1>6, <1>7, Zenon DEF Bootstrapped, PiecesAgree, PiecesSound,
       TermsBegun
<1>9. CandidateTerm /\ CallsFromWinner /\ LeaderHasTerm
  BY <1>6, Zenon DEF CandidateTerm, CallsFromWinner, LeaderHasTerm
<1>10. TermsBounded
  <2>1. at(EmptyLog, 0).Term = 0
    BY <1>2 DEF labelled
  <2> QED BY <1>2, <1>6, <2>1, SMTT(30) DEF TermsBounded
<1> QED BY <1>8, <1>9, <1>10, Zenon DEF MatchingInv

\* Every step keeps the invariant.
LEMMA MatchingStep ==
    ASSUME LogFacts, StorageInv, StorageInv', Winners, Winners', keepsVotes, newGrants, rolesStep,
           MatchingInv, [Next]_vars
    PROVE  MatchingInv' /\ orderly
<1>1. CASE cutStep
  <2>1. (\A f, g \in pieces : Agree(f, g)) /\ \A f \in pieces : Sound(f)
    BY Zenon DEF MatchingInv, PiecesAgree, PiecesSound
  <2> QED BY <1>1, <2>1, CutStep, MatchingKept, Zenon DEF orderly, cutStep
<1>2. CASE \E i \in Server, command \in Command : Start(i, command)
  BY <1>2, StartMatching, Zenon
<1>3. CASE \E args \in appendCalls : StoreEntries(args)
  BY <1>3, StoreMatching, Zenon
<1> QED BY <1>1, <1>2, <1>3, CutOrAdd, Zenon

\* What pieces that agree mean for two logs.
LEMMA PiecesMatch == ASSUME LogFacts, StorageInv, MatchingInv PROVE LogMatching
<1> SUFFICES ASSUME NEW i \in Server, NEW j \in Server,
                    NEW n \in Indices(log[i]) \cap Indices(log[j]),
                    NEW k \in Indices(log[i]) \cap Indices(log[j]), k <= n,
                    at(log[i], n).Term = at(log[j], n).Term
             PROVE  at(log[i], k) = at(log[j], k)
  BY SMTT(30) DEF LogMatching
<1> DEFINE f == logPiece(log[i])
           g == logPiece(log[j])
<1>1. /\ Indices(log[i]) = 0 .. LastLog(log[i]).Index /\ span(f) = Indices(log[i]) /\ f.lo = 0
      /\ f.e[n] = at(log[i], n) /\ f.e[k] = at(log[i], k) /\ LastLog(log[i]).Index \in Nat
  BY LogSound, Zenon
<1>2. span(g) = Indices(log[j]) /\ g.lo = 0 /\ g.e[n] = at(log[j], n) /\ g.e[k] = at(log[j], k)
  BY LogSound, Zenon
<1>3. Match(f, g)
  BY PiecesDef, Zenon DEF MatchingInv, PiecesAgree, Agree
<1> HIDE DEF f, g
<1>4. CASE k = 0
  BY <1>4, Zenon DEF MatchingInv, Bootstrapped
<1>5. CASE k # 0
  <2>1. k > f.lo /\ k > g.lo
    BY <1>1, <1>2, <1>5
  <2>2. n \in span(f) \cap span(g) /\ k \in span(f) \cap span(g) /\ f.e[n].Term = g.e[n].Term
    BY <1>1, <1>2, Zenon
  <2> QED BY <1>1, <1>2, <1>3, <2>1, <2>2, Zenon DEF Match
<1> QED BY <1>4, <1>5, Zenon
-----------------------------------------------------------------------------
(* Conflict hints and what a leader sends from: backing up ends, and stays   *)
(* inside the leader's log.                                                  *)

\* A leader still has, with its term, the entry before those it sent: nothing
\* it sent in its term is ahead of its log.
PrevHeld ==
    \A m \in requests :
        /\ Past(m.Term, m.LeaderId)
        /\ state[m.LeaderId] = "Leader" /\ currentTerm[m.LeaderId] = m.Term =>
             /\ m.PrevLogIndex \in Indices(log[m.LeaderId])
             /\ at(log[m.LeaderId], m.PrevLogIndex).Term = m.PrevLogTerm

\* What a conflict hint says of the follower: its log is too short, or has
\* another term at PrevLogIndex.
HintsSound ==
    \A r \in appendReplies : r.Conflict =>
        IF r.XTerm = -1
        THEN r.XLen \in 1 .. r.args.PrevLogIndex
        ELSE r.XTerm # r.args.PrevLogTerm /\ r.XIndex \in 1 .. r.args.PrevLogIndex

\* A peer with an empty log has sent nothing that anyone could have stored.
EmptyLogs ==
    \A i \in Server : LastLog(log[i]).Index = 0 =>
        /\ state[i] = "Leader" => \A j \in Server : nextIndex[i][j] <= 1
        /\ \A r \in appendReplies : r.args.LeaderId = i => matched(r) = 0
        /\ \A m \in appendCalls : m.open /\ m.LeaderId = i =>
                                    m.PrevLogIndex + Len(m.Entries) = 0

HintInv == PrevHeld /\ HintsSound /\ EmptyLogs

\* Replies are old, or answer a call in flight; a conflict is reported only to
\* a call that does not fit.
replyStep ==
    \A r \in appendReplies' :
        \/ r \in appendReplies
        \/ /\ r.args \in appendCalls /\ r.args.open
           /\ r.Conflict => current(r.args) /\ ~fits(r.args) /\ r = conflict(r.args)

\* Every step answers so.
LEMMA ReplyStep == ASSUME [Next]_vars PROVE replyStep
<1>1. ASSUME appendReplies' \subseteq appendReplies PROVE replyStep
  BY <1>1, Zenon DEF replyStep
<1>2. ASSUME NEW args \in appendCalls, NEW t, NEW b, ReplyToAppend(args, answer(args, t, b))
      PROVE  replyStep
  <2> DEFINE a == answer(args, t, b)
  <2>1. a.args = args /\ a.Conflict = FALSE
    BY Zenon DEF answer
  <2>2. \A r \in appendReplies' : r \in appendReplies \/ (r = a /\ args.open)
    BY <1>2, Zenon DEF ReplyToAppend
  <2> HIDE DEF a
  <2> QED BY <2>1, <2>2, Zenon DEF replyStep
<1>3. ASSUME NEW args \in appendCalls, ReportConflict(args) PROVE replyStep
  <2>1. conflict(args).args = args
    BY Zenon DEF conflict
  <2>2. \A r \in appendReplies' : r \in appendReplies \/ (r = conflict(args) /\ args.open)
    BY <1>3, Zenon DEF ReportConflict, ReplyToAppend
  <2>3. current(args) /\ ~fits(args)
    BY <1>3, Zenon DEF ReportConflict
  <2> QED BY <2>1, <2>2, <2>3, Zenon DEF replyStep
<1>4. ASSUME NEW args \in appendCalls, AppendEntries(args) PROVE replyStep
  BY <1>2, <1>3, <1>4, Zenon DEF AppendEntries, RefuseEntries, StoreEntries
<1>5. ASSUME NEW i, NEW saved, RestartFrom(i, saved) PROVE replyStep
  BY <1>1, <1>5, Zenon DEF RestartFrom
<1>6. ASSUME NEW i \in Server, Timeout(i) \/ HeartBeat(i) \/ Restart(i) PROVE replyStep
  BY <1>1, <1>5, <1>6, Zenon DEF Timeout, leaderElection, HeartBeat, Restart
<1>7. ASSUME NEW i \in Server, NEW command \in Command, Start(i, command) PROVE replyStep
  BY <1>1, <1>7, Zenon DEF Start
<1>8. ASSUME NEW args \in voteCalls, RequestVote(args) \/ CrashInVote(args) PROVE replyStep
  BY <1>1, <1>5, <1>8, Zenon DEF RequestVote, RefuseVote, ConsiderVote, CrashInVote
<1>9. ASSUME NEW reply \in voteReplies, candidateRequest(reply) PROVE replyStep
  BY <1>1, <1>9, Zenon DEF candidateRequest, VoteDenied, VoteCounted, becomeLeader
<1>10. ASSUME NEW args \in appendCalls, CrashInAppend(args) PROVE replyStep
  BY <1>5, <1>10, Zenon DEF CrashInAppend
<1>11. ASSUME NEW reply \in appendReplies, leaderSendEntries(reply) PROVE replyStep
  BY <1>1, <1>11, Zenon DEF leaderSendEntries
<1>12. CASE UNCHANGED vars
  BY <1>1, <1>12, Zenon DEF vars
<1> QED BY <1>4, <1>6, <1>7, <1>8, <1>9, <1>10, <1>11, <1>12, Zenon DEF Next

\* PrevHeld survives a step.
LEMMA PrevHeldStep ==
    ASSUME LogFacts, StorageInv, StorageInv', MatchingInv, MatchingInv', HintInv,
           keepsVotes, rolesStep, orderly, replyStep
    PROVE  PrevHeld'
<1>1. ASSUME NEW m, NEW m0 \in requests, m.Term = m0.Term, m.LeaderId = m0.LeaderId,
             m.PrevLogIndex = m0.PrevLogIndex, m.PrevLogTerm = m0.PrevLogTerm
      PROVE  /\ Past(m.Term, m.LeaderId)'
             /\ state'[m.LeaderId] = "Leader" /\ currentTerm'[m.LeaderId] = m.Term =>
                  /\ m.PrevLogIndex \in Indices(log'[m.LeaderId])
                  /\ at(log'[m.LeaderId], m.PrevLogIndex).Term = m.PrevLogTerm
  <2> DEFINE i == m.LeaderId
  <2>1. i \in Server /\ m.Term \in Nat /\ m.PrevLogIndex \in Nat
    BY <1>1 DEF requests, StorageInv, TypeOK, AppendEntriesArgs, AppendEntriesReply
  <2>2. Past(m.Term, i)
    BY <1>1, Zenon DEF HintInv, PrevHeld
  <2>3. Past(m.Term, i)'
    BY <2>1, <2>2, PastStable, Zenon
  <2>4. ASSUME state'[i] = "Leader", currentTerm'[i] = m.Term
        PROVE  /\ m.PrevLogIndex \in Indices(log'[i])
               /\ at(log'[i], m.PrevLogIndex).Term = m.PrevLogTerm
    <3>1. currentTerm[i] = m.Term /\ state[i] \in {"Candidate", "Leader"} /\ currentTerm[i] \in Nat
      BY <2>1, <2>4, Zenon DEF rolesStep, StorageInv, TypeOK
    <3>2. state[i] = "Leader"
      BY <2>1, <2>2, <3>1, SMTT(30) DEF Past
    <3>3. /\ m.PrevLogIndex \in Indices(log[i])
          /\ at(log[i], m.PrevLogIndex).Term = m.PrevLogTerm
      BY <1>1, <3>1, <3>2, Zenon DEF HintInv, PrevHeld
    <3>4. /\ LastLog(log'[i]).Index >= LastLog(log[i]).Index
          /\ at(log'[i], m.PrevLogIndex) = at(log[i], m.PrevLogIndex)
      BY <2>1, <2>4, <3>3, Zenon DEF orderly, leadersKeep
    <3>5. /\ Indices(log[i]) = 0 .. LastLog(log[i]).Index /\ LastLog(log[i]).Index \in Nat
      BY <2>1, LogSound, Zenon
    <3>6. /\ Indices(log'[i]) = 0 .. LastLog(log'[i]).Index /\ LastLog(log'[i]).Index \in Nat
      <4>1. log'[i] \in Log /\ Indexed(log'[i]) /\ log'[i].Index0 = 0
        BY <2>1, Zenon DEF StorageInv, TypeOK, LogsIndexed, MatchingInv, Bootstrapped
      <4> QED BY <4>1, Zenon DEF LogFacts, LastLogFact, Indices
    <3> QED BY <3>3, <3>4, <3>5, <3>6
  <2> QED BY <2>3, <2>4, Zenon
<1>2. ASSUME NEW m, sent(m), m \in appendCalls'
      PROVE  /\ Past(m.Term, m.LeaderId)'
             /\ m.PrevLogIndex \in Indices(log'[m.LeaderId])
             /\ at(log'[m.LeaderId], m.PrevLogIndex).Term = m.PrevLogTerm
  <2> DEFINE i == m.LeaderId
             l == log'[i]
             c == callPiece(m)
  <2>1. /\ i \in Server /\ state'[i] = "Leader" /\ m.Term = currentTerm'[i]
        /\ PartOf(c, logPiece(l))
    BY <1>2, Zenon DEF sent
  <2>2. Past(m.Term, i)'
    BY <2>1, Zenon DEF Past
  <2>3. l \in Log /\ Indexed(l) /\ m.PrevLogIndex \in Nat /\ m.PrevLogTerm \in Nat
        /\ m.Entries \in Seq(Entry)
    BY <1>2, <2>1, Zenon DEF StorageInv, TypeOK, LogsIndexed, AppendEntriesArgs
  <2>4. c.lo = m.PrevLogIndex /\ c.e[m.PrevLogIndex].Term = m.PrevLogTerm
        /\ m.PrevLogIndex \in span(c)
    <3>1. holdsEntries(c, m.PrevLogIndex, m.PrevLogTerm, m.Entries)
      BY <2>3, Zenon DEF LogFacts, EntriesFact, callPiece
    <3>2. Len(m.Entries) \in Nat
      BY <2>3
    <3> HIDE DEF c
    <3> QED BY <2>3, <3>1, <3>2 DEF holdsEntries
  <2>5. /\ IsPiece(logPiece(l)) /\ span(logPiece(l)) = Indices(l)
        /\ \A n \in Indices(l) : logPiece(l).e[n] = at(l, n)
    BY <2>3, Zenon DEF LogFacts, LogPieceFact
  <2> HIDE DEF l, c
  <2>6. m.PrevLogIndex \in Indices(l) /\ at(l, m.PrevLogIndex).Term = m.PrevLogTerm
    BY <2>1, <2>4, <2>5 DEF LogFacts, CutFact, PartOf
  <2> QED BY <2>2, <2>6, Zenon DEF l
<1>3. ASSUME NEW m \in appendCalls', twin(m)
      PROVE  \E m0 \in requests : /\ m.Term = m0.Term /\ m.LeaderId = m0.LeaderId
               /\ m.PrevLogIndex = m0.PrevLogIndex /\ m.PrevLogTerm = m0.PrevLogTerm
  <2>1. PICK m0 \in appendCalls : /\ m.Term = m0.Term /\ m.LeaderId = m0.LeaderId
                                  /\ callPiece(m) = callPiece(m0)
    BY <1>3, Zenon DEF twin
  <2>2. \A c \in AppendEntriesArgs : /\ callPiece(c).lo = c.PrevLogIndex
                                     /\ callPiece(c).e[c.PrevLogIndex].Term = c.PrevLogTerm
    <3>1. ASSUME NEW c \in AppendEntriesArgs
          PROVE  /\ callPiece(c).lo = c.PrevLogIndex
                 /\ callPiece(c).e[c.PrevLogIndex].Term = c.PrevLogTerm
      <4>1. c.PrevLogIndex \in Nat /\ c.PrevLogTerm \in Nat /\ c.Entries \in Seq(Entry)
        BY Zenon DEF AppendEntriesArgs
      <4>2. holdsEntries(callPiece(c), c.PrevLogIndex, c.PrevLogTerm, c.Entries)
        BY <4>1, Zenon DEF LogFacts, EntriesFact, callPiece
      <4> QED BY <4>2, Zenon DEF holdsEntries
    <3> QED BY <3>1, Zenon
  <2>3. m \in AppendEntriesArgs /\ m0 \in AppendEntriesArgs
    BY Zenon DEF StorageInv, TypeOK
  <2>4. m.PrevLogIndex = m0.PrevLogIndex /\ m.PrevLogTerm = m0.PrevLogTerm
    BY <2>1, <2>2, <2>3, Zenon
  <2> QED BY <2>1, <2>4, Zenon DEF requests
<1>4. ASSUME NEW m \in requests'
      PROVE  /\ Past(m.Term, m.LeaderId)'
             /\ state'[m.LeaderId] = "Leader" /\ currentTerm'[m.LeaderId] = m.Term =>
                  /\ m.PrevLogIndex \in Indices(log'[m.LeaderId])
                  /\ at(log'[m.LeaderId], m.PrevLogIndex).Term = m.PrevLogTerm
  <2>1. CASE m \in appendCalls'
    BY <1>1, <1>2, <1>3, <2>1, Zenon DEF orderly
  <2>2. CASE \E r \in appendReplies' : m = r.args
    <3>1. m \in requests
      BY <2>2, Zenon DEF replyStep, requests
    <3> QED BY <1>1, <3>1, Zenon
  <2> QED BY <2>1, <2>2, Zenon DEF requests
<1> QED BY <1>4, Zenon DEF PrevHeld

\* What AppendEntries reports when a call does not fit.
LEMMA ConflictSound ==
    ASSUME LogFacts, StorageInv, MatchingInv, NEW m \in appendCalls, ~fits(m)
    PROVE  LET r == conflict(m)
           IN  IF r.XTerm = -1 THEN r.XLen \in 1 .. m.PrevLogIndex
               ELSE r.XTerm # m.PrevLogTerm /\ r.XIndex \in 1 .. m.PrevLogIndex
<1> DEFINE l == log[m.peer]
           n == m.PrevLogIndex
           r == conflict(m)
           last == LastLog(l).Index
<1>1. /\ l \in Log /\ Indexed(l) /\ l.Index0 = 0 /\ last \in Nat /\ Indices(l) = 0 .. last
      /\ \A k \in Indices(l) : logPiece(l).e[k] = at(l, k) /\ at(l, k).Term \in Nat
      /\ Sound(logPiece(l)) /\ span(logPiece(l)) = Indices(l)
  BY CallType, LogSound, Zenon
<1>2. n \in Nat
  BY CallType, Zenon
<1>3. /\ r.XTerm = IF last < n THEN -1 ELSE at(l, n).Term
      /\ r.XIndex = IF last < n THEN -1 ELSE firstOfTerm(l, n)
      /\ r.XLen = LogLen(l)
  BY Zenon DEF conflict
<1>4. LogLen(l) = last + 1
  BY <1>1 DEF LogFacts, LastLogFact, LogLen, Log
<1>5. ~(last >= n /\ at(l, n).Term = m.PrevLogTerm)
  BY Zenon DEF fits
<1>6. n = 0 => m.PrevLogTerm = 0
  <2>1. Sound(callPiece(m))
    BY PiecesDef, Zenon DEF MatchingInv, PiecesSound
  <2>2. m.PrevLogTerm \in Nat /\ m.Entries \in Seq(Entry)
    BY CallType, Zenon DEF AppendEntriesArgs
  <2>3. holdsEntries(callPiece(m), n, m.PrevLogTerm, m.Entries)
    BY <1>2, <2>2, Zenon DEF LogFacts, EntriesFact, callPiece
  <2>4. n \in span(callPiece(m)) /\ callPiece(m).e[n].Term = m.PrevLogTerm
    <3>1. Len(m.Entries) \in Nat
      BY <2>2
    <3> QED BY <1>2, <2>3, <3>1 DEF holdsEntries
  <2> QED BY <2>1, <2>4, Zenon DEF Sound, Rising
<1> HIDE DEF l, n, r, last
<1>7. CASE last < n
  BY <1>1, <1>2, <1>3, <1>4, <1>7 DEF n, r
<1>8. CASE ~(last < n)
  <2>1. n \in Indices(l) /\ 0 \in Indices(l) /\ last >= n
    BY <1>1, <1>2, <1>8, SMTT(30)
  <2>2. at(l, 0).Term = 0 /\ (at(l, n).Term = 0 <=> n = 0)
    BY <1>1, <2>1 DEF Sound, Rising
  <2>3. at(l, n).Term # m.PrevLogTerm
    BY <1>5, <2>1, Zenon
  <2>4. n # 0 /\ at(l, n).Term # 0
    BY <1>6, <2>2, <2>3, Zenon
  <2> DEFINE starts == {x \in l.Index0 + 1 .. n : at(l, x - 1).Term # at(l, n).Term}
  <2>5. starts \in SUBSET Nat /\ starts # {} /\ (\A x \in starts : x <= n)
        /\ starts \subseteq 1 .. n
    <3>1. 1 \in l.Index0 + 1 .. n /\ 1 - 1 = 0
      BY <1>1, <1>2, <2>4
    <3>2. 1 \in starts
      BY <2>2, <2>4, <3>1, Zenon
    <3>3. \A x \in starts : x \in 1 .. n
      BY <1>1, <1>2
    <3> HIDE DEF starts
    <3> QED BY <1>2, <3>2, <3>3
  <2>6. firstOfTerm(l, n) = Max(starts)
    BY <2>5, Zenon DEF firstOfTerm
  <2> HIDE DEF starts
  <2>7. firstOfTerm(l, n) \in 1 .. n
    BY <1>2, <2>5, <2>6, Zenon DEF LogFacts, MaxFact
  <2>8. at(l, n).Term # -1 /\ r.XTerm = at(l, n).Term /\ r.XIndex = firstOfTerm(l, n)
    BY <1>1, <1>3, <1>8, <2>1
  <2> QED BY <2>3, <2>7, <2>8, Zenon DEF n, r
<1> QED BY <1>7, <1>8, Zenon

\* HintsSound survives a step.
LEMMA HintsSoundStep ==
    ASSUME LogFacts, StorageInv, MatchingInv, HintInv, replyStep
    PROVE  HintsSound'
<1>1. ASSUME NEW r \in appendReplies', r.Conflict
      PROVE  IF r.XTerm = -1
             THEN r.XLen \in 1 .. r.args.PrevLogIndex
             ELSE r.XTerm # r.args.PrevLogTerm /\ r.XIndex \in 1 .. r.args.PrevLogIndex
  <2>1. CASE r \in appendReplies
    BY <1>1, <2>1, Zenon DEF HintInv, HintsSound
  <2>2. CASE r.args \in appendCalls /\ ~fits(r.args) /\ r = conflict(r.args)
    <3>1. LET c == conflict(r.args)
          IN  IF c.XTerm = -1 THEN c.XLen \in 1 .. r.args.PrevLogIndex
              ELSE c.XTerm # r.args.PrevLogTerm /\ c.XIndex \in 1 .. r.args.PrevLogIndex
      BY <2>2, ConflictSound, Zenon
    <3> QED BY <2>2, <3>1, Zenon
  <2> QED BY <1>1, <2>1, <2>2, Zenon DEF replyStep
<1> QED BY <1>1, Zenon DEF HintsSound

\* Peer i had an empty log before the step, and sent nothing but from it.
keptEmpty(i) ==
    /\ LastLog(log[i]).Index = 0
    /\ state'[i] = "Leader" =>
         \A j \in Server : \/ nextIndex'[i][j] <= 1
                           \/ state[i] = "Leader" /\ nextIndex'[i][j] = nextIndex[i][j]
    /\ \A m \in appendCalls' : m.open /\ m.LeaderId = i =>
         \/ \E m0 \in appendCalls : /\ m0.open /\ m0.LeaderId = i
                                    /\ m.PrevLogIndex = m0.PrevLogIndex /\ m.Entries = m0.Entries
         \/ sent(m)

\* Peer i has just restarted.
restarted(i) ==
    /\ state'[i] # "Leader"
    /\ \A r \in appendReplies' : r.args.LeaderId # i
    /\ \A m \in appendCalls' : m.LeaderId = i => ~m.open

emptyStep == \A i \in Server : LastLog(log'[i]).Index = 0 => keptEmpty(i) \/ restarted(i)

\* EmptyLogs survives such a step.
LEMMA EmptyLogsStep ==
    ASSUME LogFacts, StorageInv, StorageInv', MatchingInv', HintInv, replyStep, emptyStep
    PROVE  EmptyLogs'
<1> SUFFICES ASSUME NEW i \in Server, LastLog(log'[i]).Index = 0
             PROVE  /\ state'[i] = "Leader" => \A j \in Server : nextIndex'[i][j] <= 1
                    /\ \A r \in appendReplies' : r.args.LeaderId = i => matched(r) = 0
                    /\ \A m \in appendCalls' : m.open /\ m.LeaderId = i =>
                                                 m.PrevLogIndex + Len(m.Entries) = 0
  BY Zenon DEF EmptyLogs, matched
<1>1. CASE restarted(i)
  BY <1>1, Zenon DEF restarted
<1>2. CASE keptEmpty(i)
  <2>1. /\ state[i] = "Leader" => \A j \in Server : nextIndex[i][j] <= 1
        /\ \A r \in appendReplies : r.args.LeaderId = i => matched(r) = 0
        /\ \A m \in appendCalls : m.open /\ m.LeaderId = i =>
                                    m.PrevLogIndex + Len(m.Entries) = 0
    BY <1>2, Zenon DEF keptEmpty, HintInv, EmptyLogs
  <2>2. state'[i] = "Leader" => \A j \in Server : nextIndex'[i][j] <= 1
    BY <1>2, <2>1, Zenon DEF keptEmpty
  <2>3. \A r \in appendReplies' : r.args.LeaderId = i => matched(r) = 0
    BY <2>1, Zenon DEF replyStep, matched
  <2>4. ASSUME NEW m \in appendCalls', m.open, m.LeaderId = i
        PROVE  m.PrevLogIndex + Len(m.Entries) = 0
    <3>1. CASE sent(m)
      <4> DEFINE l == log'[i]
                 c == callPiece(m)
      <4>1. l \in Log /\ Indexed(l) /\ m.PrevLogIndex \in Nat /\ m.PrevLogTerm \in Nat
            /\ m.Entries \in Seq(Entry)
        BY <2>4, Zenon DEF StorageInv, TypeOK, LogsIndexed, AppendEntriesArgs
      <4>0. Len(m.Entries) \in Nat
        BY <4>1
      <4>2. holdsEntries(c, m.PrevLogIndex, m.PrevLogTerm, m.Entries)
        BY <4>1, Zenon DEF LogFacts, EntriesFact, callPiece
      <4>3. PartOf(c, logPiece(l))
        BY <2>4, <3>1, Zenon DEF sent
      <4>4. logPiece(l).hi = 0
        BY <4>1, Zenon DEF LogFacts, LogPieceFact
      <4> HIDE DEF c
      <4>5. c.hi <= 0 /\ c.hi = m.PrevLogIndex + Len(m.Entries)
        BY <4>2, <4>3, <4>4, Zenon DEF PartOf, holdsEntries
      <4> QED BY <4>0, <4>1, <4>5
    <3> QED BY <1>2, <2>1, <2>4, <3>1 DEF keptEmpty
  <2> QED BY <2>2, <2>3, <2>4, Zenon
<1> QED BY <1>1, <1>2, Zenon DEF emptyStep

\* A peer with an empty log that leads on, or begins to lead.
LEMMA KeptEmpty ==
    ASSUME rolesStep, NEW i \in Server, LastLog(log[i]).Index = 0,
           state[i] = "Leader" =>
             \A j \in Server : nextIndex'[i][j] <= 1 \/ nextIndex'[i][j] = nextIndex[i][j],
           \A m \in appendCalls' : m \in appendCalls \/ sent(m)
    PROVE  keptEmpty(i)
<1>1. CASE state[i] = "Leader"
  BY <1>1, Zenon DEF keptEmpty
<1>2. CASE state[i] # "Leader"
  <2>1. state'[i] = "Leader" => \A j \in Server : nextIndex'[i][j] <= 1
    BY <1>2 DEF rolesStep
  <2> QED BY <2>1, Zenon DEF keptEmpty
<1> QED BY <1>1, <1>2, Zenon

\* A restart.
LEMMA RestartEmpty ==
    ASSUME StorageInv, NEW i \in Server, NEW saved, RestartFrom(i, saved)
    PROVE  emptyStep
<1>1. restarted(i)
  <2>1. state'[i] = "Follower"
    BY Zenon DEF RestartFrom, SetPeer, StorageInv, TypeOK
  <2>2. \A r \in appendReplies' : r.args.LeaderId # i
    BY Zenon DEF RestartFrom
  <2>3. ASSUME NEW m \in appendCalls', m.LeaderId = i PROVE ~m.open
    <3>1. PICK m0 \in appendCalls : m = [m0 EXCEPT !.open = m0.open /\ m0.LeaderId # i]
      BY DEF RestartFrom
    <3>2. m0 \in AppendEntriesArgs
      BY Zenon DEF StorageInv, TypeOK
    <3> QED BY <2>3, <3>1, <3>2, Zenon DEF AppendEntriesArgs
  <2> QED BY <2>1, <2>2, <2>3, Zenon DEF restarted
<1>2. ASSUME NEW k \in Server \ {i}, LastLog(log'[k]).Index = 0 PROVE keptEmpty(k)
  <2>1. log'[k] = log[k] /\ state'[k] = state[k] /\ nextIndex'[k] = nextIndex[k]
    BY Zenon DEF RestartFrom, SetPeer, StorageInv, TypeOK
  <2>2. ASSUME NEW m \in appendCalls', m.open, m.LeaderId = k
        PROVE  \E m0 \in appendCalls : /\ m0.open /\ m0.LeaderId = k
                 /\ m.PrevLogIndex = m0.PrevLogIndex /\ m.Entries = m0.Entries
    <3>1. PICK m0 \in appendCalls : m = [m0 EXCEPT !.open = m0.open /\ m0.LeaderId # i]
      BY DEF RestartFrom
    <3>2. m0 \in AppendEntriesArgs
      BY Zenon DEF StorageInv, TypeOK
    <3>3. /\ m.open = (m0.open /\ m0.LeaderId # i) /\ m.LeaderId = m0.LeaderId
          /\ m.PrevLogIndex = m0.PrevLogIndex /\ m.Entries = m0.Entries
      BY <3>1, <3>2, Zenon DEF AppendEntriesArgs
    <3> QED BY <2>2, <3>3, Zenon
  <2> QED BY <1>2, <2>1, <2>2, Zenon DEF keptEmpty
<1> QED BY <1>1, <1>2, Zenon DEF emptyStep

\* The handling of a reply: to a leader with an empty log nothing comes back but
\* the answers to empty calls, and those report no conflict.
LEMMA ReplyEmpty ==
    ASSUME StorageInv, HintInv, rolesStep, NEW reply \in appendReplies, leaderSendEntries(reply)
    PROVE  emptyStep
<1> DEFINE i == reply.args.LeaderId
           j == reply.args.peer
<1>1. log' = log /\ appendCalls' = appendCalls
  BY Zenon DEF leaderSendEntries, IgnoreReply
<1>2. i \in Server /\ j \in Server /\ nextIndex \in [Server -> [Server -> Int]]
      /\ reply.args.PrevLogIndex \in Nat /\ reply.args.Entries \in Seq(Entry)
  BY Zenon DEF StorageInv, TypeOK, AppendEntriesReply, AppendEntriesArgs
<1>3. ASSUME NEW k \in Server, LastLog(log[k]).Index = 0, state[k] = "Leader", NEW n \in Server
      PROVE  nextIndex'[k][n] <= 1 \/ nextIndex'[k][n] = nextIndex[k][n]
  <2>1. CASE IgnoreReply(reply)
    BY <2>1, Zenon DEF IgnoreReply, leaderVars
  <2>2. CASE k # i
    BY <1>2, <2>1, <2>2, Zenon DEF leaderSendEntries, AdvancePeer, BackUpPeer
  <2>3. CASE k = i /\ AdvancePeer(reply)
    <3>1. matched(reply) = 0 /\ nextIndex[i][j] <= 1 /\ nextIndex[i][j] \in Int
      BY <1>2, <1>3, <2>3, Zenon DEF HintInv, EmptyLogs
    <3>2. Max({nextIndex[i][j], 0 + 1}) <= 1
      BY <3>1 DEF Max
    <3>3. nextIndex' = [nextIndex EXCEPT ![i][j] = Max({nextIndex[i][j], 0 + 1})]
      BY <2>3, <3>1, Zenon DEF AdvancePeer
    <3>4. CASE n = j
      <4>1. nextIndex'[k][n] = Max({nextIndex[i][j], 0 + 1})
        BY <1>2, <2>3, <3>3, <3>4, ZenonT(60)
      <4> QED BY <3>2, <4>1, Zenon
    <3>5. CASE n # j
      BY <1>2, <3>3, <3>5, Zenon
    <3> QED BY <3>4, <3>5, Zenon
  <2>4. CASE k = i /\ BackUpPeer(reply)
    <3>1. matched(reply) = 0
      BY <1>3, <2>4, Zenon DEF HintInv, EmptyLogs
    <3>2. reply.args.PrevLogIndex = 0
      <4>1. Len(reply.args.Entries) \in Nat
        BY <1>2, SeqLen, Zenon
      <4>2. \A a, b \in Nat : a + b = 0 => a = 0
        OBVIOUS
      <4> QED BY <1>2, <3>1, <4>1, <4>2, Zenon DEF matched
    <3>3. ~reply.Conflict
      BY <3>2 DEF HintInv, HintsSound
    <3> QED BY <2>4, <3>3, Zenon DEF BackUpPeer
  <2> QED BY <2>1, <2>2, <2>3, <2>4, Zenon DEF leaderSendEntries
<1> QED BY <1>1, <1>3, KeptEmpty, Zenon DEF emptyStep

\* Every step: a log becomes empty only by a restart, and a peer with an empty
\* log has nothing to send.
LEMMA EmptyStep ==
    ASSUME LogFacts, StorageInv, StorageInv', MatchingInv, HintInv, rolesStep, orderly, [Next]_vars
    PROVE  emptyStep
<1>1. ASSUME log' = log, \A m \in appendCalls' : m \in appendCalls \/ sent(m),
             \A k \in Server : state[k] = "Leader" => nextIndex'[k] = nextIndex[k]
      PROVE  emptyStep
  BY <1>1, KeptEmpty, Zenon DEF emptyStep
<1>2. ASSUME NEW i \in Server, Timeout(i) PROVE emptyStep
  BY <1>1, <1>2, Zenon DEF Timeout, leaderElection, leaderVars
<1>3. ASSUME NEW i \in Server, HeartBeat(i) PROVE emptyStep
  <2>1. /\ state'[i] = "Leader" /\ currentTerm'[i] = currentTerm[i] /\ log' = log
        /\ nextIndex' = nextIndex /\ appendEntries(i, log[i], nextIndex[i], TRUE)
    BY <1>3, Zenon DEF HeartBeat, peerVars, leaderVars
  <2>2. log[i] \in Log /\ Indexed(log[i]) /\ nextIndex[i] \in [Server -> Int]
    BY Zenon DEF StorageInv, TypeOK, LogsIndexed
  <2>3. \A m \in appendCalls' : m \in appendCalls \/ sent(m)
    BY <2>1, <2>2, SendCut, Zenon
  <2> QED BY <1>1, <2>1, <2>3, Zenon
<1>4. ASSUME NEW i \in Server, Restart(i) PROVE emptyStep
  BY <1>4, RestartEmpty, Zenon DEF Restart
<1>5. ASSUME NEW i \in Server, NEW command \in Command, Start(i, command) PROVE emptyStep
  <2> DEFINE x == [Command |-> command, Term |-> currentTerm[i], Index |-> LastLog(log[i]).Index + 1]
             a == append(log[i], <<x>>)
  <2>1. /\ log' = [log EXCEPT ![i] = a] /\ nextIndex' = nextIndex /\ state' = state
        /\ currentTerm' = currentTerm /\ state[i] = "Leader"
        /\ appendEntries(i, a, nextIndex[i], FALSE)
    BY <1>5, Zenon DEF Start, leaderVars
  <2>2. log[i] \in Log /\ Indexed(log[i]) /\ LastLog(log[i]).Index \in Nat
        /\ nextIndex[i] \in [Server -> Int] /\ currentTerm[i] \in Nat
    BY LogSound, Zenon DEF StorageInv, TypeOK
  <2>3. x \in Entry /\ x.Index = LastLog(log[i]).Index + 1
    BY <2>2, SMTT(30) DEF Entry
  <2> HIDE DEF x
  <2>4. a \in Log /\ Indexed(a) /\ logPiece(a).hi = logPiece(log[i]).hi + 1
    BY <2>2, <2>3, Zenon DEF LogFacts, StartFact, startedFrom
  <2>5. LastLog(a).Index = LastLog(log[i]).Index + 1
    BY <2>2, <2>4, Zenon DEF LogFacts, LogPieceFact
  <2> HIDE DEF a
  <2>6. log'[i] = a /\ \A k \in Server \ {i} : log'[k] = log[k]
    BY <2>1, Zenon DEF StorageInv, TypeOK
  <2>7. \A m \in appendCalls' : m \in appendCalls \/ sent(m)
    BY <2>1, <2>2, <2>4, <2>6, SendCut, Zenon
  <2>8. LastLog(log'[i]).Index # 0
    BY <2>2, <2>5, <2>6
  <2> QED BY <2>1, <2>6, <2>7, <2>8, KeptEmpty, Zenon DEF emptyStep
<1>6. ASSUME NEW args \in voteCalls, RequestVote(args) PROVE emptyStep
  BY <1>1, <1>6, Zenon DEF RequestVote, RefuseVote, ConsiderVote, leaderVars
<1>7. ASSUME NEW args \in voteCalls, CrashInVote(args) PROVE emptyStep
  <2>1. args.peer \in Server
    BY Zenon DEF StorageInv, TypeOK, RequestVoteArgs
  <2> QED BY <1>7, <2>1, RestartEmpty, Zenon DEF CrashInVote
<1>8. ASSUME NEW reply \in voteReplies, candidateRequest(reply) PROVE emptyStep
  <2>1. CASE VoteDenied(reply) \/ VoteCounted(reply)
    BY <1>1, <2>1, Zenon DEF VoteDenied, VoteCounted, leaderVars
  <2>2. CASE becomeLeader(reply)
    <3> DEFINE i == reply.args.CandidateId
               next == [j \in Server |-> LastLog(log[i]).Index + 1]
    <3>0. i \in Server
      BY Zenon DEF StorageInv, TypeOK, RequestVoteReply, RequestVoteArgs
    <3>1. /\ log' = log /\ state[i] = "Candidate"
          /\ appendEntries(i, log[i], next, TRUE)
          /\ \E v, saved : SetPeer(i, "Leader", currentTerm[i], v, saved)
          /\ nextIndex' = [nextIndex EXCEPT ![i] = next]
      BY <2>2, Zenon DEF becomeLeader, elected
    <3>2. state'[i] = "Leader" /\ currentTerm'[i] = currentTerm[i]
      BY <3>0, <3>1 DEF SetPeer, StorageInv, TypeOK
    <3>3. log[i] \in Log /\ Indexed(log[i])
      BY <3>0, Zenon DEF StorageInv, TypeOK, LogsIndexed
    <3>4. next \in [Server -> Int]
      BY <3>3, SMTT(30) DEF LogFacts, LastLogFact
    <3> HIDE DEF next
    <3>5. \A m \in appendCalls' : m \in appendCalls \/ sent(m)
      BY <3>0, <3>1, <3>2, <3>3, <3>4, SendCut, Zenon
    <3>6. \A k \in Server : state[k] = "Leader" => nextIndex'[k] = nextIndex[k]
      BY <3>0, <3>1, Zenon DEF StorageInv, TypeOK
    <3> QED BY <1>1, <3>1, <3>5, <3>6, Zenon
  <2> QED BY <1>8, <2>1, <2>2, Zenon DEF candidateRequest
<1>9. ASSUME NEW args \in appendCalls, AppendEntries(args) PROVE emptyStep
  <2>0. nextIndex' = nextIndex /\ appendCalls' \subseteq appendCalls
    BY <1>9, Zenon DEF AppendEntries, RefuseEntries, ReportConflict, StoreEntries,
         leaderVars, ReplyToAppend
  <2>1. CASE log' = log
    BY <1>1, <2>0, <2>1, Zenon
  <2>2. CASE StoreEntries(args)
    <3> DEFINE i == args.peer
               l == log[i]
               e == args.Entries
               a == merge(l, e)
    <3>1. log' = [log EXCEPT ![i] = a] /\ current(args) /\ fits(args)
      BY <2>2, Zenon DEF StoreEntries
    <3>2. /\ i \in Server /\ l \in Log /\ Indexed(l) /\ args.PrevLogIndex \in Nat
          /\ e \in Seq(Entry) /\ Follows(args.PrevLogIndex, e)
      BY CallType, Zenon
    <3>3. l.Index0 = 0 /\ LastLog(l).Index \in Nat /\ args.PrevLogIndex <= LastLog(l).Index
      BY <3>1, <3>2, LogSound, Zenon DEF fits
    <3> HIDE DEF l, e
    <3>4. args.PrevLogIndex \in l.Index0 .. LastLog(l).Index
      BY <3>2, <3>3, SMTT(30)
    <3>5. a = l \/ \E q \in 1 .. Len(e) : LastLog(a).Index = args.PrevLogIndex + Len(e)
      BY <3>2, <3>4 DEF LogFacts, MergeAtFact, mergeable, mergedAt, alreadyHas
    <3> HIDE DEF a
    <3>6. Len(e) \in Nat
      BY <3>2
    <3>7. a = l \/ LastLog(a).Index # 0
      BY <3>2, <3>5, <3>6
    <3>8. log'[i] = a /\ log[i] = l /\ \A k \in Server \ {i} : log'[k] = log[k]
      BY <3>1, <3>2, Zenon DEF StorageInv, TypeOK, l
    <3>9. \A k \in Server : LastLog(log'[k]).Index = 0 => LastLog(log[k]).Index = 0
      BY <3>7, <3>8, Zenon
    <3> QED BY <2>0, <3>9, KeptEmpty, Zenon DEF emptyStep
  <2> QED BY <1>9, <2>1, <2>2, Zenon DEF AppendEntries, RefuseEntries, ReportConflict
<1>10. ASSUME NEW args \in appendCalls, CrashInAppend(args) PROVE emptyStep
  BY <1>10, CallType, RestartEmpty, Zenon DEF CrashInAppend
<1>11. ASSUME NEW reply \in appendReplies, leaderSendEntries(reply) PROVE emptyStep
  BY <1>11, ReplyEmpty, Zenon
<1>12. CASE UNCHANGED vars
  BY <1>1, <1>12, Zenon DEF vars
<1> HIDE DEF emptyStep
<1> QED BY <1>2, <1>3, <1>4, <1>5, <1>6, <1>7, <1>8, <1>9, <1>10, <1>11, <1>12, Zenon DEF
       Next

\* Nothing is in flight at the start.
LEMMA HintInit == Init => HintInv
BY Zenon DEF Init, HintInv, PrevHeld, HintsSound, EmptyLogs, requests

\* Every step keeps the invariant.
LEMMA HintStep ==
    ASSUME LogFacts, StorageInv, StorageInv', MatchingInv, MatchingInv', HintInv,
           keepsVotes, rolesStep, orderly, [Next]_vars
    PROVE  HintInv'
<1>1. replyStep
  BY ReplyStep, Zenon
<1>2. PrevHeld'
  BY <1>1, PrevHeldStep, Zenon
<1>3. HintsSound'
  BY <1>1, HintsSoundStep, Zenon
<1>4. EmptyLogs'
  <2>1. emptyStep
    BY EmptyStep, Zenon
  <2> QED BY <1>1, <2>1, EmptyLogsStep, Zenon
<1> QED BY <1>2, <1>3, <1>4, Zenon DEF HintInv

\* Where a leader continues after a conflict in its own term.  Its log has
\* PrevLogTerm at PrevLogIndex and the follower another term, so the leader's
\* last entry of that other term comes before.
LEMMA BackUpProgress == ASSUME LogFacts, StorageInv, MatchingInv, HintInv PROVE ConflictProgress
<1> SUFFICES ASSUME NEW r \in appendReplies, r.Conflict, state[r.args.LeaderId] = "Leader",
                    r.args.Term = currentTerm[r.args.LeaderId]
             PROVE  backUp(log[r.args.LeaderId], r) \in 1 .. r.args.PrevLogIndex
  BY Zenon DEF ConflictProgress
<1> DEFINE i == r.args.LeaderId
           l == log[i]
           p == r.args.PrevLogIndex
           n == findLastLogInTerm(l, r.XTerm)
           stops == {k \in Indices(l) \ {0} : at(l, k).Term <= r.XTerm}
<1>1. i \in Server /\ p \in Nat /\ r.args.PrevLogTerm \in Nat /\ r.XTerm \in Int
  BY Zenon DEF StorageInv, TypeOK, AppendEntriesReply, AppendEntriesArgs
<1>2. /\ IF r.XTerm = -1 THEN r.XLen \in 1 .. p
         ELSE r.XTerm # r.args.PrevLogTerm /\ r.XIndex \in 1 .. p
  BY Zenon DEF HintInv, HintsSound
<1>3. p \in Indices(l) /\ at(l, p).Term = r.args.PrevLogTerm
  BY Zenon DEF HintInv, PrevHeld, requests
<1>4. /\ Indices(l) = 0 .. LastLog(l).Index /\ LastLog(l).Index \in Nat
      /\ span(logPiece(l)) = Indices(l)
      /\ \A k \in Indices(l) : logPiece(l).e[k] = at(l, k)
  BY <1>1, LogSound, Zenon
<1>5. CASE r.XTerm = -1
  BY <1>2, <1>5, Zenon DEF backUp
<1>6. CASE r.XTerm # -1 /\ ~(n > 0)
  BY <1>2, <1>6, Zenon DEF backUp
<1>7. CASE r.XTerm # -1 /\ n > 0
  <2>1. stops # {} /\ n = Max(stops) /\ at(l, Max(stops)).Term = r.XTerm
    <3>1. ~(-1 > 0)
      OBVIOUS
    <3> QED BY <1>7, <3>1, Zenon DEF findLastLogInTerm
  <2>2. stops \in SUBSET Nat /\ \A k \in stops : k <= LastLog(l).Index
    BY <1>4, SMTT(30)
  <2> HIDE DEF stops, n
  <2>3. n \in stops
    BY <1>4, <2>1, <2>2, Zenon DEF LogFacts, MaxFact
  <2>4. n \in Indices(l) /\ at(l, n).Term = r.XTerm
    BY <2>1, <2>3, Zenon DEF stops
  <2>5. n <= p
    <3> SUFFICES ASSUME p < n PROVE FALSE
      BY <1>1, <1>4, <2>4
    <3> DEFINE h == hintPiece(r)
    <3>1. r \in hints /\ logPiece(l) \in pieces
      BY <1>1, <1>7, PiecesDef, Zenon DEF hints
    <3>2. Agree(h, logPiece(l)) /\ Sound(h)
      BY <3>1, PiecesDef, ZenonT(40) DEF MatchingInv, PiecesAgree, PiecesSound
    <3>3. p \in span(h) /\ h.e[p].Term = r.XTerm
      BY <1>1 DEF hintPiece, entriesPiece, span, labelled
    <3> HIDE DEF h, l, p
    <3>4. p <= n /\ p <= p
      <4>1. n \in 0 .. LastLog(l).Index
        BY <1>4, <2>4, Zenon
      <4> QED BY <1>1, <4>1
    <3>5. logPiece(l).e[p].Term = r.XTerm
      <4>1. logPiece(l).e[n].Term = h.e[p].Term
        BY <1>4, <2>4, <3>3, Zenon
      <4>2. n \in span(logPiece(l)) /\ p \in span(logPiece(l))
        BY <1>3, <1>4, <2>4, Zenon
      <4>3. logPiece(l).e[p].Term = h.e[p].Term
        BY <3>2, <3>3, <3>4, <4>1, <4>2, ZenonT(40) DEF Agree, OneRun
      <4> QED BY <3>3, <4>3, Zenon
    <3> QED BY <1>2, <1>3, <1>4, <1>7, <3>5, ZenonT(40)
  <2>6. n \in 1 .. p
    BY <1>1, <1>4, <1>7, <2>4, <2>5, SMTT(60)
  <2> QED BY <1>7, <2>6, Zenon DEF backUp, n
<1> QED BY <1>5, <1>6, <1>7, Zenon

\* Where a leader sends from.
LEMMA SendsFromLog == ASSUME LogFacts, StorageInv, MatchingInv, HintInv PROVE NoSnapshotYet
<1> SUFFICES ASSUME NEW i \in Server, state[i] = "Leader", NEW j \in Server
             PROVE  ~(sendFrom(log[i], nextIndex[i][j]) <= log[i].Index0)
  BY Zenon DEF NoSnapshotYet, needSnapshot
<1>1. log[i].Index0 = 0 /\ LastLog(log[i]).Index \in Nat
  BY LogSound, Zenon
<1>2. nextIndex[i][j] \in Int
  BY DEF StorageInv, TypeOK
<1>3. LastLog(log[i]).Index = 0 => nextIndex[i][j] <= 1
  BY Zenon DEF HintInv, EmptyLogs
<1> QED BY <1>1, <1>2, <1>3 DEF sendFrom
=============================================================================
