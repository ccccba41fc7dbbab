----------------------------- MODULE RaftPieces -----------------------------
(***************************************************************************)
(* Pieces of logs, as log matching is argued with them, and the facts about *)
(* the operators of RaftLog the argument uses.  RaftLogProofs proves each  *)
(* of the facts, for logs of any length.                                    *)
(***************************************************************************)
EXTENDS RaftLog

(* Pieces of logs: the entries e of the indices lo to hi.  Of the entry at   *)
(* lo only the term counts: a call names it as PrevLogTerm.                  *)

span(f) == f.lo .. f.hi

\* An entry of which only the term is known.
labelled(t, n) == [Command |-> Nil, Term |-> t, Index |-> n]

logPiece(l) ==
    [lo |-> l.Index0, hi |-> LastLog(l).Index,
     e |-> [n \in l.Index0 .. LastLog(l).Index |-> at(l, n)]]

\* The entries e of a call, after an index p that the caller had in term t.
entriesPiece(p, t, e) ==
    [lo |-> p, hi |-> p + Len(e),
     e |-> [n \in p .. p + Len(e) |-> IF n = p THEN labelled(t, n) ELSE e[n - p]]]

IsPiece(f) == /\ f.lo \in Nat /\ f.hi \in Nat
              /\ \A n \in span(f) : f.e[n].Term \in Nat

\* Where the terms of two pieces agree, the pieces agree from there down.
Match(f, g) ==
    \A n \in span(f) \cap span(g) : f.e[n].Term = g.e[n].Term =>
        \A k \in span(f) \cap span(g) : k <= n =>
            /\ f.e[k].Term = g.e[k].Term
            /\ k > f.lo /\ k > g.lo => f.e[k] = g.e[k]

\* A term that f has at a and g at b fills g from a to b.
OneRun(f, g) ==
    \A a \in span(f), b \in span(g) : a <= b /\ f.e[a].Term = g.e[b].Term =>
        \A k \in span(g) : a <= k /\ k <= b => g.e[k].Term = f.e[a].Term

Agree(f, g) == Match(f, g) /\ OneRun(f, g)

\* Terms never fall along a piece, and only the sentinel has term 0.
Rising(f) ==
    /\ \A a, b \in span(f) : a <= b => f.e[a].Term <= f.e[b].Term
    /\ \A n \in span(f) : f.e[n].Term = 0 <=> n = 0

Sound(f) == IsPiece(f) /\ Rising(f)

\* f is cut out of g.
PartOf(f, g) ==
    /\ f.lo \in Nat /\ f.hi \in Nat /\ g.lo <= f.lo /\ f.hi <= g.hi
    /\ \A n \in span(f) : /\ f.e[n].Term = g.e[n].Term
                          /\ n > f.lo => f.e[n] = g.e[n]

\* f is the piece of a call of the entries e after the index p of term t.
holdsEntries(f, p, t, e) ==
    /\ IsPiece(f) /\ f.lo = p /\ f.hi = p + Len(e) /\ f.lo <= f.hi
    /\ span(f) = p .. p + Len(e)
    /\ f.e[p].Term = t
    /\ \A k \in 1 .. Len(e) : f.e[p + k] = e[k]

(* The logs of leaders: L[u] is the piece of the log that the leader of term *)
(* u has, or last had, for the terms u in DOMAIN L.                          *)

\* A piece that begins with the sentinel of makeEmptyLog.
rooted(f) == f.lo = 0 /\ f.hi \in Nat /\ f.e[0] = labelled(0, 0)

\* The same entries up to b.
SameUpTo(f, g, b) == b <= f.hi /\ b <= g.hi /\ \A k \in 0 .. b : f.e[k] = g.e[k]

\* Up to an entry of term T, g is what the leader of T wrote.
writtenIn(L, g) ==
    \A b \in 1 .. g.hi : g.e[b].Term \in DOMAIN L /\ SameUpTo(g, L[g.e[b].Term], b)

\* L has grown to M.
Grows(L, M) ==
    \A u \in DOMAIN L : /\ u \in DOMAIN M /\ rooted(L[u]) /\ rooted(M[u])
                        /\ SameUpTo(L[u], M[u], L[u].hi)
-----------------------------------------------------------------------------
(* Facts about logs                                                          *)

\* A bounded set of naturals that is not empty has a greatest element: Max.
MaxFact ==
    \A S \in SUBSET Nat, b \in Nat : S # {} /\ (\A x \in S : x <= b) =>
        Max(S) \in S /\ \A y \in S : y <= Max(S)

\* makeEmptyLog: the log a peer starts with is well formed.
EmptyFact == EmptyLog \in Log /\ Indexed(EmptyLog)

\* at returns the entry with the index asked for.
AtFact ==
    \A l \in Log : Indexed(l) =>
        \A n \in Indices(l) : at(l, n) \in Entry /\ at(l, n).Index = n

\* LastLog is the entry at the last index of the log.
LastLogFact ==
    \A l \in Log : Indexed(l) =>
        /\ LastLog(l) \in Entry
        /\ LastLog(l).Index = LogLen(l) - 1
        /\ LogLen(l) \in Nat /\ LastLog(l).Index \in Nat /\ l.Index0 \in Nat
        /\ l.Index0 <= LastLog(l).Index
        /\ LastLog(l).Index \in Indices(l)

\* What a leader sends is cut out of its log.
TailFact ==
    \A l \in Log : Indexed(l) =>
        \A n \in l.Index0 + 1 .. LastLog(l).Index + 1 :
            LET f == entriesPiece(n - 1, at(l, n - 1).Term, LogTail(l, n))
            IN  PartOf(f, logPiece(l)) /\ f.hi = LastLog(l).Index

\* The whole log, as a piece.
LogPieceFact ==
    \A l \in Log : Indexed(l) =>
        /\ IsPiece(logPiece(l)) /\ span(logPiece(l)) = Indices(l)
        /\ logPiece(l).lo = l.Index0 /\ logPiece(l).hi = LastLog(l).Index
        /\ l.Index0 <= LastLog(l).Index
        /\ \A n \in Indices(l) : logPiece(l).e[n] = at(l, n) /\ at(l, n) \in Entry

\* The entries of a call, as a piece.
EntriesFact ==
    \A p, t \in Nat, e \in Seq(Entry) : holdsEntries(entriesPiece(p, t, e), p, t, e)

\* Start: the log with an entry after it.
startedFrom(l, x) ==
    LET a == append(l, <<x>>)
        w == logPiece(a)
        f == logPiece(l)
    IN  /\ a \in Log /\ Indexed(a) /\ IsPiece(w) /\ a.Index0 = l.Index0
        /\ w.lo = f.lo /\ w.hi = f.hi + 1 /\ f.lo <= f.hi
        /\ \A n \in span(f) : w.e[n] = f.e[n]
        /\ w.e[w.hi] = x

StartFact ==
    \A l \in Log, x \in Entry : Indexed(l) /\ x.Index = LastLog(l).Index + 1 =>
        startedFrom(l, x)

\* The entries e of a call may come after prev in l.
mergeable(l, e, prev) ==
    /\ Indexed(l) /\ prev \in l.Index0 .. LastLog(l).Index
    /\ e \in Seq(Entry) /\ Follows(prev, e)

\* The loop of AppendEntries leaves the log well formed, also between the
\* truncation and the append, and the truncation only cuts.
MergeFact ==
    \A l \in Log : \A e, prev : mergeable(l, e, prev) =>
        /\ cutBack(l, e) \in Log /\ Indexed(cutBack(l, e))
        /\ merge(l, e) \in Log /\ Indexed(merge(l, e))
        /\ cutBack(l, e).Index0 = l.Index0 /\ merge(l, e).Index0 = l.Index0
        /\ PartOf(logPiece(cutBack(l, e)), logPiece(l))

\* What that loop makes of a log, entry by entry: nothing if the log has all of
\* e already; else the log up to the first entry it lacks (number q of e), and
\* the rest of e after that.  Up to there the terms agree.
alreadyHas(l, e, prev, q) ==
    \A k \in 1 .. q : prev + k <= LastLog(l).Index /\ at(l, prev + k).Term = e[k].Term

mergedAt(l, e, prev, q) ==
    /\ alreadyHas(l, e, prev, q - 1) /\ prev + q - 1 <= LastLog(l).Index
    /\ prev + q > LastLog(l).Index \/ at(l, prev + q).Term # e[q].Term
    /\ LastLog(merge(l, e)).Index = prev + Len(e)
    /\ LastLog(cutBack(l, e)).Index = prev + q - 1
    /\ \A k \in l.Index0 .. prev + q - 1 :
         at(merge(l, e), k) = at(l, k) /\ at(cutBack(l, e), k) = at(l, k)
    /\ \A k \in q .. Len(e) : at(merge(l, e), prev + k) = e[k]

MergeAtFact ==
    \A l \in Log : \A e, prev : mergeable(l, e, prev) =>
        \/ merge(l, e) = l /\ cutBack(l, e) = l /\ alreadyHas(l, e, prev, Len(e))
        \/ \E q \in 1 .. Len(e) : mergedAt(l, e, prev, q)

\* w is f up to the first index of m, and m above it.
joined(w, f, m) ==
    /\ w.lo = f.lo /\ w.hi = m.hi
    /\ \A k \in span(f) : k <= m.lo => w.e[k] = f.e[k]
    /\ \A k \in span(m) : k > m.lo => w.e[k] = m.e[k]

\* AppendEntries: where the merged log is not the old one, it is the old log
\* up to prev joined to the entries of the call.
MergePieceFact ==
    \A l \in Log : \A e, prev : mergeable(l, e, prev) =>
        \A t \in Nat :
            /\ at(l, prev).Term = t /\ Match(logPiece(l), entriesPiece(prev, t, e))
            /\ merge(l, e) # l
            => /\ joined(logPiece(merge(l, e)), logPiece(l), entriesPiece(prev, t, e))
               /\ prev + Len(e) >= 1

-----------------------------------------------------------------------------
(* Facts about pieces                                                        *)

\* Cutting keeps pieces sound, and in agreement.
CutFact ==
    \A f, g : IsPiece(g) /\ PartOf(f, g) =>
        /\ span(f) \subseteq span(g) /\ IsPiece(f)
        /\ Sound(g) => Sound(f)
        /\ \A f1, g1 : IsPiece(g1) /\ PartOf(f1, g1) /\ Agree(g, g1) => Agree(f, f1)

\* A sound piece agrees with itself.
SelfFact == \A f : Sound(f) => Agree(f, f)

\* Start: w is f with an entry of term t after it.  If every entry of term t
\* is in f already, w agrees with whatever f agreed with.
extendsBy(w, f, t) ==
    /\ w.lo = f.lo /\ w.hi = f.hi + 1 /\ f.lo <= f.hi /\ w.e[w.hi].Term = t
    /\ \A n \in span(f) : w.e[n] = f.e[n] /\ f.e[n].Term <= t

ExtendFact ==
    \A t \in Nat : \A f, w, h :
        /\ Sound(f) /\ Sound(h) /\ Agree(f, h) /\ Agree(h, f) /\ extendsBy(w, f, t)
        /\ \A n \in span(h) : h.e[n].Term = t => n \in span(f) /\ f.e[n].Term = t
        => Agree(w, h) /\ Agree(h, w)

\* AppendEntries: l and m joined where their terms agree agree with whatever
\* both agreed with.
JoinFact ==
    \A l, m, w, h :
        /\ Sound(l) /\ Sound(m) /\ Sound(h)
        /\ Agree(l, h) /\ Agree(h, l) /\ Agree(m, h) /\ Agree(h, m)
        /\ m.lo \in span(l) /\ m.lo <= m.hi /\ l.e[m.lo].Term = m.e[m.lo].Term
        /\ joined(w, l, m)
        => Agree(w, h) /\ Agree(h, w)

\* Having the same entries is an equivalence.
SameFact ==
    /\ \A f, g, b : SameUpTo(f, g, b) => SameUpTo(g, f, b)
    /\ \A f, g, h, b : SameUpTo(f, g, b) /\ SameUpTo(g, h, b) => SameUpTo(f, h, b)
    /\ \A f, g : f.hi \in Nat /\ g.hi \in Nat =>
         \A b, c \in Nat : SameUpTo(f, g, b) /\ c <= b => SameUpTo(f, g, c)

\* Two pieces that leaders have written, and that have the same term at an index.
SameTermFact ==
    \A L, f, g : rooted(f) /\ rooted(g) /\ writtenIn(L, f) /\ writtenIn(L, g) =>
        \A b \in Nat : b <= f.hi /\ b <= g.hi /\ f.e[b].Term = g.e[b].Term =>
            SameUpTo(f, g, b)

\* What was written, and what was sent, stays so as the logs of leaders grow.
GrowFact ==
    \A L, M : Grows(L, M) =>
        /\ \A g : g.hi \in Nat /\ writtenIn(L, g) => writtenIn(M, g)
        /\ \A u \in DOMAIN L : \A f : PartOf(f, L[u]) => PartOf(f, M[u])

\* AppendEntries, given entries of the leader of u where they fit: the log then
\* has the leader's entries up to the last of them, and loses none that it had,
\* even between the truncation and the append.
storesFrom(l, e, prev, L, u) ==
    LET w == logPiece(merge(l, e))
        c == logPiece(cutBack(l, e))
    IN  /\ SameUpTo(w, L[u], prev + Len(e)) /\ writtenIn(L, w) /\ writtenIn(L, c)
        /\ \A x \in Nat : SameUpTo(logPiece(l), L[u], x) =>
             SameUpTo(w, L[u], x) /\ SameUpTo(c, L[u], x)

StoreFact ==
    \A l \in Log : \A e, prev : mergeable(l, e, prev) =>
        \A L : \A u \in DOMAIN L :
            /\ rooted(logPiece(l)) /\ rooted(L[u])
            /\ PartOf(entriesPiece(prev, at(l, prev).Term, e), L[u])
            /\ writtenIn(L, logPiece(l)) /\ writtenIn(L, L[u])
            => storesFrom(l, e, prev, L, u)

LogFacts ==
    /\ MaxFact /\ EmptyFact /\ AtFact /\ LastLogFact /\ TailFact /\ LogPieceFact
    /\ EntriesFact /\ StartFact /\ MergeFact /\ MergeAtFact /\ MergePieceFact
    /\ CutFact /\ SelfFact /\ ExtendFact /\ JoinFact
    /\ SameFact /\ SameTermFact /\ GrowFact /\ StoreFact
=============================================================================
