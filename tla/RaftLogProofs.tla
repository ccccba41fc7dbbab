---------------------------- MODULE RaftLogProofs ----------------------------
(***************************************************************************)
(* What the operators of RaftLog keep, for logs of any length: every entry *)
(* stays at the position its Index names, and pieces of logs that agree     *)
(* still agree once they are cut, extended or joined.                       *)
(***************************************************************************)
EXTENDS RaftPieces, TLAPS, WellFoundedInduction

(* Sequences, as Go slices are read and built.                               *)

\* An element of a slice.
LEMMA SeqElement == ASSUME NEW S, NEW s \in Seq(S), NEW k \in 1 .. Len(s) PROVE s[k] \in S
OBVIOUS

\* Only the empty slice has length 0.
LEMMA SeqEmpty ==
    ASSUME NEW S
    PROVE  /\ <<>> \in Seq(S) /\ Len(<<>>) = 0
           /\ \A s \in Seq(S) : s # <<>> => Len(s) \in Nat \ {0}
OBVIOUS

\* s[a-1:b]
LEMMA SeqPart ==
    ASSUME NEW S, NEW s, NEW a \in Int, NEW b \in Int, \A k \in a .. b : s[k] \in S
    PROVE  /\ SubSeq(s, a, b) \in Seq(S)
           /\ Len(SubSeq(s, a, b)) = IF a <= b THEN b - a + 1 ELSE 0
           /\ \A k \in 1 .. b - a + 1 : SubSeq(s, a, b)[k] = s[a + k - 1]
OBVIOUS

\* append(s, t...)
LEMMA SeqJoin ==
    ASSUME NEW S, NEW s \in Seq(S), NEW t \in Seq(S)
    PROVE  /\ s \o t \in Seq(S) /\ Len(s \o t) = Len(s) + Len(t)
           /\ \A k \in 1 .. Len(s) + Len(t) :
                (s \o t)[k] = IF k <= Len(s) THEN s[k] ELSE t[k - Len(s)]
OBVIOUS

-----------------------------------------------------------------------------
(* Least and greatest elements                                               *)

\* The order on the naturals, as the relation the library proves well-founded.
LEMMA LessThanOnNat == OpToRel(<, Nat) = {p \in Nat \X Nat : p[1] < p[2]}
BY Zenon DEF OpToRel

\* A set of naturals that is not empty has a smallest element, and Min is it.
LEMMA MinProperty ==
    ASSUME NEW S \in SUBSET Nat, S # {}
    PROVE  Min(S) \in S /\ \A y \in S : Min(S) <= y
<1> DEFINE LT == {p \in Nat \X Nat : p[1] < p[2]}
<1>1. PICK x \in S : \A y \in S : ~(<<y, x>> \in LT)
  BY NatLessThanWellFounded, WFMin, LessThanOnNat, ZenonT(40)
<1>2. ASSUME NEW y \in S PROVE x <= y
  <2>1. ~(<<y, x>> \in LT)
    BY <1>1, Zenon
  <2> QED BY <2>1
<1> QED BY <1>2, Zenon DEF Min

\* A bounded set of naturals that is not empty has a greatest element: Max.
LEMMA MaxProperty ==
    ASSUME NEW S \in SUBSET Nat, S # {}, NEW b \in Nat, \A x \in S : x <= b
    PROVE  Max(S) \in S /\ \A y \in S : y <= Max(S)
<1> DEFINE T == {b - x : x \in S}
<1>1. T \in SUBSET Nat /\ T # {}
  <2>1. ASSUME NEW x \in S PROVE b - x \in Nat
    OBVIOUS
  <2> QED BY <2>1, Zenon
<1>2. Min(T) \in T /\ \A y \in T : Min(T) <= y
  BY <1>1, MinProperty, Zenon
<1>3. PICK x \in S : Min(T) = b - x
  BY <1>2, Zenon
<1>4. ASSUME NEW y \in S PROVE y <= x
  <2>1. b - y \in T
    BY Zenon
  <2>2. Min(T) <= b - y /\ Min(T) = b - x
    BY <2>1, <1>2, <1>3, Zenon
  <2> HIDE DEF T
  <2> QED BY <2>2
<1> QED BY <1>4, Zenon DEF Max

-----------------------------------------------------------------------------
\* at returns the entry with the index asked for.
LEMMA AtProperty ==
    ASSUME NEW l \in Log, Indexed(l), NEW n \in Indices(l)
    PROVE  at(l, n) \in Entry /\ at(l, n).Index = n
<1>1. n - l.Index0 + 1 \in 1 .. Len(l.Entries)
  BY DEF Log, Indices, LogLen
<1>2. l.Entries[n - l.Index0 + 1] \in Entry
  BY <1>1, SeqElement, Zenon DEF Log
<1> QED BY <1>1, <1>2 DEF at, Indexed, Indices, Log, LogLen

\* Max of two integers, as min and max in entry.go use it.
LEMMA MaxOfTwo == \A a, b \in Int : Max({a, b}) = IF a >= b THEN a ELSE b
<1> SUFFICES ASSUME NEW a \in Int, NEW b \in Int
             PROVE  Max({a, b}) = IF a >= b THEN a ELSE b
  BY Zenon
<1> DEFINE m == IF a >= b THEN a ELSE b
<1>1. m \in {a, b} /\ \A y \in {a, b} : m >= y
  OBVIOUS
<1>2. \A x \in {a, b} : (\A y \in {a, b} : x >= y) => x = m
  OBVIOUS
<1> QED BY <1>1, <1>2, Zenon DEF Max

\* Min of two integers.
LEMMA MinOfTwo == \A a, b \in Int : Min({a, b}) = IF a <= b THEN a ELSE b
<1> SUFFICES ASSUME NEW a \in Int, NEW b \in Int
             PROVE  Min({a, b}) = IF a <= b THEN a ELSE b
  BY Zenon
<1> DEFINE m == IF a <= b THEN a ELSE b
<1>1. m \in {a, b} /\ \A y \in {a, b} : m =< y
  OBVIOUS
<1>2. \A x \in {a, b} : (\A y \in {a, b} : x =< y) => x = m
  OBVIOUS
<1> QED BY <1>1, <1>2, Zenon DEF Min

\* makeEmptyLog: the log a peer starts with is well formed.
LEMMA EmptyLogProperty == EmptyLog \in Log /\ Indexed(EmptyLog)
<1> DEFINE e == [Command |-> Nil, Term |-> 0, Index |-> 0]
<1>1. e \in Entry
  BY Zenon DEF Entry
<1>2. <<e>> \in Seq(Entry) \ {<<>>} /\ Len(<<e>>) = 1 /\ <<e>>[1] = e
  BY <1>1
<1> QED BY <1>1, <1>2 DEF EmptyLog, Log, Indexed

\* LastLog is the entry at the last index of the log.
LEMMA LastLogProperty ==
    ASSUME NEW l \in Log, Indexed(l)
    PROVE  /\ LastLog(l) \in Entry
           /\ LastLog(l).Index = LogLen(l) - 1
           /\ LogLen(l) \in Nat /\ LastLog(l).Index \in Nat /\ l.Index0 \in Nat
           /\ l.Index0 <= LastLog(l).Index
           /\ LastLog(l).Index \in Indices(l)
<1>1. Len(l.Entries) \in Nat \ {0} /\ l.Index0 \in Nat
  BY SeqEmpty, Zenon DEF Log
<1>2. LogLen(l) - 1 \in Indices(l)
  BY <1>1 DEF Indices, LogLen
<1>3. LastLog(l) \in Entry /\ LastLog(l).Index = LogLen(l) - 1
  BY <1>2, AtProperty, Zenon DEF LastLog
<1> QED BY <1>1, <1>2, <1>3 DEF LogLen

\* The sizes of a log.
LEMMA LogSize ==
    ASSUME NEW l \in Log, Indexed(l)
    PROVE  /\ l.Entries \in Seq(Entry) /\ l.Index0 \in Nat /\ Len(l.Entries) \in Nat
           /\ LastLog(l).Index = Len(l.Entries) + l.Index0 - 1
<1>1. l.Entries \in Seq(Entry) /\ l.Index0 \in Nat
  BY DEF Log
<1>2. LastLog(l).Index = LogLen(l) - 1
  BY LastLogProperty, Zenon
<1> QED BY <1>1, <1>2 DEF LogLen

\* truncate keeps a well-formed log, which then ends below idx.
LEMMA TruncateProperty ==
    ASSUME NEW l \in Log, Indexed(l), NEW idx \in l.Index0 + 1 .. LastLog(l).Index
    PROVE  /\ truncate(l, idx) \in Log
           /\ Indexed(truncate(l, idx))
           /\ LastLog(truncate(l, idx)).Index = idx - 1
           /\ truncate(l, idx).Index0 = l.Index0
<1> DEFINE m == idx - l.Index0
           s == SubSeq(l.Entries, 1, m)
           t == truncate(l, idx)
<1>1. l.Index0 \in Nat /\ l.Entries \in Seq(Entry) /\ idx \in Int
      /\ m \in 1 .. Len(l.Entries) - 1 /\ Len(l.Entries) \in Nat
  <2>1. /\ l.Entries \in Seq(Entry) /\ l.Index0 \in Nat /\ Len(l.Entries) \in Nat
        /\ LastLog(l).Index = Len(l.Entries) + l.Index0 - 1
    BY LogSize, Zenon
  <2> QED BY <2>1
<1>2. \A p \in 1 .. m : l.Entries[p] \in Entry
  <2>1. 1 .. m \subseteq 1 .. Len(l.Entries)
    BY <1>1
  <2> QED BY <1>1, <2>1, SeqElement, Zenon
<1>3. s \in Seq(Entry) /\ Len(s) = m /\ \A p \in 1 .. m : s[p] = l.Entries[p]
  <2>1. m \in Int /\ 1 <= m
    BY <1>1
  <2> HIDE DEF m
  <2>2. /\ s \in Seq(Entry)
        /\ Len(s) = IF 1 <= m THEN m - 1 + 1 ELSE 0
        /\ \A i \in 1 .. m - 1 + 1 : s[i] = l.Entries[1 + i - 1]
    BY <1>2, <2>1, SeqPart
  <2> QED BY <2>1, <2>2
<1>4. t = [Entries |-> s, Index0 |-> l.Index0]
  BY Zenon DEF truncate
<1> HIDE DEF m, s, t
<1>5. t \in Log
  BY <1>1, <1>3, <1>4 DEF Log
<1>6. Indexed(t)
  <2>1. 1 .. m \subseteq 1 .. Len(l.Entries)
    BY <1>1
  <2>2. \A p \in 1 .. m : l.Entries[p].Index = l.Index0 + p - 1
    BY <2>1, Zenon DEF Indexed
  <2> QED BY <1>3, <1>4, <2>2, Zenon DEF Indexed
<1>7. LastLog(t).Index = idx - 1
  BY <1>1, <1>3, <1>4, <1>5, <1>6, LastLogProperty DEF LogLen, m
<1> QED BY <1>4, <1>5, <1>6, <1>7 DEF t

\* append keeps a well-formed log when the entries continue it.
LEMMA AppendProperty ==
    ASSUME NEW l \in Log, Indexed(l), NEW e \in Seq(Entry),
           Follows(LastLog(l).Index, e)
    PROVE  /\ append(l, e) \in Log
           /\ Indexed(append(l, e))
           /\ LastLog(append(l, e)).Index = LastLog(l).Index + Len(e)
           /\ append(l, e).Index0 = l.Index0
<1> DEFINE n == Len(l.Entries)
           s == l.Entries \o e
           t == append(l, e)
<1>1. /\ l.Entries \in Seq(Entry) /\ l.Index0 \in Nat /\ n \in Nat \ {0}
      /\ LastLog(l).Index = n + l.Index0 - 1 /\ Len(e) \in Nat
  BY LastLogProperty, SeqEmpty DEF Log, LogLen
<1>2. /\ s \in Seq(Entry) /\ Len(s) = n + Len(e)
      /\ \A i \in 1 .. n + Len(e) : s[i] = IF i <= n THEN l.Entries[i] ELSE e[i - n]
  BY <1>1, SeqJoin
<1>3. t = [Entries |-> s, Index0 |-> l.Index0]
  BY Zenon DEF append
<1> HIDE DEF n, s, t
<1>4. t \in Log
  BY <1>1, <1>2, <1>3 DEF Log
<1>5. ASSUME NEW p \in 1 .. n + Len(e) PROVE s[p].Index = l.Index0 + p - 1
  <2>1. CASE p <= n
    <3>1. p \in 1 .. Len(l.Entries) /\ s[p] = l.Entries[p]
      BY <1>1, <1>2, <2>1 DEF n
    <3> QED BY <3>1, Zenon DEF Indexed
  <2>2. CASE p > n
    <3>1. p - n \in 1 .. Len(e) /\ s[p] = e[p - n] /\ p \in Int
      BY <1>1, <1>2, <2>2
    <3>2. e[p - n].Index = LastLog(l).Index + (p - n)
      BY <3>1, Zenon DEF Follows
    <3>3. ASSUME NEW a \in Int, NEW c \in Int, NEW i0 \in Int, NEW q \in Int,
                 a = c + i0 - 1
          PROVE  a + (q - c) = i0 + q - 1
      BY <3>3
    <3>4. LastLog(l).Index + (p - n) = l.Index0 + p - 1
      <4>1. n \in Int /\ l.Index0 \in Int /\ LastLog(l).Index \in Int
        BY <1>1
      <4>2. LastLog(l).Index = n + l.Index0 - 1 /\ p \in Int
        BY <1>1, <3>1, Zenon
      <4> QED BY <3>3, <4>1, <4>2
    <3> QED BY <3>1, <3>2, <3>4, Zenon
  <2> QED BY <1>1, <2>1, <2>2
<1>6. Indexed(t)
  BY <1>2, <1>3, <1>5, Zenon DEF Indexed
<1>7. LastLog(t).Index = LastLog(l).Index + Len(e)
  <2>1. LastLog(t).Index = LogLen(t) - 1
    BY <1>4, <1>6, LastLogProperty, Zenon
  <2>2. t.Entries = s /\ t.Index0 = l.Index0
    BY <1>3, Zenon
  <2>3. LogLen(t) = n + Len(e) + l.Index0
    BY <1>2, <2>2, Zenon DEF LogLen
  <2>4. \A a, b, c \in Int : (a + b + c) - 1 = (a + c - 1) + b
    OBVIOUS
  <2>5. n \in Int /\ Len(e) \in Int /\ l.Index0 \in Int
    BY <1>1
  <2>6. (n + Len(e) + l.Index0) - 1 = (n + l.Index0 - 1) + Len(e)
    BY <2>4, <2>5, Zenon
  <2>7. LastLog(l).Index = n + l.Index0 - 1
    BY <1>1, Zenon
  <2>8. LogLen(t) - 1 = (n + Len(e) + l.Index0) - 1
    BY <2>3, Zenon
  <2>9. LastLog(l).Index + Len(e) = (n + l.Index0 - 1) + Len(e)
    BY <2>7, Zenon
  <2> HIDE DEF LogLen
  <2> QED BY <2>1, <2>6, <2>8, <2>9, Zenon
<1> QED BY <1>3, <1>4, <1>6, <1>7 DEF t

\* A suffix of the entries of a call continues a log that ends before it.
LEMMA SuffixProperty ==
    ASSUME NEW prev \in Int, NEW e \in Seq(Entry), Follows(prev, e), NEW k \in 1 .. Len(e)
    PROVE  /\ SubSeq(e, k, Len(e)) \in Seq(Entry)
           /\ Len(SubSeq(e, k, Len(e))) = Len(e) - k + 1
           /\ Follows(prev + k - 1, SubSeq(e, k, Len(e)))
<1> DEFINE s == SubSeq(e, k, Len(e))
<1>1. Len(e) \in Nat /\ \A i \in k .. Len(e) : e[i] \in Entry
  BY SeqElement
<1>2. /\ s \in Seq(Entry) /\ Len(s) = Len(e) - k + 1
      /\ \A i \in 1 .. Len(e) - k + 1 : s[i] = e[k + i - 1]
  BY <1>1, SeqPart
<1> HIDE DEF s
<1>3. ASSUME NEW i \in 1 .. Len(s) PROVE s[i].Index = prev + k - 1 + i
  <2>1. k + i - 1 \in 1 .. Len(e)
    BY <1>1, <1>2
  <2>2. e[k + i - 1].Index = prev + (k + i - 1)
    BY <2>1, Zenon DEF Follows
  <2> QED BY <1>1, <1>2, <2>2
<1> QED BY <1>2, <1>3, Zenon DEF Follows, s

\* Tail returns the rest of the log, as entries that continue index n - 1.
LEMMA LogTailProperty ==
    ASSUME NEW l \in Log, Indexed(l), NEW n \in l.Index0 + 1 .. LastLog(l).Index + 1
    PROVE  /\ LogTail(l, n) \in Seq(Entry)
           /\ Len(LogTail(l, n)) = LastLog(l).Index - n + 1
           /\ Follows(n - 1, LogTail(l, n))
<1> DEFINE m == n - l.Index0 + 1
           s == SubSeq(l.Entries, m, Len(l.Entries))
<1>1. /\ l.Entries \in Seq(Entry) /\ l.Index0 \in Nat /\ Len(l.Entries) \in Nat
      /\ LastLog(l).Index = Len(l.Entries) + l.Index0 - 1
      /\ m \in 2 .. Len(l.Entries) + 1 /\ n \in Int /\ n = m + l.Index0 - 1
  <2>1. l.Entries \in Seq(Entry) /\ l.Index0 \in Nat /\ Len(l.Entries) \in Nat
    BY DEF Log
  <2>2. LastLog(l).Index = Len(l.Entries) + l.Index0 - 1
    BY LastLogProperty DEF LogLen
  <2>3. n \in Int /\ l.Index0 + 1 <= n /\ n <= LastLog(l).Index + 1
    BY <2>1, <2>2
  <2>4. m \in 2 .. Len(l.Entries) + 1 /\ n = m + l.Index0 - 1
    <3>1. ASSUME NEW a \in Int, NEW i0 \in Nat, NEW len \in Nat,
                 i0 + 1 <= a, a <= (len + i0 - 1) + 1
          PROVE  a - i0 + 1 \in 2 .. len + 1 /\ a = (a - i0 + 1) + i0 - 1
      BY <3>1
    <3>2. n <= (Len(l.Entries) + l.Index0 - 1) + 1
      BY <2>2, <2>3, Zenon
    <3> QED BY <2>1, <2>3, <3>1, <3>2, Zenon
  <2> QED BY <2>1, <2>2, <2>3, <2>4, Zenon
<1>2. \A i \in m .. Len(l.Entries) : l.Entries[i] \in Entry
  <2>1. m .. Len(l.Entries) \subseteq 1 .. Len(l.Entries)
    BY <1>1, SMTT(20)
  <2> QED BY <1>1, <2>1, SeqElement, Zenon
<1>4. LogTail(l, n) = s
  BY Zenon DEF LogTail
<1> HIDE DEF m
<1>3. /\ s \in Seq(Entry)
      /\ Len(s) = Len(l.Entries) - m + 1
      /\ \A i \in 1 .. Len(l.Entries) - m + 1 : s[i] = l.Entries[m + i - 1]
  <2>1. m \in Int /\ Len(l.Entries) \in Int /\ m <= Len(l.Entries) + 1
    BY <1>1
  <2>2. /\ s \in Seq(Entry)
        /\ Len(s) = IF m <= Len(l.Entries) THEN Len(l.Entries) - m + 1 ELSE 0
        /\ \A i \in 1 .. Len(l.Entries) - m + 1 : s[i] = l.Entries[m + i - 1]
    BY <1>2, <2>1, SeqPart
  <2> QED BY <2>1, <2>2
<1> HIDE DEF s
<1>5. Len(s) = LastLog(l).Index - n + 1
  <2>1. \A len, i0, k \in Int : len - k + 1 = (len + i0 - 1) - (k + i0 - 1) + 1
    OBVIOUS
  <2>2. Len(l.Entries) \in Int /\ l.Index0 \in Int /\ m \in Int
    BY <1>1
  <2>3. Len(l.Entries) - m + 1
          = (Len(l.Entries) + l.Index0 - 1) - (m + l.Index0 - 1) + 1
    BY <2>1, <2>2, Zenon
  <2> QED BY <1>1, <1>3, <2>3, Zenon
<1>6. ASSUME NEW i \in 1 .. Len(s) PROVE s[i].Index = n - 1 + i
  <2>1. m + i - 1 \in 1 .. Len(l.Entries) /\ s[i] = l.Entries[m + i - 1]
    <3>1. \A len \in Nat : \A k \in 2 .. len + 1 : \A j \in 1 .. len - k + 1 :
             k + j - 1 \in 1 .. len
      OBVIOUS
    <3>2. i \in 1 .. Len(l.Entries) - m + 1
      BY <1>3, Zenon
    <3> QED BY <1>1, <1>3, <3>1, <3>2, Zenon
  <2>2. l.Entries[m + i - 1].Index = l.Index0 + (m + i - 1) - 1
    BY <2>1, Zenon DEF Indexed
  <2>3. l.Index0 + (m + i - 1) - 1 = n - 1 + i
    <3>1. l.Index0 \in Int /\ m \in Int /\ i \in Int /\ n = m + l.Index0 - 1
      BY <1>1, <2>1
    <3> QED BY <3>1
  <2> QED BY <2>1, <2>2, <2>3, Zenon
<1> QED BY <1>3, <1>4, <1>5, <1>6, Zenon DEF Follows

-----------------------------------------------------------------------------
(* The entries themselves, index by index.                                   *)

\* truncate keeps the entries below idx.
LEMMA TruncateAt ==
    ASSUME NEW l \in Log, Indexed(l), NEW idx \in l.Index0 + 1 .. LastLog(l).Index,
           NEW k \in l.Index0 .. idx - 1
    PROVE  at(truncate(l, idx), k) = at(l, k)
<1> DEFINE m == idx - l.Index0
           q == k - l.Index0 + 1
           s == SubSeq(l.Entries, 1, m)
<1>1. l.Index0 \in Nat /\ l.Entries \in Seq(Entry) /\ idx \in Int /\ k \in Int
      /\ m \in 1 .. Len(l.Entries) - 1 /\ Len(l.Entries) \in Nat
  <2>1. /\ l.Entries \in Seq(Entry) /\ l.Index0 \in Nat /\ Len(l.Entries) \in Nat
        /\ LastLog(l).Index = Len(l.Entries) + l.Index0 - 1
    BY LogSize, Zenon
  <2>2. \A a, n \in Nat : \A b \in a + 1 .. n + a - 1 : \A c \in a .. b - 1 :
           b \in Int /\ c \in Int /\ b - a \in 1 .. n - 1
    OBVIOUS
  <2> QED BY <2>1, <2>2, Zenon
<1>2. m \in Int /\ q \in 1 .. m - 1 + 1
  <2>1. \A a \in Nat : \A b \in Int : \A c \in a .. b - 1 :
           b - a \in Int /\ c - a + 1 \in 1 .. (b - a) - 1 + 1
    OBVIOUS
  <2> QED BY <1>1, <2>1, Zenon
<1>3. \A p \in 1 .. m : l.Entries[p] \in Entry
  <2>1. 1 .. m \subseteq 1 .. Len(l.Entries)
    BY <1>1
  <2> QED BY <1>1, <2>1, SeqElement, Zenon
<1>4. at(truncate(l, idx), k) = s[q] /\ at(l, k) = l.Entries[q]
  BY Zenon DEF at, truncate
<1> HIDE DEF m, q
<1>5. s[q] = l.Entries[1 + q - 1]
  BY <1>2, <1>3, SeqPart
<1> QED BY <1>2, <1>4, <1>5

\* append keeps the entries of the log and puts the new ones after them.
LEMMA AppendAt ==
    ASSUME NEW l \in Log, Indexed(l), NEW e \in Seq(Entry),
           NEW k \in l.Index0 .. LastLog(l).Index + Len(e)
    PROVE  at(append(l, e), k) =
             IF k <= LastLog(l).Index THEN at(l, k) ELSE e[k - LastLog(l).Index]
<1> DEFINE n == Len(l.Entries)
           q == k - l.Index0 + 1
           s == l.Entries \o e
<1>1. /\ l.Entries \in Seq(Entry) /\ l.Index0 \in Nat /\ n \in Nat
      /\ LastLog(l).Index = n + l.Index0 - 1 /\ Len(e) \in Nat
  <2>1. Len(e) \in Nat
    OBVIOUS
  <2> QED BY <2>1, LogSize, Zenon
<1>2. \A i \in 1 .. n + Len(e) : s[i] = IF i <= n THEN l.Entries[i] ELSE e[i - n]
  BY <1>1, SeqJoin, Zenon
<1>3. at(append(l, e), k) = s[q] /\ at(l, k) = l.Entries[q]
  BY Zenon DEF at, append
<1>4. /\ q \in 1 .. n + Len(e) /\ q - n = k - LastLog(l).Index
      /\ q <= n <=> k <= LastLog(l).Index
  <2>1. \A x, c, i0 \in Nat : \A y \in i0 .. (x + i0 - 1) + c :
          /\ y - i0 + 1 \in 1 .. x + c /\ (y - i0 + 1) - x = y - (x + i0 - 1)
          /\ y - i0 + 1 <= x <=> y <= x + i0 - 1
    OBVIOUS
  <2>2. k \in l.Index0 .. (n + l.Index0 - 1) + Len(e)
    BY <1>1, Zenon
  <2>3. /\ q \in 1 .. n + Len(e) /\ q - n = k - (n + l.Index0 - 1)
        /\ q <= n <=> k <= n + l.Index0 - 1
    BY <1>1, <2>1, <2>2, Zenon
  <2> HIDE DEF q, n
  <2> QED BY <1>1, <2>3, Zenon
<1> HIDE DEF n, q, s
<1> QED BY <1>2, <1>3, <1>4, Zenon

\* Tail returns the entries from n on.
LEMMA LogTailAt ==
    ASSUME NEW l \in Log, Indexed(l), NEW n \in l.Index0 + 1 .. LastLog(l).Index + 1,
           NEW k \in 1 .. LastLog(l).Index - n + 1
    PROVE  LogTail(l, n)[k] = at(l, n - 1 + k)
<1> DEFINE m == n - l.Index0 + 1
           len == Len(l.Entries)
<1>1. l.Entries \in Seq(Entry) /\ l.Index0 \in Nat /\ len \in Nat
      /\ LastLog(l).Index = len + l.Index0 - 1 /\ n \in Int /\ k \in Int
  <2>1. /\ l.Entries \in Seq(Entry) /\ l.Index0 \in Nat /\ len \in Nat
        /\ LastLog(l).Index = len + l.Index0 - 1
    BY LogSize, Zenon
  <2> QED BY <2>1
<1>2. /\ m \in Int /\ 1 <= m /\ m <= len + 1 /\ k \in 1 .. len - m + 1
      /\ (n - 1 + k) - l.Index0 + 1 = m + k - 1
  <2>1. \A i0, c \in Nat : \A x \in i0 + 1 .. (c + i0 - 1) + 1 :
          \A y \in 1 .. (c + i0 - 1) - x + 1 :
             /\ x - i0 + 1 \in Int /\ 1 <= x - i0 + 1 /\ x - i0 + 1 <= c + 1
             /\ y \in 1 .. c - (x - i0 + 1) + 1
             /\ (x - 1 + y) - i0 + 1 = (x - i0 + 1) + y - 1
    OBVIOUS
  <2>2. /\ n \in l.Index0 + 1 .. (len + l.Index0 - 1) + 1
        /\ k \in 1 .. (len + l.Index0 - 1) - n + 1
    BY <1>1, Zenon
  <2> QED BY <1>1, <2>1, <2>2, Zenon
<1>3. \A i \in m .. len : l.Entries[i] \in Entry
  <2>1. m .. len \subseteq 1 .. len
    BY <1>1, <1>2
  <2> QED BY <1>1, <2>1, SeqElement, Zenon
<1>4. LogTail(l, n) = SubSeq(l.Entries, m, len)
  BY Zenon DEF LogTail
<1>5. at(l, n - 1 + k) = l.Entries[m + k - 1]
  BY <1>2, Zenon DEF at
<1> HIDE DEF m
<1>6. SubSeq(l.Entries, m, len)[k] = l.Entries[m + k - 1]
  <2>1. \A i \in 1 .. len - m + 1 : SubSeq(l.Entries, m, len)[i] = l.Entries[m + i - 1]
    <3>1. m \in Int /\ len \in Int
      BY <1>1, <1>2
    <3> QED BY <1>3, <3>1, SeqPart
  <2> QED BY <1>2, <2>1, Zenon
<1> QED BY <1>4, <1>5, <1>6, Zenon

-----------------------------------------------------------------------------
\* The loop of AppendEntries: whether it truncates, appends or does nothing,
\* the log stays well-formed, also between the truncation and the append.
THEOREM MergeProperty ==
    ASSUME NEW l \in Log, Indexed(l), NEW e \in Seq(Entry),
           NEW prev \in l.Index0 .. LastLog(l).Index, Follows(prev, e)
    PROVE  /\ cutBack(l, e) \in Log /\ Indexed(cutBack(l, e))
           /\ merge(l, e) \in Log /\ Indexed(merge(l, e))
           /\ cutBack(l, e).Index0 = l.Index0 /\ merge(l, e).Index0 = l.Index0
<1> DEFINE K == lacking(l, e)
           k == Min(K)
<1>1. CASE K = {}
  BY <1>1, Zenon DEF cutBack, merge
<1>2. CASE K # {}
  <2>0. l.Index0 \in Nat /\ LastLog(l).Index \in Nat /\ Len(e) \in Nat /\ prev \in Nat
    <3>1. l.Index0 \in Nat /\ LastLog(l).Index \in Nat
      BY LastLogProperty, Zenon
    <3> QED BY <3>1
  <2>1. K \subseteq 1 .. Len(e) /\ K \in SUBSET Nat
    BY <2>0 DEF lacking
  <2>2. k \in K /\ k \in 1 .. Len(e) /\ \A y \in K : k <= y
    BY <1>2, <2>1, MinProperty, Zenon
  <2> DEFINE r == SubSeq(e, k, Len(e))
             c == cutBack(l, e)
  <2>3. c = (IF differs(l, e[k]) THEN truncate(l, e[k].Index) ELSE l)
        /\ merge(l, e) = append(c, r)
    BY <1>2, Zenon DEF cutBack, merge
  <2> HIDE DEF k, K, c, r
  <2>4. e[k].Index = prev + k
    BY <2>2, Zenon DEF Follows
  <2>5. r \in Seq(Entry) /\ Follows(prev + k - 1, r)
    BY <2>0, <2>2, SuffixProperty DEF r
  <2>6. c \in Log /\ Indexed(c) /\ LastLog(c).Index = prev + k - 1 /\ c.Index0 = l.Index0
    <3>1. CASE differs(l, e[k])
      <4>1. prev + k \in l.Index0 + 1 .. LastLog(l).Index
        BY <2>0, <2>2, <2>4, <3>1 DEF differs
      <4>2. c = truncate(l, prev + k)
        BY <2>3, <2>4, <3>1, Zenon
      <4>3. LastLog(c).Index = (prev + k) - 1
        BY <4>1, <4>2, TruncateProperty, Zenon
      <4> QED BY <2>0, <2>2, <4>1, <4>2, <4>3, TruncateProperty
    <3>2. CASE ~differs(l, e[k])
      <4>1. prev + k > LastLog(l).Index
        BY <2>2, <2>4, <3>2, Zenon DEF K, lacking
      <4>2. prev + k - 1 <= LastLog(l).Index
        <5>1. CASE k = 1
          BY <2>0, <5>1
        <5>2. CASE k # 1
          <6>1. k - 1 \in 1 .. Len(e) /\ k - 1 \notin K
            BY <2>0, <2>2, <5>2
          <6>2. ~(e[k - 1].Index > LastLog(l).Index) /\ e[k - 1].Index = prev + (k - 1)
            BY <6>1, Zenon DEF K, lacking, Follows
          <6>3. k \in Int
            BY <2>2
          <6> QED BY <2>0, <6>2, <6>3
        <5> QED BY <5>1, <5>2, Zenon
      <4>3. k \in Int
        BY <2>2
      <4>4. LastLog(l).Index = prev + k - 1
        BY <2>0, <4>1, <4>2, <4>3
      <4> QED BY <2>3, <3>2, <4>4, Zenon
    <3> QED BY <3>1, <3>2, Zenon
  <2>7. append(c, r) \in Log /\ Indexed(append(c, r)) /\ append(c, r).Index0 = c.Index0
    BY <2>5, <2>6, AppendProperty, Zenon
  <2> QED BY <2>3, <2>6, <2>7, Zenon DEF c
<1> QED BY <1>1, <1>2, Zenon

\* What the loop of AppendEntries makes of a log, entry by entry: nothing if
\* the log has all of e already; else the log up to the first entry it lacks
\* (number q of e), and the rest of e after that.  Up to there the terms agree.
LEMMA MergeAt ==
    ASSUME NEW l \in Log, Indexed(l), NEW e \in Seq(Entry),
           NEW prev \in l.Index0 .. LastLog(l).Index, Follows(prev, e)
    PROVE  \/ /\ merge(l, e) = l /\ cutBack(l, e) = l
              /\ \A k \in 1 .. Len(e) : /\ prev + k <= LastLog(l).Index
                                        /\ at(l, prev + k).Term = e[k].Term
           \/ \E q \in 1 .. Len(e) :
                /\ \A k \in 1 .. q - 1 : /\ prev + k <= LastLog(l).Index
                                         /\ at(l, prev + k).Term = e[k].Term
                /\ LastLog(merge(l, e)).Index = prev + Len(e)
                /\ LastLog(cutBack(l, e)).Index = prev + q - 1
                /\ prev + q - 1 <= LastLog(l).Index
                /\ prev + q > LastLog(l).Index \/ at(l, prev + q).Term # e[q].Term
                /\ \A k \in l.Index0 .. prev + q - 1 :
                     at(merge(l, e), k) = at(l, k) /\ at(cutBack(l, e), k) = at(l, k)
                /\ \A k \in q .. Len(e) : at(merge(l, e), prev + k) = e[k]
<1> DEFINE K == lacking(l, e)
           k0 == Min(K)
<1>0. l.Index0 \in Nat /\ LastLog(l).Index \in Nat /\ Len(e) \in Nat /\ prev \in Nat
  <2>1. l.Index0 \in Nat /\ LastLog(l).Index \in Nat
    BY LastLogProperty, Zenon
  <2> QED BY <2>1
<1>1. \A k \in 1 .. Len(e) : e[k].Index = prev + k
  BY Zenon DEF Follows
<1>2. ASSUME NEW k \in 1 .. Len(e), k \notin K
      PROVE  prev + k <= LastLog(l).Index /\ at(l, prev + k).Term = e[k].Term
  <2>1. ~(e[k].Index > LastLog(l).Index) /\ ~differs(l, e[k]) /\ e[k].Index = prev + k
    BY <1>1, <1>2, Zenon DEF lacking
  <2>2. prev + k <= LastLog(l).Index
    BY <1>0, <2>1
  <2> QED BY <2>1, <2>2, Zenon DEF differs
<1>3. CASE K = {}
  <2>1. merge(l, e) = l /\ cutBack(l, e) = l
    BY <1>3, Zenon DEF merge, cutBack
  <2> QED BY <1>2, <1>3, <2>1, Zenon
<1>4. CASE K # {}
  <2>1. K \subseteq 1 .. Len(e) /\ K \in SUBSET Nat
    BY <1>0 DEF lacking
  <2>2. k0 \in K /\ k0 \in 1 .. Len(e) /\ \A y \in K : k0 <= y
    BY <1>4, <2>1, MinProperty, Zenon
  <2> DEFINE r == SubSeq(e, k0, Len(e))
             c == cutBack(l, e)
  <2>3. c = (IF differs(l, e[k0]) THEN truncate(l, e[k0].Index) ELSE l)
        /\ merge(l, e) = append(c, r)
    BY <1>4, Zenon DEF cutBack, merge
  <2> HIDE DEF k0, K, c, r
  <2>4. \A k \in 1 .. k0 - 1 : k \in 1 .. Len(e) /\ k \notin K
    BY <1>0, <2>2
  <2>5. \A k \in 1 .. k0 - 1 : prev + k <= LastLog(l).Index
                               /\ at(l, prev + k).Term = e[k].Term
    BY <1>2, <2>4, Zenon
  <2>6. prev + k0 - 1 <= LastLog(l).Index /\ k0 \in Int /\ 1 <= k0 /\ k0 <= Len(e)
    <3>1. CASE k0 = 1
      BY <1>0, <3>1, <2>2
    <3>2. CASE k0 # 1
      <4>1. k0 - 1 \in 1 .. k0 - 1 /\ k0 \in Int
        BY <2>2, <3>2
      <4>2. prev + (k0 - 1) <= LastLog(l).Index
        BY <2>5, <4>1, Zenon
      <4> QED BY <1>0, <2>2, <4>1, <4>2
    <3> QED BY <3>1, <3>2, Zenon
  <2>7. e[k0].Index = prev + k0
    BY <1>1, <2>2, Zenon
  <2>8. /\ c \in Log /\ Indexed(c) /\ c.Index0 = l.Index0
        /\ LastLog(c).Index = prev + k0 - 1
        /\ \A k \in l.Index0 .. prev + k0 - 1 : at(c, k) = at(l, k)
    <3>1. CASE differs(l, e[k0])
      <4>1. prev + k0 \in l.Index0 + 1 .. LastLog(l).Index
        BY <1>0, <2>6, <2>7, <3>1 DEF differs
      <4>2. c = truncate(l, prev + k0)
        BY <2>3, <2>7, <3>1, Zenon
      <4>3. c \in Log /\ Indexed(c) /\ c.Index0 = l.Index0
            /\ LastLog(c).Index = (prev + k0) - 1
        BY <4>1, <4>2, TruncateProperty, Zenon
      <4>4. \A k \in l.Index0 .. (prev + k0) - 1 : at(c, k) = at(l, k)
        BY <4>1, <4>2, TruncateAt, Zenon
      <4>5. (prev + k0) - 1 = prev + k0 - 1
        BY <1>0, <2>6
      <4> QED BY <4>3, <4>4, <4>5, Zenon
    <3>2. CASE ~differs(l, e[k0])
      <4>1. prev + k0 > LastLog(l).Index
        BY <2>2, <2>7, <3>2, Zenon DEF K, lacking
      <4>2. LastLog(l).Index = prev + k0 - 1
        BY <1>0, <2>6, <4>1
      <4> QED BY <2>3, <3>2, <4>2, Zenon
    <3> QED BY <3>1, <3>2, Zenon
  <2>9. /\ r \in Seq(Entry) /\ Len(r) = Len(e) - k0 + 1 /\ Follows(prev + k0 - 1, r)
        /\ \A k \in k0 .. Len(e) : r[k - k0 + 1] = e[k]
    <3>1. r \in Seq(Entry) /\ Len(r) = Len(e) - k0 + 1 /\ Follows(prev + k0 - 1, r)
      BY <1>0, <2>2, SuffixProperty DEF r
    <3>2. \A i \in k0 .. Len(e) : e[i] \in Entry
      <4>1. k0 .. Len(e) \subseteq 1 .. Len(e)
        BY <1>0, <2>6
      <4> QED BY <4>1, SeqElement, Zenon
    <3>3. \A i \in 1 .. Len(e) - k0 + 1 : r[i] = e[k0 + i - 1]
      BY <1>0, <2>6, <3>2, SeqPart DEF r
    <3>4. ASSUME NEW k \in k0 .. Len(e) PROVE r[k - k0 + 1] = e[k]
      <4>1. k - k0 + 1 \in 1 .. Len(e) - k0 + 1 /\ k0 + (k - k0 + 1) - 1 = k
        BY <1>0, <2>6
      <4> QED BY <3>3, <4>1, Zenon
    <3> QED BY <3>1, <3>4, Zenon
  <2>10. LastLog(merge(l, e)).Index = prev + Len(e)
    <3>1. LastLog(merge(l, e)).Index = LastLog(c).Index + Len(r)
      BY <2>3, <2>8, <2>9, AppendProperty
    <3>2. (prev + k0 - 1) + (Len(e) - k0 + 1) = prev + Len(e)
      BY <1>0, <2>6
    <3> QED BY <2>8, <2>9, <3>1, <3>2, Zenon
  <2>11. ASSUME NEW k \in l.Index0 .. prev + Len(e)
         PROVE  at(merge(l, e), k) =
                  IF k <= prev + k0 - 1 THEN at(l, k) ELSE r[k - (prev + k0 - 1)]
    <3>1. (prev + k0 - 1) + (Len(e) - k0 + 1) = prev + Len(e)
      BY <1>0, <2>6
    <3>2. k \in c.Index0 .. LastLog(c).Index + Len(r)
      BY <2>8, <2>9, <3>1, Zenon
    <3>3. at(append(c, r), k) =
             IF k <= LastLog(c).Index THEN at(c, k) ELSE r[k - LastLog(c).Index]
      BY <2>8, <2>9, <3>2, AppendAt, Zenon
    <3>4. k <= prev + k0 - 1 => at(c, k) = at(l, k)
      BY <1>0, <2>6, <2>8
    <3> QED BY <2>3, <2>8, <3>3, <3>4, Zenon
  <2>12. ASSUME NEW k \in k0 .. Len(e) PROVE at(merge(l, e), prev + k) = e[k]
    <3>1. /\ prev + k \in l.Index0 .. prev + Len(e) /\ ~(prev + k <= prev + k0 - 1)
          /\ (prev + k) - (prev + k0 - 1) = k - k0 + 1
      BY <1>0, <2>6
    <3> QED BY <2>9, <2>11, <3>1, Zenon
  <2>13. ASSUME NEW k \in l.Index0 .. prev + k0 - 1
         PROVE  at(merge(l, e), k) = at(l, k) /\ at(c, k) = at(l, k)
    <3>1. k \in l.Index0 .. prev + Len(e) /\ k <= prev + k0 - 1
      BY <1>0, <2>6
    <3> QED BY <2>8, <2>11, <3>1, Zenon
  <2>14. prev + k0 > LastLog(l).Index \/ at(l, prev + k0).Term # e[k0].Term
    BY <2>2, <2>7, Zenon DEF K, lacking, differs
  <2> QED BY <2>2, <2>5, <2>6, <2>8, <2>10, <2>12, <2>13, <2>14, Zenon DEF c
<1> QED BY <1>3, <1>4, Zenon

-----------------------------------------------------------------------------
(* Cutting, extending and joining pieces                                     *)

\* The indices of a part are indices of the whole.
LEMMA PartSpan ==
    ASSUME NEW f, NEW g, IsPiece(g), PartOf(f, g)
    PROVE  span(f) \subseteq span(g) /\ IsPiece(f)
BY DEF IsPiece, PartOf, span

\* Cutting keeps a piece sound.
LEMMA PartSound ==
    ASSUME NEW f, NEW g, Sound(g), PartOf(f, g)
    PROVE  Sound(f)
<1>1. span(f) \subseteq span(g) /\ IsPiece(f)
  BY PartSpan, Zenon DEF Sound
<1>2. \A n \in span(f) : f.e[n].Term = g.e[n].Term
  BY Zenon DEF PartOf
<1> QED BY <1>1, <1>2, Zenon DEF Sound, Rising

\* Cutting keeps two pieces in agreement.
LEMMA PartAgree ==
    ASSUME NEW f, NEW g, NEW f1, NEW g1, IsPiece(f), IsPiece(g),
           PartOf(f1, f), PartOf(g1, g), Agree(f, g)
    PROVE  Agree(f1, g1)
<1>1. /\ span(f1) \subseteq span(f) /\ span(g1) \subseteq span(g)
      /\ IsPiece(f1) /\ IsPiece(g1)
  BY PartSpan, Zenon
<1>2. /\ \A n \in span(f1) : f1.e[n].Term = f.e[n].Term
      /\ \A n \in span(g1) : g1.e[n].Term = g.e[n].Term
  BY Zenon DEF PartOf
<1>3. ASSUME NEW n \in span(f1) \cap span(g1), f1.e[n].Term = g1.e[n].Term,
             NEW k \in span(f1) \cap span(g1), k <= n
      PROVE  /\ f1.e[k].Term = g1.e[k].Term
             /\ k > f1.lo /\ k > g1.lo => f1.e[k] = g1.e[k]
  <2>1. /\ f.e[k].Term = g.e[k].Term
        /\ k > f.lo /\ k > g.lo => f.e[k] = g.e[k]
    BY <1>1, <1>2, <1>3, Zenon DEF Agree, Match
  <2>2. /\ k > f1.lo => k > f.lo /\ f1.e[k] = f.e[k]
        /\ k > g1.lo => k > g.lo /\ g1.e[k] = g.e[k]
    <3>1. f.lo \in Nat /\ g.lo \in Nat /\ f1.lo \in Nat /\ g1.lo \in Nat /\ k \in Int
      BY <1>1 DEF IsPiece, span
    <3>2. f.lo <= f1.lo /\ g.lo <= g1.lo
      BY Zenon DEF PartOf
    <3>3. (k > f1.lo => k > f.lo) /\ (k > g1.lo => k > g.lo)
      BY <3>1, <3>2
    <3> QED BY <1>3, <3>3, Zenon DEF PartOf
  <2> QED BY <1>2, <2>1, <2>2, Zenon
<1>4. Match(f1, g1)
  BY <1>3, Zenon DEF Match
<1>5. OneRun(f1, g1)
  BY <1>1, <1>2 DEF Agree, OneRun
<1> QED BY <1>4, <1>5, Zenon DEF Agree

\* Match reads the same from both sides.
LEMMA MatchSymmetric == ASSUME NEW f, NEW g, Match(f, g) PROVE Match(g, f)
BY Zenon DEF Match

\* A sound piece agrees with itself.
LEMMA SelfAgree == ASSUME NEW f, Sound(f) PROVE Agree(f, f)
<1>1. Match(f, f)
  BY Zenon DEF Match
<1>2. ASSUME NEW a \in span(f), NEW b \in span(f), a <= b, f.e[a].Term = f.e[b].Term,
             NEW k \in span(f), a <= k, k <= b
      PROVE  f.e[k].Term = f.e[a].Term
  <2>1. /\ f.e[a].Term <= f.e[k].Term /\ f.e[k].Term <= f.e[b].Term
        /\ f.e[a].Term \in Nat /\ f.e[b].Term \in Nat /\ f.e[k].Term \in Nat
    BY <1>2, Zenon DEF Sound, Rising, IsPiece
  <2> QED BY <1>2, <2>1
<1> QED BY <1>1, <1>2, Zenon DEF Agree, OneRun

\* Start: w is f with an entry of term t after it.  If every entry of term t
\* is in f already, w agrees with whatever f agreed with.
LEMMA ExtendAgree ==
    ASSUME NEW f, NEW w, NEW h, NEW t \in Nat, Sound(f), Sound(h),
           Agree(f, h), Agree(h, f),
           w.lo = f.lo, w.hi = f.hi + 1, f.lo <= f.hi,
           \A n \in span(f) : w.e[n] = f.e[n] /\ f.e[n].Term <= t,
           w.e[w.hi].Term = t,
           \A n \in span(h) : h.e[n].Term = t => n \in span(f) /\ f.e[n].Term = t
    PROVE  Agree(w, h) /\ Agree(h, w)
<1>1. f.lo \in Nat /\ f.hi \in Nat /\ h.lo \in Nat /\ h.hi \in Nat
  BY Zenon DEF Sound, IsPiece
<1>2. \A n \in span(w) : n \in span(f) \/ n = w.hi
  BY <1>1 DEF span
<1>3. w.hi \notin span(f) /\ \A n \in span(f) : n \in Int /\ n < w.hi
  BY <1>1 DEF span
<1>4. \A n \in span(h) : n \in Int
  BY <1>1 DEF span
<1>5. ASSUME NEW n \in span(w) \cap span(h), w.e[n].Term = h.e[n].Term
      PROVE  n \in span(f)
  BY <1>2, <1>3, <1>5, Zenon
<1>6. Match(w, h)
  <2>1. ASSUME NEW n \in span(w) \cap span(h), w.e[n].Term = h.e[n].Term,
               NEW k \in span(w) \cap span(h), k <= n
        PROVE  /\ w.e[k].Term = h.e[k].Term
               /\ k > w.lo /\ k > h.lo => w.e[k] = h.e[k]
    <3>1. n \in span(f)
      BY <1>5, <2>1, Zenon
    <3>2. k \in span(f)
      BY <1>1, <2>1, <3>1 DEF span
    <3> QED BY <2>1, <3>1, <3>2, ZenonT(40) DEF Agree, Match
  <2> QED BY <2>1, Zenon DEF Match
<1>7. OneRun(w, h)
  <2>1. ASSUME NEW a \in span(w), NEW b \in span(h), a <= b, w.e[a].Term = h.e[b].Term,
               NEW k \in span(h), a <= k, k <= b
        PROVE  h.e[k].Term = w.e[a].Term
    <3>1. CASE a \in span(f)
      BY <2>1, <3>1 DEF Agree, OneRun
    <3>2. CASE a = w.hi
      <4>1. b \in span(f)
        BY <2>1, <3>2, Zenon
      <4> QED BY <1>1, <1>3, <1>4, <2>1, <3>2, <4>1
    <3> QED BY <1>2, <3>1, <3>2, Zenon
  <2> QED BY <2>1, Zenon DEF OneRun
<1>8. OneRun(h, w)
  <2>1. ASSUME NEW a \in span(h), NEW b \in span(w), a <= b, h.e[a].Term = w.e[b].Term,
               NEW k \in span(w), a <= k, k <= b
        PROVE  w.e[k].Term = h.e[a].Term
    <3>1. CASE b \in span(f)
      <4>1. k \in span(f)
        BY <1>1, <2>1, <3>1 DEF span
      <4> QED BY <2>1, <3>1, <4>1 DEF Agree, OneRun
    <3>2. CASE b = w.hi
      <4>1. h.e[a].Term = t /\ a \in span(f) /\ f.e[a].Term = t
        BY <2>1, <3>2, Zenon
      <4>2. CASE k \in span(f)
        <5>1. f.e[a].Term <= f.e[k].Term /\ f.e[k].Term <= t /\ f.e[k].Term \in Nat
          BY <2>1, <4>1, <4>2, Zenon DEF Sound, Rising, IsPiece
        <5> QED BY <4>1, <4>2, <5>1
      <4>3. CASE k = w.hi
        BY <4>1, <4>3, Zenon
      <4> QED BY <1>2, <4>2, <4>3, Zenon
    <3> QED BY <1>2, <3>1, <3>2, Zenon
  <2> QED BY <2>1, Zenon DEF OneRun
<1> QED BY <1>6, <1>7, <1>8, MatchSymmetric, Zenon DEF Agree

\* AppendEntries: w is l up to the first index of m, where their terms agree,
\* and m above it.  It agrees with whatever both agreed with.
LEMMA JoinAgree ==
    ASSUME NEW l, NEW m, NEW w, NEW h, Sound(l), Sound(m), Sound(h),
           Agree(l, h), Agree(h, l), Agree(m, h), Agree(h, m),
           m.lo \in span(l), m.lo <= m.hi, l.e[m.lo].Term = m.e[m.lo].Term,
           w.lo = l.lo, w.hi = m.hi,
           \A k \in span(l) : k <= m.lo => w.e[k] = l.e[k],
           \A k \in span(m) : k > m.lo => w.e[k] = m.e[k]
    PROVE  Agree(w, h) /\ Agree(h, w)
<1>1. /\ l.lo \in Nat /\ l.hi \in Nat /\ m.lo \in Nat /\ m.hi \in Nat
      /\ h.lo \in Nat /\ h.hi \in Nat /\ l.lo <= m.lo /\ m.lo <= l.hi
  BY DEF Sound, IsPiece, span
<1>2. \A k \in span(w) : \/ k \in span(l) /\ k <= m.lo /\ w.e[k] = l.e[k]
                         \/ k \in span(m) /\ k > m.lo /\ w.e[k] = m.e[k]
  <2>1. ASSUME NEW k \in span(w)
        PROVE  (k \in span(l) /\ k <= m.lo) \/ (k \in span(m) /\ k > m.lo)
    BY <1>1 DEF span
  <2> QED BY <2>1, Zenon
<1>3. m.lo \in span(m) /\ m.lo \in span(w) /\ m.lo \in Int
  BY <1>1 DEF span
<1>4. \A k \in span(w) : k >= m.lo => k \in span(m) /\ w.e[k].Term = m.e[k].Term
  <2>1. ASSUME NEW k \in span(w), k >= m.lo
        PROVE  k \in span(m) /\ w.e[k].Term = m.e[k].Term
    <3>1. CASE k = m.lo
      BY <1>2, <1>3, <3>1, Zenon
    <3>2. CASE k # m.lo
      BY <1>1, <1>2, <2>1, <3>2 DEF span
    <3> QED BY <3>1, <3>2, Zenon
  <2> QED BY <2>1, Zenon
<1>5. \A k \in span(w) : k \in Int
  BY <1>1 DEF span
<1>6. Match(w, h)
  <2>1. ASSUME NEW n \in span(w) \cap span(h), w.e[n].Term = h.e[n].Term,
               NEW k \in span(w) \cap span(h), k <= n
        PROVE  /\ w.e[k].Term = h.e[k].Term
               /\ k > w.lo /\ k > h.lo => w.e[k] = h.e[k]
    <3>1. CASE n <= m.lo
      <4>1. /\ n \in span(l) /\ k \in span(l) /\ w.e[n] = l.e[n] /\ w.e[k] = l.e[k]
        BY <1>1, <1>2, <1>5, <2>1, <3>1
      <4> QED BY <2>1, <4>1 DEF Agree, Match
    <3>2. CASE n > m.lo
      <4>1. n \in span(m) /\ w.e[n] = m.e[n]
        BY <1>1, <1>2, <1>5, <2>1, <3>2
      <4>2. CASE k > m.lo
        <5>1. k \in span(m) /\ w.e[k] = m.e[k]
          BY <1>1, <1>2, <1>5, <2>1, <4>2
        <5> QED BY <2>1, <4>1, <4>2, <5>1, ZenonT(40) DEF Agree, Match
      <4>3. CASE k <= m.lo
        <5>1. m.lo \in span(h)
          BY <1>1, <2>1, <3>2, <4>3 DEF span
        <5>2. m.e[m.lo].Term = h.e[m.lo].Term
          <6>1. m.lo <= n
            BY <1>1, <1>5, <2>1, <3>2
          <6> QED BY <1>3, <2>1, <4>1, <5>1, <6>1 DEF Agree, Match
        <5>3. k \in span(l) /\ w.e[k] = l.e[k]
          BY <1>1, <1>2, <1>5, <2>1, <4>3
        <5>4. l.e[m.lo].Term = h.e[m.lo].Term
          BY <5>2, Zenon
        <5> QED BY <2>1, <4>3, <5>1, <5>3, <5>4 DEF Agree, Match
      <4> QED BY <1>1, <1>5, <2>1, <4>2, <4>3
    <3> QED BY <1>1, <1>5, <2>1, <3>1, <3>2
  <2> QED BY <2>1, Zenon DEF Match
<1>7. OneRun(w, h)
  <2>1. ASSUME NEW a \in span(w), NEW b \in span(h), a <= b, w.e[a].Term = h.e[b].Term,
               NEW k \in span(h), a <= k, k <= b
        PROVE  h.e[k].Term = w.e[a].Term
    BY <1>2, <2>1 DEF Agree, OneRun
  <2> QED BY <2>1, ZenonT(40) DEF OneRun
<1>8. OneRun(h, w)
  <2>1. ASSUME NEW a \in span(h), NEW b \in span(w), a <= b, h.e[a].Term = w.e[b].Term,
               NEW k \in span(w), a <= k, k <= b
        PROVE  w.e[k].Term = h.e[a].Term
    <3>0. a \in Int /\ b \in Int /\ k \in Int
      BY <1>1, <1>5, <2>1 DEF span
    <3>1. CASE b <= m.lo
      <4>1. b \in span(l) /\ w.e[b] = l.e[b] /\ k \in span(l) /\ w.e[k] = l.e[k]
        BY <1>1, <1>2, <2>1, <3>0, <3>1
      <4> QED BY <2>1, <4>1 DEF Agree, OneRun
    <3>2. CASE b > m.lo
      <4>1. b \in span(m) /\ w.e[b] = m.e[b]
        BY <1>1, <1>2, <2>1, <3>0, <3>2
      <4>2. CASE k >= m.lo
        <5>1. k \in span(m) /\ w.e[k].Term = m.e[k].Term
          BY <1>4, <2>1, <4>2, Zenon
        <5> QED BY <2>1, <4>1, <5>1 DEF Agree, OneRun
      <4>3. CASE k < m.lo
        <5>1. k \in span(l) /\ w.e[k] = l.e[k]
          BY <1>1, <1>2, <2>1, <3>0, <4>3
        <5>2. a <= m.lo /\ m.lo <= b /\ k <= m.lo
          BY <1>1, <2>1, <3>0, <3>2, <4>3
        <5>3. m.e[m.lo].Term = h.e[a].Term
          BY <1>3, <2>1, <4>1, <5>2 DEF Agree, OneRun
        <5>4. l.e[m.lo].Term = h.e[a].Term
          BY <5>3, Zenon
        <5> QED BY <2>1, <5>1, <5>2, <5>4 DEF Agree, OneRun
      <4> QED BY <1>1, <3>0, <4>2, <4>3
    <3> QED BY <1>1, <3>0, <3>1, <3>2
  <2> QED BY <2>1, ZenonT(40) DEF OneRun
<1> QED BY <1>6, <1>7, <1>8, MatchSymmetric, Zenon DEF Agree

-----------------------------------------------------------------------------
(* The pieces that the operators of RaftLog make                             *)

\* The whole log, as a piece.
LEMMA LogPiece ==
    ASSUME NEW l \in Log, Indexed(l)
    PROVE  /\ IsPiece(logPiece(l)) /\ span(logPiece(l)) = Indices(l)
           /\ logPiece(l).lo = l.Index0 /\ logPiece(l).hi = LastLog(l).Index
           /\ l.Index0 <= LastLog(l).Index
           /\ \A n \in Indices(l) : logPiece(l).e[n] = at(l, n) /\ at(l, n) \in Entry
<1>1. /\ l.Index0 \in Nat /\ LastLog(l).Index \in Nat /\ l.Index0 <= LastLog(l).Index
      /\ LastLog(l).Index = LogLen(l) - 1
  BY LastLogProperty, Zenon
<1>2. Indices(l) = l.Index0 .. LastLog(l).Index
  BY <1>1, Zenon DEF Indices
<1>3. logPiece(l).lo = l.Index0 /\ logPiece(l).hi = LastLog(l).Index
      /\ \A n \in Indices(l) : logPiece(l).e[n] = at(l, n)
  BY <1>2, Zenon DEF logPiece
<1>4. span(logPiece(l)) = Indices(l)
  BY <1>2, <1>3, Zenon DEF span
<1>5. \A n \in Indices(l) : at(l, n) \in Entry
  BY AtProperty, Zenon
<1>6. IsPiece(logPiece(l))
  BY <1>1, <1>3, <1>4, <1>5, Zenon DEF IsPiece, Entry
<1> QED BY <1>1, <1>3, <1>4, <1>5, <1>6, Zenon

\* The entries of a call, as a piece.
LEMMA EntriesPiece ==
    ASSUME NEW p \in Nat, NEW t \in Nat, NEW e \in Seq(Entry)
    PROVE  holdsEntries(entriesPiece(p, t, e), p, t, e)
<1> DEFINE f == entriesPiece(p, t, e)
<1>1. Len(e) \in Nat /\ \A k \in 1 .. Len(e) : e[k] \in Entry
  BY SeqElement
<1>2. /\ f.lo = p /\ f.hi = p + Len(e)
      /\ \A n \in p .. p + Len(e) :
           f.e[n] = IF n = p THEN labelled(t, n) ELSE e[n - p]
  BY Zenon DEF entriesPiece
<1> HIDE DEF f
<1>3. span(f) = p .. p + Len(e) /\ f.lo <= f.hi
  BY <1>1, <1>2 DEF span
<1>4. f.e[p].Term = t
  <2>1. p \in p .. p + Len(e)
    BY <1>1
  <2>2. f.e[p] = labelled(t, p)
    BY <1>2, <2>1, Zenon
  <2> QED BY <2>2 DEF labelled
<1>5. ASSUME NEW k \in 1 .. Len(e) PROVE f.e[p + k] = e[k]
  <2>1. p + k \in p .. p + Len(e) /\ p + k # p /\ (p + k) - p = k
    BY <1>1
  <2> QED BY <1>2, <2>1, Zenon
<1>6. ASSUME NEW n \in span(f) PROVE f.e[n].Term \in Nat
  <2>1. CASE n = p
    BY <1>4, <2>1, Zenon
  <2>2. CASE n # p
    <3>1. n - p \in 1 .. Len(e) /\ f.e[n] = e[n - p]
      BY <1>1, <1>2, <1>3, <2>2
    <3> QED BY <1>1, <3>1, Zenon DEF Entry
  <2> QED BY <2>1, <2>2, Zenon
<1>7. IsPiece(f)
  BY <1>1, <1>2, <1>6 DEF IsPiece
<1> QED BY <1>2, <1>3, <1>4, <1>5, <1>7, Zenon DEF f, holdsEntries

\* What a leader sends is cut out of its log.
LEMMA TailPiece ==
    ASSUME NEW l \in Log, Indexed(l), NEW n \in l.Index0 + 1 .. LastLog(l).Index + 1
    PROVE  LET f == entriesPiece(n - 1, at(l, n - 1).Term, LogTail(l, n))
           IN  PartOf(f, logPiece(l)) /\ f.hi = LastLog(l).Index
<1> DEFINE e == LogTail(l, n)
           t == at(l, n - 1).Term
           f == entriesPiece(n - 1, t, e)
           g == logPiece(l)
<1>1. /\ l.Index0 \in Nat /\ LastLog(l).Index \in Nat /\ n \in Int
      /\ LastLog(l).Index = LogLen(l) - 1
  BY LastLogProperty
<1>2. e \in Seq(Entry) /\ Len(e) = LastLog(l).Index - n + 1
  BY LogTailProperty, Zenon
<1>3. n - 1 \in Nat /\ n - 1 \in Indices(l)
  BY <1>1 DEF Indices
<1>4. t \in Nat
  BY <1>3, AtProperty, Zenon DEF Entry
<1>5. /\ IsPiece(f) /\ f.lo = n - 1 /\ f.hi = (n - 1) + Len(e)
      /\ span(f) = n - 1 .. (n - 1) + Len(e)
      /\ f.e[n - 1].Term = t
      /\ \A k \in 1 .. Len(e) : f.e[(n - 1) + k] = e[k]
  <2>1. e \in Seq(Entry)
    BY <1>2, Zenon
  <2>2. PICK p \in Nat : p = n - 1
    BY <1>3, Zenon
  <2> DEFINE h == entriesPiece(p, t, e)
  <2> HIDE DEF e, t
  <2>3. /\ IsPiece(h) /\ h.lo = p /\ h.hi = p + Len(e)
        /\ span(h) = p .. p + Len(e)
        /\ h.e[p].Term = t
        /\ \A k \in 1 .. Len(e) : h.e[p + k] = e[k]
    <3>1. holdsEntries(h, p, t, e)
      BY <1>4, <2>1, EntriesPiece, Zenon
    <3> HIDE DEF h
    <3> QED BY <3>1, Zenon DEF holdsEntries
  <2> QED BY <2>2, <2>3, Zenon
<1>6. /\ g.lo = l.Index0 /\ g.hi = LastLog(l).Index
      /\ \A k \in Indices(l) : g.e[k] = at(l, k)
  BY LogPiece, Zenon
<1>7. \A k \in 1 .. LastLog(l).Index - n + 1 : e[k] = at(l, n - 1 + k)
  BY LogTailAt, Zenon
<1> HIDE DEF e, f, g
<1>8. f.lo \in Nat /\ f.hi \in Nat /\ g.lo <= f.lo /\ f.hi <= g.hi
  <2>1. f.lo = n - 1 /\ f.hi = (n - 1) + Len(e) /\ g.lo = l.Index0 /\ g.hi = LastLog(l).Index
    BY <1>5, <1>6, Zenon
  <2> QED BY <1>1, <1>2, <1>3, <2>1
<1>9. ASSUME NEW k \in span(f)
      PROVE  f.e[k].Term = g.e[k].Term /\ (k > f.lo => f.e[k] = g.e[k])
  <2>0. k \in n - 1 .. (n - 1) + Len(e)
    BY <1>5, Zenon
  <2>1. k \in Indices(l) /\ k \in Int /\ (k = n - 1 => ~(k > n - 1))
    BY <1>1, <1>2, <2>0 DEF Indices
  <2>2. CASE k = n - 1
    BY <1>5, <1>6, <2>1, <2>2, Zenon DEF t
  <2>3. CASE k # n - 1
    <3>1. /\ k - (n - 1) \in 1 .. Len(e) /\ (n - 1) + (k - (n - 1)) = k
          /\ n - 1 + (k - (n - 1)) = k
      BY <1>1, <1>2, <2>0, <2>3
    <3>2. f.e[k] = e[k - (n - 1)] /\ e[k - (n - 1)] = at(l, k)
      BY <1>2, <1>5, <1>7, <3>1, Zenon
    <3> QED BY <1>6, <2>1, <3>2, Zenon
  <2> QED BY <2>2, <2>3, Zenon
<1>10. PartOf(f, g)
  BY <1>8, <1>9, Zenon DEF PartOf
<1>11. f.hi = LastLog(l).Index
  <2>1. f.hi = (n - 1) + Len(e)
    BY <1>5, Zenon
  <2> QED BY <1>1, <1>2, <2>1
<1> QED BY <1>10, <1>11, Zenon DEF f, g, e

\* A log that has been cut back is a part of what it was.
LEMMA CutBackPiece ==
    ASSUME NEW l \in Log, Indexed(l), NEW e \in Seq(Entry),
           NEW prev \in l.Index0 .. LastLog(l).Index, Follows(prev, e)
    PROVE  PartOf(logPiece(cutBack(l, e)), logPiece(l))
<1> DEFINE c == cutBack(l, e)
<1>1. c \in Log /\ Indexed(c) /\ c.Index0 = l.Index0
  BY MergeProperty, Zenon
<1>2. /\ LastLog(c).Index <= LastLog(l).Index
      /\ \A k \in l.Index0 .. LastLog(c).Index : at(c, k) = at(l, k)
  <2>1. CASE c = l
    BY <2>1, LastLogProperty
  <2>2. CASE \E q \in 1 .. Len(e) :
               /\ LastLog(c).Index = prev + q - 1 /\ prev + q - 1 <= LastLog(l).Index
               /\ \A k \in l.Index0 .. prev + q - 1 : at(c, k) = at(l, k)
    BY <2>2, Zenon
  <2>3. c = l \/ \E q \in 1 .. Len(e) :
                    /\ LastLog(c).Index = prev + q - 1 /\ prev + q - 1 <= LastLog(l).Index
                    /\ \A k \in l.Index0 .. prev + q - 1 : at(c, k) = at(l, k)
    BY MergeAt
  <2> QED BY <2>1, <2>2, <2>3, Zenon
<1>3. /\ l.Index0 \in Nat /\ LastLog(l).Index \in Nat /\ LastLog(c).Index \in Nat
      /\ Indices(c) = c.Index0 .. LastLog(c).Index
      /\ Indices(l) = l.Index0 .. LastLog(l).Index
  BY <1>1, LastLogProperty, Zenon DEF Indices
<1> HIDE DEF c
<1>4. /\ span(logPiece(c)) = Indices(c)
      /\ logPiece(c).lo = c.Index0 /\ logPiece(c).hi = LastLog(c).Index
      /\ logPiece(l).lo = l.Index0 /\ logPiece(l).hi = LastLog(l).Index
      /\ \A n \in Indices(c) : logPiece(c).e[n] = at(c, n)
      /\ \A n \in Indices(l) : logPiece(l).e[n] = at(l, n)
  BY <1>1, LogPiece, Zenon
<1>5. ASSUME NEW n \in span(logPiece(c)) PROVE logPiece(c).e[n] = logPiece(l).e[n]
  <2>1. n \in Indices(c) /\ n \in Indices(l) /\ n \in l.Index0 .. LastLog(c).Index
    BY <1>1, <1>2, <1>3, <1>4
  <2> QED BY <1>2, <1>4, <2>1, Zenon
<1> QED BY <1>1, <1>2, <1>3, <1>4, <1>5 DEF PartOf, c

\* Start: the log with an entry after it.
LEMMA ExtendPiece ==
    ASSUME NEW l \in Log, Indexed(l), NEW x \in Entry, x.Index = LastLog(l).Index + 1
    PROVE  LET w == logPiece(append(l, <<x>>))
               f == logPiece(l)
           IN  /\ append(l, <<x>>) \in Log /\ Indexed(append(l, <<x>>)) /\ IsPiece(w)
               /\ append(l, <<x>>).Index0 = l.Index0
               /\ w.lo = f.lo /\ w.hi = f.hi + 1 /\ f.lo <= f.hi
               /\ \A n \in span(f) : w.e[n] = f.e[n]
               /\ w.e[w.hi] = x
<1> DEFINE a == append(l, <<x>>)
           last == LastLog(l).Index
<1>1. <<x>> \in Seq(Entry) /\ Len(<<x>>) = 1 /\ <<x>>[1] = x
  OBVIOUS
<1>2. last \in Nat /\ l.Index0 \in Nat /\ l.Index0 <= last /\ last = LogLen(l) - 1
  BY LastLogProperty, Zenon
<1>3. Follows(last, <<x>>)
  BY <1>1, <1>2 DEF Follows
<1>4. a \in Log /\ Indexed(a) /\ LastLog(a).Index = last + 1 /\ a.Index0 = l.Index0
  BY <1>1, <1>3, AppendProperty, Zenon
<1>5. ASSUME NEW k \in l.Index0 .. last + 1
      PROVE  at(a, k) = IF k <= last THEN at(l, k) ELSE x
  <2>1. at(a, k) = IF k <= last THEN at(l, k) ELSE <<x>>[k - last]
    BY <1>1, AppendAt, Zenon
  <2>2. ~(k <= last) => k - last = 1
    BY <1>2
  <2> QED BY <1>1, <2>1, <2>2, Zenon
<1> HIDE DEF a
<1>6. Indices(a) = l.Index0 .. last + 1 /\ Indices(l) = l.Index0 .. last
  BY <1>2, <1>4, LastLogProperty, Zenon DEF Indices
<1>7. /\ IsPiece(logPiece(a)) /\ logPiece(a).lo = l.Index0 /\ logPiece(a).hi = last + 1
      /\ \A n \in Indices(a) : logPiece(a).e[n] = at(a, n)
  BY <1>4, LogPiece, Zenon
<1>8. /\ logPiece(l).lo = l.Index0 /\ logPiece(l).hi = last
      /\ span(logPiece(l)) = Indices(l)
      /\ \A n \in Indices(l) : logPiece(l).e[n] = at(l, n)
  BY LogPiece, Zenon
<1> HIDE DEF last
<1>9. ASSUME NEW n \in span(logPiece(l)) PROVE logPiece(a).e[n] = logPiece(l).e[n]
  <2>1. n \in Indices(l) /\ n \in Indices(a) /\ n \in l.Index0 .. last + 1 /\ n <= last
    BY <1>2, <1>6, <1>8
  <2> QED BY <1>5, <1>7, <1>8, <2>1
<1>10. logPiece(a).e[last + 1] = x
  <2>1. last + 1 \in Indices(a) /\ last + 1 \in l.Index0 .. last + 1 /\ ~(last + 1 <= last)
    BY <1>2, <1>6
  <2> QED BY <1>5, <1>7, <2>1, Zenon
<1> QED BY <1>2, <1>4, <1>7, <1>8, <1>9, <1>10, Zenon DEF a

\* AppendEntries: where the merged log is not the old one, it is the old log
\* up to prev joined to the entries of the call.
LEMMA MergePiece ==
    ASSUME NEW l \in Log, Indexed(l), NEW e \in Seq(Entry), NEW t \in Nat,
           NEW prev \in l.Index0 .. LastLog(l).Index, Follows(prev, e),
           at(l, prev).Term = t, Match(logPiece(l), entriesPiece(prev, t, e))
    PROVE  LET w == logPiece(merge(l, e))
               f == logPiece(l)
               m == entriesPiece(prev, t, e)
           IN  \/ merge(l, e) = l
               \/ /\ w.lo = f.lo /\ w.hi = m.hi /\ m.hi >= 1
                  /\ \A k \in span(f) : k <= m.lo => w.e[k] = f.e[k]
                  /\ \A k \in span(m) : k > m.lo => w.e[k] = m.e[k]
<1> DEFINE w == logPiece(merge(l, e))
           f == logPiece(l)
           m == entriesPiece(prev, t, e)
           a == merge(l, e)
<1>0. l.Index0 \in Nat /\ LastLog(l).Index \in Nat /\ Len(e) \in Nat /\ prev \in Nat
      /\ l.Index0 <= prev /\ prev <= LastLog(l).Index
      /\ Indices(l) = l.Index0 .. LastLog(l).Index
  <2>1. l.Index0 \in Nat /\ LastLog(l).Index \in Nat /\ LastLog(l).Index = LogLen(l) - 1
    BY LastLogProperty, Zenon
  <2> QED BY <2>1 DEF Indices
<1>1. SUFFICES ASSUME merge(l, e) # l
               PROVE  /\ w.lo = f.lo /\ w.hi = m.hi /\ m.hi >= 1
                      /\ \A k \in span(f) : k <= m.lo => w.e[k] = f.e[k]
                      /\ \A k \in span(m) : k > m.lo => w.e[k] = m.e[k]
  BY Zenon
<1>2. PICK q \in 1 .. Len(e) :
                /\ \A k \in 1 .. q - 1 : /\ prev + k <= LastLog(l).Index
                                         /\ at(l, prev + k).Term = e[k].Term
                /\ LastLog(a).Index = prev + Len(e)
                /\ \A k \in l.Index0 .. prev + q - 1 : at(a, k) = at(l, k)
                /\ \A k \in q .. Len(e) : at(a, prev + k) = e[k]
  <2>1. merge(l, e) = l \/ \E q \in 1 .. Len(e) :
                /\ \A k \in 1 .. q - 1 : /\ prev + k <= LastLog(l).Index
                                         /\ at(l, prev + k).Term = e[k].Term
                /\ LastLog(merge(l, e)).Index = prev + Len(e)
                /\ \A k \in l.Index0 .. prev + q - 1 : at(merge(l, e), k) = at(l, k)
                /\ \A k \in q .. Len(e) : at(merge(l, e), prev + k) = e[k]
    BY MergeAt, ZenonT(60)
  <2> QED BY <1>1, <2>1, Zenon
<1>3. a \in Log /\ Indexed(a) /\ a.Index0 = l.Index0
  BY MergeProperty, Zenon
<1> HIDE DEF a
<1>4. Indices(a) = l.Index0 .. prev + Len(e)
  BY <1>0, <1>2, <1>3, LastLogProperty, Zenon DEF Indices
<1>5. /\ w.lo = l.Index0 /\ w.hi = prev + Len(e)
      /\ \A n \in Indices(a) : w.e[n] = at(a, n)
  BY <1>2, <1>3, LogPiece, Zenon DEF a
<1>6. /\ f.lo = l.Index0 /\ span(f) = Indices(l)
      /\ \A n \in Indices(l) : f.e[n] = at(l, n)
  BY LogPiece, Zenon
<1>7. /\ m.lo = prev /\ m.hi = prev + Len(e) /\ span(m) = prev .. prev + Len(e)
      /\ m.e[prev].Term = t /\ \A k \in 1 .. Len(e) : m.e[prev + k] = e[k]
  <2>1. holdsEntries(m, prev, t, e)
    BY <1>0, EntriesPiece, Zenon
  <2> HIDE DEF m
  <2> QED BY <2>1, Zenon DEF holdsEntries
<1> HIDE DEF w, f, m
<1>8. ASSUME NEW k \in span(f), k <= m.lo PROVE w.e[k] = f.e[k]
  <2>1. k \in Indices(a) /\ k \in Indices(l) /\ k \in l.Index0 .. prev + q - 1
    BY <1>0, <1>2, <1>4, <1>6, <1>7, <1>8
  <2> QED BY <1>2, <1>5, <1>6, <2>1, Zenon
<1>9. ASSUME NEW k \in span(m), k > m.lo PROVE w.e[k] = m.e[k]
  <2>1. PICK j \in 1 .. Len(e) : k = prev + j
    <3>1. k - prev \in 1 .. Len(e) /\ k = prev + (k - prev)
      BY <1>0, <1>7, <1>9
    <3> QED BY <3>1, Zenon
  <2>2. k \in Indices(a) /\ m.e[k] = e[j] /\ w.e[k] = at(a, k)
    <3>1. k \in Indices(a)
      BY <1>0, <1>4, <2>1
    <3>2. m.e[k] = e[j]
      BY <1>7, <2>1, Zenon
    <3> QED BY <1>5, <3>1, <3>2, Zenon
  <2>3. CASE j >= q
    BY <1>2, <2>1, <2>2, <2>3, SMTT(20)
  <2>4. CASE j < q
    <3>1. j \in 1 .. q - 1 /\ k \in l.Index0 .. prev + q - 1
      BY <1>0, <2>1, <2>4
    <3>2. k <= LastLog(l).Index /\ at(l, k).Term = e[j].Term /\ at(a, k) = at(l, k)
      BY <1>2, <2>1, <3>1, Zenon
    <3>3. k \in Indices(l) /\ k \in span(f) /\ f.e[k] = at(l, k) /\ k > f.lo
      BY <1>0, <1>6, <1>7, <1>9, <2>1, <3>2, SMTT(20)
    <3>4. f.e[k] = m.e[k]
      <4>1. f.e[k].Term = m.e[k].Term /\ k <= k
        BY <2>1, <2>2, <3>2, <3>3
      <4>2. Match(f, m)
        BY Zenon DEF f, m
      <4> QED BY <1>9, <3>3, <4>1, <4>2, Zenon DEF Match
    <3> QED BY <2>2, <3>2, <3>3, <3>4, Zenon
  <2> QED BY <2>1, <2>3, <2>4
<1>10. m.hi >= 1
  BY <1>0, <1>2, <1>7
<1> QED BY <1>5, <1>6, <1>7, <1>8, <1>9, <1>10, Zenon

-----------------------------------------------------------------------------
(* The facts of RaftPieces, from the lemmas above                            *)

\* Merging, as RaftPieces states it.
LEMMA MergeFacts == MergeFact /\ MergeAtFact /\ MergePieceFact
<1>1. ASSUME NEW l \in Log, NEW e, NEW prev, mergeable(l, e, prev)
      PROVE  /\ Indexed(l) /\ e \in Seq(Entry)
             /\ prev \in l.Index0 .. LastLog(l).Index /\ Follows(prev, e)
  BY <1>1, Zenon DEF mergeable
<1>2. MergeFact
  <2> SUFFICES ASSUME NEW l \in Log, NEW e, NEW prev, mergeable(l, e, prev)
               PROVE  /\ cutBack(l, e) \in Log /\ Indexed(cutBack(l, e))
                      /\ merge(l, e) \in Log /\ Indexed(merge(l, e))
                      /\ cutBack(l, e).Index0 = l.Index0 /\ merge(l, e).Index0 = l.Index0
                      /\ PartOf(logPiece(cutBack(l, e)), logPiece(l))
    BY Zenon DEF MergeFact
  <2>1. /\ Indexed(l) /\ e \in Seq(Entry)
        /\ prev \in l.Index0 .. LastLog(l).Index /\ Follows(prev, e)
    BY <1>1, Zenon
  <2> QED BY <2>1, MergeProperty, CutBackPiece, Zenon
<1>3. MergeAtFact
  <2> SUFFICES ASSUME NEW l \in Log, NEW e, NEW prev, mergeable(l, e, prev)
               PROVE  \/ merge(l, e) = l /\ cutBack(l, e) = l /\ alreadyHas(l, e, prev, Len(e))
                      \/ \E q \in 1 .. Len(e) : mergedAt(l, e, prev, q)
    BY Zenon DEF MergeAtFact
  <2>1. /\ Indexed(l) /\ e \in Seq(Entry)
        /\ prev \in l.Index0 .. LastLog(l).Index /\ Follows(prev, e)
    BY <1>1, Zenon
  <2> QED BY <2>1, MergeAt, Zenon DEF alreadyHas, mergedAt
<1>4. MergePieceFact
  <2> SUFFICES ASSUME NEW l \in Log, NEW e, NEW prev, mergeable(l, e, prev), NEW t \in Nat,
                      at(l, prev).Term = t, Match(logPiece(l), entriesPiece(prev, t, e)),
                      merge(l, e) # l
               PROVE  /\ joined(logPiece(merge(l, e)), logPiece(l), entriesPiece(prev, t, e))
                      /\ prev + Len(e) >= 1
    BY Zenon DEF MergePieceFact
  <2>1. /\ Indexed(l) /\ e \in Seq(Entry)
        /\ prev \in l.Index0 .. LastLog(l).Index /\ Follows(prev, e)
    BY <1>1, Zenon
  <2>2. entriesPiece(prev, t, e).hi = prev + Len(e)
    BY Zenon DEF entriesPiece
  <2>3. LET w == logPiece(merge(l, e))
            f == logPiece(l)
            m == entriesPiece(prev, t, e)
        IN  /\ w.lo = f.lo /\ w.hi = m.hi /\ m.hi >= 1
            /\ \A k \in span(f) : k <= m.lo => w.e[k] = f.e[k]
            /\ \A k \in span(m) : k > m.lo => w.e[k] = m.e[k]
    BY <2>1, MergePiece, Zenon
  <2> QED BY <2>2, <2>3, Zenon DEF joined
<1> QED BY <1>2, <1>3, <1>4, Zenon

-----------------------------------------------------------------------------
(* What leaders have written                                                 *)

\* Having the same entries is an equivalence.
LEMMA SameEntries == SameFact
<1>1. ASSUME NEW f, NEW g, f.hi \in Nat, g.hi \in Nat, NEW b \in Nat, NEW c \in Nat,
             SameUpTo(f, g, b), c <= b
      PROVE  SameUpTo(f, g, c)
  <2>1. c <= f.hi /\ c <= g.hi /\ \A k \in 0 .. c : k \in 0 .. b
    BY <1>1 DEF SameUpTo
  <2> QED BY <1>1, <2>1, Zenon DEF SameUpTo
<1>2. \A f, g, b : SameUpTo(f, g, b) => SameUpTo(g, f, b)
  BY Zenon DEF SameUpTo
<1>3. \A f, g, h, b : SameUpTo(f, g, b) /\ SameUpTo(g, h, b) => SameUpTo(f, h, b)
  BY Zenon DEF SameUpTo
<1> QED BY <1>1, <1>2, <1>3, Zenon DEF SameFact

\* What has the entries of a piece that leaders wrote is written by them, too.
LEMMA WrittenSame ==
    ASSUME NEW L, NEW f, NEW g, f.hi \in Nat, g.hi \in Nat, SameUpTo(f, g, f.hi), writtenIn(L, g)
    PROVE  writtenIn(L, f)
<1> SUFFICES ASSUME NEW b \in 1 .. f.hi
             PROVE  f.e[b].Term \in DOMAIN L /\ SameUpTo(f, L[f.e[b].Term], b)
  BY Zenon DEF writtenIn
<1>1. b \in Nat /\ b <= f.hi
  OBVIOUS
<1>2. SameUpTo(f, g, b)
  BY <1>1, SameEntries, Zenon DEF SameFact
<1>3. b \in 1 .. g.hi /\ b \in 0 .. b
  BY <1>2 DEF SameUpTo
<1>4. f.e[b] = g.e[b]
  BY <1>2, <1>3, Zenon DEF SameUpTo
<1>5. g.e[b].Term \in DOMAIN L /\ SameUpTo(g, L[g.e[b].Term], b)
  BY <1>3, Zenon DEF writtenIn
<1> QED BY <1>2, <1>4, <1>5, SameEntries, Zenon DEF SameFact

\* Two pieces that leaders have written, and that have the same term at an index.
LEMMA SameTerm ==
    ASSUME NEW L, NEW f, NEW g, rooted(f), rooted(g), writtenIn(L, f), writtenIn(L, g),
           NEW b \in Nat, b <= f.hi, b <= g.hi, f.e[b].Term = g.e[b].Term
    PROVE  SameUpTo(f, g, b)
<1>1. CASE b = 0
  <2>1. \A k \in 0 .. b : k = 0
    BY <1>1
  <2> QED BY <2>1, Zenon DEF SameUpTo, rooted
<1>2. CASE b # 0
  <2>1. b \in 1 .. f.hi /\ b \in 1 .. g.hi
    BY <1>2 DEF rooted
  <2>2. SameUpTo(f, L[f.e[b].Term], b) /\ SameUpTo(g, L[f.e[b].Term], b)
    BY <2>1, Zenon DEF writtenIn
  <2>3. SameUpTo(L[f.e[b].Term], g, b)
    BY <2>2, SameEntries, ZenonT(40) DEF SameFact
  <2> QED BY <2>2, <2>3, SameEntries, Zenon DEF SameFact
<1> QED BY <1>1, <1>2, Zenon

\* What was written, and what was sent, stays so as the logs of leaders grow.
LEMMA StillWritten ==
    ASSUME NEW L, NEW M, Grows(L, M)
    PROVE  /\ \A g : g.hi \in Nat /\ writtenIn(L, g) => writtenIn(M, g)
           /\ \A u \in DOMAIN L : \A f : PartOf(f, L[u]) => PartOf(f, M[u])
<1>1. ASSUME NEW g, g.hi \in Nat, writtenIn(L, g), NEW b \in 1 .. g.hi
      PROVE  g.e[b].Term \in DOMAIN M /\ SameUpTo(g, M[g.e[b].Term], b)
  <2> DEFINE u == g.e[b].Term
  <2>1. u \in DOMAIN L /\ SameUpTo(g, L[u], b)
    BY <1>1, Zenon DEF writtenIn
  <2> HIDE DEF u
  <2>2. /\ u \in DOMAIN M /\ L[u].hi \in Nat /\ M[u].hi \in Nat
        /\ SameUpTo(L[u], M[u], L[u].hi)
    BY <2>1, Zenon DEF Grows, rooted
  <2>3. b \in Nat /\ b <= L[u].hi
    <3>1. b <= L[u].hi
      BY <2>1, Zenon DEF SameUpTo
    <3> QED BY <1>1, <3>1
  <2>4. SameUpTo(L[u], M[u], b)
    BY <2>2, <2>3, SameEntries, Zenon DEF SameFact
  <2>5. SameUpTo(g, M[u], b)
    BY <2>1, <2>4, SameEntries, Zenon DEF SameFact
  <2> QED BY <2>2, <2>5, Zenon DEF u
<1>2. ASSUME NEW u \in DOMAIN L, NEW f, PartOf(f, L[u])
      PROVE  PartOf(f, M[u])
  <2>1. /\ L[u].lo = 0 /\ M[u].lo = 0 /\ L[u].hi \in Nat /\ M[u].hi \in Nat
        /\ L[u].hi <= M[u].hi /\ \A k \in 0 .. L[u].hi : L[u].e[k] = M[u].e[k]
    BY Zenon DEF Grows, rooted, SameUpTo
  <2>2. f.lo \in Nat /\ f.hi \in Nat /\ f.hi <= L[u].hi
    BY <1>2, Zenon DEF PartOf
  <2>3. M[u].lo <= f.lo /\ f.hi <= M[u].hi /\ \A k \in span(f) : k \in 0 .. L[u].hi
    BY <2>1, <2>2 DEF span
  <2> QED BY <1>2, <2>1, <2>2, <2>3, Zenon DEF PartOf
<1> QED BY <1>1, <1>2, Zenon DEF writtenIn

\* AppendEntries, given entries of the leader of u where they fit.
LEMMA StoreWritten ==
    ASSUME NEW l \in Log, NEW e, NEW prev, mergeable(l, e, prev), NEW L, NEW u \in DOMAIN L,
           rooted(logPiece(l)), rooted(L[u]),
           PartOf(entriesPiece(prev, at(l, prev).Term, e), L[u]),
           writtenIn(L, logPiece(l)), writtenIn(L, L[u])
    PROVE  storesFrom(l, e, prev, L, u)
<1> DEFINE f == logPiece(l)
           g == L[u]
           w == logPiece(merge(l, e))
           c == logPiece(cutBack(l, e))
           last == LastLog(l).Index
           len == Len(e)
<1>1. /\ Indexed(l) /\ e \in Seq(Entry) /\ prev \in l.Index0 .. last /\ Follows(prev, e)
  BY Zenon DEF mergeable
<1>2. /\ l.Index0 = 0 /\ f.hi = last /\ last \in Nat /\ Indices(l) = 0 .. last
      /\ \A k \in Indices(l) : f.e[k] = at(l, k) /\ at(l, k) \in Entry
  <2>1. f.lo = l.Index0 /\ f.hi = last /\ span(f) = Indices(l) /\ f.lo = 0 /\ f.hi \in Nat
    BY <1>1, LogPiece, Zenon DEF rooted
  <2> QED BY <1>1, <2>1, LogPiece, Zenon DEF span
<1>3. prev \in Nat /\ prev <= last /\ len \in Nat /\ prev \in Indices(l) /\ at(l, prev).Term \in Nat
  <2>1. len \in Nat
    BY <1>1
  <2>2. prev \in Nat /\ prev <= last /\ prev \in 0 .. last
    BY <1>1, <1>2
  <2> QED BY <1>2, <2>1, <2>2, Zenon DEF Entry
<1>4. /\ g.hi \in Nat /\ prev + len <= g.hi /\ g.e[prev].Term = at(l, prev).Term
      /\ \A k \in 1 .. len : g.e[prev + k] = e[k]
  <2> DEFINE h == entriesPiece(prev, at(l, prev).Term, e)
  <2>1. holdsEntries(h, prev, at(l, prev).Term, e)
    BY <1>1, <1>3, EntriesPiece, Zenon
  <2> HIDE DEF h
  <2>2. /\ h.lo = prev /\ h.hi = prev + len /\ span(h) = prev .. prev + len
        /\ h.e[prev].Term = at(l, prev).Term /\ \A k \in 1 .. len : h.e[prev + k] = e[k]
    BY <2>1, Zenon DEF holdsEntries
  <2>3. h.hi <= g.hi /\ \A n \in span(h) : h.e[n].Term = g.e[n].Term /\ (n > h.lo => h.e[n] = g.e[n])
    BY Zenon DEF PartOf, h
  <2>4. prev \in prev .. prev + len /\ \A k \in 1 .. len : prev + k \in prev .. prev + len /\ prev + k > prev
    BY <1>3
  <2> QED BY <2>2, <2>3, <2>4, Zenon DEF rooted
<1>5. /\ merge(l, e) \in Log /\ Indexed(merge(l, e)) /\ merge(l, e).Index0 = 0
      /\ cutBack(l, e) \in Log /\ Indexed(cutBack(l, e)) /\ cutBack(l, e).Index0 = 0
  BY <1>1, <1>2, MergeProperty, Zenon
<1>6. ASSUME NEW m \in Log, Indexed(m), m.Index0 = 0
      PROVE  /\ logPiece(m).hi = LastLog(m).Index /\ LastLog(m).Index \in Nat
             /\ \A k \in 0 .. LastLog(m).Index : logPiece(m).e[k] = at(m, k)
  <2>1. /\ logPiece(m).lo = 0 /\ logPiece(m).hi = LastLog(m).Index
        /\ span(logPiece(m)) = Indices(m) /\ IsPiece(logPiece(m))
        /\ \A k \in Indices(m) : logPiece(m).e[k] = at(m, k)
    BY <1>6, LogPiece, Zenon
  <2> QED BY <2>1, Zenon DEF span, IsPiece
<1> HIDE DEF f, g, w, c, last, len
<1>7. ASSUME NEW b \in Nat, b <= last, b <= g.hi, at(l, b).Term = g.e[b].Term
      PROVE  SameUpTo(f, g, b)
  <2>1. b \in 0 .. last
    BY <1>2, <1>7
  <2>2. f.e[b].Term = g.e[b].Term /\ b <= f.hi
    BY <1>2, <1>7, <2>1, Zenon
  <2> QED BY <1>7, <2>2, SameTerm, Zenon DEF f, g
<1>8. SameUpTo(f, g, prev)
  <2>1. prev <= g.hi
    BY <1>3, <1>4
  <2> QED BY <1>3, <1>4, <1>7, <2>1, Zenon
<1>9. CASE merge(l, e) = l /\ cutBack(l, e) = l /\ alreadyHas(l, e, prev, Len(e))
  <2>1. SameUpTo(f, g, prev + len)
    <3>1. CASE len = 0
      <4>1. prev + len = prev
        BY <1>3, <3>1
      <4> QED BY <1>8, <4>1, Zenon
    <3>2. CASE len # 0
      <4>1. len \in 1 .. len /\ prev + len \in Nat
        BY <1>3, <3>2
      <4>2. prev + len <= last /\ at(l, prev + len).Term = e[len].Term
        BY <1>9, <4>1, Zenon DEF alreadyHas, last, len
      <4> QED BY <1>4, <1>7, <4>1, <4>2, Zenon
    <3> QED BY <3>1, <3>2, Zenon
  <2>2. w = f /\ c = f
    BY <1>9, Zenon DEF w, c, f
  <2> QED BY <2>1, <2>2, Zenon DEF storesFrom, w, c, f, g, len
<1>10. ASSUME NEW q \in 1 .. Len(e), mergedAt(l, e, prev, q)
       PROVE  storesFrom(l, e, prev, L, u)
  <2>1. q \in Nat /\ 1 <= q /\ q <= len /\ prev + q - 1 \in Nat /\ prev + len \in Nat
    BY <1>3 DEF len
  <2>2. /\ w.hi = prev + len /\ c.hi = prev + q - 1
        /\ \A k \in 0 .. prev + len : w.e[k] = at(merge(l, e), k)
        /\ \A k \in 0 .. prev + q - 1 : c.e[k] = at(cutBack(l, e), k)
    BY <1>5, <1>6, <1>10, Zenon DEF mergedAt, w, c, len
  <2>3. \A k \in 0 .. prev + q - 1 : k \in 0 .. last /\ k \in 0 .. prev + len
    <3>1. prev + q - 1 <= last
      BY <1>10, Zenon DEF mergedAt, last
    <3> QED BY <1>2, <1>3, <2>1, <3>1
  <2>4. \A k \in 0 .. prev + q - 1 : w.e[k] = f.e[k] /\ c.e[k] = f.e[k]
    <3>1. \A k \in 0 .. prev + q - 1 : at(merge(l, e), k) = at(l, k) /\ at(cutBack(l, e), k) = at(l, k)
      BY <1>2, <1>10, Zenon DEF mergedAt
    <3> QED BY <1>2, <2>2, <2>3, <3>1, ZenonT(40)
  <2>5. SameUpTo(f, g, prev + q - 1)
    <3>1. CASE q = 1
      <4>1. prev + q - 1 = prev
        BY <1>3, <3>1
      <4> QED BY <1>8, <4>1, Zenon
    <3>2. CASE q # 1
      <4>1. q - 1 \in 1 .. q - 1 /\ q - 1 \in 1 .. len /\ prev + (q - 1) = prev + q - 1
            /\ (prev + (q - 1) <= prev + len)
        BY <1>3, <2>1, <3>2
      <4>2. prev + (q - 1) <= last /\ at(l, prev + (q - 1)).Term = e[q - 1].Term
        BY <1>10, <4>1, Zenon DEF mergedAt, alreadyHas, last
      <4>3. prev + q - 1 <= g.hi
        BY <1>3, <1>4, <2>1
      <4> QED BY <1>4, <1>7, <2>1, <4>1, <4>2, <4>3, Zenon
    <3> QED BY <3>1, <3>2, Zenon
  <2>6. SameUpTo(w, g, prev + len)
    <3>1. ASSUME NEW k \in 0 .. prev + len PROVE w.e[k] = g.e[k]
      <4>1. CASE k <= prev + q - 1
        <5>1. k \in 0 .. prev + q - 1
          BY <2>1, <4>1
        <5> QED BY <2>4, <2>5, <5>1, Zenon DEF SameUpTo
      <4>2. CASE ~(k <= prev + q - 1)
        <5>1. k - prev \in q .. len /\ k - prev \in 1 .. len /\ prev + (k - prev) = k
          BY <1>3, <2>1, <4>2
        <5>2. at(merge(l, e), prev + (k - prev)) = e[k - prev]
          BY <1>10, <5>1, Zenon DEF mergedAt, len
        <5> QED BY <1>4, <2>2, <5>1, <5>2, Zenon
      <4> QED BY <4>1, <4>2, Zenon
    <3>2. prev + len <= w.hi
      BY <2>1, <2>2
    <3> QED BY <1>4, <3>1, <3>2, Zenon DEF SameUpTo
  <2>7. ASSUME NEW x \in Nat, SameUpTo(f, g, x) PROVE x <= prev + q - 1
    <3> SUFFICES ASSUME ~(x <= prev + q - 1) PROVE FALSE
      OBVIOUS
    <3>1. x <= last /\ \A k \in 0 .. x : f.e[k] = g.e[k]
      BY <1>2, <2>7, Zenon DEF SameUpTo
    <3>2. prev + q \in 0 .. x /\ prev + q \in 0 .. last /\ ~(prev + q > last)
      BY <1>2, <1>3, <2>1, <3>1
    <3>3. at(l, prev + q) = g.e[prev + q] /\ g.e[prev + q] = e[q]
      <4>1. q \in 1 .. len
        BY <1>3, <2>1
      <4> QED BY <1>2, <1>4, <3>1, <3>2, <4>1, Zenon
    <3> QED BY <1>10, <3>2, <3>3, Zenon DEF mergedAt, last
  <2>8. ASSUME NEW x \in Nat, x <= prev + q - 1 PROVE SameUpTo(w, f, x) /\ SameUpTo(c, f, x)
    <3>1. /\ x <= prev + len /\ x <= last /\ \A k \in 0 .. x : k \in 0 .. prev + q - 1
      <4>1. prev + q - 1 <= last
        BY <1>10, Zenon DEF mergedAt, last
      <4> QED BY <1>2, <1>3, <2>1, <2>8, <4>1
    <3> QED BY <1>2, <2>2, <2>4, <2>8, <3>1, Zenon DEF SameUpTo
  <2>9. ASSUME NEW x \in Nat, SameUpTo(f, g, x) PROVE SameUpTo(w, g, x) /\ SameUpTo(c, g, x)
    BY <2>7, <2>8, <2>9, SameEntries, Zenon DEF SameFact
  <2>10. writtenIn(L, w)
    BY <1>4, <2>1, <2>2, <2>6, WrittenSame, Zenon DEF g
  <2>11. writtenIn(L, c)
    <3>1. SameUpTo(c, f, c.hi) /\ c.hi \in Nat
      <4>1. prev + q - 1 <= prev + q - 1
        BY <2>1
      <4> QED BY <2>1, <2>2, <2>8, <4>1, Zenon
    <3> QED BY <1>2, <3>1, WrittenSame, Zenon DEF f
  <2> QED BY <2>6, <2>9, <2>10, <2>11, Zenon DEF storesFrom, w, c, f, g, len
<1> QED BY <1>1, <1>9, <1>10, MergeFacts, Zenon DEF MergeAtFact

\* Everything RaftPieces says of logs and pieces of logs of any length.
THEOREM LogFactsHold == LogFacts
<1>1. MaxFact
  BY MaxProperty, Zenon DEF MaxFact
<1>2. EmptyFact /\ AtFact /\ LastLogFact /\ TailFact /\ LogPieceFact
  <2>1. EmptyFact
    BY EmptyLogProperty, Zenon DEF EmptyFact
  <2>2. AtFact
    BY AtProperty, Zenon DEF AtFact
  <2>3. LastLogFact
    BY LastLogProperty, Zenon DEF LastLogFact
  <2>4. TailFact
    BY TailPiece, Zenon DEF TailFact
  <2>5. LogPieceFact
    BY LogPiece, Zenon DEF LogPieceFact
  <2> QED BY <2>1, <2>2, <2>3, <2>4, <2>5, Zenon
<1>3. EntriesFact /\ StartFact
  <2>1. EntriesFact
    BY EntriesPiece, Zenon DEF EntriesFact
  <2>2. StartFact
    BY ExtendPiece, ZenonT(40) DEF StartFact, startedFrom
  <2> QED BY <2>1, <2>2
<1>4. CutFact
  BY PartSpan, PartSound, PartAgree, Zenon DEF CutFact
<1>5. SelfFact /\ ExtendFact /\ JoinFact
  <2>1. SelfFact
    BY SelfAgree, Zenon DEF SelfFact
  <2>2. ExtendFact
    <3> SUFFICES ASSUME NEW t \in Nat, NEW f, NEW w, NEW h, Sound(f), Sound(h),
                        Agree(f, h), Agree(h, f), extendsBy(w, f, t),
                        \A n \in span(h) : h.e[n].Term = t => n \in span(f) /\ f.e[n].Term = t
                 PROVE  Agree(w, h) /\ Agree(h, w)
      BY Zenon DEF ExtendFact
    <3>1. /\ w.lo = f.lo /\ w.hi = f.hi + 1 /\ f.lo <= f.hi /\ w.e[w.hi].Term = t
          /\ \A n \in span(f) : w.e[n] = f.e[n] /\ f.e[n].Term <= t
      BY Zenon DEF extendsBy
    <3> QED BY <3>1, ExtendAgree
  <2>3. JoinFact
    <3> SUFFICES ASSUME NEW l, NEW m, NEW w, NEW h, Sound(l), Sound(m), Sound(h),
                        Agree(l, h), Agree(h, l), Agree(m, h), Agree(h, m),
                        m.lo \in span(l), m.lo <= m.hi, l.e[m.lo].Term = m.e[m.lo].Term,
                        joined(w, l, m)
                 PROVE  Agree(w, h) /\ Agree(h, w)
      BY ZenonT(40) DEF JoinFact
    <3>1. /\ w.lo = l.lo /\ w.hi = m.hi
          /\ \A k \in span(l) : k <= m.lo => w.e[k] = l.e[k]
          /\ \A k \in span(m) : k > m.lo => w.e[k] = m.e[k]
      BY Zenon DEF joined
    <3> QED BY <3>1, JoinAgree
  <2> QED BY <2>1, <2>2, <2>3, Zenon
<1>6. SameTermFact /\ GrowFact /\ StoreFact
  <2>1. SameTermFact
    BY SameTerm, Zenon DEF SameTermFact
  <2>2. GrowFact
    BY StillWritten, Zenon DEF GrowFact
  <2>3. StoreFact
    BY StoreWritten, ZenonT(40) DEF StoreFact
  <2> QED BY <2>1, <2>2, <2>3, Zenon
<1> QED BY <1>1, <1>2, <1>3, <1>4, <1>5, <1>6, MergeFacts, SameEntries, Zenon DEF LogFacts
=============================================================================
