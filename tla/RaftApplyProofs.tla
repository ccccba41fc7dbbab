--------------------------- MODULE RaftApplyProofs ---------------------------
(***************************************************************************)
(* What the service of one peer gets through applyCh, for any committed     *)
(* log, snapshot interval and number of crashes: only committed values, and *)
(* while no race is lost, each of them once, in index order.                *)
(***************************************************************************)
EXTENDS RaftApply, RaftLogProofs

-----------------------------------------------------------------------------
(* A log whose beginning went into a snapshot.                               *)

\* What trimmed(k) makes of log, for any log l.
cutAt(l, k) == [Entries |-> LogTail(l, k), Index0 |-> k]

\* Snapshot and CondInstallSnapshot keep the entry k, as the new sentinel, and
\* all that follow it, each at its index.
LEMMA CutAtProperty ==
    ASSUME NEW l \in Log, Indexed(l), NEW k \in Indices(l)
    PROVE  /\ cutAt(l, k) \in Log /\ Indexed(cutAt(l, k))
           /\ cutAt(l, k).Index0 = k
           /\ LogLen(cutAt(l, k)) = LogLen(l)
           /\ \A j \in k .. LogLen(l) - 1 : at(cutAt(l, k), j) = at(l, j)
<1> DEFINE len == Len(l.Entries)
           i0 == l.Index0
           m == k - i0 + 1
           s == SubSeq(l.Entries, m, len)
<1>1. l.Entries \in Seq(Entry) /\ i0 \in Nat /\ len \in Nat
  BY DEF Log
<1>2. k \in Nat /\ m \in 1 .. len /\ LogLen(l) = len + i0
  BY <1>1 DEF Indices, LogLen
<1>3. \A i \in m .. len : l.Entries[i] \in Entry
  <2>1. m .. len \subseteq 1 .. len
    BY <1>1, <1>2
  <2> QED BY <1>1, <2>1, SeqElement, Zenon
<1>4. cutAt(l, k) = [Entries |-> s, Index0 |-> k]
  BY Zenon DEF cutAt, LogTail
<1> HIDE DEF m
<1>5. /\ s \in Seq(Entry) /\ Len(s) = len - m + 1
      /\ \A i \in 1 .. len - m + 1 : s[i] = l.Entries[m + i - 1]
  <2>1. m \in Int /\ len \in Int /\ m <= len + 1 /\ m <= len
    BY <1>1, <1>2
  <2>2. /\ s \in Seq(Entry)
        /\ Len(s) = IF m <= len THEN len - m + 1 ELSE 0
        /\ \A i \in 1 .. len - m + 1 : s[i] = l.Entries[m + i - 1]
    BY <1>3, <2>1, SeqPart
  <2> QED BY <2>1, <2>2, Zenon
<1> HIDE DEF s, len
<1>6. cutAt(l, k) \in Log
  <2>1. Len(s) # 0
    BY <1>1, <1>2, <1>5
  <2>2. s # <<>>
    BY <1>5, <2>1, SeqEmpty, Zenon
  <2> QED BY <1>2, <1>4, <1>5, <2>2 DEF Log
<1>7. m = k - i0 + 1
  BY Zenon DEF m
<1>8. LogLen(cutAt(l, k)) = LogLen(l)
  <2>1. LogLen(cutAt(l, k)) = (len - m + 1) + k
    BY <1>4, <1>5 DEF LogLen
  <2>2. \A a, b, n \in Int : (n - (b - a + 1) + 1) + b = n + a
    OBVIOUS
  <2>3. i0 \in Int /\ k \in Int /\ len \in Int
    BY <1>1, <1>2
  <2> QED BY <1>2, <1>7, <2>1, <2>2, <2>3, Zenon
<1>9. Indexed(cutAt(l, k))
  <2>1. ASSUME NEW i \in 1 .. len - m + 1 PROVE s[i].Index = k + i - 1
    <3> HIDE DEF i0
    <3>0. \A n \in Nat : \A a \in 1 .. n : \A b \in 1 .. n - a + 1 : a + b - 1 \in 1 .. n
      OBVIOUS
    <3>1. m + i - 1 \in 1 .. len /\ s[i] = l.Entries[m + i - 1]
      BY <1>1, <1>2, <1>5, <3>0, Zenon
    <3>2. s[i].Index = i0 + (m + i - 1) - 1
      BY <3>1, Zenon DEF Indexed, len, i0
    <3>3. i0 + (m + i - 1) - 1 = k + i - 1
      <4>1. \A a, b, c \in Int : a + ((b - a + 1) + c - 1) - 1 = b + c - 1
        OBVIOUS
      <4>2. i0 \in Int /\ k \in Int /\ i \in Int
        BY <1>1, <1>2
      <4> QED BY <1>7, <4>1, <4>2, Zenon
    <3> QED BY <3>2, <3>3, Zenon
  <2> QED BY <1>4, <1>5, <2>1 DEF Indexed
<1>10. ASSUME NEW j \in k .. LogLen(l) - 1 PROVE at(cutAt(l, k), j) = at(l, j)
  <2>1. /\ j - k + 1 \in 1 .. len - m + 1
        /\ m + (j - k + 1) - 1 = j - i0 + 1
    <3>1. \A a, b, n \in Int : \A c \in b .. (n + a) - 1 :
             /\ c - b + 1 \in 1 .. n - (b - a + 1) + 1
             /\ (b - a + 1) + (c - b + 1) - 1 = c - a + 1
      OBVIOUS
    <3>2. i0 \in Int /\ k \in Int /\ len \in Int /\ j \in k .. (len + i0) - 1
      BY <1>1, <1>2
    <3> QED BY <1>7, <3>1, <3>2, Zenon
  <2>2. s[j - k + 1] = l.Entries[j - i0 + 1]
    BY <1>5, <2>1
  <2> QED BY <1>4, <2>2 DEF at
<1> QED BY <1>4, <1>6, <1>8, <1>9, <1>10

-----------------------------------------------------------------------------
(* The log of a peer is a piece of the committed log, then entries of         *)
(* deposed leaders.                                                          *)

odd(t) == \A n \in Nat : t # 2 * n

\* l is committed up to c, and only up to there.  Its sentinel has a committed
\* term, but after a snapshot no command.
prefix(l, c) ==
    \A j \in Indices(l) :
        /\ j <= c => at(l, j).Term = 2 * j
        /\ j <= c /\ j > l.Index0 => at(l, j).Command = committed(j).Command
        /\ j > c => odd(at(l, j).Term)

\* The entries of the committed log are entries.
LEMMA CommittedEntry ==
    ASSUME NEW k \in 0 .. MaxIndex
    PROVE  committed(k) \in Entry /\ committed(k).Term = 2 * k /\ committed(k).Index = k
<1>1. k \in Nat /\ MaxIndex \in Nat
  BY ApplyAssumption
<1>2. CASE k = 0
  BY <1>2 DEF committed, EmptyLog, Entry
<1>3. CASE k # 0
  <2>1. k \in Command
    BY <1>1, <1>3, ApplyAssumption
  <2> QED BY <1>1, <1>3, <2>1 DEF committed, Entry
<1> QED BY <1>2, <1>3, Zenon

\* The index of a log's last entry, and where it stands.
LEMMA IndicesProperty ==
    ASSUME NEW l \in Log, Indexed(l)
    PROVE  /\ Indices(l) = l.Index0 .. LastLog(l).Index
           /\ l.Index0 \in Nat /\ LastLog(l).Index \in Nat /\ LogLen(l) \in Nat
           /\ LastLog(l).Index = LogLen(l) - 1 /\ l.Index0 <= LastLog(l).Index
BY LastLogProperty, Zenon DEF Indices

\* Trimming at or below c keeps the committed piece.
LEMMA CutPrefix ==
    ASSUME NEW l \in Log, Indexed(l), NEW c \in Indices(l), prefix(l, c),
           NEW k \in Indices(l), k <= c
    PROVE  c \in Indices(cutAt(l, k)) /\ prefix(cutAt(l, k), c)
<1>1. l.Index0 \in Nat /\ LogLen(l) \in Nat /\ Indices(l) = l.Index0 .. LogLen(l) - 1
  BY IndicesProperty, Zenon DEF Indices
<1>2. /\ cutAt(l, k).Index0 = k /\ LogLen(cutAt(l, k)) = LogLen(l)
      /\ \A j \in k .. LogLen(l) - 1 : at(cutAt(l, k), j) = at(l, j)
  BY CutAtProperty, Zenon
<1>3. Indices(cutAt(l, k)) = k .. LogLen(l) - 1
  BY <1>2, Zenon DEF Indices
<1>4. c \in k .. LogLen(l) - 1 /\ k .. LogLen(l) - 1 \subseteq Indices(l)
      /\ \A j \in k .. LogLen(l) - 1 : j > k => j > l.Index0
  BY <1>1
<1> QED BY <1>2, <1>3, <1>4, Zenon DEF prefix

\* An entry with a committed term is in the committed piece.
LEMMA CommittedTerm ==
    ASSUME NEW l \in Log, NEW c \in Indices(l), prefix(l, c), Indexed(l),
           NEW j \in Indices(l), at(l, j).Term = 2 * j
    PROVE  j <= c
<1>1. j \in Nat /\ c \in Nat
  BY IndicesProperty
<1>2. ~odd(at(l, j).Term)
  BY <1>1, Zenon DEF odd
<1>3. ~(j > c)
  BY <1>2, Zenon DEF prefix
<1> QED BY <1>1, <1>3

\* What a leader with the committed log up to n sends after prev.
upTo(prev, n) == [k \in 1 .. n - prev |-> committed(prev + k)]

LEMMA UpToProperty ==
    ASSUME NEW prev \in Nat, NEW n \in 0 .. MaxIndex
    PROVE  /\ upTo(prev, n) \in Seq(Entry)
           /\ Len(upTo(prev, n)) \in Nat
           /\ prev <= n => Len(upTo(prev, n)) = n - prev
           /\ n <= prev => Len(upTo(prev, n)) = 0
           /\ Follows(prev, upTo(prev, n))
           /\ \A k \in 1 .. Len(upTo(prev, n)) :
                upTo(prev, n)[k] = committed(prev + k) /\ upTo(prev, n)[k].Term = 2 * (prev + k)
<1> DEFINE e == upTo(prev, n)
           len == IF prev <= n THEN n - prev ELSE 0
<1>1. n \in Nat /\ MaxIndex \in Nat /\ len \in Nat /\ 1 .. n - prev = 1 .. len
  BY ApplyAssumption
<1>2. \A k \in 1 .. len : /\ committed(prev + k) \in Entry
                          /\ committed(prev + k).Index = prev + k
                          /\ committed(prev + k).Term = 2 * (prev + k)
  <2>1. \A k \in 1 .. len : prev + k \in 0 .. MaxIndex
    BY <1>1
  <2> QED BY <2>1, CommittedEntry, Zenon
<1>3. e = [k \in 1 .. len |-> committed(prev + k)]
  BY <1>1, Zenon DEF upTo
<1> HIDE DEF e, len
<1>4. e \in Seq(Entry) /\ Len(e) = len
  <2>1. e \in [1 .. len -> Entry] /\ DOMAIN e = 1 .. len
    BY <1>2, <1>3, Zenon
  <2>2. e \in Seq(Entry)
    BY <1>1, <2>1
  <2>3. DOMAIN e = 1 .. Len(e) /\ Len(e) \in Nat
    BY <2>2
  <2> QED BY <1>1, <2>1, <2>2, <2>3
<1>5. \A k \in 1 .. len : /\ e[k] = committed(prev + k) /\ e[k].Index = prev + k
                          /\ e[k].Term = 2 * (prev + k)
  BY <1>2, <1>3, Zenon
<1>6. Follows(prev, e)
  BY <1>4, <1>5, Zenon DEF Follows
<1>7. (prev <= n => len = n - prev) /\ (n <= prev => len = 0)
  BY <1>1 DEF len
<1> QED BY <1>1, <1>4, <1>5, <1>6, <1>7, Zenon DEF e

\* A merge that finds an entry the log lacks leaves the log alone up to there and
\* ends with the new entries (AppendEntries, raft/entry.go).
LEMMA MergeWrites ==
    ASSUME NEW l \in Log, Indexed(l), NEW e \in Seq(Entry),
           NEW prev \in l.Index0 .. LastLog(l).Index, Follows(prev, e),
           ~(\A k \in 1 .. Len(e) : /\ prev + k <= LastLog(l).Index
                                    /\ at(l, prev + k).Term = e[k].Term)
    PROVE  \E q \in 1 .. Len(e) :
             /\ \A k \in 1 .. q - 1 : /\ prev + k <= LastLog(l).Index
                                      /\ at(l, prev + k).Term = e[k].Term
             /\ LastLog(merge(l, e)).Index = prev + Len(e)
             /\ \A k \in l.Index0 .. prev + q - 1 : at(merge(l, e), k) = at(l, k)
             /\ \A k \in q .. Len(e) : at(merge(l, e), prev + k) = e[k]
<1>1. PICK q \in 1 .. Len(e) :
         /\ \A k \in 1 .. q - 1 : /\ prev + k <= LastLog(l).Index
                                  /\ at(l, prev + k).Term = e[k].Term
         /\ LastLog(merge(l, e)).Index = prev + Len(e)
         /\ \A k \in l.Index0 .. prev + q - 1 :
              at(merge(l, e), k) = at(l, k) /\ at(cutBack(l, e), k) = at(l, k)
         /\ \A k \in q .. Len(e) : at(merge(l, e), prev + k) = e[k]
  BY MergeAt, ZenonT(60)
<1> QED BY <1>1, Zenon

\* The entries of a leader extend the committed piece, or leave it as it is:
\* AppendEntries never truncates what is committed.
LEMMA MergeCommitted ==
    ASSUME NEW l \in Log, Indexed(l), NEW c \in Indices(l), prefix(l, c),
           NEW prev \in Indices(l), at(l, prev).Term = 2 * prev, NEW n \in 0 .. MaxIndex
    PROVE  \E d \in Indices(merge(l, upTo(prev, n))) :
             c <= d /\ n <= d /\ prefix(merge(l, upTo(prev, n)), d)
<1> DEFINE e == upTo(prev, n)
           last == LastLog(l).Index
           g == merge(l, e)
<1>1. /\ Indices(l) = l.Index0 .. last /\ l.Index0 \in Nat /\ last \in Nat
      /\ c \in Nat /\ prev \in Nat /\ n \in Nat /\ prev \in l.Index0 .. last
      /\ c <= last
  <2>1. Indices(l) = l.Index0 .. last /\ l.Index0 \in Nat /\ last \in Nat
    BY IndicesProperty, Zenon
  <2>2. c \in l.Index0 .. last /\ prev \in l.Index0 .. last /\ MaxIndex \in Nat
    BY <2>1, ApplyAssumption, Zenon
  <2> HIDE DEF last
  <2> QED BY <2>1, <2>2
<1>2. /\ e \in Seq(Entry) /\ Len(e) \in Nat
      /\ prev <= n => Len(e) = n - prev
      /\ n <= prev => Len(e) = 0
      /\ Follows(prev, e)
      /\ \A k \in 1 .. Len(e) : e[k] = committed(prev + k) /\ e[k].Term = 2 * (prev + k)
  BY <1>1, UpToProperty, Zenon
<1>3. prev <= c
  BY CommittedTerm, Zenon
<1>4. g \in Log /\ Indexed(g) /\ g.Index0 = l.Index0
  BY <1>1, <1>2, MergeProperty, Zenon
<1>5. CASE n <= c
  <2>1. ASSUME NEW k \in 1 .. Len(e) PROVE k \notin lacking(l, e)
    <3>1. /\ k \in Nat /\ prev + k <= last /\ prev + k \in Indices(l) /\ prev + k <= c
      BY <1>1, <1>2, <1>5
    <3>2. at(l, prev + k).Term = 2 * (prev + k)
      BY <3>1, Zenon DEF prefix
    <3>3. e[k].Index = prev + k /\ e[k].Term = 2 * (prev + k)
      BY <1>2, Zenon DEF Follows
    <3>4. ~(e[k].Index > last) /\ ~differs(l, e[k])
      BY <1>1, <3>1, <3>2, <3>3 DEF differs
    <3> QED BY <3>4, Zenon DEF lacking
  <2>2. lacking(l, e) = {}
    BY <2>1, Zenon DEF lacking
  <2>3. g = l
    BY <2>2, Zenon DEF merge
  <2> HIDE DEF g
  <2> QED BY <1>1, <1>5, <2>3 DEF g
<1>6. CASE c < n
  <2>1. Len(e) = n - prev /\ Len(e) \in 1 .. Len(e) /\ prev + Len(e) = n
    BY <1>1, <1>2, <1>3, <1>6
  <2>2. PICK q \in 1 .. Len(e) :
           /\ \A k \in 1 .. q - 1 : /\ prev + k <= last
                                    /\ at(l, prev + k).Term = e[k].Term
           /\ LastLog(g).Index = prev + Len(e)
           /\ \A k \in l.Index0 .. prev + q - 1 : at(g, k) = at(l, k)
           /\ \A k \in q .. Len(e) : at(g, prev + k) = e[k]
    <3>1. CASE \A k \in 1 .. Len(e) : /\ prev + k <= last
                                      /\ at(l, prev + k).Term = e[k].Term
      <4>1. n <= last /\ at(l, n).Term = 2 * n
        BY <1>2, <2>1, <3>1, Zenon
      <4>2. n \in Indices(l)
        BY <1>1, <1>6, <4>1
      <4>3. n <= c
        BY <4>1, <4>2, CommittedTerm, Zenon
      <4> QED BY <1>1, <1>6, <4>3
    <3> HIDE DEF e
    <3> QED BY <1>1, <1>2, <3>1, MergeWrites, Zenon
  <2>3. Indices(g) = l.Index0 .. n
    BY <1>4, <2>1, <2>2, IndicesProperty, Zenon
  <2>4. ASSUME NEW j \in l.Index0 .. n
        PROVE  /\ at(g, j).Term = 2 * j
               /\ j > l.Index0 => at(g, j).Command = committed(j).Command
    <3>0. j \in Nat /\ q \in Nat
      BY <1>1, <1>2
    <3>1. CASE j <= prev
      <4>1. j \in l.Index0 .. prev + q - 1 /\ j \in Indices(l) /\ j <= c
        BY <1>1, <1>3, <2>2, <3>0, <3>1
      <4> QED BY <2>2, <4>1, Zenon DEF prefix
    <3>2. CASE prev < j /\ j < prev + q
      <4> DEFINE k == j - prev
      <4>1. k \in 1 .. q - 1 /\ k \in 1 .. Len(e) /\ prev + k = j /\ j \in l.Index0 .. prev + q - 1
        <5>1. \A x, y, z, w, i0 \in Nat : y < x /\ x < y + z /\ i0 <= y /\ z <= w + 1 =>
                /\ x - y \in 1 .. z - 1 /\ x - y \in 1 .. w /\ y + (x - y) = x
                /\ x \in i0 .. y + z - 1
          OBVIOUS
        <5>2. l.Index0 <= prev /\ q <= Len(e) + 1
          BY <1>1, <1>2, <2>2, <3>0
        <5> QED BY <1>1, <1>2, <3>0, <3>2, <5>1, <5>2, Zenon
      <4>2. j <= last /\ at(l, j).Term = 2 * j /\ at(g, j) = at(l, j)
        BY <1>2, <2>2, <4>1, Zenon
      <4>3. j \in Indices(l)
        BY <1>1, <3>0, <4>2
      <4>4. j <= c
        BY <4>2, <4>3, CommittedTerm, Zenon
      <4> QED BY <4>2, <4>3, <4>4, Zenon DEF prefix
    <3>3. CASE prev + q <= j
      <4> DEFINE k == j - prev
      <4>1. k \in q .. Len(e) /\ k \in 1 .. Len(e) /\ prev + k = j
        BY <1>1, <2>1, <3>0, <3>3
      <4>2. at(g, j) = committed(j) /\ at(g, j).Term = 2 * j
        BY <1>2, <2>2, <4>1, Zenon
      <4> QED BY <4>2, Zenon
    <3>4. j <= prev \/ (prev < j /\ j < prev + q) \/ prev + q <= j
      BY <1>1, <3>0
    <3> QED BY <3>1, <3>2, <3>3, <3>4, Zenon
  <2>5. prefix(g, n)
    <3>1. \A j \in l.Index0 .. n : ~(j > n)
      BY <1>1
    <3> HIDE DEF g
    <3> QED BY <1>4, <2>3, <2>4, <3>1, Zenon DEF prefix
  <2>6. n \in Indices(g) /\ c <= n /\ n <= n
    BY <1>1, <1>6, <2>3
  <2> QED BY <2>5, <2>6, Zenon
<1> QED BY <1>1, <1>5, <1>6

\* An entry of a deposed leader goes behind the committed piece, and stays
\* outside it.
LEMMA MergeUncommitted ==
    ASSUME NEW l \in Log, Indexed(l), NEW c \in Indices(l), prefix(l, c)
    PROVE  /\ <<uncommitted(LastLog(l))>> \in Seq(Entry)
           /\ c \in Indices(merge(l, <<uncommitted(LastLog(l))>>))
           /\ prefix(merge(l, <<uncommitted(LastLog(l))>>), c)
<1> DEFINE x == uncommitted(LastLog(l))
           e == <<x>>
           last == LastLog(l).Index
           g == merge(l, e)
<1>1. /\ Indices(l) = l.Index0 .. last /\ l.Index0 \in Nat /\ last \in Nat
      /\ c \in Nat /\ c <= last /\ LastLog(l) \in Entry
  BY IndicesProperty, LastLogProperty
<1>2. x \in Entry /\ x.Index = last + 1 /\ odd(x.Term)
  <2>1. \A t \in Nat : \A n \in Nat : t + 1 - (t % 2) # 2 * n
    OBVIOUS
  <2>2. \A t \in Nat : t + 1 - (t % 2) \in Nat
    OBVIOUS
  <2>3. LastLog(l).Term \in Nat /\ last + 1 \in Nat
    BY <1>1 DEF Entry
  <2>4. x = [Command |-> 0, Term |-> LastLog(l).Term + 1 - (LastLog(l).Term % 2),
             Index |-> last + 1]
    BY Zenon DEF uncommitted
  <2>5. x.Term = LastLog(l).Term + 1 - (LastLog(l).Term % 2)
    BY Zenon DEF uncommitted
  <2>6. odd(x.Term) /\ x.Term \in Nat
    BY <2>1, <2>2, <2>3, <2>5, Zenon DEF odd
  <2>7. 0 \in Command
    BY ApplyAssumption
  <2> QED BY <2>3, <2>4, <2>6, <2>7 DEF Entry
<1> HIDE DEF x
<1>3. e \in Seq(Entry) /\ Len(e) = 1 /\ e[1] = x
  BY <1>2
<1>4. Follows(last, e) /\ last \in l.Index0 .. last
  BY <1>1, <1>2, <1>3 DEF Follows
<1> HIDE DEF e
<1>5. g \in Log /\ Indexed(g) /\ g.Index0 = l.Index0
  BY <1>3, <1>4, MergeProperty, Zenon
<1>6. PICK q \in 1 .. Len(e) :
         /\ LastLog(g).Index = last + Len(e)
         /\ \A k \in l.Index0 .. last + q - 1 : at(g, k) = at(l, k)
         /\ \A k \in q .. Len(e) : at(g, last + k) = e[k]
  <2>1. ~(\A k \in 1 .. Len(e) : last + k <= last /\ at(l, last + k).Term = e[k].Term)
    <3>1. 1 \in 1 .. Len(e) /\ ~(last + 1 <= last)
      BY <1>1, <1>3
    <3> QED BY <3>1, Zenon
  <2> QED BY <1>3, <1>4, <2>1, MergeWrites, Zenon
<1>7. q = 1 /\ LastLog(g).Index = last + 1 /\ at(g, last + 1) = x
      /\ \A k \in l.Index0 .. last : at(g, k) = at(l, k)
  <2>1. q = 1
    BY <1>3, <1>6
  <2>2. l.Index0 .. last + q - 1 = l.Index0 .. last /\ 1 \in q .. Len(e)
    BY <1>1, <1>3, <2>1, SMTT(30)
  <2> QED BY <1>3, <1>6, <2>1, <2>2, Zenon
<1>8. Indices(g) = l.Index0 .. last + 1
  BY <1>5, <1>7, IndicesProperty, Zenon
<1>9. c \in Indices(g)
  BY <1>1, <1>8
<1>10. ASSUME NEW j \in Indices(g)
       PROVE  /\ j <= c => at(g, j).Term = 2 * j
              /\ j <= c /\ j > g.Index0 => at(g, j).Command = committed(j).Command
              /\ j > c => odd(at(g, j).Term)
  <2>1. CASE j = last + 1
    <3>1. ~(j <= c)
      BY <1>1, <2>1
    <3>2. odd(at(g, j).Term)
      BY <1>2, <1>7, <2>1, Zenon
    <3> QED BY <3>1, <3>2, Zenon
  <2>2. CASE j # last + 1
    <3>1. j \in l.Index0 .. last
      BY <1>1, <1>8, <2>2
    <3>2. at(g, j) = at(l, j) /\ j \in Indices(l)
      BY <1>1, <1>7, <3>1, Zenon
    <3> QED BY <1>5, <3>2, Zenon DEF prefix
  <2> QED BY <2>1, <2>2, Zenon
<1>11. prefix(g, c)
  BY <1>10, Zenon DEF prefix
<1> QED BY <1>3, <1>9, <1>11, Zenon DEF x, e

-----------------------------------------------------------------------------
(* The inductive invariant.                                                  *)

\* The snapshots that may be saved.
Snap == {noSnapshot} \cup {clusterSnapshot(k) : k \in 0 .. MaxIndex}

\* A snapshot of the first k commands that may have holes.
covers(s, k) ==
    /\ s.index = k /\ DOMAIN s.xlog = 0 .. k
    /\ \A n \in 0 .. k : s.xlog[n] \in {committed(n).Command, Nil}

\* What the persister may hold once the races in r are lost.
savable(s, r) ==
    s \in Snap \/ ("lingering" \in r /\ \E k \in 0 .. MaxIndex : covers(s, k))

\* A log whose committed piece reaches n.
fits(l, n) == l \in Log /\ Indexed(l) /\ \E c \in Indices(l) : n <= c /\ prefix(l, c)

\* The log, what of it is committed and applied, and the persister: nothing
\* beyond the committed piece counts as committed.
LogInv ==
    /\ fits(log, commitIndex)
    /\ commitIndex \in 0 .. MaxIndex /\ lastApplied \in Nat
    /\ log.Index0 <= lastApplied /\ lastApplied <= commitIndex
    /\ persister = [raftstate |-> log, snapshot |-> persister.snapshot]
    /\ savable(persister.snapshot, races)

\* A message with a committed command.
Msg == {[CommandIndex |-> n, Command |-> committed(n).Command] : n \in 1 .. MaxIndex}

sound(m) == m \in Msg

\* What a killed instance may hold for the service.
Remains == [applyMsg : Msg \cup {noMsg},
            ingesting : SUBSET (0 .. MaxIndex), senders : SUBSET (0 .. MaxIndex)]

\* What is on its way to the service.
MsgInv ==
    /\ loop \in {"ready", "wait", "send"}
    /\ loop = "send" => sound(applyMsg) /\ applyMsg.CommandIndex <= lastApplied
    /\ killed \in Seq(Remains)
    /\ senders \subseteq 1 .. MaxIndex
    /\ svc \in [step : {"idle", "snapshot", "install", "ingest"}, index : 0 .. MaxIndex]
    /\ svc.step = "snapshot" => svc.index <= lastApplied

\* cfg.logs[i] has no gap as long as the applier found none; the command whose
\* snapshot is due is in it, unless a killed instance's snapshot came in between.
unbroken(b) ==
    /\ DOMAIN svcLog \ {0} = 1 .. b
    /\ "lingering" \notin races /\ svc.step = "snapshot" => svc.index <= b

SvcInv ==
    /\ AppliedCommitted
    /\ DOMAIN svcLog \subseteq Nat
    /\ apply_error = noError => \E b \in Nat : unbroken(b)

\* applier, unlike applierSnap, has no snapshots and does not count.
PlainInv ==
    ~snapshot => /\ log.Index0 = 0 /\ senders = {} /\ svc = Idle /\ svcApplied = 0
                 /\ persister.snapshot = noSnapshot
                 /\ \A x \in DOMAIN killed : killed[x].ingesting = {} /\ killed[x].senders = {}

sending == IF loop = "send" THEN 1 ELSE 0

\* The two halves of the persister, until a save is torn.
SavedInv == "torn" \notin races => persister.snapshot.index = log.Index0

\* Raft's counters and the service's, until a race is lost.
OrderInv ==
    races = {} =>
        /\ apply_error = noError
        /\ loop = "send" => applyMsg.CommandIndex = lastApplied
        /\ snapshot =>
             /\ lastApplied = (IF svc.step = "ingest" THEN svc.index ELSE svcApplied) + sending
             /\ svc.step = "install" => loop # "send"
             /\ svc.step = "ingest" => svcApplied <= svc.index
             /\ svcApplied \in Nat /\ (svcApplied = 0 \/ svcApplied \in DOMAIN svcLog)
        /\ ~snapshot => \A n \in 1 .. lastApplied - sending : n \in DOMAIN svcLog

ApplyInv == LogInv /\ MsgInv /\ SvcInv /\ PlainInv /\ SavedInv /\ OrderInv

-----------------------------------------------------------------------------
\* A snapshot of the cluster holds the committed commands.
LEMMA ClusterSnapshot ==
    ASSUME NEW k \in 0 .. MaxIndex
    PROVE  /\ clusterSnapshot(k) = [index |-> k, xlog |-> [n \in 0 .. k |-> committed(n).Command]]
           /\ clusterSnapshot(k).index = k
           /\ DOMAIN clusterSnapshot(k).xlog = 0 .. k
           /\ \A n \in 0 .. k : clusterSnapshot(k).xlog[n] = committed(n).Command
<1> DEFINE all == [n \in 0 .. MaxIndex |-> committed(n).Command]
<1>1. k \in Nat /\ MaxIndex \in Nat /\ 0 .. k \subseteq 0 .. MaxIndex
  BY ApplyAssumption
<1>2. \A n \in 0 .. k : (IF n \in DOMAIN all THEN all[n] ELSE Nil) = committed(n).Command
  BY <1>1, Zenon
<1> HIDE DEF all
<1>3. [n \in 0 .. k |-> IF n \in DOMAIN all THEN all[n] ELSE Nil]
        = [n \in 0 .. k |-> committed(n).Command]
  BY <1>2, Zenon
<1>4. clusterSnapshot(k)
        = [index |-> k, xlog |-> [n \in 0 .. k |-> IF n \in DOMAIN all THEN all[n] ELSE Nil]]
  BY Zenon DEF clusterSnapshot, snapshotOf, all
<1> DEFINE f == [n \in 0 .. k |-> committed(n).Command]
<1>5. DOMAIN f = 0 .. k /\ \A n \in 0 .. k : f[n] = committed(n).Command
  BY Zenon
<1>6. clusterSnapshot(k) = [index |-> k, xlog |-> f]
  BY <1>3, <1>4, Zenon
<1> HIDE DEF f
<1>7. clusterSnapshot(k).index = k /\ clusterSnapshot(k).xlog = f
  BY <1>6
<1> QED BY <1>5, <1>6, <1>7, Zenon DEF f

\* A snapshot of the cluster may be saved.
LEMMA ClusterSnapshotSaved == \A k \in 0 .. MaxIndex : clusterSnapshot(k) \in Snap
BY Zenon DEF Snap

\* What the service saves is a snapshot of the cluster, but for the holes that a
\* killed instance's snapshot leaves in cfg.logs[i].
LEMMA ServiceSnapshot ==
    ASSUME MsgInv, SvcInv, apply_error = noError, svc.step = "snapshot"
    PROVE  savable(snapshotOf(svc.index, svcLog), races)
<1> DEFINE k == svc.index
           s == snapshotOf(k, svcLog)
<1>1. k \in 0 .. MaxIndex /\ k \in Nat
  BY ApplyAssumption DEF MsgInv
<1>2. CASE "lingering" \notin races
  <2>1. PICK b \in Nat : DOMAIN svcLog \ {0} = 1 .. b /\ k <= b
    BY <1>2, Zenon DEF SvcInv, unbroken
  <2>2. ASSUME NEW n \in 0 .. k
        PROVE  (IF n \in DOMAIN svcLog THEN svcLog[n] ELSE Nil) = committed(n).Command
    <3>1. CASE n \in DOMAIN svcLog
      BY <1>2, <3>1, Zenon DEF SvcInv, AppliedCommitted
    <3>2. CASE n \notin DOMAIN svcLog
      <4>1. n = 0
        BY <1>1, <2>1, <3>2
      <4>2. committed(n).Command = Nil
        BY <4>1, Zenon DEF committed, EmptyLog
      <4> QED BY <3>2, <4>2, Zenon
    <3> QED BY <3>1, <3>2, Zenon
  <2>3. [n \in 0 .. k |-> IF n \in DOMAIN svcLog THEN svcLog[n] ELSE Nil]
          = [n \in 0 .. k |-> committed(n).Command]
    BY <2>2, Zenon
  <2> HIDE DEF k
  <2>4. s = clusterSnapshot(k)
    BY <1>1, <2>3, ClusterSnapshot, Zenon DEF snapshotOf
  <2>5. s \in Snap
    BY <1>1, <2>4, ClusterSnapshotSaved, Zenon
  <2> QED BY <2>5, Zenon DEF savable, k
<1>3. CASE "lingering" \in races
  <2> DEFINE f == [n \in 0 .. k |-> IF n \in DOMAIN svcLog THEN svcLog[n] ELSE Nil]
  <2>1. \A n \in 0 .. k : f[n] \in {committed(n).Command, Nil}
    BY Zenon DEF SvcInv, AppliedCommitted
  <2>2. DOMAIN f = 0 .. k /\ s = [index |-> k, xlog |-> f]
    BY Zenon DEF snapshotOf
  <2> HIDE DEF k, f, s
  <2>3. s.index = k /\ s.xlog = f
    BY <2>2
  <2>4. covers(s, k)
    BY <2>1, <2>2, <2>3, Zenon DEF covers
  <2>5. savable(s, races)
    BY <1>1, <1>3, <2>4, Zenon DEF savable
  <2> QED BY <2>5, Zenon DEF s, k
<1> QED BY <1>2, <1>3, Zenon

\* A saved snapshot stays savable when another race is lost.
LEMMA SavableKept ==
    ASSUME NEW s, NEW r, NEW q, savable(s, r), "lingering" \in r => "lingering" \in q
    PROVE  savable(s, q)
BY Zenon DEF savable

\* What a restart finds in the persister: its index, and the commands up to it.
LEMMA SavableFacts ==
    ASSUME NEW s, NEW r, savable(s, r), s # noSnapshot
    PROVE  \E k \in 0 .. MaxIndex :
             /\ s.index = k /\ DOMAIN s.xlog = 0 .. k
             /\ \A n \in 0 .. k : \/ s.xlog[n] = committed(n).Command
                                  \/ "lingering" \in r /\ s.xlog[n] = Nil
<1>1. CASE s \in Snap
  <2>1. PICK k \in 0 .. MaxIndex : s = clusterSnapshot(k)
    BY <1>1, Zenon DEF Snap
  <2>2. /\ clusterSnapshot(k).index = k /\ DOMAIN clusterSnapshot(k).xlog = 0 .. k
        /\ \A n \in 0 .. k : clusterSnapshot(k).xlog[n] = committed(n).Command
    BY ClusterSnapshot, Zenon
  <2> QED BY <2>1, <2>2, Zenon
<1>2. CASE s \notin Snap
  BY <1>2, Zenon DEF savable, covers
<1> QED BY <1>1, <1>2, Zenon

\* A sound message, by its fields.
LEMMA SoundMsg ==
    ASSUME NEW m
    PROVE  /\ sound(m) => /\ m.CommandIndex \in 1 .. MaxIndex
                          /\ m.Command = committed(m.CommandIndex).Command
           /\ \A n \in 1 .. MaxIndex :
                m = [CommandIndex |-> n, Command |-> committed(n).Command] => sound(m)
<1>1. ASSUME sound(m)
      PROVE  m.CommandIndex \in 1 .. MaxIndex /\ m.Command = committed(m.CommandIndex).Command
  <2>1. PICK n \in 1 .. MaxIndex : m = [CommandIndex |-> n, Command |-> committed(n).Command]
    BY <1>1, Zenon DEF sound, Msg
  <2>2. m.CommandIndex = n /\ m.Command = committed(n).Command
    BY <2>1, Zenon
  <2> QED BY <2>2, Zenon
<1>2. \A n \in 1 .. MaxIndex :
        m = [CommandIndex |-> n, Command |-> committed(n).Command] => sound(m)
  BY Zenon DEF sound, Msg
<1> QED BY <1>1, <1>2, Zenon

-----------------------------------------------------------------------------
(* The steps.                                                                *)

\* What an applier of a killed instance does.
OldInstance ==
    \E x \in DOMAIN killed : OldApplier(x) \/ \E k \in 1 .. MaxIndex : OldIngest(x, k)

\* One step of the service or of a goroutine, by name.
LEMMA NextCases ==
    ASSUME Next
    PROVE  /\ apply_error = noError
           /\ \/ LoopSend \/ LoopWait \/ ReceiveCommand \/ ingestSnap \/ Snapshot
              \/ CondInstallSnapshot \/ (\E k \in senders : ReceiveSnapshot(k))
              \/ FromLeader \/ FromDeposed \/ (\E k \in 1 .. MaxIndex : InstallSnapShot(k))
              \/ Restart \/ CrashInSnapshot \/ CrashInInstall
              \/ OldInstance
BY Zenon DEF Next, LoopCommit, applierSnap, OldInstance

\* An applier of a killed instance leaves Raft alone, and loses its race.
LEMMA OldInstanceLingers ==
    ASSUME OldInstance
    PROVE  /\ snapshot' = snapshot /\ log' = log /\ commitIndex' = commitIndex
           /\ lastApplied' = lastApplied /\ persister' = persister
           /\ loop' = loop /\ applyMsg' = applyMsg /\ senders' = senders /\ svc' = svc
           /\ crashes' = crashes /\ races' = races \cup {"lingering"}
<1>1. PICK x \in DOMAIN killed : OldApplier(x) \/ \E k \in 1 .. MaxIndex : OldIngest(x, k)
  BY Zenon DEF OldInstance
<1>2. CASE OldApplier(x)
  BY <1>2, Zenon DEF OldApplier, raftVars, loopVars, lost
<1>3. CASE \E k \in 1 .. MaxIndex : OldIngest(x, k)
  BY <1>3, Zenon DEF OldIngest, raftVars, loopVars, lost
<1> QED BY <1>1, <1>2, <1>3, Zenon

\* Which applier the harness chose never changes, and a lost race stays lost.
LEMMA RacesKept ==
    ASSUME Next
    PROVE  /\ snapshot' = snapshot
           /\ races' = {} => races = {}
           /\ "torn" \notin races' => "torn" \notin races
           /\ "lingering" \in races => "lingering" \in races'
<1>1. CASE LoopSend
  BY <1>1, Zenon DEF LoopSend, lost
<1>2. CASE LoopWait \/ ReceiveCommand \/ ingestSnap \/ Snapshot \/ CondInstallSnapshot
  BY <1>2, Zenon DEF LoopWait, ReceiveCommand, ingestSnap, Snapshot, CondInstallSnapshot
<1>3. CASE \E k \in senders : ReceiveSnapshot(k)
  BY <1>3, Zenon DEF ReceiveSnapshot, lost
<1>4. CASE FromLeader \/ FromDeposed
  BY <1>4, Zenon DEF FromLeader, FromDeposed, AppendEntries
<1>5. CASE \E k \in 1 .. MaxIndex : InstallSnapShot(k)
  BY <1>5, Zenon DEF InstallSnapShot
<1>6. CASE Restart
  BY <1>6, Zenon DEF Restart, StartFrom
<1>7. CASE CrashInSnapshot \/ CrashInInstall
  BY <1>7, Zenon DEF CrashInSnapshot, CrashInInstall, StartFrom, lost
<1>8. CASE OldInstance
  BY <1>8, OldInstanceLingers, Zenon
<1> QED BY <1>1, <1>2, <1>3, <1>4, <1>5, <1>6, <1>7, <1>8, NextCases, Zenon

-----------------------------------------------------------------------------
LEMMA ApplyInit == Init => ApplyInv
<1> SUFFICES ASSUME Init PROVE ApplyInv
  BY Zenon
<1>1. EmptyLog \in Log /\ Indexed(EmptyLog) /\ EmptyLog.Index0 = 0 /\ LogLen(EmptyLog) = 1
      /\ at(EmptyLog, 0) = committed(0)
  BY DEF EmptyLog, Log, Entry, Indexed, LogLen, at, committed
<1>2. Indices(EmptyLog) = {0}
  BY <1>1 DEF Indices
<1>3. prefix(EmptyLog, 0)
  <2>1. committed(0).Term = 0
    BY Zenon DEF committed, EmptyLog
  <2> QED BY <1>1, <1>2, <2>1 DEF prefix
<1>4. LogInv
  <2>1. savable(noSnapshot, races)
    BY Zenon DEF Snap, savable
  <2>2. persister = [raftstate |-> log, snapshot |-> persister.snapshot]
        /\ persister.snapshot = noSnapshot /\ log = EmptyLog /\ commitIndex = 0 /\ lastApplied = 0
    BY Zenon DEF Init
  <2>3. 0 \in 0 .. MaxIndex
    BY ApplyAssumption
  <2> QED BY <1>1, <1>2, <1>3, <2>1, <2>2, <2>3 DEF LogInv, fits
<1>5. MsgInv
  BY ApplyAssumption DEF Init, MsgInv, Idle
<1>6. SvcInv
  <2>1. DOMAIN svcLog = {}
    BY DEF Init
  <2>2. 1 .. 0 = {} /\ svc.step # "snapshot"
    BY DEF Init, Idle
  <2> QED BY <2>1, <2>2, Zenon DEF SvcInv, AppliedCommitted, unbroken
<1>7. PlainInv
  <2>1. DOMAIN killed = {}
    BY DEF Init
  <2> QED BY <1>1, <2>1, Zenon DEF Init, PlainInv
<1>8. SavedInv
  BY <1>1, Zenon DEF Init, SavedInv, noSnapshot
<1>9. OrderInv
  BY DEF Init, OrderInv, Idle, sending
<1> QED BY <1>4, <1>5, <1>6, <1>7, <1>8, <1>9, Zenon DEF ApplyInv

-----------------------------------------------------------------------------
(* The log.                                                                  *)

\* What a leader sends never shortens the committed piece, and brings it to n.
LEMMA FitsMerge ==
    ASSUME NEW l, NEW i \in Nat, fits(l, i), NEW prev \in Indices(l),
           at(l, prev).Term = committed(prev).Term, NEW n \in 0 .. MaxIndex
    PROVE  /\ fits(merge(l, upTo(prev, n)), i)
           /\ fits(merge(l, upTo(prev, n)), n)
           /\ merge(l, upTo(prev, n)).Index0 = l.Index0
           /\ LastLog(merge(l, upTo(prev, n))).Index >= n
<1> DEFINE g == merge(l, upTo(prev, n))
<1>1. PICK c \in Indices(l) : i <= c /\ prefix(l, c)
  BY Zenon DEF fits
<1>2. l \in Log /\ Indexed(l)
  BY Zenon DEF fits
<1>3. /\ Indices(l) = l.Index0 .. LastLog(l).Index /\ l.Index0 \in Nat
      /\ LastLog(l).Index \in Nat /\ n \in Nat /\ c \in Nat /\ prev \in Nat
  BY <1>1, <1>2, IndicesProperty, ApplyAssumption, SMTT(30)
<1>4. committed(prev).Term = 2 * prev
  BY <1>3 DEF committed, EmptyLog
<1>5. at(l, prev).Term = 2 * prev
  BY <1>4, Zenon
<1>6. PICK d \in Indices(g) : c <= d /\ n <= d /\ prefix(g, d)
  BY <1>1, <1>2, <1>5, MergeCommitted, Zenon
<1>7. upTo(prev, n) \in Seq(Entry) /\ Follows(prev, upTo(prev, n))
  BY <1>3, UpToProperty, Zenon
<1>8. g \in Log /\ Indexed(g) /\ g.Index0 = l.Index0
  BY <1>2, <1>3, <1>7, MergeProperty, Zenon
<1> HIDE DEF g
<1>9. d \in Nat /\ d <= LastLog(g).Index /\ LastLog(g).Index \in Nat
  BY <1>6, <1>8, IndicesProperty
<1>10. i <= d /\ n <= d /\ LastLog(g).Index >= n
  BY <1>1, <1>3, <1>6, <1>9
<1>11. fits(g, i) /\ fits(g, n)
  BY <1>6, <1>8, <1>10, Zenon DEF fits
<1> QED BY <1>8, <1>10, <1>11, Zenon DEF g

\* Nor does the entry of a leader about to be deposed.
LEMMA FitsUncommitted ==
    ASSUME NEW l, NEW i \in Nat, fits(l, i)
    PROVE  /\ fits(merge(l, <<uncommitted(LastLog(l))>>), i)
           /\ merge(l, <<uncommitted(LastLog(l))>>).Index0 = l.Index0
<1> DEFINE e == <<uncommitted(LastLog(l))>>
<1>1. PICK c \in Indices(l) : i <= c /\ prefix(l, c)
  BY Zenon DEF fits
<1>2. l \in Log /\ Indexed(l)
  BY Zenon DEF fits
<1>3. e \in Seq(Entry) /\ c \in Indices(merge(l, e)) /\ prefix(merge(l, e), c)
  BY <1>1, <1>2, MergeUncommitted, Zenon
<1>4. LastLog(l).Index \in l.Index0 .. LastLog(l).Index /\ Follows(LastLog(l).Index, e)
  <2>1. LastLog(l).Index \in Nat /\ l.Index0 \in Nat /\ l.Index0 <= LastLog(l).Index
    BY <1>2, IndicesProperty, Zenon
  <2>2. uncommitted(LastLog(l)).Index = LastLog(l).Index + 1
    BY Zenon DEF uncommitted
  <2> HIDE DEF e
  <2>3. Len(e) = 1 /\ e[1] = uncommitted(LastLog(l))
    BY Zenon DEF e
  <2> QED BY <2>1, <2>2, <2>3 DEF Follows
<1> HIDE DEF e
<1>5. merge(l, e) \in Log /\ Indexed(merge(l, e)) /\ merge(l, e).Index0 = l.Index0
  BY <1>2, <1>3, <1>4, MergeProperty, Zenon
<1>6. fits(merge(l, e), i)
  BY <1>1, <1>3, <1>5, Zenon DEF fits
<1> QED BY <1>5, <1>6, Zenon DEF e

\* Trimming what the service has applied leaves the rest of the piece.
LEMMA FitsCut ==
    ASSUME NEW l, NEW i \in Nat, fits(l, i), NEW k \in Nat, l.Index0 <= k, k <= i
    PROVE  fits(cutAt(l, k), i) /\ cutAt(l, k).Index0 = k
<1>1. PICK c \in Indices(l) : i <= c /\ prefix(l, c)
  BY Zenon DEF fits
<1>2. l \in Log /\ Indexed(l)
  BY Zenon DEF fits
<1>3. k \in Indices(l) /\ k <= c
  BY <1>1, <1>2, IndicesProperty
<1>4. /\ cutAt(l, k) \in Log /\ Indexed(cutAt(l, k)) /\ cutAt(l, k).Index0 = k
  BY <1>2, <1>3, CutAtProperty, Zenon
<1>5. c \in Indices(cutAt(l, k)) /\ prefix(cutAt(l, k), c)
  BY <1>1, <1>2, <1>3, CutPrefix, Zenon
<1> QED BY <1>1, <1>4, <1>5, Zenon DEF fits

\* trimmed(k) is the log cut at k.
LEMMA TrimmedCut == ASSUME NEW k PROVE trimmed(k) = cutAt(log, k)
BY Zenon DEF trimmed, cutAt

\* A snapshot ahead of what is committed here leaves a log committed up to it.
LEMMA FitsInstalled ==
    ASSUME NEW i \in Nat, fits(log, i), log.Index0 <= i, NEW k \in 1 .. MaxIndex, i < k
    PROVE  fits(installed(k), k) /\ installed(k).Index0 = k
<1>1. PICK c \in Indices(log) : i <= c /\ prefix(log, c)
  BY Zenon DEF fits
<1>2. log \in Log /\ Indexed(log)
  BY Zenon DEF fits
<1>3. /\ Indices(log) = log.Index0 .. LastLog(log).Index /\ log.Index0 \in Nat
      /\ LastLog(log).Index \in Nat /\ c \in Nat /\ k \in Nat
  BY <1>1, <1>2, IndicesProperty
<1>4. committed(k).Term = 2 * k
  BY <1>3 DEF committed, EmptyLog
<1>5. CASE k <= LastLog(log).Index /\ at(log, k).Term = committed(k).Term
  <2>1. k \in Indices(log)
    BY <1>3, <1>5
  <2>2. at(log, k).Term = 2 * k
    BY <1>4, <1>5, Zenon
  <2>3. k <= c
    BY <1>1, <1>2, <2>1, <2>2, CommittedTerm, Zenon
  <2>4. log.Index0 <= k
    BY <1>3
  <2>5. fits(log, k)
    BY <1>1, <1>2, <2>3, Zenon DEF fits
  <2>6. fits(cutAt(log, k), k) /\ cutAt(log, k).Index0 = k
    BY <1>3, <2>4, <2>5, FitsCut
  <2>7. installed(k) = cutAt(log, k)
    BY <1>5, TrimmedCut, Zenon DEF installed
  <2> QED BY <2>6, <2>7, Zenon
<1>6. CASE ~(k <= LastLog(log).Index /\ at(log, k).Term = committed(k).Term)
  <2> DEFINE x == [Command |-> Nil, Term |-> committed(k).Term, Index |-> k]
             g == [Entries |-> <<x>>, Index0 |-> k]
  <2>1. installed(k) = g
    BY <1>6, Zenon DEF installed
  <2>2. x \in Entry /\ x.Index = k /\ x.Term = 2 * k
    BY <1>3, <1>4 DEF Entry
  <2> HIDE DEF x
  <2>3. /\ g \in Log /\ g.Index0 = k /\ LogLen(g) = k + 1 /\ at(g, k) = x
        /\ Indexed(g)
    BY <1>3, <2>2 DEF Log, LogLen, at, Indexed
  <2>4. Indices(g) = k .. k
    BY <1>3, <2>3 DEF Indices
  <2> HIDE DEF g
  <2>5. prefix(g, k) /\ k \in Indices(g) /\ k <= k
    <3>1. \A j \in k .. k : j = k /\ ~(j > k)
      BY <1>3
    <3> QED BY <1>3, <2>2, <2>3, <2>4, <3>1 DEF prefix
  <2>6. fits(g, k)
    BY <2>3, <2>5, Zenon DEF fits
  <2> QED BY <2>1, <2>3, <2>6, Zenon
<1> QED BY <1>5, <1>6, Zenon

\* A peer that starts from a saved log and a snapshot of the cluster.
LEMMA LogStart ==
    ASSUME NEW r, NEW s, savable(s, races'), fits(r, r.Index0), r.Index0 \in 0 .. MaxIndex,
           StartFrom([raftstate |-> r, snapshot |-> s])
    PROVE  LogInv'
<1>1. /\ log' = r /\ commitIndex' = r.Index0 /\ lastApplied' = r.Index0
      /\ persister' = [raftstate |-> r, snapshot |-> s]
  BY Zenon DEF StartFrom
<1>2. persister' = [raftstate |-> log', snapshot |-> persister'.snapshot] /\ persister'.snapshot = s
  BY <1>1, Zenon
<1>3. r.Index0 \in Nat /\ r.Index0 <= r.Index0
  OBVIOUS
<1> QED BY <1>1, <1>2, <1>3, Zenon DEF LogInv

\* Where LogInv holds, the parts of it that the steps use.
LEMMA LogInvFacts ==
    ASSUME LogInv
    PROVE  /\ fits(log, commitIndex)
           /\ commitIndex \in 0 .. MaxIndex /\ commitIndex \in Nat /\ lastApplied \in Nat
           /\ log.Index0 \in Nat /\ LastLog(log).Index \in Nat /\ MaxIndex \in Nat
           /\ log.Index0 <= lastApplied /\ lastApplied <= commitIndex
           /\ commitIndex <= LastLog(log).Index
           /\ persister = [raftstate |-> log, snapshot |-> persister.snapshot]
           /\ persister.raftstate = log
           /\ savable(persister.snapshot, races)
           /\ Indices(log) = log.Index0 .. LastLog(log).Index
<1>1. log \in Log /\ Indexed(log) /\ \E c \in Indices(log) : commitIndex <= c
  BY Zenon DEF LogInv, fits
<1>2. /\ Indices(log) = log.Index0 .. LastLog(log).Index
      /\ log.Index0 \in Nat /\ LastLog(log).Index \in Nat
  BY <1>1, IndicesProperty, Zenon
<1>3. commitIndex \in 0 .. MaxIndex /\ commitIndex \in Nat /\ lastApplied \in Nat
  <2>1. commitIndex \in 0 .. MaxIndex /\ lastApplied \in Nat
    BY Zenon DEF LogInv
  <2> QED BY <2>1
<1>4. commitIndex <= LastLog(log).Index
  BY <1>1, <1>2, <1>3
<1>5. persister = [raftstate |-> log, snapshot |-> persister.snapshot]
  BY Zenon DEF LogInv
<1>6. persister.raftstate = log
  BY <1>5
<1>7. MaxIndex \in Nat
  BY ApplyAssumption, Zenon
<1> QED BY <1>2, <1>3, <1>4, <1>5, <1>6, <1>7, Zenon DEF LogInv

\* AppendEntries, from a leader or from one about to be deposed.
LEMMA LogAppend ==
    ASSUME LogInv, FromLeader \/ FromDeposed
    PROVE  LogInv' /\ log'.Index0 = log.Index0 /\ persister'.snapshot = persister.snapshot
           /\ commitIndex' >= commitIndex
<1> USE LogInvFacts
<1>0. races' = races
  BY Zenon DEF FromLeader, FromDeposed, AppendEntries
<1>1. ASSUME NEW g, fits(g, commitIndex'), g.Index0 = log.Index0, log' = g,
             persister' = [persister EXCEPT !.raftstate = g], lastApplied' = lastApplied,
             commitIndex' \in 0 .. MaxIndex, commitIndex' >= commitIndex
      PROVE  LogInv' /\ log'.Index0 = log.Index0 /\ persister'.snapshot = persister.snapshot
             /\ commitIndex' >= commitIndex
  <2>1. /\ persister' = [raftstate |-> log', snapshot |-> persister.snapshot]
        /\ persister'.snapshot = persister.snapshot
    BY <1>1, Zenon
  <2>2. lastApplied' <= commitIndex'
    BY <1>1
  <2> QED BY <1>0, <1>1, <2>1, <2>2, Zenon DEF LogInv
<1>2. CASE FromLeader
  <2>0. PICK prev \in Indices(log), n \in 0 .. MaxIndex :
           /\ at(log, prev).Term = committed(prev).Term
           /\ \E LeaderCommit \in 0 .. n : AppendEntries(prev, upTo(prev, n), LeaderCommit)
    BY <1>2, Zenon DEF FromLeader, upTo
  <2>1. PICK LeaderCommit \in 0 .. n : AppendEntries(prev, upTo(prev, n), LeaderCommit)
    BY <2>0, Zenon
  <2> DEFINE g == merge(log, upTo(prev, n))
  <2>2. /\ fits(g, commitIndex) /\ fits(g, n) /\ g.Index0 = log.Index0
        /\ LastLog(g).Index >= n
    BY <2>0, FitsMerge, Zenon
  <2>3. /\ log' = g /\ persister' = [persister EXCEPT !.raftstate = g]
        /\ lastApplied' = lastApplied
        /\ commitIndex' = IF LeaderCommit > commitIndex THEN Min({LeaderCommit, LastLog(g).Index})
                                                        ELSE commitIndex
    BY <2>1, Zenon DEF AppendEntries
  <2> HIDE DEF g
  <2>4. LeaderCommit \in Nat /\ LeaderCommit <= n /\ n \in Nat /\ n <= MaxIndex
    BY <2>0, <2>1
  <2>5. LastLog(g).Index \in Nat
    <3>1. g \in Log /\ Indexed(g)
      BY <2>2, Zenon DEF fits
    <3> QED BY <3>1, IndicesProperty, Zenon
  <2>6. Min({LeaderCommit, LastLog(g).Index}) = LeaderCommit
    <3>1. {LeaderCommit, LastLog(g).Index} \in SUBSET Nat /\ {LeaderCommit, LastLog(g).Index} # {}
      BY <2>4, <2>5, Zenon
    <3>2. /\ Min({LeaderCommit, LastLog(g).Index}) \in {LeaderCommit, LastLog(g).Index}
          /\ Min({LeaderCommit, LastLog(g).Index}) <= LeaderCommit
      BY <3>1, MinProperty, Zenon
    <3> QED BY <2>2, <2>4, <2>5, <3>2
  <2>7. fits(g, LeaderCommit)
    <3>1. PICK d \in Indices(g) : n <= d /\ prefix(g, d)
      BY <2>2, Zenon DEF fits
    <3>2. g \in Log /\ Indexed(g)
      BY <2>2, Zenon DEF fits
    <3>3. d \in Nat
      BY <3>1, <3>2, IndicesProperty
    <3>4. LeaderCommit <= d
      BY <2>4, <3>1, <3>3
    <3> QED BY <3>1, <3>2, <3>4, Zenon DEF fits
  <2>8. CASE LeaderCommit > commitIndex
    <3>1. commitIndex' = LeaderCommit
      BY <2>3, <2>6, <2>8, Zenon
    <3>2. commitIndex' \in 0 .. MaxIndex /\ commitIndex' >= commitIndex
      BY <2>4, <2>8, <3>1
    <3> QED BY <1>1, <2>2, <2>3, <2>7, <3>1, <3>2, Zenon
  <2>9. CASE ~(LeaderCommit > commitIndex)
    <3>1. commitIndex' = commitIndex
      BY <2>3, <2>9, Zenon
    <3>2. commitIndex' \in 0 .. MaxIndex /\ commitIndex' >= commitIndex
      BY <3>1
    <3> QED BY <1>1, <2>2, <2>3, <3>1, <3>2, Zenon
  <2> QED BY <2>8, <2>9, Zenon
<1>3. CASE FromDeposed
  <2> DEFINE g == merge(log, <<uncommitted(LastLog(log))>>)
  <2>1. fits(g, commitIndex) /\ g.Index0 = log.Index0
    BY FitsUncommitted, Zenon
  <2>2. ~(0 > commitIndex)
    OBVIOUS
  <2>3. /\ log' = g /\ persister' = [persister EXCEPT !.raftstate = g]
        /\ lastApplied' = lastApplied /\ commitIndex' = commitIndex
    BY <1>3, <2>2, Zenon DEF FromDeposed, AppendEntries
  <2> HIDE DEF g
  <2>4. commitIndex' \in 0 .. MaxIndex /\ commitIndex' >= commitIndex
    BY <2>3
  <2> QED BY <1>1, <2>1, <2>3, <2>4, Zenon
<1> QED BY <1>2, <1>3, Zenon

\* svc and what it stands for.
LEMMA SvcFacts ==
    ASSUME MsgInv
    PROVE  /\ svc.index \in 0 .. MaxIndex /\ svc.index \in Nat
           /\ svc.step \in {"idle", "snapshot", "install", "ingest"}
           /\ svc = [step |-> svc.step, index |-> svc.index]
<1>1. svc \in [step : {"idle", "snapshot", "install", "ingest"}, index : 0 .. MaxIndex]
  BY Zenon DEF MsgInv
<1> QED BY <1>1

\* Every step keeps what is committed of the log in the log.
LEMMA LogStep ==
    ASSUME LogInv, MsgInv, SvcInv, Next
    PROVE  LogInv'
<1> USE LogInvFacts, SvcFacts
<1>0. apply_error = noError
  BY NextCases, Zenon
<1>a. savable(persister.snapshot, races')
  BY RacesKept, SavableKept, Zenon
<1>1. CASE LoopSend
  <2>1. /\ log' = log /\ commitIndex' = commitIndex /\ persister' = persister
        /\ lastApplied' = lastApplied + 1 /\ commitIndex > lastApplied
    BY <1>1, Zenon DEF LoopSend, unapplied
  <2>2. lastApplied' \in Nat /\ log.Index0 <= lastApplied' /\ lastApplied' <= commitIndex
    BY <2>1
  <2> QED BY <1>a, <2>1, <2>2, Zenon DEF LogInv
<1>2. ASSUME UNCHANGED raftVars PROVE LogInv'
  <2>1. log' = log /\ commitIndex' = commitIndex /\ lastApplied' = lastApplied /\ persister' = persister
    BY <1>2, Zenon DEF raftVars
  <2> QED BY <1>a, <2>1, Zenon DEF LogInv
<1>3. CASE LoopWait \/ ReceiveCommand \/ ingestSnap
           \/ (\E k \in senders : ReceiveSnapshot(k))
           \/ (\E k \in 1 .. MaxIndex : InstallSnapShot(k))
           \/ OldInstance
  <2>1. UNCHANGED raftVars
    BY <1>3, OldInstanceLingers, Zenon DEF LoopWait, ReceiveCommand, ingestSnap,
         ReceiveSnapshot, InstallSnapShot, raftVars
  <2> QED BY <1>2, <2>1, Zenon
<1>4. CASE Snapshot
  <2> DEFINE k == svc.index
  <2>1. svc.step = "snapshot" /\ commitIndex' = commitIndex /\ lastApplied' = lastApplied
    BY <1>4, Zenon DEF Snapshot
  <2>2. CASE trimmable(k)
    <3> DEFINE s == snapshotOf(k, svcLog)
    <3>1. /\ log' = cutAt(log, k)
          /\ persister' = [raftstate |-> cutAt(log, k), snapshot |-> s] /\ races' = races
      BY <1>4, <2>2, TrimmedCut, Zenon DEF Snapshot
    <3>2. k >= log.Index0 /\ k <= commitIndex
      BY <2>2, Zenon DEF trimmable
    <3>3. log.Index0 <= k
      BY <3>2, Zenon
    <3>4. fits(cutAt(log, k), commitIndex) /\ cutAt(log, k).Index0 = k
      BY <3>2, <3>3, FitsCut, Zenon
    <3>5. k <= lastApplied
      BY <2>1, Zenon DEF MsgInv
    <3>6. savable(s, races)
      BY <1>0, <2>1, ServiceSnapshot, Zenon
    <3> HIDE DEF k, s
    <3>7. /\ persister' = [raftstate |-> log', snapshot |-> persister'.snapshot]
          /\ persister'.snapshot = s
      BY <3>1
    <3> QED BY <2>1, <3>1, <3>4, <3>5, <3>6, <3>7, Zenon DEF LogInv
  <2>3. CASE ~trimmable(k)
    <3>1. UNCHANGED raftVars
      BY <1>4, <2>1, <2>3, Zenon DEF Snapshot, raftVars
    <3> QED BY <1>2, <3>1, Zenon
  <2> QED BY <2>2, <2>3, Zenon
<1>5. CASE CondInstallSnapshot
  <2> DEFINE k == svc.index
  <2>1. CASE outdated(k)
    <3>1. UNCHANGED raftVars
      BY <1>5, <2>1, Zenon DEF CondInstallSnapshot
    <3> QED BY <1>2, <3>1, Zenon
  <2>2. CASE ~outdated(k)
    <3>1. /\ log' = installed(k) /\ commitIndex' = k /\ lastApplied' = k
          /\ persister' = [raftstate |-> installed(k), snapshot |-> clusterSnapshot(k)]
      BY <1>5, <2>2, Zenon DEF CondInstallSnapshot
    <3>2. ~(k <= commitIndex)
      BY <2>2, Zenon DEF outdated
    <3>3. k \in 1 .. MaxIndex /\ commitIndex < k /\ log.Index0 <= commitIndex /\ k <= k
      BY <3>2
    <3>4. fits(installed(k), k) /\ installed(k).Index0 = k
      BY <3>3, FitsInstalled, Zenon
    <3>5. savable(clusterSnapshot(k), races')
      BY ClusterSnapshotSaved, Zenon DEF savable
    <3> HIDE DEF k
    <3>6. /\ persister' = [raftstate |-> log', snapshot |-> persister'.snapshot]
          /\ persister'.snapshot = clusterSnapshot(k)
      BY <3>1, Zenon
    <3>7. k \in 0 .. MaxIndex /\ k \in Nat
      BY <3>3
    <3> QED BY <3>1, <3>3, <3>4, <3>5, <3>6, <3>7, Zenon DEF LogInv
  <2> QED BY <2>1, <2>2, Zenon
<1>6. CASE FromLeader \/ FromDeposed
  BY <1>6, LogAppend, Zenon
<1>7. fits(log, log.Index0) /\ log.Index0 \in 0 .. MaxIndex
  <2>1. PICK c \in Indices(log) : commitIndex <= c /\ prefix(log, c)
    BY Zenon DEF fits
  <2>2. log.Index0 <= c /\ log.Index0 \in 0 .. MaxIndex
    BY <2>1
  <2> QED BY <2>1, <2>2, Zenon DEF fits
<1>8. CASE Restart
  <2>1. StartFrom([raftstate |-> log, snapshot |-> persister.snapshot])
    BY <1>8, Zenon DEF Restart
  <2> QED BY <1>7, <1>a, <2>1, LogStart, Zenon
<1>9. CASE CrashInSnapshot
  <2> DEFINE k == svc.index
             r == cutAt(log, k)
  <2>1. /\ trimmable(k) /\ StartFrom([persister EXCEPT !.raftstate = r])
    BY <1>9, TrimmedCut, Zenon DEF CrashInSnapshot
  <2>2. k >= log.Index0 /\ k <= commitIndex
    BY <2>1, Zenon DEF trimmable
  <2>3. log.Index0 <= k
    BY <2>2, Zenon
  <2>4. fits(r, commitIndex) /\ r.Index0 = k
    BY <2>2, <2>3, FitsCut, Zenon
  <2>5. fits(r, k)
    <3>1. PICK c \in Indices(r) : commitIndex <= c /\ prefix(r, c)
      BY <2>4, Zenon DEF fits
    <3>2. r \in Log /\ Indexed(r)
      BY <2>4, Zenon DEF fits
    <3> HIDE DEF r
    <3>3. k <= c
      BY <2>2, <3>1, <3>2, IndicesProperty
    <3> QED BY <3>1, <3>2, <3>3, Zenon DEF fits
  <2> HIDE DEF r
  <2>6. [persister EXCEPT !.raftstate = r] = [raftstate |-> r, snapshot |-> persister.snapshot]
    OBVIOUS
  <2> HIDE DEF k
  <2>7. k \in 0 .. MaxIndex
    BY Zenon DEF k
  <2> QED BY <1>a, <2>1, <2>4, <2>5, <2>6, <2>7, LogStart, Zenon
<1>10. CASE CrashInInstall
  <2> DEFINE s == clusterSnapshot(svc.index)
  <2>1. StartFrom([persister EXCEPT !.snapshot = s])
    BY <1>10, Zenon DEF CrashInInstall
  <2>2. savable(s, races')
    BY ClusterSnapshotSaved, Zenon DEF savable
  <2> HIDE DEF s
  <2>3. [persister EXCEPT !.snapshot = s] = [raftstate |-> log, snapshot |-> s]
    OBVIOUS
  <2> QED BY <1>7, <2>1, <2>2, <2>3, LogStart, Zenon
<1> QED BY <1>1, <1>3, <1>4, <1>5, <1>6, <1>8, <1>9, <1>10, NextCases, Zenon

-----------------------------------------------------------------------------
(* What is on its way to the service.                                        *)

\* LoopCommit takes its message from the committed piece of the log.
LEMMA LoopSound ==
    ASSUME LogInv, LoopSend
    PROVE  sound(applyMsg') /\ applyMsg'.CommandIndex = lastApplied'
<1> USE LogInvFacts
<1> DEFINE n == lastApplied + 1
<1>1. /\ lastApplied' = n /\ commitIndex > lastApplied
      /\ applyMsg' = [CommandIndex |-> n, Command |-> at(log, n).Command]
  BY Zenon DEF LoopSend, unapplied
<1>2. PICK c \in Indices(log) : commitIndex <= c /\ prefix(log, c)
  BY Zenon DEF fits
<1>3. n \in Indices(log) /\ n <= c /\ n > log.Index0 /\ n \in 1 .. MaxIndex
  BY <1>1, <1>2
<1>4. at(log, n).Command = committed(n).Command
  BY <1>2, <1>3, Zenon DEF prefix
<1> HIDE DEF n
<1>5. applyMsg' = [CommandIndex |-> n, Command |-> committed(n).Command]
  BY <1>1, <1>4, Zenon
<1>6. applyMsg'.CommandIndex = n
  BY <1>5, Zenon
<1> QED BY <1>1, <1>3, <1>5, <1>6, SoundMsg, Zenon

\* What an instance leaves behind when it is killed.
LEMMA RemainsType ==
    ASSUME MsgInv
    PROVE  remains \in Remains
<1>1. (IF loop = "send" THEN applyMsg ELSE noMsg) \in Msg \cup {noMsg}
  BY Zenon DEF MsgInv, sound
<1>2. (IF svc.step = "ingest" \/ (svc.step = "install" /\ ~outdated(svc.index))
       THEN {svc.index} ELSE {}) \in SUBSET (0 .. MaxIndex)
  BY SvcFacts, Zenon
<1>3. {k \in senders : ~outdated(k)} \in SUBSET (0 .. MaxIndex)
  <2>1. 1 .. MaxIndex \subseteq 0 .. MaxIndex
    BY ApplyAssumption
  <2> QED BY <2>1, Zenon DEF MsgInv
<1> QED BY <1>1, <1>2, <1>3, Zenon DEF remains, Remains

\* An applier of a killed instance only takes from what was left.
LEMMA OldInstanceTakes ==
    ASSUME MsgInv, OldInstance
    PROVE  /\ killed' \in Seq(Remains) /\ DOMAIN killed' = DOMAIN killed
           /\ \A x \in DOMAIN killed : /\ killed'[x].ingesting \subseteq killed[x].ingesting
                                       /\ killed'[x].senders \subseteq killed[x].senders
<1>1. PICK x \in DOMAIN killed : OldApplier(x) \/ \E k \in 1 .. MaxIndex : OldIngest(x, k)
  BY Zenon DEF OldInstance
<1> DEFINE o == killed[x]
<1>2. killed \in Seq(Remains) /\ o \in Remains
  BY <1>1 DEF MsgInv
<1>3. PICK q \in Remains : /\ killed' = [killed EXCEPT ![x] = q]
                           /\ q.ingesting \subseteq o.ingesting /\ q.senders \subseteq o.senders
  <2>1. CASE OldApplier(x)
    <3> DEFINE q == [o EXCEPT !.applyMsg = noMsg]
    <3>1. killed' = [killed EXCEPT ![x] = q]
      BY <2>1, Zenon DEF OldApplier
    <3> HIDE DEF o
    <3>2. q \in Remains /\ q.ingesting = o.ingesting /\ q.senders = o.senders
      BY <1>2 DEF Remains
    <3> QED BY <3>1, <3>2, Zenon
  <2>2. CASE \E k \in 1 .. MaxIndex : OldIngest(x, k)
    <3>1. PICK k \in 1 .. MaxIndex : OldIngest(x, k)
      BY <2>2, Zenon
    <3> DEFINE q == [o EXCEPT !.ingesting = {}, !.senders = {j \in o.senders : j > k}]
    <3>2. killed' = [killed EXCEPT ![x] = q]
      BY <3>1, Zenon DEF OldIngest
    <3> HIDE DEF o
    <3>3. q \in Remains /\ q.ingesting = {} /\ q.senders \subseteq o.senders
      BY <1>2 DEF Remains
    <3> QED BY <3>2, <3>3, Zenon
  <2> QED BY <1>1, <2>1, <2>2, Zenon
<1>4. killed' \in Seq(Remains) /\ DOMAIN killed' = DOMAIN killed
  BY <1>1, <1>2, <1>3
<1>5. \A y \in DOMAIN killed : killed'[y] = IF y = x THEN q ELSE killed[y]
  BY <1>3, Zenon
<1> QED BY <1>3, <1>4, <1>5, Zenon

\* Every step keeps the messages sound, and the service's snapshot at or below
\* what Raft has applied.
LEMMA MsgStep ==
    ASSUME LogInv, MsgInv, Next
    PROVE  MsgInv'
<1> USE LogInvFacts, SvcFacts
<1> DEFINE Steps == [step : {"idle", "snapshot", "install", "ingest"}, index : 0 .. MaxIndex]
<1>0. Idle \in Steps /\ Idle.step # "snapshot"
  BY DEF Idle
<1>1. /\ loop \in {"ready", "wait", "send"} /\ svc \in Steps
      /\ loop = "send" => sound(applyMsg) /\ applyMsg.CommandIndex <= lastApplied
      /\ killed \in Seq(Remains)
      /\ senders \subseteq 1 .. MaxIndex
      /\ svc.step = "snapshot" => svc.index <= lastApplied
  BY Zenon DEF MsgInv
<1> HIDE DEF Steps
<1>2. SUFFICES /\ loop' \in {"ready", "wait", "send"} /\ svc' \in Steps
               /\ loop' = "send" => sound(applyMsg') /\ applyMsg'.CommandIndex <= lastApplied'
               /\ killed' \in Seq(Remains)
               /\ senders' \subseteq 1 .. MaxIndex
               /\ svc'.step = "snapshot" => svc'.index <= lastApplied'
  BY Zenon DEF MsgInv, Steps
<1>3. CASE LoopSend
  <2>1. sound(applyMsg') /\ applyMsg'.CommandIndex = lastApplied'
    BY <1>3, LoopSound, Zenon
  <2>2. /\ loop' = "send" /\ senders' = senders /\ svc' = svc /\ killed' = killed
        /\ lastApplied' = lastApplied + 1
    BY <1>3, Zenon DEF LoopSend, serviceVars
  <2>3. lastApplied' <= lastApplied' /\ \A n \in Nat : n <= lastApplied => n <= lastApplied'
    BY <2>2
  <2> QED BY <1>1, <2>1, <2>2, <2>3, Zenon
<1>4. CASE LoopWait
  <2>1. /\ loop' = "wait" /\ senders' = senders /\ svc' = svc /\ killed' = killed
        /\ lastApplied' = lastApplied
    BY <1>4, Zenon DEF LoopWait, serviceVars, raftVars
  <2> QED BY <1>1, <2>1, Zenon
<1>5. CASE ReceiveCommand
  <2>1. /\ loop' = "ready" /\ senders' = senders /\ killed' = killed
        /\ lastApplied' = lastApplied /\ loop = "send"
        /\ \/ svc' = Idle \/ svc' = [step |-> "snapshot", index |-> applyMsg.CommandIndex]
    BY <1>5, Zenon DEF ReceiveCommand, raftVars
  <2>2. applyMsg.CommandIndex \in 0 .. MaxIndex /\ applyMsg.CommandIndex <= lastApplied
    <3>1. applyMsg.CommandIndex \in 1 .. MaxIndex /\ applyMsg.CommandIndex <= lastApplied
      BY <1>1, <2>1, SoundMsg, Zenon
    <3> QED BY <3>1
  <2>3. CASE svc' = Idle
    BY <1>0, <1>1, <2>1, <2>3, Zenon
  <2>4. CASE svc' = [step |-> "snapshot", index |-> applyMsg.CommandIndex]
    <3>1. svc' \in Steps /\ svc'.index = applyMsg.CommandIndex
      BY <2>2, <2>4, Zenon DEF Steps
    <3> QED BY <1>1, <2>1, <2>2, <3>1, Zenon
  <2> QED BY <2>1, <2>3, <2>4
<1>6. CASE ingestSnap \/ Snapshot
  <2>1. /\ loop' = loop /\ applyMsg' = applyMsg /\ senders' = senders
        /\ killed' = killed /\ lastApplied' = lastApplied /\ svc' = Idle
    BY <1>6, Zenon DEF ingestSnap, Snapshot, raftVars, loopVars
  <2> QED BY <1>0, <1>1, <2>1, Zenon
<1>7. CASE CondInstallSnapshot
  <2>1. /\ loop' = loop /\ applyMsg' = applyMsg /\ senders' = senders
        /\ killed' = killed
        /\ \/ svc' = Idle /\ lastApplied' = lastApplied
           \/ /\ svc' = [step |-> "ingest", index |-> svc.index]
              /\ lastApplied' = svc.index /\ ~(svc.index <= commitIndex)
    BY <1>7, Zenon DEF CondInstallSnapshot, raftVars, loopVars, outdated
  <2>2. svc' \in Steps /\ svc'.step # "snapshot"
    <3>1. CASE svc' = Idle
      BY <1>0, <3>1, Zenon
    <3>2. CASE svc' = [step |-> "ingest", index |-> svc.index]
      BY <3>2, Zenon DEF Steps
    <3> QED BY <2>1, <3>1, <3>2
  <2>3. \A n \in Nat : n <= lastApplied => n <= lastApplied'
    BY <2>1
  <2>4. loop' = "send" => applyMsg.CommandIndex \in Nat
    <3>1. loop' = "send" => applyMsg.CommandIndex \in 1 .. MaxIndex
      BY <1>1, <2>1, SoundMsg, Zenon
    <3> QED BY <3>1
  <2> QED BY <1>1, <2>1, <2>2, <2>3, <2>4, Zenon
<1>8. CASE \E k \in senders : ReceiveSnapshot(k)
  <2>1. PICK k \in senders : ReceiveSnapshot(k)
    BY <1>8, Zenon
  <2>2. /\ loop' = loop /\ applyMsg' = applyMsg /\ senders' = senders \ {k}
        /\ killed' = killed /\ lastApplied' = lastApplied
        /\ svc' = [step |-> "install", index |-> k]
    BY <2>1, Zenon DEF ReceiveSnapshot, raftVars, loopVars
  <2>3. k \in 0 .. MaxIndex
    <3>1. k \in 1 .. MaxIndex
      BY <1>1, Zenon
    <3> QED BY <3>1
  <2>4. svc' \in Steps /\ svc'.step # "snapshot"
    BY <2>2, <2>3, Zenon DEF Steps
  <2> QED BY <1>1, <2>2, <2>4, Zenon
<1>9. CASE FromLeader \/ FromDeposed
  <2>1. /\ loop' = loop \/ loop' = SendMsg
        /\ applyMsg' = applyMsg /\ senders' = senders
        /\ killed' = killed /\ lastApplied' = lastApplied /\ svc' = svc
    BY <1>9, Zenon DEF FromLeader, FromDeposed, AppendEntries, serviceVars
  <2>2. loop' \in {"ready", "wait", "send"} /\ (loop' = "send" => loop = "send")
    BY <1>1, <2>1, Zenon DEF SendMsg
  <2> QED BY <1>1, <2>1, <2>2, Zenon
<1>10. CASE \E k \in 1 .. MaxIndex : InstallSnapShot(k)
  <2>1. PICK k \in 1 .. MaxIndex : InstallSnapShot(k)
    BY <1>10, Zenon
  <2>2. /\ loop' = loop /\ applyMsg' = applyMsg /\ senders' = senders \cup {k}
        /\ killed' = killed /\ lastApplied' = lastApplied /\ svc' = svc
    BY <2>1, Zenon DEF InstallSnapShot, raftVars, loopVars, serviceVars
  <2> QED BY <1>1, <2>2, Zenon
<1>11. CASE Restart \/ CrashInSnapshot \/ CrashInInstall
  <2>1. /\ loop' = "ready" /\ senders' = {} /\ svc' = Idle /\ killed' = Append(killed, remains)
    BY <1>11, Zenon DEF Restart, CrashInSnapshot, CrashInInstall, StartFrom
  <2>2. remains \in Remains
    BY RemainsType, Zenon
  <2>3. killed' \in Seq(Remains)
    BY <1>1, <2>1, <2>2
  <2> QED BY <1>0, <1>1, <2>1, <2>3, Zenon
<1>12. CASE OldInstance
  <2>1. killed' \in Seq(Remains)
    BY <1>12, OldInstanceTakes, Zenon
  <2> QED BY <1>1, <1>12, <2>1, OldInstanceLingers, Zenon
<1> QED BY <1>3, <1>4, <1>5, <1>6, <1>7, <1>8, <1>9, <1>10, <1>11, <1>12, NextCases, Zenon

-----------------------------------------------------------------------------
(* The service.                                                              *)

\* A message the applier accepts.
LEMMA Accepted ==
    ASSUME NEW m, Apply(m), apply_error' = noError
    PROVE  /\ ~unexpected(m)
           /\ m.CommandIndex > 1 => m.CommandIndex - 1 \in DOMAIN svcLog
<1>1. noError # "out of order" /\ noError # "another value committed"
  BY Zenon DEF noError
<1>2. apply_error' = IF unexpected(m) THEN "out of order" ELSE checkLogs(m)
  BY Zenon DEF Apply
<1>3. ~unexpected(m) /\ checkLogs(m) = noError
  BY <1>1, <1>2, Zenon
<1>4. ~(m.CommandIndex > 1 /\ m.CommandIndex - 1 \notin DOMAIN svcLog)
  BY <1>1, <1>3, Zenon DEF checkLogs
<1> QED BY <1>3, <1>4, Zenon

\* A sound message puts a committed value into cfg.logs[i], and leaves no gap
\* unless the applier reports it.
LEMMA ApplySound ==
    ASSUME SvcInv, NEW m, sound(m), Apply(m), apply_error = noError,
           "lingering" \in races => "lingering" \in races'
    PROVE  /\ AppliedCommitted' /\ DOMAIN svcLog' \subseteq Nat
           /\ DOMAIN svcLog \subseteq DOMAIN svcLog'
           /\ ~unexpected(m) => m.CommandIndex \in DOMAIN svcLog'
           /\ apply_error' = noError =>
                \E b \in Nat : /\ DOMAIN svcLog' \ {0} = 1 .. b
                               /\ m.CommandIndex <= b
                               /\ "lingering" \notin races /\ svc.step = "snapshot"
                                    /\ svc.index \in Nat => svc.index <= b
<1> DEFINE i == m.CommandIndex
<1>1. i \in 1 .. MaxIndex /\ i \in Nat /\ 1 <= i /\ m.Command = committed(i).Command
  <2>1. i \in 1 .. MaxIndex /\ m.Command = committed(i).Command
    BY SoundMsg, Zenon
  <2> HIDE DEF i
  <2> QED BY <2>1, ApplyAssumption
<1>2. AppliedCommitted /\ DOMAIN svcLog \subseteq Nat
  BY Zenon DEF SvcInv
<1> HIDE DEF i
<1>3. CASE unexpected(m)
  <2>1. svcLog' = svcLog /\ apply_error' # noError
    BY <1>3, Accepted, Zenon DEF Apply
  <2>2. AppliedCommitted'
    BY <1>2, <2>1, Zenon DEF AppliedCommitted
  <2> QED BY <1>2, <1>3, <2>1, <2>2, Zenon
<1>4. CASE ~unexpected(m)
  <2>1. svcLog' = [n \in DOMAIN svcLog \cup {i} |-> IF n = i THEN m.Command ELSE svcLog[n]]
    BY <1>4, Zenon DEF Apply, i
  <2>2. DOMAIN svcLog' = DOMAIN svcLog \cup {i}
    BY <2>1, Zenon
  <2>3. AppliedCommitted'
    <3>1. ASSUME NEW n \in DOMAIN svcLog'
          PROVE  \/ svcLog'[n] = committed(n).Command
                 \/ "lingering" \in races' /\ svcLog'[n] = Nil
      <4>1. svcLog'[n] = IF n = i THEN m.Command ELSE svcLog[n]
        BY <2>1, <2>2, Zenon
      <4>2. CASE n = i
        BY <1>1, <4>1, <4>2, Zenon
      <4>3. CASE n # i
        <5>1. n \in DOMAIN svcLog /\ svcLog'[n] = svcLog[n]
          BY <2>2, <4>1, <4>3, Zenon
        <5> QED BY <1>2, <5>1, Zenon DEF AppliedCommitted
      <4> QED BY <4>2, <4>3, Zenon
    <3> QED BY <3>1, Zenon DEF AppliedCommitted
  <2>4. ASSUME apply_error' = noError
        PROVE  \E b \in Nat : /\ DOMAIN svcLog' \ {0} = 1 .. b
                              /\ i <= b
                              /\ "lingering" \notin races /\ svc.step = "snapshot"
                                   /\ svc.index \in Nat => svc.index <= b
    <3>1. PICK b \in Nat :
            /\ DOMAIN svcLog \ {0} = 1 .. b
            /\ "lingering" \notin races /\ svc.step = "snapshot" => svc.index <= b
      BY Zenon DEF SvcInv, unbroken
    <3>2. i > 1 => i - 1 \in DOMAIN svcLog
      BY <2>4, Accepted, Zenon DEF i
    <3>3. i <= b + 1
      <4>1. CASE i = 1
        BY <3>1, <4>1
      <4>2. CASE i # 1
        <5>1. i > 1 /\ i - 1 # 0
          BY <1>1, <4>2
        <5>2. i - 1 \in 1 .. b
          BY <3>1, <3>2, <5>1, Zenon
        <5> QED BY <1>1, <5>2
      <4> QED BY <4>1, <4>2, Zenon
    <3> DEFINE d == IF i <= b THEN b ELSE i
    <3>4. d \in Nat /\ i <= d /\ b <= d /\ (1 .. b) \cup {i} = 1 .. d
      BY <1>1, <3>1, <3>3
    <3>5. DOMAIN svcLog' \ {0} = (1 .. b) \cup {i}
      <4>1. i # 0
        BY <1>1
      <4> QED BY <2>2, <3>1, <4>1, Zenon
    <3> HIDE DEF d
    <3>6. "lingering" \notin races /\ svc.step = "snapshot" /\ svc.index \in Nat
            => svc.index <= d
      BY <3>1, <3>4
    <3> QED BY <3>4, <3>5, <3>6, Zenon
  <2> QED BY <1>1, <1>2, <2>2, <2>3, <2>4, Zenon DEF i
<1> QED BY <1>3, <1>4, Zenon

\* Every step keeps cfg.logs[i] committed and without gaps.
LEMMA SvcStep ==
    ASSUME LogInv, MsgInv, SvcInv, Next
    PROVE  SvcInv'
<1> USE LogInvFacts, SvcFacts
<1>0. apply_error = noError
  BY NextCases, Zenon
<1>1. /\ AppliedCommitted /\ DOMAIN svcLog \subseteq Nat
      /\ \E b \in Nat : unbroken(b)
  BY <1>0, Zenon DEF SvcInv
<1>a. "lingering" \in races => "lingering" \in races'
  BY RacesKept, Zenon
<1>2. ASSUME svcLog' = svcLog, svc'.step # "snapshot" \/ svc' = svc
      PROVE  SvcInv'
  <2>1. PICK b \in Nat : unbroken(b)
    BY <1>1, Zenon
  <2>2. unbroken(b)'
    BY <1>a, <1>2, <2>1, Zenon DEF unbroken
  <2>3. AppliedCommitted'
    BY <1>1, <1>a, <1>2, Zenon DEF AppliedCommitted
  <2> QED BY <1>1, <1>2, <2>2, <2>3, Zenon DEF SvcInv
<1>3. Idle.step # "snapshot"
  BY Zenon DEF Idle
<1>4. CASE LoopSend \/ LoopWait \/ FromLeader \/ FromDeposed
           \/ (\E k \in 1 .. MaxIndex : InstallSnapShot(k))
  <2>1. svcLog' = svcLog /\ svc' = svc
    BY <1>4, Zenon DEF LoopSend, LoopWait, FromLeader, FromDeposed, AppendEntries,
         InstallSnapShot, serviceVars
  <2> QED BY <1>2, <2>1, Zenon
<1>5. CASE \E k \in senders : ReceiveSnapshot(k)
  <2>1. PICK k \in senders : svcLog' = svcLog /\ svc' = [step |-> "install", index |-> k]
    BY <1>5, Zenon DEF ReceiveSnapshot
  <2>2. svc'.step # "snapshot"
    BY <2>1
  <2> QED BY <1>2, <2>1, <2>2, Zenon
<1>6. CASE Snapshot
  <2>1. svcLog' = svcLog /\ svc' = Idle
    BY <1>6, Zenon DEF Snapshot
  <2> QED BY <1>2, <1>3, <2>1, Zenon
<1>7. CASE CondInstallSnapshot
  <2>1. svcLog' = svcLog /\ (svc' = Idle \/ svc' = [step |-> "ingest", index |-> svc.index])
    BY <1>7, Zenon DEF CondInstallSnapshot
  <2>2. svc'.step # "snapshot"
    BY <1>3, <2>1
  <2> QED BY <1>2, <2>1, <2>2, Zenon
<1>8. CASE ReceiveCommand
  <2>1. /\ loop = "send" /\ Apply(applyMsg) /\ svc = Idle
        /\ \/ svc' = Idle \/ svc' = [step |-> "snapshot", index |-> applyMsg.CommandIndex]
    BY <1>8, Zenon DEF ReceiveCommand
  <2>2. sound(applyMsg)
    BY <2>1, Zenon DEF MsgInv
  <2>3. /\ AppliedCommitted' /\ DOMAIN svcLog' \subseteq Nat
        /\ apply_error' = noError =>
             \E b \in Nat : DOMAIN svcLog' \ {0} = 1 .. b /\ applyMsg.CommandIndex <= b
    BY <1>0, <1>a, <2>1, <2>2, ApplySound, Zenon
  <2>4. svc'.step = "snapshot" => svc'.index = applyMsg.CommandIndex
    BY <1>3, <2>1
  <2> QED BY <2>3, <2>4, Zenon DEF SvcInv, unbroken
<1>9. CASE OldInstance
  <2>1. "lingering" \in races' /\ svc' = svc
    BY <1>9, OldInstanceLingers, Zenon
  <2>2. PICK x \in DOMAIN killed : OldApplier(x) \/ \E k \in 1 .. MaxIndex : OldIngest(x, k)
    BY <1>9, Zenon DEF OldInstance
  <2>3. CASE OldApplier(x)
    <3>1. killed[x] \in Remains
      BY DEF MsgInv
    <3>2. sound(killed[x].applyMsg) /\ Apply(killed[x].applyMsg)
      BY <2>3, <3>1, Zenon DEF OldApplier, Remains, sound
    <3>3. /\ AppliedCommitted' /\ DOMAIN svcLog' \subseteq Nat
          /\ apply_error' = noError => \E b \in Nat : DOMAIN svcLog' \ {0} = 1 .. b
      BY <1>0, <1>a, <3>2, ApplySound, Zenon
    <3> QED BY <2>1, <3>3, Zenon DEF SvcInv, unbroken
  <2>4. CASE \E k \in 1 .. MaxIndex : OldIngest(x, k)
    <3>1. PICK k \in 1 .. MaxIndex : svcLog' = clusterSnapshot(k).xlog
      BY <2>4, Zenon DEF OldIngest, Ingest
    <3>2. k \in 0 .. MaxIndex /\ k \in Nat /\ 0 .. k \subseteq Nat /\ (0 .. k) \ {0} = 1 .. k
      OBVIOUS
    <3>3. DOMAIN svcLog' = 0 .. k /\ \A n \in 0 .. k : svcLog'[n] = committed(n).Command
      BY <3>1, <3>2, ClusterSnapshot, Zenon
    <3> QED BY <2>1, <3>2, <3>3, Zenon DEF SvcInv, AppliedCommitted, unbroken
  <2> QED BY <2>2, <2>3, <2>4, Zenon
<1>10. ASSUME NEW k \in 0 .. MaxIndex, DOMAIN svcLog' = 0 .. k, svc' = Idle,
              \A n \in 0 .. k : \/ svcLog'[n] = committed(n).Command
                                \/ "lingering" \in races' /\ svcLog'[n] = Nil
       PROVE  SvcInv'
  <2>1. k \in Nat /\ 0 .. k \subseteq Nat /\ (0 .. k) \ {0} = 1 .. k
    OBVIOUS
  <2>2. unbroken(k)'
    BY <1>3, <1>10, <2>1, Zenon DEF unbroken
  <2>3. AppliedCommitted'
    BY <1>10, Zenon DEF AppliedCommitted
  <2> QED BY <1>10, <2>1, <2>2, <2>3, Zenon DEF SvcInv
<1>11. CASE ingestSnap
  <2>1. svcLog' = clusterSnapshot(svc.index).xlog /\ svc' = Idle
    BY <1>11, Zenon DEF ingestSnap, Ingest
  <2>2. /\ DOMAIN svcLog' = 0 .. svc.index
        /\ \A n \in 0 .. svc.index : svcLog'[n] = committed(n).Command
    BY <2>1, ClusterSnapshot, Zenon
  <2> QED BY <1>10, <2>1, <2>2, Zenon
<1>12. ASSUME NEW r, NEW s, savable(s, races'), StartFrom([raftstate |-> r, snapshot |-> s])
       PROVE  SvcInv'
  <2>1. /\ svc' = Idle
        /\ svcLog' = IF s = noSnapshot THEN svcLog ELSE s.xlog
    <3>1. [raftstate |-> r, snapshot |-> s].snapshot = s
      OBVIOUS
    <3> QED BY <1>12, <3>1, Zenon DEF StartFrom
  <2>2. CASE s = noSnapshot
    BY <1>2, <1>3, <2>1, <2>2, Zenon
  <2>3. CASE s # noSnapshot
    <3>1. PICK k \in 0 .. MaxIndex :
             /\ DOMAIN s.xlog = 0 .. k
             /\ \A n \in 0 .. k : \/ s.xlog[n] = committed(n).Command
                                  \/ "lingering" \in races' /\ s.xlog[n] = Nil
      BY <1>12, <2>3, SavableFacts, Zenon
    <3> QED BY <1>10, <2>1, <2>3, <3>1, Zenon
  <2> QED BY <2>2, <2>3, Zenon
<1>b. savable(persister.snapshot, races')
  BY <1>a, SavableKept, Zenon
<1>13. CASE Restart
  <2>1. StartFrom([raftstate |-> log, snapshot |-> persister.snapshot])
    BY <1>13, Zenon DEF Restart
  <2> QED BY <1>12, <1>b, <2>1, Zenon
<1>14. CASE CrashInSnapshot
  <2> DEFINE r == trimmed(svc.index)
  <2>1. StartFrom([persister EXCEPT !.raftstate = r])
    BY <1>14, Zenon DEF CrashInSnapshot
  <2> HIDE DEF r
  <2>2. [persister EXCEPT !.raftstate = r] = [raftstate |-> r, snapshot |-> persister.snapshot]
    OBVIOUS
  <2>3. StartFrom([raftstate |-> r, snapshot |-> persister.snapshot])
    BY <2>1, <2>2, Zenon
  <2> QED BY <1>12, <1>b, <2>3, Zenon
<1>15. CASE CrashInInstall
  <2> DEFINE s == clusterSnapshot(svc.index)
  <2>1. StartFrom([persister EXCEPT !.snapshot = s]) /\ savable(s, races')
    BY <1>15, ClusterSnapshotSaved, Zenon DEF CrashInInstall, savable
  <2> HIDE DEF s
  <2>2. [persister EXCEPT !.snapshot = s] = [raftstate |-> log, snapshot |-> s]
    OBVIOUS
  <2> QED BY <1>12, <2>1, <2>2, ZenonT(60)
<1> QED BY <1>4, <1>5, <1>6, <1>7, <1>8, <1>9, <1>11, <1>13, <1>14, <1>15, NextCases, Zenon

-----------------------------------------------------------------------------
\* Every step keeps the snapshot in step with the log, but for a torn save.
LEMMA SavedStep ==
    ASSUME LogInv, MsgInv, SvcInv, SavedInv, Next
    PROVE  SavedInv'
<1> USE LogInvFacts, SvcFacts
<1>0. apply_error = noError
  BY NextCases, Zenon
<1>1. ASSUME persister'.snapshot = persister.snapshot, log'.Index0 = log.Index0
      PROVE  SavedInv'
  BY <1>1, RacesKept, Zenon DEF SavedInv
<1>2. ASSUME NEW k, persister'.snapshot.index = k, log'.Index0 = k
      PROVE  SavedInv'
  BY <1>2, Zenon DEF SavedInv
<1>3. CASE LoopSend \/ LoopWait \/ ReceiveCommand \/ ingestSnap
           \/ (\E k \in senders : ReceiveSnapshot(k))
           \/ (\E k \in 1 .. MaxIndex : InstallSnapShot(k))
           \/ OldInstance
  <2>1. log' = log /\ persister' = persister
    BY <1>3, OldInstanceLingers, Zenon DEF LoopSend, LoopWait, ReceiveCommand, ingestSnap,
         ReceiveSnapshot, InstallSnapShot, raftVars
  <2> QED BY <1>1, <2>1, Zenon
<1>4. CASE Snapshot
  <2> DEFINE k == svc.index
  <2>1. CASE trimmable(k)
    <3>1. /\ log' = cutAt(log, k)
          /\ persister' = [raftstate |-> cutAt(log, k), snapshot |-> snapshotOf(k, svcLog)]
      BY <1>4, <2>1, TrimmedCut, Zenon DEF Snapshot
    <3>2. cutAt(log, k).Index0 = k /\ snapshotOf(k, svcLog).index = k
      BY Zenon DEF cutAt, snapshotOf
    <3> HIDE DEF k
    <3>3. persister'.snapshot = snapshotOf(k, svcLog)
      BY <3>1
    <3> QED BY <1>2, <3>1, <3>2, <3>3, Zenon
  <2>2. CASE ~trimmable(k)
    <3>1. log' = log /\ persister' = persister
      BY <1>4, <2>2, Zenon DEF Snapshot
    <3> QED BY <1>1, <3>1, Zenon
  <2> QED BY <2>1, <2>2, Zenon
<1>5. CASE CondInstallSnapshot
  <2> DEFINE k == svc.index
  <2>1. CASE outdated(k)
    <3>1. log' = log /\ persister' = persister
      BY <1>5, <2>1, Zenon DEF CondInstallSnapshot, raftVars
    <3> QED BY <1>1, <3>1, Zenon
  <2>2. CASE ~outdated(k)
    <3>1. /\ log' = installed(k)
          /\ persister' = [raftstate |-> installed(k), snapshot |-> clusterSnapshot(k)]
      BY <1>5, <2>2, Zenon DEF CondInstallSnapshot
    <3>2. installed(k).Index0 = k
      BY Zenon DEF installed, trimmed
    <3>3. clusterSnapshot(k).index = k
      BY ClusterSnapshot, Zenon
    <3> HIDE DEF k
    <3>4. persister'.snapshot = clusterSnapshot(k)
      BY <3>1, Zenon
    <3> QED BY <1>2, <3>1, <3>2, <3>3, <3>4, Zenon
  <2> QED BY <2>1, <2>2, Zenon
<1>6. CASE FromLeader \/ FromDeposed
  BY <1>1, <1>6, LogAppend, Zenon
<1>7. CASE Restart
  <2>1. log' = persister.raftstate /\ persister' = persister
    BY <1>7, Zenon DEF Restart, StartFrom
  <2> QED BY <1>1, <2>1, Zenon
<1>8. CASE CrashInSnapshot \/ CrashInInstall
  <2>1. "torn" \in races'
    BY <1>8, Zenon DEF CrashInSnapshot, CrashInInstall, lost
  <2> QED BY <2>1, Zenon DEF SavedInv
<1> QED BY <1>3, <1>4, <1>5, <1>6, <1>7, <1>8, NextCases, Zenon

\* The plain applier never meets a snapshot.
LEMMA PlainStep ==
    ASSUME LogInv, MsgInv, PlainInv, Next
    PROVE  PlainInv'
<1> USE LogInvFacts
<1>1. snapshot' = snapshot
  BY RacesKept, Zenon
<1> SUFFICES ASSUME ~snapshot
             PROVE  /\ log'.Index0 = 0 /\ senders' = {} /\ svc' = Idle /\ svcApplied' = 0
                    /\ persister'.snapshot = noSnapshot
                    /\ \A x \in DOMAIN killed' : /\ killed'[x].ingesting = {}
                                                /\ killed'[x].senders = {}
  BY <1>1, Zenon DEF PlainInv
<1>2. /\ log.Index0 = 0 /\ senders = {} /\ svc = Idle /\ svcApplied = 0
      /\ persister.snapshot = noSnapshot
      /\ \A x \in DOMAIN killed : killed[x].ingesting = {} /\ killed[x].senders = {}
  BY Zenon DEF PlainInv
<1>3. svc.step \notin {"snapshot", "install", "ingest"} /\ noSnapshot.index = 0
  BY <1>2, Zenon DEF Idle, noSnapshot
<1>4. CASE LoopSend \/ LoopWait
  BY <1>2, <1>4, Zenon DEF LoopSend, LoopWait, raftVars, serviceVars
<1>5. CASE ReceiveCommand
  <2>1. log' = log /\ persister' = persister /\ senders' = senders /\ svcApplied' = svcApplied
        /\ svc' = Idle /\ killed' = killed
    BY <1>2, <1>5, Zenon DEF ReceiveCommand, Apply, raftVars
  <2> QED BY <1>2, <2>1, Zenon
<1>6. CASE FromLeader \/ FromDeposed
  <2>1. senders' = senders /\ svcApplied' = svcApplied /\ svc' = svc /\ killed' = killed
    BY <1>6, Zenon DEF FromLeader, FromDeposed, AppendEntries, serviceVars
  <2> QED BY <1>2, <1>6, <2>1, LogAppend, Zenon
<1>7. CASE Restart
  <2>1. /\ log' = persister.raftstate /\ persister' = persister /\ senders' = {} /\ svc' = Idle
        /\ svcApplied' = persister.snapshot.index /\ killed' = Append(killed, remains)
    BY <1>7, Zenon DEF Restart, StartFrom
  <2>2. remains.ingesting = {} /\ remains.senders = {} /\ remains \in Remains
    BY <1>2, <1>3, RemainsType, Zenon DEF remains
  <2>3. killed \in Seq(Remains)
    BY Zenon DEF MsgInv
  <2>4. \A x \in DOMAIN killed' : \/ x \in DOMAIN killed /\ killed'[x] = killed[x]
                                 \/ killed'[x] = remains
    BY <2>1, <2>2, <2>3
  <2>5. \A x \in DOMAIN killed' : killed'[x].ingesting = {} /\ killed'[x].senders = {}
    BY <1>2, <2>2, <2>4, Zenon
  <2> QED BY <1>2, <1>3, <2>1, <2>5, Zenon
<1>8. ~(\/ ingestSnap \/ Snapshot \/ CondInstallSnapshot \/ (\E k \in senders : ReceiveSnapshot(k))
        \/ (\E k \in 1 .. MaxIndex : InstallSnapShot(k)) \/ CrashInSnapshot \/ CrashInInstall)
  BY <1>2, <1>3, Zenon DEF ingestSnap, Snapshot, CondInstallSnapshot, InstallSnapShot,
       CrashInSnapshot, CrashInInstall
<1>9. CASE OldInstance
  <2>1. PICK x \in DOMAIN killed : OldApplier(x) \/ \E k \in 1 .. MaxIndex : OldIngest(x, k)
    BY <1>9, Zenon DEF OldInstance
  <2>2. OldApplier(x)
    BY <1>2, <2>1, Zenon DEF OldIngest
  <2>3. svcApplied' = svcApplied
    BY <2>2, Zenon DEF OldApplier, Apply
  <2>4. \A y \in DOMAIN killed' : killed'[y].ingesting = {} /\ killed'[y].senders = {}
    BY <1>2, <1>9, OldInstanceTakes, Zenon
  <2> QED BY <1>2, <1>9, <2>3, <2>4, OldInstanceLingers, Zenon
<1> QED BY <1>4, <1>5, <1>6, <1>7, <1>8, <1>9, NextCases, Zenon

-----------------------------------------------------------------------------
(* Raft and the service, in step until a race is lost.                       *)

\* While LoopCommit delivers what comes next, the applier has nothing to say.
LEMMA NothingToReport ==
    ASSUME NEW m, sound(m), Apply(m), ~unexpected(m), AppliedCommitted, races = {},
           m.CommandIndex > 1 => m.CommandIndex - 1 \in DOMAIN svcLog
    PROVE  apply_error' = noError
<1>1. m.Command = committed(m.CommandIndex).Command
  BY SoundMsg, Zenon
<1>2. m.CommandIndex \in DOMAIN svcLog => svcLog[m.CommandIndex] = m.Command
  BY <1>1, Zenon DEF AppliedCommitted
<1> QED BY <1>1, <1>2, Zenon DEF Apply, checkLogs

\* The counters of Raft and of applierSnap stay in step.
LEMMA OrderSnapStep ==
    ASSUME LogInv, MsgInv, SvcInv, SavedInv, OrderInv, snapshot, Next, races' = {}
    PROVE  /\ apply_error' = noError
           /\ loop' = "send" => applyMsg'.CommandIndex = lastApplied'
           /\ lastApplied' = (IF svc'.step = "ingest" THEN svc'.index ELSE svcApplied') + sending'
           /\ svc'.step = "install" => loop' # "send"
           /\ svc'.step = "ingest" => svcApplied' <= svc'.index
           /\ svcApplied' \in Nat /\ (svcApplied' = 0 \/ svcApplied' \in DOMAIN svcLog')
<1> USE LogInvFacts, SvcFacts
<1> DEFINE at0 == IF svc.step = "ingest" THEN svc.index ELSE svcApplied
<1>0. apply_error = noError /\ races = {}
  BY NextCases, RacesKept, Zenon
<1>1. /\ loop = "send" => applyMsg.CommandIndex = lastApplied
      /\ lastApplied = at0 + sending
      /\ svc.step = "install" => loop # "send"
      /\ svc.step = "ingest" => svcApplied <= svc.index
      /\ svcApplied \in Nat /\ (svcApplied = 0 \/ svcApplied \in DOMAIN svcLog)
  BY <1>0, Zenon DEF OrderInv
<1>2. at0 \in Nat /\ Idle.step = "idle"
  BY <1>1, Zenon DEF Idle
<1>3. CASE LoopSend
  <2>1. /\ loop = "ready" /\ loop' = "send" /\ svc' = svc /\ svcApplied' = svcApplied
        /\ svcLog' = svcLog /\ apply_error' = apply_error /\ lastApplied' = lastApplied + 1
        /\ svc.step # "install"
    BY <1>3, Zenon DEF LoopSend, serviceVars, lost
  <2>2. applyMsg'.CommandIndex = lastApplied'
    BY <1>3, LoopSound, Zenon
  <2>3. sending = 0 /\ sending' = 1
    BY <2>1, Zenon DEF sending
  <2>4. lastApplied' = at0 + sending'
    BY <1>1, <1>2, <2>1, <2>3
  <2> QED BY <1>0, <1>1, <2>1, <2>2, <2>4, Zenon
<1>4. CASE LoopWait
  <2>1. /\ loop = "ready" /\ loop' = "wait" /\ svc' = svc /\ svcApplied' = svcApplied
        /\ svcLog' = svcLog /\ apply_error' = apply_error /\ lastApplied' = lastApplied
    BY <1>4, Zenon DEF LoopWait, serviceVars, raftVars
  <2>2. sending = 0 /\ sending' = 0 /\ loop' # "send"
    BY <2>1, Zenon DEF sending
  <2> QED BY <1>0, <1>1, <2>1, <2>2, Zenon
<1>5. CASE ReceiveCommand
  <2> DEFINE i == applyMsg.CommandIndex
  <2>1. /\ loop = "send" /\ loop' = "ready" /\ svc = Idle /\ Apply(applyMsg)
        /\ lastApplied' = lastApplied
        /\ \/ svc' = Idle \/ svc' = [step |-> "snapshot", index |-> i]
    BY <1>5, Zenon DEF ReceiveCommand, raftVars
  <2>2. sound(applyMsg) /\ i = lastApplied
    BY <1>1, <2>1, Zenon DEF MsgInv
  <2>3. sending = 1 /\ sending' = 0 /\ loop' # "send"
    BY <2>1, Zenon DEF sending
  <2>4. svc.step = "idle" /\ svc'.step \in {"idle", "snapshot"}
    BY <1>2, <2>1
  <2>5. i = svcApplied + 1 /\ i \in Nat
    BY <1>1, <2>2, <2>3, <2>4, Zenon
  <2>6. ~unexpected(applyMsg)
    BY <2>5, Zenon DEF unexpected
  <2>7. i > 1 => i - 1 \in DOMAIN svcLog
    BY <1>1, <2>5
  <2>8. apply_error' = noError
    BY <1>0, <2>1, <2>2, <2>6, <2>7, NothingToReport, Zenon DEF SvcInv
  <2>9. i \in DOMAIN svcLog'
    BY <1>0, <2>1, <2>2, <2>6, ApplySound, Zenon
  <2>10. svcApplied' = i
    BY <2>1, Zenon DEF Apply
  <2>11. lastApplied' = svcApplied' + 0 /\ svc'.step # "ingest" /\ svc'.step # "install"
    BY <2>1, <2>2, <2>4, <2>5, <2>10
  <2> QED BY <2>3, <2>5, <2>8, <2>9, <2>10, <2>11, Zenon
<1>6. CASE ingestSnap
  <2> DEFINE k == svc.index
  <2>1. /\ svc.step = "ingest" /\ svcLog' = clusterSnapshot(k).xlog
        /\ svcApplied' = clusterSnapshot(k).index /\ svc' = Idle
        /\ loop' = loop /\ applyMsg' = applyMsg /\ apply_error' = apply_error
        /\ lastApplied' = lastApplied
    BY <1>6, Zenon DEF ingestSnap, Ingest, raftVars, loopVars
  <2>2. svcApplied' = k /\ DOMAIN svcLog' = 0 .. k
    BY <2>1, ClusterSnapshot, Zenon
  <2>3. k \in 0 .. k /\ sending' = sending
    BY <2>1 DEF sending
  <2>4. svc'.step # "ingest" /\ svc'.step # "install"
    BY <1>2, <2>1, Zenon
  <2>5. at0 = k
    BY <2>1, Zenon
  <2> HIDE DEF k, at0
  <2>6. lastApplied' = svcApplied' + sending'
    BY <1>1, <2>1, <2>2, <2>3, <2>5
  <2> QED BY <1>0, <1>1, <2>1, <2>2, <2>3, <2>4, <2>6, Zenon DEF k
<1>7. ASSUME loop' = loop, applyMsg' = applyMsg, apply_error' = apply_error, svcLog' = svcLog,
             lastApplied' = lastApplied, svcApplied' = svcApplied, svc.step # "ingest",
             svc'.step # "ingest", svc'.step = "install" => loop # "send"
      PROVE  /\ apply_error' = noError
             /\ loop' = "send" => applyMsg'.CommandIndex = lastApplied'
             /\ lastApplied' = (IF svc'.step = "ingest" THEN svc'.index ELSE svcApplied') + sending'
             /\ svc'.step = "install" => loop' # "send"
             /\ svc'.step = "ingest" => svcApplied' <= svc'.index
             /\ svcApplied' \in Nat /\ (svcApplied' = 0 \/ svcApplied' \in DOMAIN svcLog')
  <2>1. sending' = sending
    BY <1>7, Zenon DEF sending
  <2>2. at0 = svcApplied
    BY <1>7, Zenon
  <2> QED BY <1>0, <1>1, <1>7, <2>1, <2>2, Zenon
<1>8. CASE Snapshot
  <2>1. /\ svc.step = "snapshot" /\ svc' = Idle /\ loop' = loop /\ applyMsg' = applyMsg
        /\ apply_error' = apply_error /\ svcLog' = svcLog
        /\ lastApplied' = lastApplied /\ svcApplied' = svcApplied
    BY <1>8, Zenon DEF Snapshot, loopVars
  <2>2. svc.step # "ingest" /\ svc'.step # "ingest" /\ svc'.step # "install"
    BY <1>2, <2>1, Zenon
  <2> QED BY <1>7, <2>1, <2>2, Zenon
<1>9. CASE CondInstallSnapshot
  <2> DEFINE k == svc.index
  <2>1. /\ svc.step = "install" /\ loop' = loop /\ applyMsg' = applyMsg
        /\ apply_error' = apply_error /\ svcLog' = svcLog /\ svcApplied' = svcApplied
        /\ \/ svc' = Idle /\ lastApplied' = lastApplied
           \/ /\ svc' = [step |-> "ingest", index |-> k] /\ lastApplied' = k
              /\ ~(k <= commitIndex)
    BY <1>9, Zenon DEF CondInstallSnapshot, raftVars, loopVars, outdated
  <2>2. CASE svc' = Idle /\ lastApplied' = lastApplied
    <3>1. svc.step # "ingest" /\ svc'.step # "ingest" /\ svc'.step # "install"
      BY <1>2, <2>1, <2>2, Zenon
    <3> QED BY <1>7, <2>1, <2>2, <3>1, Zenon
  <2>3. CASE /\ svc' = [step |-> "ingest", index |-> k] /\ lastApplied' = k
             /\ ~(k <= commitIndex)
    <3>1. loop # "send" /\ svc'.step = "ingest" /\ svc'.index = k
      BY <1>1, <2>1, <2>3
    <3>2. sending = 0 /\ sending' = 0
      BY <2>1, <3>1, Zenon DEF sending
    <3>3. at0 = svcApplied
      BY <2>1, Zenon
    <3>4. svcApplied <= k /\ k = k + 0 /\ svc'.step # "install"
      BY <1>1, <2>3, <3>1, <3>2, <3>3
    <3> QED BY <1>0, <1>1, <2>1, <2>3, <3>1, <3>2, <3>4, Zenon
  <2> QED BY <2>1, <2>2, <2>3, Zenon
<1>10. CASE \E k \in senders : ReceiveSnapshot(k)
  <2>1. PICK k \in senders : ReceiveSnapshot(k)
    BY <1>10, Zenon
  <2>2. /\ svc = Idle /\ loop # "send" /\ svc' = [step |-> "install", index |-> k]
        /\ loop' = loop /\ applyMsg' = applyMsg /\ apply_error' = apply_error
        /\ svcLog' = svcLog /\ lastApplied' = lastApplied /\ svcApplied' = svcApplied
    BY <2>1, Zenon DEF ReceiveSnapshot, lost, raftVars, loopVars
  <2>3. svc.step # "ingest" /\ svc'.step # "ingest"
    BY <1>2, <2>2, Zenon
  <2> QED BY <1>7, <2>2, <2>3, Zenon
<1>11. CASE FromLeader \/ FromDeposed \/ (\E k \in 1 .. MaxIndex : InstallSnapShot(k))
  <2>1. /\ svc' = svc /\ (loop' = loop \/ loop' = SendMsg) /\ applyMsg' = applyMsg
        /\ apply_error' = apply_error /\ svcLog' = svcLog
        /\ lastApplied' = lastApplied /\ svcApplied' = svcApplied
    BY <1>11, Zenon DEF FromLeader, FromDeposed, AppendEntries, InstallSnapShot, raftVars,
         loopVars, serviceVars
  <2>2. loop' = "send" <=> loop = "send"
    BY <2>1, Zenon DEF SendMsg
  <2>3. sending' = sending
    BY <2>2, Zenon DEF sending
  <2> QED BY <1>0, <1>1, <2>1, <2>2, <2>3, Zenon
<1>12. CASE Restart
  <2> DEFINE s == persister.snapshot
  <2>1. /\ svc' = Idle /\ loop' = "ready" /\ apply_error' = apply_error
        /\ lastApplied' = log.Index0 /\ svcApplied' = s.index
        /\ svcLog' = IF s = noSnapshot THEN svcLog ELSE s.xlog
    BY <1>12, Zenon DEF Restart, StartFrom
  <2>2. s.index = log.Index0
    BY <1>0, Zenon DEF SavedInv
  <2>3. loop' # "send" /\ sending' = 0 /\ svc'.step # "ingest" /\ svc'.step # "install"
    BY <1>2, <2>1, Zenon DEF sending
  <2>4. svcApplied' \in Nat /\ (svcApplied' = 0 \/ svcApplied' \in DOMAIN svcLog')
    <3>1. CASE s = noSnapshot
      <4>1. noSnapshot.index = 0
        BY Zenon DEF noSnapshot
      <4> QED BY <2>1, <3>1, <4>1
    <3>2. CASE s # noSnapshot
      <4>1. PICK k \in 0 .. MaxIndex : s.index = k /\ DOMAIN s.xlog = 0 .. k
        BY <3>2, SavableFacts, Zenon
      <4>2. k \in Nat /\ k \in 0 .. k
        BY <4>1
      <4> QED BY <2>1, <3>2, <4>1, <4>2, Zenon
    <3> QED BY <3>1, <3>2, Zenon
  <2>5. lastApplied' = svcApplied' + 0
    BY <2>1, <2>2, <2>4
  <2> QED BY <1>0, <2>1, <2>3, <2>4, <2>5, Zenon
<1>13. ~(CrashInSnapshot \/ CrashInInstall \/ OldInstance)
  BY OldInstanceLingers, Zenon DEF CrashInSnapshot, CrashInInstall, lost
<1> QED BY <1>3, <1>4, <1>5, <1>6, <1>8, <1>9, <1>10, <1>11, <1>12, <1>13, NextCases, Zenon

\* The plain applier has every command up to the one on its way.
LEMMA OrderPlainStep ==
    ASSUME LogInv, MsgInv, SvcInv, PlainInv, OrderInv, ~snapshot, Next, races' = {}
    PROVE  /\ apply_error' = noError
           /\ loop' = "send" => applyMsg'.CommandIndex = lastApplied'
           /\ \A n \in 1 .. lastApplied' - sending' : n \in DOMAIN svcLog'
<1> USE LogInvFacts, SvcFacts
<1>0. apply_error = noError /\ races = {}
  BY NextCases, RacesKept, Zenon
<1>1. /\ loop = "send" => applyMsg.CommandIndex = lastApplied
      /\ \A n \in 1 .. lastApplied - sending : n \in DOMAIN svcLog
  BY <1>0, Zenon DEF OrderInv
<1>2. /\ log.Index0 = 0 /\ senders = {} /\ svc = Idle
  BY Zenon DEF PlainInv
<1>3. svc.step \notin {"snapshot", "install", "ingest"}
  BY <1>2, Zenon DEF Idle
<1>4. CASE LoopSend
  <2>1. /\ loop = "ready" /\ loop' = "send" /\ svcLog' = svcLog
        /\ apply_error' = apply_error /\ lastApplied' = lastApplied + 1
    BY <1>4, Zenon DEF LoopSend, serviceVars
  <2>2. applyMsg'.CommandIndex = lastApplied'
    BY <1>4, LoopSound, Zenon
  <2>3. sending = 0 /\ sending' = 1
    BY <2>1, Zenon DEF sending
  <2>4. lastApplied' - sending' = lastApplied - sending
    BY <2>1, <2>3
  <2> QED BY <1>0, <1>1, <2>1, <2>2, <2>4, Zenon
<1>5. CASE LoopWait
  <2>1. /\ loop = "ready" /\ loop' = "wait" /\ svcLog' = svcLog
        /\ apply_error' = apply_error /\ lastApplied' = lastApplied
    BY <1>5, Zenon DEF LoopWait, serviceVars, raftVars
  <2>2. sending = 0 /\ sending' = 0 /\ loop' # "send"
    BY <2>1, Zenon DEF sending
  <2> QED BY <1>0, <1>1, <2>1, <2>2, Zenon
<1>6. CASE ReceiveCommand
  <2> DEFINE i == applyMsg.CommandIndex
  <2>1. /\ loop = "send" /\ loop' = "ready" /\ Apply(applyMsg) /\ lastApplied' = lastApplied
    BY <1>6, Zenon DEF ReceiveCommand, raftVars
  <2>2. sound(applyMsg) /\ i = lastApplied
    BY <1>1, <2>1, Zenon DEF MsgInv
  <2>3. sending = 1 /\ sending' = 0 /\ loop' # "send"
    BY <2>1, Zenon DEF sending
  <2>4. ~unexpected(applyMsg)
    BY Zenon DEF unexpected
  <2>5. i > 1 => i - 1 \in 1 .. lastApplied - sending
    BY <2>2, <2>3
  <2>6. apply_error' = noError
    BY <1>0, <1>1, <2>1, <2>2, <2>4, <2>5, NothingToReport, Zenon DEF SvcInv
  <2>7. i \in DOMAIN svcLog' /\ DOMAIN svcLog \subseteq DOMAIN svcLog'
    BY <1>0, <2>1, <2>2, <2>4, ApplySound, Zenon
  <2>8. \A n \in 1 .. lastApplied' - sending' : n = lastApplied \/ n \in 1 .. lastApplied - sending
    BY <2>1, <2>3
  <2> QED BY <1>1, <2>2, <2>3, <2>6, <2>7, <2>8, Zenon
<1>7. CASE FromLeader \/ FromDeposed
  <2>1. /\ loop' = loop \/ loop' = SendMsg
        /\ applyMsg' = applyMsg /\ apply_error' = apply_error /\ svcLog' = svcLog
        /\ lastApplied' = lastApplied
    BY <1>7, Zenon DEF FromLeader, FromDeposed, AppendEntries, serviceVars
  <2>2. loop' = "send" <=> loop = "send"
    BY <2>1, Zenon DEF SendMsg
  <2>3. sending' = sending
    BY <2>2, Zenon DEF sending
  <2> QED BY <1>0, <1>1, <2>1, <2>2, <2>3, Zenon
<1>8. CASE Restart
  <2>1. loop' = "ready" /\ apply_error' = apply_error /\ lastApplied' = log.Index0
    BY <1>8, Zenon DEF Restart, StartFrom
  <2>2. loop' # "send" /\ sending' = 0
    BY <2>1, Zenon DEF sending
  <2>3. 1 .. lastApplied' - sending' = {}
    BY <1>2, <2>1, <2>2
  <2> QED BY <1>0, <2>1, <2>2, <2>3, Zenon
<1>9. ~(\/ ingestSnap \/ Snapshot \/ CondInstallSnapshot \/ (\E k \in senders : ReceiveSnapshot(k))
        \/ (\E k \in 1 .. MaxIndex : InstallSnapShot(k)) \/ CrashInSnapshot \/ CrashInInstall
        \/ OldInstance)
  BY <1>2, <1>3, OldInstanceLingers, Zenon DEF ingestSnap, Snapshot, CondInstallSnapshot,
       InstallSnapShot, CrashInSnapshot, CrashInInstall
<1> QED BY <1>4, <1>5, <1>6, <1>7, <1>8, <1>9, NextCases, Zenon

LEMMA OrderStep ==
    ASSUME LogInv, MsgInv, SvcInv, PlainInv, SavedInv, OrderInv, Next
    PROVE  OrderInv'
<1>1. snapshot' = snapshot
  BY RacesKept, Zenon
<1>2. CASE snapshot
  BY <1>1, <1>2, OrderSnapStep, Zenon DEF OrderInv
<1>3. CASE ~snapshot
  BY <1>1, <1>3, OrderPlainStep, Zenon DEF OrderInv
<1> QED BY <1>2, <1>3, Zenon

\* Only a crash counts as one.
LEMMA CrashStep ==
    ASSUME crashes \in Nat, Next
    PROVE  /\ crashes' \in Nat
           /\ Restart \/ CrashInSnapshot \/ CrashInInstall => crashes' # crashes
<1>1. CASE Restart \/ CrashInSnapshot \/ CrashInInstall
  <2>1. crashes' = crashes + 1
    BY <1>1, Zenon DEF Restart, CrashInSnapshot, CrashInInstall, StartFrom
  <2> QED BY <2>1
<1>2. CASE ~(Restart \/ CrashInSnapshot \/ CrashInInstall)
  <2>1. CASE LoopSend \/ LoopWait \/ ReceiveCommand \/ ingestSnap \/ Snapshot
             \/ CondInstallSnapshot \/ (\E k \in senders : ReceiveSnapshot(k))
    BY <2>1, <1>2, Zenon DEF LoopSend, LoopWait, ReceiveCommand, ingestSnap, Snapshot,
                             CondInstallSnapshot, ReceiveSnapshot
  <2>2. CASE FromLeader \/ FromDeposed \/ (\E k \in 1 .. MaxIndex : InstallSnapShot(k))
             \/ OldInstance
    BY <2>2, <1>2, OldInstanceLingers, Zenon DEF FromLeader, FromDeposed, AppendEntries,
         InstallSnapShot
  <2> QED BY <1>2, <2>1, <2>2, NextCases, Zenon
<1> QED BY <1>1, <1>2, Zenon

-----------------------------------------------------------------------------
\* The invariant holds in every behaviour.
LEMMA ApplyInvariant == Spec => [](ApplyInv /\ crashes \in Nat)
<1>1. Init => ApplyInv /\ crashes \in Nat
  <2>1. Init => crashes \in Nat
    BY DEF Init
  <2> QED BY <2>1, ApplyInit, Zenon
<1>2. ApplyInv /\ crashes \in Nat /\ [Next]_vars => (ApplyInv /\ crashes \in Nat)'
  <2> SUFFICES ASSUME ApplyInv, crashes \in Nat, [Next]_vars
               PROVE  ApplyInv' /\ crashes' \in Nat
    BY Zenon
  <2>1. CASE Next
    <3>1. LogInv /\ MsgInv /\ SvcInv /\ PlainInv /\ SavedInv /\ OrderInv
      BY Zenon DEF ApplyInv
    <3>2. LogInv' /\ MsgInv' /\ SvcInv'
      BY <2>1, <3>1, LogStep, MsgStep, SvcStep, Zenon
    <3>3. PlainInv' /\ SavedInv' /\ OrderInv'
      BY <2>1, <3>1, PlainStep, SavedStep, OrderStep, Zenon
    <3>4. crashes' \in Nat
      BY <2>1, CrashStep, Zenon
    <3> QED BY <3>2, <3>3, <3>4, Zenon DEF ApplyInv
  <2>2. CASE UNCHANGED vars
    <3>1. /\ snapshot' = snapshot /\ log' = log /\ commitIndex' = commitIndex
          /\ lastApplied' = lastApplied /\ loop' = loop /\ applyMsg' = applyMsg
          /\ senders' = senders /\ persister' = persister /\ svc' = svc
          /\ svcApplied' = svcApplied /\ svcLog' = svcLog /\ killed' = killed
          /\ apply_error' = apply_error /\ crashes' = crashes /\ races' = races
      BY <2>2, Zenon DEF vars
    <3>2. LogInv' /\ MsgInv'
      BY <3>1, Zenon DEF ApplyInv, LogInv, MsgInv
    <3>3. SvcInv' /\ PlainInv' /\ SavedInv'
      BY <3>1, Zenon DEF ApplyInv, SvcInv, AppliedCommitted, unbroken, PlainInv, SavedInv
    <3>4. OrderInv'
      BY <3>1, Zenon DEF ApplyInv, OrderInv, sending
    <3> QED BY <3>1, <3>2, <3>3, <3>4, Zenon DEF ApplyInv
  <2> QED BY <2>1, <2>2, Zenon
<1> QED BY <1>1, <1>2, PTL DEF Spec

\* Only committed values reach the service, through applyCh or in a snapshot,
\* whatever races are lost: LoopCommit reads at or below commitIndex, and
\* AppendEntries never truncates there.  Holes come only with a killed peer's
\* snapshot.
THEOREM OnlyCommitted == Spec => []AppliedCommitted
<1>1. ApplyInv => AppliedCommitted
  BY Zenon DEF ApplyInv, SvcInv
<1> QED BY <1>1, ApplyInvariant, PTL

\* Until a race is lost the applier reports no error: every command comes once,
\* in index order, through any number of crashes and snapshots.
THEOREM InOrder == Spec => []AppliedInOrder
<1>1. ApplyInv => AppliedInOrder
  BY Zenon DEF ApplyInv, OrderInv, AppliedInOrder
<1> QED BY <1>1, ApplyInvariant, PTL

\* What Snapshot and CondInstallSnapshot save fits together: the snapshot ends
\* where the saved log starts, unless a crash came between the two saves, and it
\* holds the committed commands up to there, unless a killed peer's applier has
\* written to cfg.logs[i].
THEOREM SavesFit == Spec => []SavedInSync
<1>1. ApplyInv => SavedInSync
  <2> SUFFICES ASSUME ApplyInv, "torn" \notin races
               PROVE  /\ persister.snapshot.index = persister.raftstate.Index0
                      /\ "lingering" \notin races =>
                           persister.snapshot
                             \in {noSnapshot, clusterSnapshot(persister.snapshot.index)}
    BY Zenon DEF SavedInSync
  <2>1. persister.raftstate = log /\ savable(persister.snapshot, races)
    BY LogInvFacts, Zenon DEF ApplyInv
  <2>2. persister.snapshot.index = log.Index0
    BY Zenon DEF ApplyInv, SavedInv
  <2>3. ASSUME "lingering" \notin races, persister.snapshot # noSnapshot
        PROVE  persister.snapshot = clusterSnapshot(persister.snapshot.index)
    <3>1. PICK k \in 0 .. MaxIndex : persister.snapshot = clusterSnapshot(k)
      BY <2>1, <2>3, Zenon DEF savable, Snap
    <3>2. clusterSnapshot(k).index = k
      BY ClusterSnapshot, Zenon
    <3> QED BY <3>1, <3>2, Zenon
  <2> QED BY <2>1, <2>2, <2>3, Zenon
<1> QED BY <1>1, ApplyInvariant, PTL

\* rf.lastApplied and the service's own count agree, up to the message on its
\* way and the snapshot being ingested, until a race is lost.
THEOREM CountersAgree == Spec => []InStep
<1>1. ApplyInv => InStep
  <2> SUFFICES ASSUME ApplyInv PROVE InStep
    BY Zenon
  <2>1. log.Index0 <= lastApplied /\ lastApplied <= commitIndex
    BY Zenon DEF ApplyInv, LogInv
  <2> QED BY <2>1, Zenon DEF ApplyInv, OrderInv, InStep, sending
<1> QED BY <1>1, ApplyInvariant, PTL

\* No step but a crash takes the service back, until a race is lost: a snapshot
\* is ingested only when it is ahead of what was applied.
THEOREM NeverBack == Spec => ServiceNeverBack
<1>1. ASSUME ApplyInv, crashes \in Nat, [Next]_vars
      PROVE  [crashes' = crashes /\ races' = {} => svcApplied' >= svcApplied]_vars
  <2> SUFFICES ASSUME Next, crashes' = crashes, races' = {}
               PROVE  svcApplied' >= svcApplied
    BY <1>1, Zenon
  <2>1. LogInv /\ MsgInv /\ SvcInv /\ PlainInv /\ OrderInv
    BY <1>1, Zenon DEF ApplyInv
  <2>2. races = {}
    BY RacesKept, Zenon
  <2>3. /\ svcApplied \in Nat
        /\ loop = "send" => applyMsg.CommandIndex = lastApplied
        /\ snapshot => /\ lastApplied = (IF svc.step = "ingest" THEN svc.index ELSE svcApplied)
                                        + sending
                       /\ svc.step = "ingest" => svcApplied <= svc.index
    <3>1. CASE snapshot
      BY <2>1, <2>2, <3>1, Zenon DEF OrderInv
    <3>2. CASE ~snapshot
      <4>1. svcApplied = 0
        BY <2>1, <3>2, Zenon DEF PlainInv
      <4>2. 0 \in Nat
        BY Zenon
      <4> QED BY <2>1, <2>2, <3>2, <4>1, <4>2, Zenon DEF OrderInv
    <3> QED BY <3>1, <3>2
  <2>4. svcApplied >= svcApplied
    BY <2>3
  <2>5. CASE LoopSend \/ LoopWait \/ Snapshot \/ CondInstallSnapshot
             \/ (\E k \in senders : ReceiveSnapshot(k))
             \/ FromLeader \/ FromDeposed \/ (\E k \in 1 .. MaxIndex : InstallSnapShot(k))
    <3>1. svcApplied' = svcApplied
      BY <2>5, Zenon DEF LoopSend, LoopWait, Snapshot, CondInstallSnapshot, ReceiveSnapshot,
           FromLeader, FromDeposed, AppendEntries, InstallSnapShot, serviceVars
    <3> QED BY <2>4, <3>1, Zenon
  <2>6. CASE ReceiveCommand
    <3>1. /\ loop = "send" /\ svc = Idle
          /\ svcApplied' = IF snapshot THEN applyMsg.CommandIndex ELSE svcApplied
      BY <2>6, Zenon DEF ReceiveCommand, Apply
    <3>2. CASE snapshot
      <4>1. svcApplied' = lastApplied
        BY <2>3, <3>1, <3>2, Zenon
      <4>2. sending = 1 /\ svc.step = "idle"
        BY <3>1, Zenon DEF sending, Idle
      <4>3. lastApplied = svcApplied + 1
        BY <2>3, <3>2, <4>2
      <4> QED BY <2>3, <4>1, <4>3
    <3>3. CASE ~snapshot
      BY <2>4, <3>1, <3>3, Zenon
    <3> QED BY <3>2, <3>3, Zenon
  <2>7. CASE ingestSnap
    <3>1. svc.step = "ingest" /\ svcApplied' = clusterSnapshot(svc.index).index
      BY <2>7, Zenon DEF ingestSnap, Ingest
    <3>2. svc.index \in 0 .. MaxIndex
      BY <2>1, SvcFacts, Zenon
    <3>3. svcApplied' = svc.index
      BY <3>1, <3>2, ClusterSnapshot, Zenon
    <3>4. snapshot
      <4>1. Idle.step # "ingest"
        BY Zenon DEF Idle
      <4> QED BY <2>1, <3>1, <4>1, Zenon DEF PlainInv
    <3>5. svcApplied <= svc.index
      BY <2>3, <3>1, <3>4, Zenon
    <3> QED BY <2>3, <3>2, <3>3, <3>5, Zenon
  <2>8. ~(Restart \/ CrashInSnapshot \/ CrashInInstall)
    BY <1>1, CrashStep, Zenon
  <2>9. ~OldInstance
    BY OldInstanceLingers, Zenon
  <2> QED BY <2>5, <2>6, <2>7, <2>8, <2>9, NextCases, Zenon
<1> QED BY <1>1, ApplyInvariant, PTL DEF Spec, ServiceNeverBack
=============================================================================
