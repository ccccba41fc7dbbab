------------------------------- MODULE RaftLog -------------------------------
(***************************************************************************)
(* The replicated log of one Raft peer (src/raft/log.go).  A log is a      *)
(* slice Entries and the index Index0 of its first element; that element   *)
(* is a sentinel (the bootstrap entry, or the last entry of a snapshot), so *)
(* Entries is never empty.  TLA+ sequences start at 1: position p of       *)
(* Entries holds index Index0 + p - 1.                                     *)
(***************************************************************************)
EXTENDS Integers, Sequences, FiniteSetsExt

CONSTANTS Command,    \* the commands the service may Start
          Nil         \* Go's -1: no vote, and the sentinel's command

Entry == [Command : Command \cup {Nil}, Term : Nat, Index : Nat]

Log == [Entries : Seq(Entry) \ {<<>>}, Index0 : Nat]

\* The log Make builds: makeEmptyLog, then the sentinel Entry{-1, 0, 0}.
EmptyLog ==
    [Entries |-> <<[Command |-> Nil, Term |-> 0, Index |-> 0]>>, Index0 |-> 0]

LogLen(l) == Len(l.Entries) + l.Index0

at(l, idx) == l.Entries[idx - l.Index0 + 1]

LastLog(l) == at(l, LogLen(l) - 1)

append(l, entries) == [Entries |-> l.Entries \o entries, Index0 |-> l.Index0]

\* Keeps the entries below idx.
truncate(l, idx) ==
    [Entries |-> SubSeq(l.Entries, 1, idx - l.Index0), Index0 |-> l.Index0]

\* The entries from idx on.
LogTail(l, idx) == SubSeq(l.Entries, idx - l.Index0 + 1, Len(l.Entries))

\* The indices a log holds, the sentinel's included.
Indices(l) == l.Index0 .. LogLen(l) - 1

\* Every entry is where its Index says: what at, truncate and Tail rely on.
Indexed(l) == \A p \in 1 .. Len(l.Entries) : l.Entries[p].Index = l.Index0 + p - 1

\* entries continue a log that ends at prev.
Follows(prev, entries) == \A k \in 1 .. Len(entries) : entries[k].Index = prev + k

(***************************************************************************)
(* The loop of AppendEntries over args.Entries (entry.go): it passes over  *)
(* the entries the log already has, truncates at the first one whose term  *)
(* differs, and appends from the first one the log lacks.                  *)
(***************************************************************************)
differs(l, e) == e.Index <= LastLog(l).Index /\ at(l, e.Index).Term # e.Term

lacking(l, entries) ==
    {k \in 1 .. Len(entries) : \/ entries[k].Index > LastLog(l).Index
                               \/ differs(l, entries[k])}

\* The log after the truncation, before the append (the code persists both).
cutBack(l, entries) ==
    LET k == Min(lacking(l, entries))
    IN  IF lacking(l, entries) # {} /\ differs(l, entries[k])
        THEN truncate(l, entries[k].Index) ELSE l

merge(l, entries) ==
    IF lacking(l, entries) = {} THEN l
    ELSE append(cutBack(l, entries),
                SubSeq(entries, Min(lacking(l, entries)), Len(entries)))

\* AppendEntries on a conflict at idx: the first index of the run of entries
\* that ends at idx and has the term of idx; 0 when the scan finds no end.
\* (Below a snapshot the scan leaves the log: see RaftSnapshot.)
firstOfTerm(l, idx) ==
    LET starts == {x \in l.Index0 + 1 .. idx : at(l, x - 1).Term # at(l, idx).Term}
    IN  IF starts = {} THEN 0 ELSE Max(starts)

\* findLastLogInTerm: scans from the end, stops at the first smaller term.
findLastLogInTerm(l, x) ==
    LET stops == {n \in Indices(l) \ {0} : at(l, n).Term <= x}
    IN  IF stops # {} /\ at(l, Max(stops)).Term = x THEN Max(stops) ELSE -1
=============================================================================
