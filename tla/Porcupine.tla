------------------------------ MODULE Porcupine ------------------------------
(***************************************************************************)
(* The linearizability checker of porcupine/checker.go over the key-value   *)
(* model of models/kv.go.  checkParallel starts one goroutine per key and   *)
(* collects their verdicts; checkSingle searches for an order of one key's  *)
(* operations, on a doubly linked list from which linearized operations are *)
(* lifted and to which they are put back.                                   *)
(***************************************************************************)
EXTENDS Bitset, SequencesExt

CONSTANT Requests       \* what the checker is asked: see request below

\* An operation of a history: a KvInput, a KvOutput and the times of its call
\* and its return.  A string is the sequence of its letters.
Operation == [Op : {"get", "put", "append"}, Key : Nat, Value : Seq(Nat),
              Output : Seq(Nat), Call : Nat, Return : Nat]

VARIABLES request,      \* history, a sequence of operations; asEvents: checkEvents
                        \* instead of checkOperations; computeInfo: the Verbose
                        \* variants; timeout: is it positive?
          parts,        \* its partitions, each a sequence of operations
          entries,      \* per partition, its calls and returns in order
          chk,          \* per partition, the variables of checkSingle
          results,      \* the channel
          count, ok, timedOut, kill, pc,   \* as in checkParallel
          result,       \* what checkParallel returns, and "" before
          shown         \* per partition, the Largest of the visualization
callVars == <<request, parts, entries>>
mainVars == <<count, ok, timedOut, kill, pc, result, shown>>
vars == <<callVars, chk, results, mainVars>>

computeInfo == request.computeInfo

-----------------------------------------------------------------------------
(* models/kv.go                                                              *)

KvInit == <<>>

\* Is the output one that the state allows, and the next state.
Step(st, inp, out) == CASE inp.Op = "get"    -> <<out.Output = st, st>>
                        [] inp.Op = "put"    -> <<TRUE, inp.Value>>
                        [] inp.Op = "append" -> <<TRUE, st \o inp.Value>>

\* One partition per key, in the order of the keys.
Partition(h) ==
    LET keys == SetToSortSeq({h[i].Key : i \in DOMAIN h}, <)
    IN  [k \in DOMAIN keys |-> SelectSeq(h, LAMBDA op : op.Key = keys[k])]

-----------------------------------------------------------------------------
(* From operations or events to entries                                      *)

\* byTime: calls before returns of the same time.
Less(a, b) == \/ a.time < b.time
              \/ a.time = b.time /\ a.kind = "call" /\ b.kind = "return"

\* What sort.Sort may make of a set: entries that are not Less either way may
\* come in any order.
RECURSIVE sorts(_)
sorts(S) ==
    IF S = {} THEN {<<>>}
    ELSE UNION {{<<e>> \o s : s \in sorts(S \ {e})} :
                  e \in {x \in S : \A y \in S : ~Less(y, x)}}

\* The entries of operations h, numbered from 0.
makeEntries(h) ==
    sorts(UNION {{[kind |-> "call", value |-> h[i], id |-> i - 1, time |-> h[i].Call],
                  [kind |-> "return", value |-> h[i], id |-> i - 1, time |-> h[i].Return]} :
                   i \in DOMAIN h})

\* The events a caller records of h, under ids of its own.
recorded(h) ==
    {[k \in DOMAIN s |-> [Kind |-> s[k].kind, Value |-> s[k].value, Id |-> 7 - s[k].id]] :
       s \in makeEntries(h)}

\* Ids from 0 in the order of their first appearance.
renumber(events) ==
    LET first(k) == \A l \in 1 .. k - 1 : events[l].Id # events[k].Id
        number(id) == Cardinality({l \in DOMAIN events : first(l) /\ \E k \in DOMAIN events :
                                     first(k) /\ events[k].Id = id /\ l < k})
    IN  [k \in DOMAIN events |-> [events[k] EXCEPT !.Id = number(@)]]

convertEntries(events) ==
    [k \in DOMAIN events |-> [kind |-> events[k].Kind, value |-> events[k].Value,
                              id |-> events[k].Id, time |-> k]]

-----------------------------------------------------------------------------
(* The list.  A node is the number of its entry; Head comes before them all. *)

Head0 == 0
NoNode == -1

\* A call's return, NoNode for a return.
match(es, k) == IF es[k].kind = "return" THEN NoNode
                ELSE CHOOSE m \in k .. Len(es) : es[m].kind = "return" /\ es[m].id = es[k].id

\* makeLinkedEntries and the head inserted before it.
makeLinkedEntries(es) ==
    LET n == Len(es)
    IN  [next |-> [k \in 0 .. n |-> IF k = n THEN NoNode ELSE k + 1],
         prev |-> [k \in 1 .. n |-> k - 1]]

unlink(l, x) ==
    [next |-> [l.next EXCEPT ![l.prev[x]] = l.next[x]],
     prev |-> IF l.next[x] = NoNode THEN l.prev ELSE [l.prev EXCEPT ![l.next[x]] = l.prev[x]]]

relink_NextOnly(l, x) == [next |-> [l.next EXCEPT ![l.prev[x]] = x], prev |-> l.prev]

relink(l, x) ==
    [next |-> [l.next EXCEPT ![l.prev[x]] = x],
     prev |-> IF l.next[x] = NoNode THEN l.prev ELSE [l.prev EXCEPT ![l.next[x]] = x]]

lift(l, x, m) == unlink(unlink(l, x), m)

unlift(l, x, m) == relink(relink(l, m), x)

-----------------------------------------------------------------------------
(* checkSingle                                                               *)

start(es) ==
    LET n == Len(es) \div 2
    IN  [list |-> makeLinkedEntries(es), entry |-> IF n = 0 THEN NoNode ELSE 1,
         linearized |-> newBitset(n), cache |-> {}, calls |-> <<>>, state |-> KvInit,
         longest |-> [i \in 0 .. n - 1 |-> <<>>], running |-> TRUE]

\* The ids of the operations on the stack.
ids(p) == [k \in DOMAIN chk[p].calls |-> entries[p][chk[p].calls[k].entry].id]

room_Unbuffered == results = <<>> /\ pc # "done"

\* The channel has one place for every partition.
room == Len(results) < Len(parts)

\* The goroutine stores longest and sends its verdict.
Send(p, verdict, l) ==
    /\ room
    /\ chk' = [chk EXCEPT ![p].running = FALSE, ![p].longest = l]
    /\ results' = Append(results, verdict)
    /\ UNCHANGED <<callVars, mainVars>>

checking(p) == chk[p].running /\ chk[p].list.next[Head0] # NoNode

Linearized(p) ==
    /\ chk[p].running /\ ~checking(p)
    /\ Send(p, TRUE, [i \in DOMAIN chk[p].longest |-> ids(p)])

Killed(p) == checking(p) /\ kill /\ Send(p, FALSE, chk[p].longest)

cacheContains_State(c, new) == \E e \in c : e.state = new.state

\* The bucket of the hash holds the same set with the same state.
cacheContains(c, new) ==
    \E e \in c : /\ hash(e.linearized) = hash(new.linearized)
                 /\ equals(new.linearized, e.linearized) /\ new.state = e.state

\* The entry is a call: it is linearized next, or passed over.
TryCall(p) ==
    LET c == chk[p]
        es == entries[p]
        m == match(es, c.entry)
        step == Step(c.state, es[c.entry].value, es[m].value)
        new == [linearized |-> set(c.linearized, es[c.entry].id), state |-> step[2]]
        l == lift(c.list, c.entry, m)
    IN  /\ checking(p) /\ ~kill /\ m # NoNode
        /\ chk' = [chk EXCEPT ![p] =
                     IF step[1] /\ ~cacheContains(c.cache, new)
                     THEN [c EXCEPT !.cache = @ \cup {new}, !.state = step[2],
                                    !.calls = Append(@, [entry |-> c.entry, state |-> c.state]),
                                    !.linearized = new.linearized,
                                    !.list = l, !.entry = l.next[Head0]]
                     ELSE [c EXCEPT !.entry = c.list.next[@]]]
        /\ UNCHANGED <<callVars, results, mainVars>>

GiveUp(p) ==
    /\ checking(p) /\ ~kill /\ match(entries[p], chk[p].entry) = NoNode
    /\ chk[p].calls = <<>>
    /\ Send(p, FALSE, chk[p].longest)

longer_Last(p) == [i \in DOMAIN chk[p].longest |->
                     IF i \in ToSet(ids(p)) THEN ids(p) ELSE chk[p].longest[i]]

\* longest once the stack is compared with it.
longer(p) == [i \in DOMAIN chk[p].longest |->
                IF i \in ToSet(ids(p)) /\ Len(ids(p)) > Len(chk[p].longest[i]) THEN ids(p)
                ELSE chk[p].longest[i]]

\* The entry is a return: the last call is taken back and the next one tried.
Backtrack(p) ==
    LET c == chk[p]
        top == Last(c.calls)
        l == unlift(c.list, top.entry, match(entries[p], top.entry))
    IN  /\ checking(p) /\ ~kill /\ match(entries[p], c.entry) = NoNode
        /\ c.calls # <<>>
        /\ chk' = [chk EXCEPT ![p] =
                     [c EXCEPT !.longest = IF computeInfo THEN longer(p) ELSE @,
                               !.state = top.state, !.calls = Front(@), !.list = l,
                               !.linearized = clear(@, entries[p][top.entry].id),
                               !.entry = l.next[top.entry]]]
        /\ UNCHANGED <<callVars, results, mainVars>>

checkSingle(p) == Linearized(p) \/ Killed(p) \/ TryCall(p) \/ GiveUp(p) \/ Backtrack(p)

-----------------------------------------------------------------------------
(* checkParallel                                                             *)

\* ok once a verdict was received.
ReceiveResult(r) == ok /\ r

Loop ==
    LET good == ReceiveResult(Head(results))
    IN  /\ pc = "loop" /\ results # <<>>
        /\ results' = Tail(results) /\ count' = count + 1 /\ ok' = good
        /\ kill' = (kill \/ (~good /\ ~computeInfo))
        /\ pc' = IF (~good /\ ~computeInfo) \/ count' >= Len(parts) THEN "wait" ELSE "loop"
        /\ UNCHANGED <<callVars, chk, timedOut, result, shown>>

TimeOut ==
    /\ pc = "loop" /\ request.timeout
    /\ timedOut' = TRUE /\ kill' = TRUE /\ pc' = "wait"
    /\ UNCHANGED <<callVars, chk, results, count, ok, result, shown>>

waits_OneMore == computeInfo /\ count <= Len(parts)

\* With computeInfo the verdicts that are still out are received and ignored.
waits == computeInfo /\ count < Len(parts)

Wait ==
    /\ pc = "wait" /\ waits /\ results # <<>>
    /\ results' = Tail(results) /\ count' = count + 1
    /\ UNCHANGED <<callVars, chk, ok, timedOut, kill, pc, result, shown>>

Result == IF ~ok THEN "Illegal" ELSE IF timedOut THEN "Unknown" ELSE "Ok"

Return ==
    /\ pc = "wait" /\ ~waits
    /\ result' = Result /\ pc' = "done"
    /\ UNCHANGED <<callVars, chk, results, count, ok, timedOut, kill, shown>>

\* partialLinearizations: longest without its repetitions.
partials(p) == {chk[p].longest[i] : i \in DOMAIN chk[p].longest} \ {<<>>}

\* For each operation the first of the longest sequences that have it.
largest(s) == [i \in UNION {ToSet(s[k]) : k \in DOMAIN s} |->
                 LET with == {k \in DOMAIN s : i \in ToSet(s[k])}
                 IN  Min({k \in with : \A l \in with : Len(s[l]) <= Len(s[k])})]

\* The tests visualize a history that is not linearizable: the sequences of a
\* partition are sorted, longest first, in any order among equals.
Visualize ==
    /\ pc = "done" /\ computeInfo /\ result = "Illegal" /\ Len(shown) < Len(parts)
    /\ \E s \in SetToSeqs(partials(Len(shown) + 1)) :
         /\ \A k, l \in DOMAIN s : k < l => Len(s[k]) >= Len(s[l])
         /\ shown' = Append(shown, [order |-> s, Largest |-> largest(s)])
    /\ UNCHANGED <<callVars, chk, results, count, ok, timedOut, kill, pc, result>>

checkParallel == Loop \/ TimeOut \/ Wait \/ Return

-----------------------------------------------------------------------------
(* checkOperations and checkEvents                                           *)

\* The sequences of entries that may come of one partition.
prepared(h) == IF request.asEvents THEN {convertEntries(renumber(events)) : events \in recorded(h)}
               ELSE makeEntries(h)

\* The partitions are prepared one by one, then checkParallel is called.
Prepare ==
    LET p == Len(entries) + 1
    IN  /\ pc = "prepare" /\ p <= Len(parts)
        /\ \E es \in prepared(parts[p]) : entries' = Append(entries, es) /\ chk' = Append(chk, start(es))
        /\ UNCHANGED <<request, parts, results, mainVars>>

Begin ==
    /\ pc = "prepare" /\ Len(entries) = Len(parts)
    /\ pc' = "loop"
    /\ UNCHANGED <<callVars, chk, results, count, ok, timedOut, kill, result, shown>>

\* KvModel has no PartitionEvent, so fillDefault makes one partition of events.
Init ==
    /\ request \in Requests
    /\ parts = IF request.asEvents THEN <<request.history>> ELSE Partition(request.history)
    /\ entries = <<>> /\ chk = <<>> /\ results = <<>>
    /\ count = 0 /\ ok = TRUE /\ timedOut = FALSE /\ kill = FALSE
    /\ pc = "prepare" /\ result = "" /\ shown = <<>>

goroutine(p) == pc # "prepare" /\ p \in DOMAIN parts /\ checkSingle(p)

Next == Prepare \/ Begin \/ checkParallel \/ Visualize \/ (\E p \in DOMAIN parts : goroutine(p))

Spec == Init /\ [][Next]_vars

\* Every goroutine of checkParallel runs on as long as it can.  This is weak
\* fairness of goroutine(p), for histories of at most two keys, and of
\* checkParallel, with ENABLED written out: TLC would build the steps to
\* evaluate it.
steps(p) == chk' # chk /\ chk'[p] # chk[p]
goroutineCan(p) == pc # "prepare" /\ p \in DOMAIN parts /\ chk[p].running /\ room
checkParallelCan == \/ pc = "loop" /\ (results # <<>> \/ request.timeout)
                    \/ pc = "wait" /\ (waits => results # <<>>)

FairSpec ==
    /\ Spec
    /\ \A p \in {1, 2} : []<>(~goroutineCan(p)) \/ []<><<steps(p)>>_vars
    /\ []<>(~checkParallelCan) \/ []<><<count' # count \/ pc' # pc>>_vars

-----------------------------------------------------------------------------
(* What a linearization is                                                   *)

\* Operation i must come before j.
precedes(h, i, j) == h[i].Return < h[j].Call

RECURSIVE accepted(_, _)
accepted(h, s) == IF s = <<>> THEN <<TRUE, KvInit>>
                  ELSE LET before == accepted(h, Front(s))
                           step == Step(before[2], h[Last(s)], h[Last(s)])
                       IN  <<before[1] /\ step[1], step[2]>>

\* s is the beginning of an order of h that the model accepts.
isPartial(h, s) ==
    /\ accepted(h, s)[1]
    /\ \A k \in DOMAIN s : \A i \in DOMAIN h :
         precedes(h, i, s[k]) => \E l \in 1 .. k - 1 : s[l] = i

linearizable(h) == \E s \in SetToSeqs(DOMAIN h) : isPartial(h, s)

-----------------------------------------------------------------------------
(* Properties                                                                *)

\* The operations of a partition by the ids of its entries, from 1.
byId(p) == [i \in 1 .. Len(parts[p]) |->
              entries[p][CHOOSE k \in DOMAIN entries[p] : entries[p][k].id = i - 1].value]

\* However often lift and unlift have used the links that lifted nodes keep, the
\* list holds the entries of the operations that are not on the stack, in their
\* order and linked both ways.  linearized has the bits of those on the stack, and
\* state is what the model makes of them in that order.
SearchConsistent ==
    \A p \in DOMAIN chk :
        LET on == ToSet(ids(p))
            left == {k \in DOMAIN entries[p] : entries[p][k].id \notin on}
        IN  /\ \A k \in left \cup {Head0} :
                 LET after == {x \in left : x > k}
                 IN  IF after = {} THEN chk[p].list.next[k] = NoNode
                     ELSE chk[p].list.next[k] = Min(after) /\ chk[p].list.prev[Min(after)] = k
            /\ members(chk[p].linearized) = on
            /\ accepted(byId(p), [k \in DOMAIN ids(p) |-> ids(p)[k] + 1]) = <<TRUE, chk[p].state>>

\* checkParallel says Ok only of a linearizable history and Illegal only of one
\* that is not, and Unknown only after its timeout: neither a goroutine that is
\* killed nor the cache nor the order of equal times may change the verdict.
VerdictRight ==
    LET good == \A p \in DOMAIN parts : linearizable(parts[p])
    IN  /\ result = "Ok" => good
        /\ result = "Illegal" => ~good
        /\ result = "Unknown" => timedOut

\* What CheckOperationsVerbose hands to the visualization: each sequence is one
\* that the model accepts (computeVisualizationData panics otherwise), includes
\* the operation it is kept for, and if the search was not cut short there is
\* no longer one with that operation.  The visualization marks for the operation
\* a sequence as long as that one.
PartialsRight ==
    /\ pc = "done" /\ computeInfo =>
         \A p \in DOMAIN parts : \A i \in DOMAIN chk[p].longest :
             LET h == byId(p)
                 s == [k \in DOMAIN chk[p].longest[i] |-> chk[p].longest[i][k] + 1]
             IN  /\ s # <<>> => isPartial(h, s) /\ i + 1 \in ToSet(s)
                 /\ ~kill => \A t \in SetToAllKPermutations(DOMAIN h) :
                                 isPartial(h, t) /\ i + 1 \in ToSet(t) => Len(t) <= Len(s)
    /\ \A p \in DOMAIN shown : \A i \in DOMAIN shown[p].Largest :
         Len(shown[p].order[shown[p].Largest[i]]) = Len(chk[p].longest[i])

\* checkParallel returns, after its timeout and after a bad verdict too.  The one
\* exception: without operations and without a timeout it waits for ever.
Returns == (pc = "loop" /\ (parts # <<>> \/ request.timeout)) ~> pc = "done"

\* None of its goroutines stays behind when it returns early.
NoGoroutineLeft == pc = "loop" ~> \A p \in DOMAIN chk : ~chk[p].running
=============================================================================
