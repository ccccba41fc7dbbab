---------------------------- MODULE MCPorcupine ----------------------------
(***************************************************************************)
(* Small histories.  A history is given in the order of the kinds of its    *)
(* operations: their order in the log does not matter to a set of intervals.*)
(***************************************************************************)
EXTENDS Porcupine

CONSTANT Ops     \* bound: operations of a history

a == 1
b == 2

\* A put, an append and reads of what they may leave.
deeds == <<[Op |-> "put", Value |-> <<a>>, Output |-> <<>>],
           [Op |-> "append", Value |-> <<b>>, Output |-> <<>>],
           [Op |-> "get", Value |-> <<>>, Output |-> <<>>],
           [Op |-> "get", Value |-> <<>>, Output |-> <<a>>],
           [Op |-> "get", Value |-> <<>>, Output |-> <<a, b>>]>>

kinds(D, keys, times) ==
    {k \in [deed : D, Key : 1 .. keys, Call : 1 .. times, Return : 1 .. times] :
       k.Call <= k.Return}

rank(k) == 1000 * k.deed + 100 * k.Key + 10 * k.Call + k.Return

operation(k) == [Op |-> deeds[k.deed].Op, Value |-> deeds[k.deed].Value, Key |-> k.Key,
                 Output |-> deeds[k.deed].Output, Call |-> k.Call, Return |-> k.Return]

histories(D, keys, times) ==
    {[i \in 1 .. Ops |-> operation(f[i])] :
       f \in {f \in [1 .. Ops -> kinds(D, keys, times)] :
                \A i, j \in 1 .. Ops : i < j => rank(f[i]) <= rank(f[j])}}

\* Which of two keys is which does not matter.
mostlyFirst(H) == {h \in H : Cardinality({i \in 1 .. Ops : h[i].Key = 1}) >= 2}

\* All deeds on one key, searched to the end, from operations and from events;
\* puts and gets on two keys, where the goroutines of the keys, the timeout and
\* the first bad verdict meet in any order; and no operation at all.
requests ==
    [history : histories(1 .. 5, 1, 2), asEvents : BOOLEAN, computeInfo : {TRUE},
     timeout : {FALSE}]
    \cup [history : mostlyFirst(histories({1, 3}, 2, 2)), asEvents : {FALSE},
          computeInfo : BOOLEAN, timeout : {TRUE}]
    \cup [history : {<<>>}, asEvents : {FALSE}, computeInfo : {FALSE}, timeout : BOOLEAN]
=============================================================================
