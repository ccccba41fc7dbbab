---------------------------- MODULE MCKvHarness ----------------------------
EXTENDS KvHarness

restarted == {i \in Servers : endnames[i] > 1 \/ kvservers[i] = Nil}

\* No end of an instance that was shut down is enabled.
allUpWhenLinked ==
    \A i, j \in Servers, k \in 1 .. MaxStarts : enabled[end(i, k, j)] => kvservers[i] = k

\* What kv_harness explores: two servers are restarted, and linked while up or down,
\* before the clerk calls, and one is restarted, with all links made while up, once it
\* has; the clerk's calls do not take those links.  A constraint prunes states, it adds
\* none.
FewRestarts ==
    IF \E c \in Calls : call[c].pc # "idle" THEN Cardinality(restarted) <= 1 /\ allUpWhenLinked
    ELSE Cardinality(restarted) <= 2
=============================================================================
