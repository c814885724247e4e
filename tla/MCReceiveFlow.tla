--------------------------- MODULE MCReceiveFlow ----------------------------
\* An instance of ReceiveFlow for TLC: two receivers share a filter, a third
\* waits for every topic.
EXTENDS ReceiveFlow, TLC

CONSTANTS id1, id2, t1, t2, exact, any, once, loop, all

MCTopics == {t1, t2}
MCFilters == {exact, any}
MCMatches == {<<t1, exact>>, <<t1, any>>, <<t2, any>>}
MCReceivers == {once, loop, all}
MCFilterOf == [r \in MCReceivers |-> IF r = all THEN any ELSE exact]
MCLoops == {loop, all}
MCIds == {id1, id2}
Interchangeable == Permutations(MCIds)
AllQos == 0 .. 2
=============================================================================
