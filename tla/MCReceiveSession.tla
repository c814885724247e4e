-------------------------- MODULE MCReceiveSession --------------------------
\* Instances of ReceiveSession for TLC: one topic, one receiver that loops.
EXTENDS ReceiveSession

CONSTANTS id1, id2, topic, filter, loop

MCIds == {id1, id2}
MCMatches == {<<topic, filter>>}
MCFilterOf == [r \in {loop} |-> filter]
AllQos == 0 .. 2
=============================================================================
