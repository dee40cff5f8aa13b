---------------------------- MODULE MCFactLoader ----------------------------
(* A finite instance of FactLoader: a request for two keys beside one that *)
(* asks for one of them or for a third.                                    *)
EXTENDS FactLoader
Requesters == [c \in 1..3 |-> IF c = 3 THEN "q2" ELSE "q1"]
\* "a" and "b" do not fit together, "c" fits beside either of them.
Light == [workers |-> 1, bytes |-> 1]
Heavy == [workers |-> 1, bytes |-> 2]
LightAndHeavy == {Light, Heavy}
ColdWeights == [k \in {"a", "b", "c"} |-> IF k = "c" THEN Light ELSE Heavy]
\* Two workers or one, and one place in the queue.
TwoWorkers == [capacity |-> [workers |-> 2, bytes |-> 3], queue |-> 1]
OneWorker == [capacity |-> [workers |-> 1, bytes |-> 2], queue |-> 1]
\* A worker with room for all weights, and requests that load one entry at a time.
OneByOne == [capacity |-> [workers |-> 1, bytes |-> 3], queue |-> 1]
ThreeConfigs == {TwoWorkers, OneWorker, OneByOne}
LoadsAtOnce == [x \in ThreeConfigs |-> IF x = OneByOne THEN 1 ELSE 2]
SharedOrNot ==
  [x \in ThreeConfigs |->
     {<<"a", "b", "c">>} \cup (IF x = TwoWorkers THEN {<<"a", "b", "a">>} ELSE {})]
\* The decoded cache has room for "a" or for "b", never for "c".
DecodedBytes == [k \in {"a", "b", "c"} |-> IF k = "c" THEN 2 ELSE 1]
=============================================================================
