------------------------- MODULE MCSchedulingPolicy -------------------------
(* Small instances of SchedulingPolicy: up to three backends with or      *)
(* without a GPU, models A and B, a pipeline with model A, one with B, one *)
(* with both.                                                              *)
EXTENDS SchedulingPolicy

CONSTANTS UsedKeys,     \* the keys requests are made with, in list order
          Demand        \* the fps a key may request; with 0 it is not in the list

MCPipelineModels == [pa |-> <<"A">>, pb |-> <<"B">>, pab |-> <<"A", "B">>]
MCModelFps == [m \in Models |-> 2]
NoModelMem == [m \in Models |-> 0]
NoBackendMem == [b \in Backends |-> 0]

(* Mixed hardware: A runs on CPUs, B on the GPU of backend b2.             *)
MixedModelMem == [A |-> 0, B |-> 3]
MixedBackendMem == [b1 |-> 0, b2 |-> 5]

KeysSingle == << <<"pa", "s1">>, <<"pa", "s2">>, <<"pb", "s1">> >>
KeysShared == << <<"pa", "s1">>, <<"pab", "s2">>, <<"pb", "s3">> >>
KeysPair == << <<"pa", "s1">>, <<"pab", "s2">> >>

MCRequestLists ==
    LET Demands == [1 .. Len(UsedKeys) -> Demand]
        All(c) == [i \in 1 .. Len(UsedKeys) |-> [key |-> UsedKeys[i], fps |-> c[i]]]
    IN  {SelectSeq(All(c), LAMBDA r : r.fps > 0) : c \in Demands}

(* Every list of backends, and some: one backend, two, and three.          *)
MCBackendLists ==
    {l \in UNION {[1 .. n -> Backends] : n \in 0 .. Cardinality(Backends)} : IsInjective(l)}
FewBackendLists ==
    {<< >>, <<"b1">>, <<"b1", "b2">>, <<"b3", "b2">>, <<"b1", "b2", "b3">>}

(* The filters of SchedulingPasses against those of the library.           *)
ASSUME FiltersAreRight ==
    \A s \in SeqOf(1 .. 3, 4) :
        /\ \A S \in SUBSET (1 .. 3) : Only(s, S) = SelectSeq(s, LAMBDA x : x \in S)
        /\ ToSet(Distinct(s)) = ToSet(s) /\ IsInjective(Distinct(s))
        /\ Concat(<<s, <<>>, s>>) = FlattenSeq(<<s, <<>>, s>>)
=============================================================================
