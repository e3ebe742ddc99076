------------------------------- MODULE Cluster --------------------------------
(***************************************************************************)
(* Clusters of timings (fnordlicht-controller/ir-cluster.c): the values of *)
(* a recording are walked through in ascending order, and wherever one is  *)
(* more than half as big again as the one before it, a cluster ends.       *)
(*                                                                         *)
(* The functions take every second element of an array; here `data' is the *)
(* sequence of these elements, not empty (see Off in Infrared), and *)
(* positions count from 1.  Timings stay far from the limits of 16 bits.   *)
(***************************************************************************)
EXTENDS Naturals, SequencesExt

\* The first position that satisfies a condition.
LOCAL First(positions) == CHOOSE i \in positions : \A j \in positions : i <= j

\* minimum
Minimum(data) == First({i \in DOMAIN data : \A j \in DOMAIN data : data[i] <= data[j]})

\* next: the same value further on, else the first of the next bigger ones.
\* It is not called when there is neither.
NextPosition(data, from) ==
    LET same == {i \in DOMAIN data : i > from /\ data[i] = data[from]}
        bigger == {i \in DOMAIN data : data[i] > data[from]}
    IN  IF same # {} THEN First(same)
        ELSE First({i \in bigger : \A j \in bigger : data[i] <= data[j]})

\* Faulty variant: half as big again ends a cluster as well.
StepFromHalf(a, b) == b >= a + a \div 2
\* b > 1.5 * a
Step(a, b) == b > a + a \div 2

\* One round of the loop of ir_cluster; nothing happens any more once the
\* array of clusters is full.
Round(data, max, walk) ==
    LET nextpos == NextPosition(data, walk.pos)
        b == data[nextpos]
    IN  IF Len(walk.cluster) = max THEN walk
        ELSE IF ~Step(data[walk.pos], b)
        THEN [walk EXCEPT !.pos = nextpos, !.mean = @ + b, !.count = @ + 1]
        ELSE [pos |-> nextpos, mean |-> b, count |-> 1,
              cluster |-> Append(walk.cluster, walk.mean \div walk.count)]

\* ir_cluster: the clusters in cluster[].
IrCluster(data, max) ==
    LET start == [pos |-> Minimum(data), mean |-> data[Minimum(data)], count |-> 1,
                  cluster |-> <<>>]
        end == FoldLeftDomain(LAMBDA walk, i : IF i = 1 THEN walk ELSE Round(data, max, walk),
                              start, data)
    IN  IF Len(end.cluster) = max THEN end.cluster
        ELSE Append(end.cluster, end.mean \div end.count)

Difference(a, b) == IF a < b THEN b - a ELSE a - b

\* ir_min_cluster: it goes up as long as each cluster is nearer than the last.
IrMinCluster(data, cluster) ==
    First({i \in DOMAIN cluster :
             i = Len(cluster) \/ Difference(data, cluster[i + 1]) >= Difference(data, cluster[i])})

-----------------------------------------------------------------------------
(* What clusters are *)

\* The values that begin a new cluster, because those next below are too small.
Beginnings(data) ==
    {b \in Range(data) :
        \E a \in Range(data) :
            /\ a < b /\ 2 * b > 3 * a
            /\ \A c \in Range(data) : c <= a \/ c >= b}

\* The values grouped between the beginnings, at most max groups, and the mean
\* of each group.
Group(data, v) == 1 + Cardinality({b \in Beginnings(data) : b <= v})

Clusters(data, max) ==
    LET number == Group(data, data[CHOOSE i \in DOMAIN data : \A j \in DOMAIN data : data[i] >= data[j]])
        members(g) == SelectSeq(data, LAMBDA v : Group(data, v) = g)
        total(s) == FoldLeft(LAMBDA a, b : a + b, 0, s)
    IN  [g \in 1 .. (IF number < max THEN number ELSE max) |->
            total(members(g)) \div Len(members(g))]

\* The first of the clusters that are nearest.
Nearest(v, cluster) ==
    First({i \in DOMAIN cluster :
             \A j \in DOMAIN cluster : Difference(v, cluster[i]) <= Difference(v, cluster[j])})
===============================================================================
