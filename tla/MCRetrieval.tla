---------------------------- MODULE MCRetrieval ----------------------------
(* An instance of retrieval for TLC: a bot that is started with and without   *)
(* an embedder.                                                              *)
EXTENDS Retrieval, Naturals, Sequences, FiniteSets, TLC

F == INSTANCE Fusion

AllConfigs == {[mode |-> "keyword", embedder |-> FALSE]} \cup
              {[mode |-> m, embedder |-> TRUE] : m \in {"semantic", "hybrid"}}

AlikeNotes == Permutations(Notes)

-----------------------------------------------------------------------------
(* Fusion of two legs, against the sums of fractions of reciprocal rank fusion *)

\* What a leg may return: some of three chunks, each once, in any order.
Legs == {leg \in UNION {[1..n -> {"a", "b", "c"}] : n \in 0..3} :
            \A i, j \in DOMAIN leg : leg[i] = leg[j] => i = j}

Found(leg, c) == \E i \in DOMAIN leg : leg[i] = c
At(leg, c)    == CHOOSE i \in DOMAIN leg : leg[i] = c

\* The score of c: 1/(59 + its place) in each leg that returned it.
Fraction(kw, sem, c) ==
    IF ~Found(kw, c) THEN <<1, 59 + At(sem, c)>>
    ELSE IF ~Found(sem, c) THEN <<1, 59 + At(kw, c)>>
    ELSE <<118 + At(kw, c) + At(sem, c), (59 + At(kw, c)) * (59 + At(sem, c))>>

\* Where a chunk was first seen, the keyword leg first.
FirstSeen(kw, sem, c) == IF Found(kw, c) THEN At(kw, c) ELSE Len(kw) + At(sem, c)

Outranks(kw, sem, c, d) ==
    LET x == Fraction(kw, sem, c)
        y == Fraction(kw, sem, d)
    IN  \/ x[1] * y[2] > y[1] * x[2]
        \/ x[1] * y[2] = y[1] * x[2] /\ FirstSeen(kw, sem, c) < FirstSeen(kw, sem, d)

\* Every chunk once, by score, as many as the cap lets through.
ASSUME FusionIsByScore ==
    \A kw, sem \in Legs, k \in 0..3 :
        LET fused == F!Fused(<<kw, sem>>, k)
            found == {c \in {"a", "b", "c"} : Found(kw, c) \/ Found(sem, c)}
        IN  /\ \A i, j \in DOMAIN fused : i < j => Outranks(kw, sem, fused[i], fused[j])
            /\ \A i \in DOMAIN fused : fused[i] \in found
            /\ Len(fused) = IF k = 0 \/ Cardinality(found) < k THEN Cardinality(found) ELSE k
            /\ \A i \in DOMAIN fused, c \in found :
                   Found(fused, c) \/ Outranks(kw, sem, fused[i], c)

\* A leg alone, the other having failed or found nothing, keeps its order.
ASSUME FusionKeepsALeg ==
    \A leg \in Legs : leg # <<>> =>
        F!Fused(<<leg>>, 0) = leg /\ F!Fused(<<<<>>, leg>>, 0) = leg /\ F!Fused(<<leg, <<>>>>, 0) = leg
=============================================================================
