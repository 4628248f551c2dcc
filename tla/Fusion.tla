------------------------------- MODULE Fusion -------------------------------
(***************************************************************************)
(* How hybrid retrieval merges what its legs found (rrfFuse): reciprocal    *)
(* rank fusion.  A chunk is a value; a leg is a sequence of them, best      *)
(* first.  The code adds floating-point numbers; here the fractions share   *)
(* a denominator, so scores compare exactly.                                *)
(***************************************************************************)
EXTENDS Naturals, Sequences, FiniteSets, Functions

rrfK == 60

\* The terms 1 / (rrfK + rank) of the first depth ranks, from 0, times their product.
Denominator(depth) == FoldFunction(LAMBDA x, y : x * y, 1, [i \in 1..depth |-> rrfK + i - 1])
Term(depth, rank)  == Denominator(depth) \div (rrfK + rank)

Depth(legs) == LET longest == CHOOSE l \in DOMAIN legs : \A k \in DOMAIN legs : Len(legs[k]) <= Len(legs[l])
               IN  Len(legs[longest])

\* Where each chunk was returned: leg and rank.
Places(legs, c) == {p \in (DOMAIN legs) \X (1..Depth(legs)) :
                        p[2] <= Len(legs[p[1]]) /\ legs[p[1]][p[2]] = c}

Score(legs, c) ==
    FoldFunctionOnSet(LAMBDA x, y : x + y, 0,
                      [p \in (DOMAIN legs) \X (1..Depth(legs)) |-> Term(Depth(legs), p[2] - 1)],
                      Places(legs, c))

Chunks(legs) == UNION {{legs[l][i] : i \in DOMAIN legs[l]} : l \in DOMAIN legs}

\* Ties are broken by which was seen first: an earlier leg, then an earlier rank.
SeenBefore(legs, c, d) ==
    \E p \in Places(legs, c) : \A q \in Places(legs, d) :
        p[1] < q[1] \/ (p[1] = q[1] /\ p[2] < q[2])

Before(legs, c, d) ==
    \/ Score(legs, c) > Score(legs, d)
    \/ Score(legs, c) = Score(legs, d) /\ SeenBefore(legs, c, d)

\* The place of a chunk in the fused order.
Rank(legs, c) == 1 + Cardinality({d \in Chunks(legs) : Before(legs, d, c)})

\* The fused list, capped at k when there is a cap.
Fused(legs, k) ==
    LET kept == {c \in Chunks(legs) : k = 0 \/ Rank(legs, c) <= k}
    IN  [i \in 1..Cardinality(kept) |-> CHOOSE c \in kept : Rank(legs, c) = i]
=============================================================================
