---------------------------- MODULE Lookup_proofs ----------------------------
(***************************************************************************)
(* A call of kb_enumerate over a vault that is reindexed while it runs.    *)
(* Two arguments meet here.  What a call makes of several answers of the   *)
(* store, each of its own time, follows from an invariant of the call      *)
(* (Narrowing), given that each single lookup is answered as the notes say *)
(* (MemoryAnswers).  That it is follows from what the loops and sorts of   *)
(* the memory backend compute, whose results are characterised by          *)
(* induction over the rounds of each loop; and that the graph answers      *)
(* alike, from there being one sequence of the documents in the order of   *)
(* a field (SameInOrder).                                                  *)
(***************************************************************************)
EXTENDS Lookup, FiniteSetTheorems, TLAPS

-----------------------------------------------------------------------------
(* The members of a sequence that are in a set *)

\* A set of naturals with 0 and every successor is Nat, as the set of a least
\* counterexample is empty.
LEMMA UpFromZero ==
    ASSUME NEW T \in SUBSET Nat, 0 \in T, \A n \in T : n + 1 \in T
    PROVE  T = Nat
<1> SUFFICES ASSUME Nat \ T # {} PROVE FALSE
  OBVIOUS
<1>1. PICK n \in Nat \ T : \A k \in Nat \ T : ~(<<k, n>> \in OpToRel(<, Nat))
  <2> HIDE DEF OpToRel
  <2>1. Nat \ T \subseteq Nat
    OBVIOUS
  <2> QED
    BY <2>1, WFMin, NatLessThanWellFounded
<1>2. \A k \in Nat \ T : ~(k < n)
  BY <1>1 DEF OpToRel
<1>3. n - 1 \in Nat /\ n - 1 < n /\ (n - 1) + 1 = n
  OBVIOUS
<1>4. n - 1 \in T
  BY <1>2, <1>3
<1> QED
  BY <1>3, <1>4

\* One round of the loop, f being what it collected before.
CollectOne(s, S, f, i) ==
    IF i = 0 THEN <<>> ELSE IF s[i] \in S THEN Append(f[i-1], s[i]) ELSE f[i-1]

LEMMA LoopRuns ==
    ASSUME NEW s, NEW S
    PROVE  \A n \in Nat : \E f : f = [i \in 0..n |-> CollectOne(s, S, f, i)]
<1> DEFINE T == {n \in Nat : \E f : f = [i \in 0..n |-> CollectOne(s, S, f, i)]}
<1>1. 0 \in T
  <2>1. [i \in 0..0 |-> <<>>] = [i \in 0..0 |-> CollectOne(s, S, [k \in 0..0 |-> <<>>], i)]
    BY DEF CollectOne
  <2> QED
    BY <2>1
<1>2. ASSUME NEW n \in T PROVE n + 1 \in T
  <2>1. PICK f : f = [i \in 0..n |-> CollectOne(s, S, f, i)]
    OBVIOUS
  <2> DEFINE g == [i \in 0..n+1 |-> IF i = n + 1 THEN CollectOne(s, S, f, n + 1) ELSE f[i]]
  <2>2. ASSUME NEW i \in 0..n+1 PROVE g[i] = CollectOne(s, S, g, i)
    <3>1. CASE i = n + 1
      BY <3>1 DEF CollectOne
    <3>2. CASE i # n + 1
      <4>1. i \in 0..n /\ (i # 0 => i - 1 \in 0..n /\ i - 1 \in 0..n+1 /\ i - 1 # n + 1)
        BY <3>2
      <4>2. f[i] = CollectOne(s, S, f, i)
        BY <2>1, <4>1
      <4>3. g[i] = f[i] /\ (i # 0 => g[i-1] = f[i-1])
        BY <3>2, <4>1
      <4> QED
        BY <4>2, <4>3 DEF CollectOne
    <3> QED
      BY <3>1, <3>2
  <2>3. g = [i \in 0..n+1 |-> CollectOne(s, S, g, i)]
    BY <2>2
  <2>4. n + 1 \in Nat
    OBVIOUS
  <2> HIDE DEF g
  <2> QED
    BY <2>3, <2>4
<1> HIDE DEF T
<1>3. T = Nat
  BY <1>1, <1>2, UpFromZero DEF T
<1> QED
  BY <1>3 DEF T

LEMMA CollectedRounds ==
    ASSUME NEW s, NEW S, Len(s) \in Nat
    PROVE  \A i \in 0..Len(s) : Collected(s, S)[i] = CollectOne(s, S, Collected(s, S), i)
<1>1. Collected(s, S) = [i \in 0..Len(s) |-> CollectOne(s, S, Collected(s, S), i)]
  <2>1. \E f : f = [i \in 0..Len(s) |->
                      IF i = 0 THEN <<>>
                      ELSE IF s[i] \in S THEN Append(f[i-1], s[i]) ELSE f[i-1]]
    <3>1. PICK f : f = [i \in 0..Len(s) |-> CollectOne(s, S, f, i)]
      BY LoopRuns
    <3>2. f = [i \in 0..Len(s) |->
                  IF i = 0 THEN <<>>
                  ELSE IF s[i] \in S THEN Append(f[i-1], s[i]) ELSE f[i-1]]
      BY <3>1 DEF CollectOne
    <3> QED
      BY <3>2
  <2> DEFINE k == Collected(s, S)
  <2>2. k = [i \in 0..Len(s) |->
                IF i = 0 THEN <<>>
                ELSE IF s[i] \in S THEN Append(k[i-1], s[i]) ELSE k[i-1]]
    BY <2>1 DEF Collected
  <2> HIDE DEF k
  <2>3. k = [i \in 0..Len(s) |-> CollectOne(s, S, k, i)]
    BY <2>2 DEF CollectOne
  <2> QED
    BY <2>3 DEF k
<1> SUFFICES ASSUME NEW f, f = [i \in 0..Len(s) |-> CollectOne(s, S, f, i)]
             PROVE  \A i \in 0..Len(s) : f[i] = CollectOne(s, S, f, i)
  BY <1>1
<1> QED
  OBVIOUS

\* r holds exactly those of the first n members of s that are in S, in their order.
Subsequence(r, s, S, n) ==
    /\ \A x \in 1..Len(r) : r[x] \in S /\ \E a \in 1..n : r[x] = s[a]
    /\ \A a \in 1..n : s[a] \in S => \E x \in 1..Len(r) : r[x] = s[a]
    /\ \A x, y \in 1..Len(r) : x < y => \E a, b \in 1..n : a < b /\ r[x] = s[a] /\ r[y] = s[b]

LEMMA AmongIsSubsequence ==
    ASSUME NEW U, NEW s \in Seq(U), NEW S
    PROVE  Among(s, S) \in Seq(U) /\ Subsequence(Among(s, S), s, S, Len(s))
<1> DEFINE k == Collected(s, S)
           Fine(n) == k[n] \in Seq(U) /\ Subsequence(k[n], s, S, n)
           T == {n \in Nat : n <= Len(s) => Fine(n)}
<1>1. \A i \in 0..Len(s) : k[i] = CollectOne(s, S, k, i)
  BY CollectedRounds
<1> HIDE DEF k
<1>2. 0 \in T
  <2>1. k[0] = <<>>
    BY <1>1 DEF CollectOne
  <2>2. Fine(0)
    BY <2>1 DEF Subsequence
  <2> QED
    BY <2>2
<1>3. ASSUME NEW n \in T PROVE n + 1 \in T
  <2> SUFFICES ASSUME n + 1 <= Len(s) PROVE Fine(n + 1)
    OBVIOUS
  <2>1. n \in Nat /\ n <= Len(s) /\ n + 1 \in 1..Len(s) /\ (n + 1) - 1 = n
    OBVIOUS
  <2>2. Fine(n) /\ s[n + 1] \in U
    BY <2>1
  <2>3. k[n + 1] = IF s[n + 1] \in S THEN Append(k[n], s[n + 1]) ELSE k[n]
    BY <1>1, <2>1 DEF CollectOne
  <2> DEFINE old == k[n]
             new == k[n + 1]
  <2>4. /\ old \in Seq(U) /\ Subsequence(old, s, S, n)
        /\ new = IF s[n + 1] \in S THEN Append(old, s[n + 1]) ELSE old
    BY <2>2, <2>3
  <2> HIDE DEF T, Fine, old, new
  <2>5. /\ \A x \in 1..Len(old) : old[x] \in S /\ \E a \in 1..n : old[x] = s[a]
        /\ \A a \in 1..n : s[a] \in S => \E x \in 1..Len(old) : old[x] = s[a]
        /\ \A x, y \in 1..Len(old) :
              x < y => \E a, b \in 1..n : a < b /\ old[x] = s[a] /\ old[y] = s[b]
    BY <2>4 DEF Subsequence
  <2>6. CASE s[n + 1] \in S
    <3>1. /\ new \in Seq(U) /\ Len(old) \in Nat
          /\ Len(new) = Len(old) + 1
          /\ \A x \in 1..Len(old) : new[x] = old[x]
          /\ new[Len(old) + 1] = s[n + 1]
      BY <2>2, <2>4, <2>6
    <3>2. ASSUME NEW x \in 1..Len(new)
          PROVE  new[x] \in S /\ \E a \in 1..n+1 : new[x] = s[a]
      <4>1. CASE x = Len(old) + 1
        BY <2>1, <2>6, <3>1, <4>1
      <4>2. CASE x # Len(old) + 1
        <5>1. x \in 1..Len(old) /\ new[x] = old[x]
          BY <3>1, <4>2
        <5>2. PICK a \in 1..n : old[x] = s[a]
          BY <2>5, <5>1
        <5> QED
          BY <2>1, <2>5, <5>1, <5>2
      <4> QED
        BY <4>1, <4>2
    <3>3. ASSUME NEW a \in 1..n+1, s[a] \in S
          PROVE  \E x \in 1..Len(new) : new[x] = s[a]
      <4>1. CASE a = n + 1
        BY <3>1, <4>1
      <4>2. CASE a # n + 1
        BY <2>1, <2>5, <3>1, <3>3, <4>2
      <4> QED
        BY <4>1, <4>2
    <3>4. ASSUME NEW x \in 1..Len(new), NEW y \in 1..Len(new), x < y
          PROVE  \E a, b \in 1..n+1 : a < b /\ new[x] = s[a] /\ new[y] = s[b]
      <4>1. x \in 1..Len(old) /\ new[x] = old[x]
        BY <3>1, <3>4
      <4>2. CASE y = Len(old) + 1
        <5>1. PICK a \in 1..n : old[x] = s[a]
          BY <2>5, <4>1
        <5> QED
          BY <2>1, <3>1, <4>1, <4>2, <5>1
      <4>3. CASE y # Len(old) + 1
        <5>1. y \in 1..Len(old) /\ new[y] = old[y]
          BY <3>1, <4>3
        <5>2. PICK a \in 1..n, b \in 1..n : a < b /\ old[x] = s[a] /\ old[y] = s[b]
          BY <2>5, <3>4, <4>1, <5>1
        <5> QED
          BY <2>1, <4>1, <5>1, <5>2
      <4> QED
        BY <4>2, <4>3
    <3> QED
      BY <3>1, <3>2, <3>3, <3>4 DEF Subsequence, Fine, new
  <2>7. CASE s[n + 1] \notin S
    <3>1. new = old
      BY <2>4, <2>7
    <3>2. \A a \in 1..n+1 : s[a] \in S => a \in 1..n
      BY <2>1, <2>7
    <3>3. \A a \in 1..n : a \in 1..n+1
      BY <2>1
    <3>4. \A x \in 1..Len(old) : old[x] \in S /\ \E a \in 1..n+1 : old[x] = s[a]
      BY <2>5, <3>3
    <3>5. \A a \in 1..n+1 : s[a] \in S => \E x \in 1..Len(old) : old[x] = s[a]
      BY <2>5, <3>2
    <3>6. \A x, y \in 1..Len(old) :
             x < y => \E a, b \in 1..n+1 : a < b /\ old[x] = s[a] /\ old[y] = s[b]
      BY <2>5, <3>3
    <3>7. Subsequence(old, s, S, n + 1)
      BY <3>4, <3>5, <3>6 DEF Subsequence
    <3> QED
      BY <2>4, <3>1, <3>7 DEF Fine, new
  <2> QED
    BY <2>6, <2>7
<1> HIDE DEF T
<1>4. T = Nat
  BY <1>2, <1>3, UpFromZero DEF T
<1>5. Fine(Len(s))
  BY <1>4 DEF T
<1> QED
  BY <1>5 DEF Among, k

\* The members of a sequence, by their places.
LEMMA Members ==
    ASSUME NEW U, NEW s \in Seq(U)
    PROVE  /\ \A x : x \in ToSet(s) <=> \E i \in 1..Len(s) : x = s[i]
           /\ \A x \in ToSet(s) : x \in U
           /\ DOMAIN s = 1..Len(s) /\ Len(s) \in Nat
<1>1. DOMAIN s = 1..Len(s) /\ Len(s) \in Nat /\ \A i \in 1..Len(s) : s[i] \in U
  OBVIOUS
<1>2. \A x : x \in ToSet(s) <=> \E i \in DOMAIN s : x = s[i]
  BY Zenon DEF ToSet
<1>3. \A x : x \in ToSet(s) <=> \E i \in 1..Len(s) : x = s[i]
  BY <1>1, <1>2, Zenon
<1> QED
  BY <1>1, <1>3

LEMMA NonEmpty ==
    ASSUME NEW U, NEW s \in Seq(U), s # <<>>
    PROVE  /\ Len(s) \in Nat /\ Len(s) # 0 /\ 1 \in 1..Len(s)
           /\ Head(s) = s[1]
           /\ Tail(s) \in Seq(U) /\ Len(Tail(s)) = Len(s) - 1
           /\ \A i \in 1..Len(s)-1 : Tail(s)[i] = s[i+1]
<1>1. Len(s) \in Nat /\ Len(s) # 0
  OBVIOUS
<1> QED
  BY <1>1

LEMMA AmongFacts ==
    ASSUME NEW s \in Seq(Paths), NEW S
    PROVE  /\ Among(s, S) \in Seq(Paths)
           /\ \A p : p \in ToSet(Among(s, S)) <=> p \in ToSet(s) /\ p \in S
           /\ IsInjective(s) => IsInjective(Among(s, S))
<1> DEFINE r == Among(s, S)
<1>1. r \in Seq(Paths) /\ Subsequence(r, s, S, Len(s))
  BY AmongIsSubsequence
<1> HIDE DEF r
<1>2. /\ \A x \in 1..Len(r) : r[x] \in S /\ \E a \in 1..Len(s) : r[x] = s[a]
      /\ \A a \in 1..Len(s) : s[a] \in S => \E x \in 1..Len(r) : r[x] = s[a]
      /\ \A x, y \in 1..Len(r) :
            x < y => \E a, b \in 1..Len(s) : a < b /\ r[x] = s[a] /\ r[y] = s[b]
  BY <1>1 DEF Subsequence
<1>3. /\ DOMAIN r = 1..Len(r) /\ DOMAIN s = 1..Len(s) /\ Len(r) \in Nat /\ Len(s) \in Nat
      /\ \A x : x \in ToSet(r) <=> \E i \in 1..Len(r) : x = r[i]
      /\ \A x : x \in ToSet(s) <=> \E i \in 1..Len(s) : x = s[i]
  BY <1>1, Members
<1>4. ASSUME NEW p PROVE p \in ToSet(r) <=> p \in ToSet(s) /\ p \in S
  BY <1>2, <1>3
<1>5. ASSUME IsInjective(s), NEW x \in 1..Len(r), NEW y \in 1..Len(r), x < y PROVE r[x] # r[y]
  <2>1. PICK a \in 1..Len(s), b \in 1..Len(s) : a < b /\ r[x] = s[a] /\ r[y] = s[b]
    BY <1>2, <1>5
  <2>2. s[a] = s[b] => a = b
    BY <1>3, <1>5 DEF IsInjective
  <2> QED
    BY <2>1, <2>2
<1>6. ASSUME IsInjective(s) PROVE IsInjective(r)
  <2> SUFFICES ASSUME NEW x \in 1..Len(r), NEW y \in 1..Len(r), r[x] = r[y], x # y PROVE FALSE
    BY <1>3 DEF IsInjective
  <2>1. x < y \/ y < x
    OBVIOUS
  <2> QED
    BY <1>5, <1>6, <2>1
<1> QED
  BY <1>1, <1>4, <1>6 DEF r

\* What the store caps is a prefix, and all of it unless the limit is reached.
LEMMA CappedPrefix ==
    ASSUME NEW U, NEW s \in Seq(U), NEW limit \in Int
    PROVE  /\ Capped(s, limit) \in Seq(U)
           /\ Len(Capped(s, limit)) \in Nat /\ Len(Capped(s, limit)) <= Len(s)
           /\ \A i \in 1..Len(Capped(s, limit)) : Capped(s, limit)[i] = s[i]
           /\ Len(Capped(s, limit)) < Len(s) => limit > 0 /\ Len(Capped(s, limit)) = limit
<1>1. CASE limit > 0 /\ Len(s) > limit
  <2>1. Capped(s, limit) = SubSeq(s, 1, limit)
    BY <1>1 DEF Capped
  <2>2. SubSeq(s, 1, limit) \in Seq(U) /\ Len(SubSeq(s, 1, limit)) = limit
    BY <1>1
  <2>3. \A i \in 1..limit : SubSeq(s, 1, limit)[i] = s[i]
    BY <1>1
  <2> QED
    BY <1>1, <2>1, <2>2, <2>3
<1>2. CASE ~(limit > 0 /\ Len(s) > limit)
  BY <1>2 DEF Capped
<1> QED
  BY <1>1, <1>2

\* Whatever is cut off comes after all that is left.
LEMMA CappedMembers ==
    ASSUME NEW s \in Seq(Paths), NEW limit \in Int
    PROVE  LET c == Capped(s, limit)
           IN  /\ c \in Seq(Paths) /\ DOMAIN c = 1..Len(c)
               /\ \A i \in 1..Len(c) : i \in 1..Len(s) /\ c[i] = s[i]
               /\ \A p \in ToSet(c) : p \in ToSet(s)
               /\ \A p \in ToSet(s) \ ToSet(c) :
                     /\ limit > 0 /\ Len(c) = limit
                     /\ \E x \in 1..Len(s) :
                           /\ p = s[x]
                           /\ \A q \in ToSet(c) : \E y \in 1..Len(s) : q = s[y] /\ y < x
<1> DEFINE c == Capped(s, limit)
<1>1. /\ c \in Seq(Paths) /\ Len(c) \in Nat /\ Len(c) <= Len(s) /\ Len(s) \in Nat
      /\ \A i \in 1..Len(c) : c[i] = s[i]
      /\ Len(c) < Len(s) => limit > 0 /\ Len(c) = limit
  <2>1. Len(s) \in Nat
    OBVIOUS
  <2> QED
    BY <2>1, CappedPrefix, Zenon
<1> HIDE DEF c
<1>2. /\ \A p : p \in ToSet(c) <=> \E i \in 1..Len(c) : p = c[i]
      /\ \A p : p \in ToSet(s) <=> \E i \in 1..Len(s) : p = s[i]
      /\ DOMAIN c = 1..Len(c)
  BY <1>1, Members
<1>3. \A i \in 1..Len(c) : i \in 1..Len(s) /\ c[i] = s[i]
  BY <1>1
<1>4. \A p \in ToSet(c) : p \in ToSet(s)
  BY <1>2, <1>3
<1>5. ASSUME NEW p \in ToSet(s) \ ToSet(c)
      PROVE  /\ limit > 0 /\ Len(c) = limit
             /\ \E x \in 1..Len(s) :
                   p = s[x] /\ \A q \in ToSet(c) : \E y \in 1..Len(s) : q = s[y] /\ y < x
  <2>1. PICK x \in 1..Len(s) : p = s[x]
    BY <1>2
  <2>2. x \notin 1..Len(c)
    BY <1>2, <1>3, <2>1
  <2>3. Len(c) < x /\ x <= Len(s)
    BY <1>1, <2>2
  <2>4. ASSUME NEW q \in ToSet(c) PROVE \E y \in 1..Len(s) : q = s[y] /\ y < x
    <3>1. PICK y \in 1..Len(c) : q = c[y]
      BY <1>2
    <3>2. y < x
      BY <1>1, <2>3
    <3> QED
      BY <1>3, <3>1, <3>2
  <2>5. limit > 0 /\ Len(c) = limit
    BY <1>1, <2>3
  <2> QED
    BY <2>1, <2>4, <2>5
<1> QED
  BY <1>1, <1>2, <1>3, <1>4, <1>5 DEF c

LEMMA OrderedIsCapped ==
    ASSUME NEW f, NEW dir, NEW limit
    PROVE  OrderedMemory(f, dir, limit) = Capped(OrderedMemory(f, dir, 0), limit)
<1> DEFINE s == PathsOf(IF dir = "desc" THEN Descend(memory.ord[f]) ELSE memory.ord[f])
<1>1. OrderedMemory(f, dir, limit) = Capped(s, limit) /\ OrderedMemory(f, dir, 0) = Capped(s, 0)
  BY DEF OrderedMemory
<1> HIDE DEF s
<1>2. Capped(s, 0) = s
  BY DEF Capped
<1> QED
  BY <1>1, <1>2

-----------------------------------------------------------------------------
(* What is said of an answer *)

\* What ListedMatches, NothingLeftOut and InOneOrder say of the documents refs that answer
\* a request, S being the vaults whose index stood.
ListedOK(r, refs, S) ==
    \A p \in ToSet(refs) :
        /\ \A f \in ToSet(Predicates(r)) : \E v \in S : Matches(v, p, f)
        /\ \E v \in S : Carries(v, p, Order(r).field)

LeftOK(r, refs, S) ==
    LET o == Order(r)
    IN  \A p \in Paths \ ToSet(refs) :
            (\A v \in S : /\ Carries(v, p, o.field)
                          /\ \A f \in ToSet(Predicates(r)) : Matches(v, p, f))
            => /\ o.limit > 0 /\ Len(refs) = o.limit
               /\ \A q \in ToSet(refs) :
                   \E v \in S : Comparable(v, o.field) => Precedes(v, q, p, o)

OrderOK(r, refs, S) ==
    Order(r).field # "" =>
        LET o == Order(r)
        IN  \E v \in S :
                /\ \A p \in ToSet(refs) : Carries(v, p, o.field)
                /\ Comparable(v, o.field) =>
                    \A i, j \in DOMAIN refs : i < j => Precedes(v, refs[i], refs[j], o)
                /\ \A p, q \in ToSet(refs) :
                    v[p].fields[o.field].kind = v[q].fields[o.field].kind

AnswerOK(r, outcome, refs, S) ==
    /\ refs \in Seq(Paths) /\ IsInjective(refs)
    /\ outcome = "listed" => ListedOK(r, refs, S) /\ OrderOK(r, refs, S)
    /\ outcome # "refused" => LeftOK(r, refs, S)

\* The first n filters have been asked: a document among refs matched each of them, one that
\* is not failed one of them, when it was asked.
Narrowed(all, n, refs, S) ==
    \A p \in Paths :
        IF p \in ToSet(refs) THEN \A i \in 1..n : \E v \in S : Matches(v, p, all[i])
        ELSE \E i \in 1..n : \E v \in S : ~Matches(v, p, all[i])

LEMMA NothingIsOK == <<>> \in Seq(Paths) /\ IsInjective(<<>>) /\ ToSet(<<>>) = {}
BY DEF IsInjective, ToSet

\* A filter that matches no document of the vault now.
LEMMA UnmatchedOK ==
    ASSUME NEW r, NEW S, NEW v \in S, NEW f \in ToSet(Predicates(r)),
           \A p \in Paths : ~Matches(v, p, f)
    PROVE  AnswerOK(r, "unmatched", <<>>, S)
BY NothingIsOK DEF AnswerOK, LeftOK

\* The documents of all filters, not sorted.
LEMMA UnsortedOK ==
    ASSUME NEW r, NEW S, NEW v \in S, Predicates(r) \in Seq(Filters), Predicates(r) # <<>>,
           NEW refs \in Seq(Paths), IsInjective(refs),
           r.sort = "" \/ refs = <<>>,
           Narrowed(Predicates(r), Len(Predicates(r)), refs, S)
    PROVE  AnswerOK(r, "listed", refs, S)
<1> DEFINE all == Predicates(r)
           n == Len(all)
<1>1. n \in Nat /\ 1 \in 1..n /\ \A i \in 1..n : all[i] \in ToSet(all)
  <2>1. n \in Nat /\ 1 \in 1..n
    BY NonEmpty
  <2>2. \A x : x \in ToSet(all) <=> \E i \in 1..n : x = all[i]
    BY Members
  <2> HIDE DEF all, n
  <2> QED
    BY <2>1, <2>2
<1>2. \A f \in ToSet(all) : \E i \in 1..n : f = all[i]
  BY Members
<1>3. \A p \in ToSet(refs) : p \in Paths
  BY Members
<1> HIDE DEF all, n
<1>4. /\ \A p \in ToSet(refs) : \A i \in 1..n : \E w \in S : Matches(w, p, all[i])
      /\ \A p \in Paths \ ToSet(refs) : \E i \in 1..n : \E w \in S : ~Matches(w, p, all[i])
  BY <1>3 DEF Narrowed, all, n
<1>5. ListedOK(r, refs, S)
  <2> SUFFICES ASSUME NEW p \in ToSet(refs)
               PROVE  /\ \A f \in ToSet(all) : \E w \in S : Matches(w, p, f)
                      /\ \E w \in S : Carries(w, p, Order(r).field)
    BY DEF ListedOK, all
  <2>1. \A f \in ToSet(all) : \E w \in S : Matches(w, p, f)
    BY <1>2, <1>4
  <2>2. Order(r).field = ""
    BY NothingIsOK DEF Order
  <2>3. PICK w \in S : Matches(w, p, all[1])
    BY <1>1, <1>4
  <2>4. Carries(w, p, "")
    BY <2>3 DEF Matches, Carries
  <2> QED
    BY <2>1, <2>2, <2>4
<1>6. OrderOK(r, refs, S)
  <2> SUFFICES ASSUME Order(r).field # "" PROVE refs = <<>>
    BY NothingIsOK DEF OrderOK, ToSet
  <2> QED
    BY DEF Order
<1>7. LeftOK(r, refs, S)
  BY <1>1, <1>4 DEF LeftOK, all
<1> QED
  BY <1>5, <1>6, <1>7 DEF AnswerOK

LEMMA Places == \A s \in Seq(Paths) : \A i \in 1..Len(s) : s[i] \in Paths /\ i \in Int
OBVIOUS

\* A sorted answer: of the vault v that the order is asked of, the documents that are left of
\* the filters and carry the field, capped.
LEMMA SortedOK ==
    ASSUME NEW r, r.sort \in Orderable, r.sort # "", r.limit \in Int,
           NEW S, NEW v \in S, v \in Vaults, Predicates(r) \in Seq(Filters),
           NEW kept \in Seq(Paths), IsInjective(kept),
           \A p \in ToSet(kept) : Carries(v, p, r.sort),
           \A p \in ToSet(kept) : \A f \in ToSet(Predicates(r)) : \E w \in S : Matches(w, p, f),
           \A p \in Paths \ ToSet(kept) :
               \/ ~Carries(v, p, r.sort)
               \/ \E f \in ToSet(Predicates(r)) : \E w \in S : ~Matches(w, p, f),
           Comparable(v, r.sort) =>
               \A i, j \in 1..Len(kept) : i < j => Precedes(v, kept[i], kept[j], Order(r))
    PROVE  AnswerOK(r, "listed", Capped(kept, r.limit), S)
<1> DEFINE refs == Capped(kept, r.limit)
           o == Order(r)
<1>1. o.field = r.sort /\ o.limit = r.limit
  BY DEF Order
<1>2. /\ refs \in Seq(Paths) /\ DOMAIN refs = 1..Len(refs)
      /\ \A i \in 1..Len(refs) : i \in 1..Len(kept) /\ refs[i] = kept[i]
      /\ \A p \in ToSet(refs) : p \in ToSet(kept)
      /\ \A p \in ToSet(kept) \ ToSet(refs) :
            /\ r.limit > 0 /\ Len(refs) = r.limit
            /\ \E x \in 1..Len(kept) :
                  /\ p = kept[x]
                  /\ \A q \in ToSet(refs) : \E y \in 1..Len(kept) : q = kept[y] /\ y < x
  BY CappedMembers, Zenon
<1>3. /\ \A p \in ToSet(kept) : p \in Paths
      /\ \A i \in 1..Len(refs) : refs[i] \in Paths /\ i \in Int
  <2>1. \A p \in ToSet(kept) : p \in Paths
    BY Members, Zenon
  <2>2. \A s \in Seq(Paths) : \A i \in 1..Len(s) : s[i] \in Paths /\ i \in Int
    BY Places, Zenon
  <2> HIDE DEF refs
  <2> QED
    BY <1>2, <2>1, <2>2, Zenon
<1> HIDE DEF refs, o
<1>5. Comparable(v, o.field) =>
         \A i, j \in 1..Len(kept) : i < j => Precedes(v, kept[i], kept[j], o)
  BY <1>1 DEF o
<1>6. Comparable(v, o.field) =>
         \A i, j \in 1..Len(refs) : i < j => Precedes(v, refs[i], refs[j], o)
  BY <1>2, <1>5
<1>7. IsInjective(refs)
  <2>1. DOMAIN kept = 1..Len(kept)
    BY Members, Zenon
  <2> SUFFICES ASSUME NEW i \in 1..Len(refs), NEW j \in 1..Len(refs), refs[i] = refs[j]
               PROVE  i = j
    BY <1>2, Zenon DEF IsInjective
  <2> QED
    BY <1>2, <2>1, Zenon DEF IsInjective
<1>8. ListedOK(r, refs, S)
  BY <1>1, <1>2 DEF ListedOK, o
<1>9. OrderOK(r, refs, S)
  <2>1. \A p \in ToSet(refs) : Carries(v, p, r.sort)
    BY <1>2
  <2>2. \A p \in ToSet(refs) : v[p].fields[r.sort].kind = FixedKind(v, r.sort)
    BY <2>1 DEF Carries, Usable
  <2>3. \A p, q \in ToSet(refs) : v[p].fields[r.sort].kind = v[q].fields[r.sort].kind
    BY <2>2, Zenon
  <2>4. Comparable(v, o.field) =>
           \A i, j \in DOMAIN refs : i < j => Precedes(v, refs[i], refs[j], o)
    BY <1>2, <1>6, Zenon
  <2>5. \E w \in S :
           /\ \A p \in ToSet(refs) : Carries(w, p, o.field)
           /\ Comparable(w, o.field) =>
                \A i, j \in DOMAIN refs : i < j => Precedes(w, refs[i], refs[j], o)
           /\ \A p, q \in ToSet(refs) : w[p].fields[o.field].kind = w[q].fields[o.field].kind
    <3>1. /\ \A p \in ToSet(refs) : Carries(v, p, o.field)
          /\ \A p, q \in ToSet(refs) : v[p].fields[o.field].kind = v[q].fields[o.field].kind
      BY <1>1, <2>1, <2>3, Zenon
    <3> QED
      BY <2>4, <3>1, Zenon
  <2> QED
    BY <2>5, Zenon DEF OrderOK, o
<1>10. LeftOK(r, refs, S)
  <2> SUFFICES ASSUME NEW p \in Paths \ ToSet(refs),
                      \A w \in S : /\ Carries(w, p, r.sort)
                                   /\ \A f \in ToSet(Predicates(r)) : Matches(w, p, f)
               PROVE  /\ r.limit > 0 /\ Len(refs) = r.limit
                      /\ \A q \in ToSet(refs) :
                             Comparable(v, o.field) => Precedes(v, q, p, o)
    BY <1>1 DEF LeftOK, o
  <2>1. p \in ToSet(kept)
    OBVIOUS
  <2>2. PICK x \in 1..Len(kept) :
           p = kept[x] /\ \A q \in ToSet(refs) : \E y \in 1..Len(kept) : q = kept[y] /\ y < x
    BY <1>2, <2>1, Zenon
  <2>3. ASSUME NEW q \in ToSet(refs), Comparable(v, o.field) PROVE Precedes(v, q, p, o)
    BY <1>5, <2>2, <2>3, Zenon
  <2> QED
    BY <1>2, <2>1, <2>3
<1> QED
  BY <1>2, <1>7, <1>8, <1>9, <1>10 DEF AnswerOK, refs

-----------------------------------------------------------------------------
(* The call, step by step *)

\* A request whose filters preds are still to be asked, the last ones, and whose other
\* filters have narrowed the documents down to refs.
Narrowing(at, r, preds, refs, v, S) ==
    LET all == Predicates(r)
        n == Len(all) - Len(preds)
    IN  /\ r \in Requests /\ OrderAccepted(r) /\ all \in Seq(Filters)
        /\ v \in S
        /\ refs \in Seq(Paths) /\ IsInjective(refs)
        /\ preds \in Seq(Filters) /\ n \in Nat
        /\ \A i \in 1..Len(preds) : preds[i] = all[n+i]
        /\ n = 0 => refs = <<>>
        /\ n > 0 => Narrowed(all, n, refs, S)
        /\ (at = "filter") = (preds # <<>>)
        /\ at = "order" => r.sort # ""

Asking ==
    call.at \in {"filter", "order"} =>
        /\ DOMAIN call = {"at", "request", "preds", "refs"}
        /\ Narrowing(call.at, call.request, call.preds, call.refs, vault, stood)

Answered ==
    call.at = "answered" => AnswerOK(call.request, call.outcome, call.refs, stood)

Calls ==
    /\ vault \in Vaults /\ stood \subseteq Vaults
    /\ call.at \in {"idle", "filter", "order", "answered"}
    /\ (call.at = "idle") = (stood = {})

IndInv == Calls /\ Asking /\ Answered

LEMMA FiltersTyped ==
    ASSUME NEW r \in Requests, FiltersAccepted(r),
           \A f \in ToSet(Predicates(r)) : f.dimension \in Dimensions
    PROVE  Predicates(r) \in Seq(Filters) /\ (Predicates(r) = <<>> => r.sort # "")
<1> DEFINE Arguments == [dimension : STRING, value : Spellings]
<1>1. r.primary \in Arguments /\ r.and \in Seq(Arguments)
  BY RequestsAssumption
<1>2. CASE Whole(r.primary)
  <2> DEFINE all == <<r.primary>> \o r.and
  <2>1. Predicates(r) = all
    BY <1>2 DEF Predicates
  <2>2. all \in Seq(Arguments) /\ all # <<>>
    BY <1>1
  <2>3. \A f \in ToSet(r.and) : Whole(f)
    <3>1. ~NoFilter(r.primary)
      BY <1>2 DEF Whole, NoFilter
    <3> QED
      BY <3>1 DEF FiltersAccepted
  <2>4. ASSUME NEW i \in 1..Len(all) PROVE all[i] \in Filters
    <3>1. all[i] \in Arguments /\ all[i] \in ToSet(all)
      <4> HIDE DEF all, Arguments
      <4>1. \A x : x \in ToSet(all) <=> \E k \in 1..Len(all) : x = all[k]
        BY <2>2, Members
      <4> QED
        BY <2>2, <4>1
    <3>2. Whole(all[i])
      <4>1. CASE i = 1
        BY <1>1, <1>2, <4>1
      <4>2. CASE i # 1
        <5>1. i - 1 \in 1..Len(r.and) /\ all[i] = r.and[i-1]
          BY <1>1, <4>2
        <5>2. r.and[i-1] \in ToSet(r.and)
          BY <1>1, <5>1 DEF ToSet
        <5> QED
          BY <2>3, <5>1, <5>2
      <4> QED
        BY <4>1, <4>2
    <3> HIDE DEF all
    <3>4. all[i].dimension \in Dimensions
      BY <2>1, <3>1, Zenon
    <3>5. all[i] = [dimension |-> all[i].dimension, value |-> all[i].value]
      BY <3>1
    <3>6. all[i].value \in Spellings \ {""}
      BY <3>1, <3>2 DEF Whole
    <3> QED
      BY <3>4, <3>5, <3>6 DEF Filters
  <2>5. all \in Seq(Filters)
    <3> HIDE DEF all
    <3> QED
      BY <2>2, <2>4
  <2> QED
    BY <2>1, <2>2, <2>5, Zenon
<1>3. CASE ~Whole(r.primary)
  <2>1. Predicates(r) = <<>> /\ r.sort # ""
    BY <1>3 DEF FiltersAccepted, Predicates
  <2>2. <<>> \in Seq(Filters)
    OBVIOUS
  <2> QED
    BY <2>1, <2>2
<1> QED
  BY <1>2, <1>3

\* One filter more, asked of the vault v.
LEMMA JoinNarrows ==
    ASSUME NEW all \in Seq(Filters), NEW n \in Nat, n < Len(all), NEW S, NEW v \in S,
           NEW refs \in Seq(Paths), IsInjective(refs), n > 0 => Narrowed(all, n, refs, S),
           NEW found \in Seq(Paths), IsInjective(found),
           \A p \in Paths : p \in ToSet(found) <=> Matches(v, p, all[n+1]),
           NEW joined, joined = IF n = 0 THEN found ELSE Among(refs, ToSet(found))
    PROVE  /\ joined \in Seq(Paths) /\ IsInjective(joined)
           /\ Narrowed(all, n+1, joined, S)
<1>1. n + 1 \in 1..n+1 /\ \A i \in 1..n : i \in 1..n+1
  OBVIOUS
<1>2. CASE n = 0
  <2>1. joined = found /\ \A i \in 1..n+1 : i = n + 1
    BY <1>2
  <2>2. \A p \in Paths :
           IF p \in ToSet(found) THEN \A i \in 1..n+1 : \E w \in S : Matches(w, p, all[i])
           ELSE \E i \in 1..n+1 : \E w \in S : ~Matches(w, p, all[i])
    BY <1>1, <2>1, Zenon
  <2>3. Narrowed(all, n+1, found, S)
    BY <2>2, Zenon DEF Narrowed
  <2> QED
    BY <2>1, <2>3, Zenon
<1>3. CASE n # 0
  <2>1. joined = Among(refs, ToSet(found)) /\ n > 0
    BY <1>3
  <2>2. /\ joined \in Seq(Paths) /\ IsInjective(joined)
        /\ \A p : p \in ToSet(joined) <=> p \in ToSet(refs) /\ p \in ToSet(found)
    <3>1. LET kept == Among(refs, ToSet(found))
          IN  /\ kept \in Seq(Paths) /\ IsInjective(kept)
              /\ \A p : p \in ToSet(kept) <=> p \in ToSet(refs) /\ p \in ToSet(found)
      BY AmongFacts
    <3> QED
      BY <2>1, <3>1, Zenon
  <2>3. \A p \in Paths :
           IF p \in ToSet(refs) THEN \A i \in 1..n : \E w \in S : Matches(w, p, all[i])
           ELSE \E i \in 1..n : \E w \in S : ~Matches(w, p, all[i])
    BY <2>1, Zenon DEF Narrowed
  <2>4. ASSUME NEW p \in Paths, p \in ToSet(joined), NEW i \in 1..n+1
        PROVE  \E w \in S : Matches(w, p, all[i])
    <3>1. CASE i = n + 1
      BY <2>2, <2>4, <3>1
    <3>2. CASE i # n + 1
      <4>1. i \in 1..n
        BY <3>2
      <4> QED
        BY <2>2, <2>3, <2>4, <4>1, Zenon
    <3> QED
      BY <3>1, <3>2
  <2>5. ASSUME NEW p \in Paths, p \notin ToSet(joined)
        PROVE  \E i \in 1..n+1 : \E w \in S : ~Matches(w, p, all[i])
    <3>1. CASE p \in ToSet(refs)
      BY <1>1, <2>2, <2>5, <3>1, Zenon
    <3>2. CASE p \notin ToSet(refs)
      BY <1>1, <2>3, <3>2, Zenon
    <3> QED
      BY <3>1, <3>2
  <2> QED
    BY <2>2, <2>4, <2>5, Zenon DEF Narrowed
<1> QED
  BY <1>2, <1>3

LEMMA AskingHolds ==
    ASSUME NEW at \in {"filter", "order"}, NEW r, NEW preds, NEW refs,
           Narrowing(at, r, preds, refs, vault', stood'),
           DOMAIN call' = {"at", "request", "preds", "refs"},
           call'.at = at, call'.request = r, call'.preds = preds, call'.refs = refs
    PROVE  Asking' /\ Answered' /\ call'.at = at
<1>1. call'.at = at /\ call'.request = r /\ call'.preds = preds /\ call'.refs = refs
  OBVIOUS
<1>2. Answered'
  BY <1>1 DEF Answered
<1>3. Asking'
  BY <1>1, Zenon DEF Asking
<1> QED
  BY <1>1, <1>2, <1>3

LEMMA AnsweredHolds ==
    ASSUME NEW r, NEW outcome, NEW refs, AnswerOK(r, outcome, refs, stood'),
           call' = Answer(r, outcome, refs)
    PROVE  Asking' /\ Answered' /\ call'.at = "answered"
<1>1. /\ call'.at = "answered" /\ call'.request = r /\ call'.outcome = outcome
      /\ call'.refs = refs
  BY Zenon DEF Answer
<1>2. Answered'
  BY <1>1, Zenon DEF Answered
<1>3. Asking'
  BY <1>1 DEF Asking
<1> QED
  BY <1>1, <1>2, <1>3

LEMMA FromNought ==
    \A k \in Nat : k - k = 0 /\ 0 \in Nat /\ ~(0 > 0) /\ \A i \in 1..k : i = 0 + i
OBVIOUS

LEMMA CallKeeps ==
    ASSUME IndInv, NEW r \in Requests, Call(r)
    PROVE  IndInv'
<1> DEFINE preds == Predicates(r)
           accepted == OrderAccepted(r) /\ FiltersAccepted(r)
                       /\ \A f \in ToSet(preds) : f.dimension \in Dimensions
           at == IF preds = <<>> THEN "order" ELSE "filter"
<1>1. /\ vault \in Vaults /\ vault' = vault /\ stood' = {vault}
      /\ call' = IF ~accepted THEN Answer(r, "refused", <<>>)
                 ELSE [at |-> at, request |-> r, preds |-> preds, refs |-> <<>>]
  BY DEF IndInv, Calls, Call
<1> HIDE DEF accepted
<1>2. CASE ~accepted
  <2>1. AnswerOK(r, "refused", <<>>, stood')
    BY NothingIsOK DEF AnswerOK
  <2>2. Asking' /\ Answered' /\ call'.at = "answered"
    BY <1>1, <1>2, <2>1, AnsweredHolds, Zenon
  <2> QED
    BY <1>1, <2>2 DEF IndInv, Calls
<1>3. CASE accepted
  <2>1. preds \in Seq(Filters) /\ (preds = <<>> => r.sort # "") /\ OrderAccepted(r)
    BY <1>3, FiltersTyped DEF accepted
  <2>2. call' = [at |-> at, request |-> r, preds |-> preds, refs |-> <<>>]
    BY <1>1, <1>3
  <2>3. at \in {"filter", "order"} /\ (at = "filter") = (preds # <<>>)
    OBVIOUS
  <2>4. at = "order" => r.sort # ""
    BY <2>1
  <2>5. Narrowing(at, r, preds, <<>>, vault', stood')
    <3> HIDE DEF at
    <3>1. vault' \in stood'
      BY <1>1
    <3>2. /\ Len(preds) - Len(preds) = 0 /\ 0 \in Nat /\ ~(0 > 0)
          /\ \A i \in 1..Len(preds) : i = 0 + i
      <4>1. Len(preds) \in Nat
        BY <2>1, Members, Zenon
      <4> QED
        BY <4>1, FromNought, Zenon
    <3> QED
      BY <2>1, <2>3, <2>4, <3>1, <3>2, NothingIsOK, Zenon DEF Narrowing
  <2> HIDE DEF preds, at
  <2>6. /\ DOMAIN call' = {"at", "request", "preds", "refs"}
        /\ call'.at = at /\ call'.request = r /\ call'.preds = preds /\ call'.refs = <<>>
    BY <2>2
  <2>7. Asking' /\ Answered'
    BY <2>3, <2>5, <2>6, AskingHolds, Zenon
  <2> QED
    BY <1>1, <2>3, <2>6, <2>7 DEF IndInv, Calls
<1> QED
  BY <1>2, <1>3

LEMMA ReturnKeeps == ASSUME IndInv, Return PROVE IndInv'
<1>1. call' = NoCall /\ call'.at = "idle" /\ stood' = {} /\ vault' = vault
  BY DEF Return, NoCall
<1> QED
  BY <1>1 DEF IndInv, Calls, Asking, Answered

LEMMA ReindexKeeps == ASSUME IndInv, NEW v \in Vaults, Reindex(v) PROVE IndInv'
<1>1. /\ call.at # "answered" /\ call' = call /\ vault' = v
      /\ stood' = IF call.at = "idle" THEN {} ELSE stood \cup {v}
  BY DEF Reindex
<1>2. Calls'
  BY <1>1 DEF IndInv, Calls
<1>3. Answered'
  BY <1>1 DEF Answered
<1>4. Asking'
  <2> SUFFICES ASSUME call.at \in {"filter", "order"},
                      Narrowing(call.at, call.request, call.preds, call.refs, vault, stood)
               PROVE  Narrowing(call.at, call.request, call.preds, call.refs, vault', stood')
    BY <1>1, Zenon DEF IndInv, Asking
  <2>1. vault' \in stood' /\ stood \subseteq stood'
    BY <1>1
  <2>2. \A all, n : Narrowed(all, n, call.refs, stood) => Narrowed(all, n, call.refs, stood')
    BY <2>1, Zenon DEF Narrowed
  <2> QED
    BY <2>1, <2>2, Zenon DEF Narrowing
<1> QED
  BY <1>2, <1>3, <1>4 DEF IndInv

LEMMA FilterPlaces ==
    \A s \in Seq(Filters) : /\ Len(s) \in Nat /\ DOMAIN s = 1..Len(s)
                            /\ \A i \in 1..Len(s) : s[i] \in Filters
OBVIOUS

LEMMA NoneLess == \A a, b, n \in Nat : n = a - b /\ n = 0 => b = a /\ \A i \in 1..b : n + i = i
OBVIOUS

LEMMA CallUpdated ==
    ASSUME NEW c, DOMAIN c = {"at", "request", "preds", "refs"}, NEW at, NEW preds, NEW refs
    PROVE  LET d == [c EXCEPT !.at = at, !.preds = preds, !.refs = refs]
           IN  /\ DOMAIN d = {"at", "request", "preds", "refs"}
               /\ d.at = at /\ d.request = c.request /\ d.preds = preds /\ d.refs = refs
OBVIOUS

\* The filter that is next, one of the request's.
LEMMA NextFilter ==
    ASSUME NEW all \in Seq(Filters), NEW preds \in Seq(Filters), preds # <<>>,
           NEW n \in Nat, n = Len(all) - Len(preds),
           \A i \in 1..Len(preds) : preds[i] = all[n+i]
    PROVE  /\ n < Len(all) /\ Head(preds) = all[n+1]
           /\ Head(preds) \in Filters /\ Head(preds) \in ToSet(all)
           /\ Tail(preds) \in Seq(Filters)
           /\ n + 1 = Len(all) - Len(Tail(preds))
           /\ \A i \in 1..Len(Tail(preds)) : Tail(preds)[i] = all[(n+1)+i]
           /\ Tail(preds) = <<>> => n + 1 = Len(all)
           /\ n = 0 <=> preds = all
<1> DEFINE rest == Tail(preds)
           f == Head(preds)
<1>1. /\ Len(preds) \in Nat /\ Len(preds) # 0 /\ 1 \in 1..Len(preds) /\ f = preds[1]
      /\ rest \in Seq(Filters) /\ Len(rest) = Len(preds) - 1
      /\ \A i \in 1..Len(preds)-1 : rest[i] = preds[i+1]
      /\ Len(all) \in Nat /\ DOMAIN all = 1..Len(all) /\ DOMAIN preds = 1..Len(preds)
      /\ \A i \in 1..Len(all) : all[i] \in Filters
      /\ rest = <<>> => Len(rest) = 0
  <2>1. /\ Len(preds) \in Nat /\ Len(preds) # 0 /\ 1 \in 1..Len(preds) /\ f = preds[1]
        /\ rest \in Seq(Filters) /\ Len(rest) = Len(preds) - 1
        /\ \A i \in 1..Len(preds)-1 : rest[i] = preds[i+1]
    BY NonEmpty, Zenon
  <2>2. /\ Len(all) \in Nat /\ DOMAIN all = 1..Len(all) /\ DOMAIN preds = 1..Len(preds)
        /\ \A i \in 1..Len(all) : all[i] \in Filters
    BY FilterPlaces, Zenon
  <2> HIDE DEF rest, f
  <2>3. rest = <<>> => Len(rest) = 0
    OBVIOUS
  <2> QED
    BY <2>1, <2>2, <2>3, Zenon
<1> HIDE DEF rest, f
<1>2. n < Len(all) /\ n + 1 \in 1..Len(all) /\ n + 1 = Len(all) - Len(rest)
  BY <1>1
<1>3. f = all[n+1] /\ f \in Filters
  BY <1>1, <1>2
<1>4. f \in ToSet(all)
  BY <1>1, <1>2, <1>3 DEF ToSet
<1>5. ASSUME NEW i \in 1..Len(rest) PROVE rest[i] = all[(n+1)+i]
  <2>1. i \in 1..Len(preds)-1 /\ i + 1 \in 1..Len(preds) /\ n + (i + 1) = (n + 1) + i
    BY <1>1
  <2> QED
    BY <1>1, <2>1
<1>6. rest = <<>> => n + 1 = Len(all)
  BY <1>1, <1>2
<1>7. ASSUME n = 0 PROVE preds = all
  <2>1. Len(preds) = Len(all) /\ \A i \in 1..Len(preds) : n + i = i
    BY <1>1, <1>7, NoneLess, Zenon
  <2>2. \A i \in 1..Len(preds) : preds[i] = all[i]
    BY <2>1
  <2> QED
    BY <1>1, <2>1, <2>2
<1>8. preds = all => n = 0
  BY <1>1
<1> QED
  BY <1>1, <1>2, <1>3, <1>4, <1>5, <1>6, <1>7, <1>8 DEF rest, f

LEMMA FilterKeeps == ASSUME IndInv, MemoryAnswers, Filter PROVE IndInv'
<1> DEFINE r == call.request
           all == Predicates(r)
           preds == call.preds
           n == Len(all) - Len(preds)
           refs == call.refs
           found == EnumerateMemory(Head(preds))
           joined == Joined(call, found)
           rest == Tail(preds)
           sorts == r.sort # "" /\ joined # <<>>
<1>1. /\ call.at = "filter"
      /\ \/ /\ found = <<>>
            /\ call' = Answer(r, "unmatched", <<>>)
         \/ /\ found # <<>> /\ (rest # <<>> \/ sorts)
            /\ call' = [call EXCEPT !.at = IF rest # <<>> THEN "filter" ELSE "order",
                                   !.preds = rest, !.refs = joined]
         \/ /\ found # <<>> /\ rest = <<>> /\ ~sorts
            /\ call' = Answer(r, "listed", joined)
      /\ vault' = vault /\ stood' = stood
  BY DEF Filter
<1>2. /\ DOMAIN call = {"at", "request", "preds", "refs"}
      /\ Narrowing("filter", r, preds, refs, vault, stood)
      /\ vault \in Vaults /\ stood \subseteq Vaults /\ stood # {}
  BY <1>1 DEF IndInv, Calls, Asking
<1>3. /\ r \in Requests /\ OrderAccepted(r) /\ all \in Seq(Filters)
      /\ vault \in stood /\ refs \in Seq(Paths) /\ IsInjective(refs)
      /\ preds \in Seq(Filters) /\ n \in Nat /\ preds # <<>>
      /\ \A i \in 1..Len(preds) : preds[i] = all[n+i]
      /\ n = 0 => refs = <<>>
      /\ n > 0 => Narrowed(all, n, refs, stood)
  BY <1>2, Zenon DEF Narrowing
<1>4. /\ n < Len(all) /\ Head(preds) = all[n+1]
      /\ Head(preds) \in Filters /\ Head(preds) \in ToSet(all)
      /\ rest \in Seq(Filters)
      /\ n + 1 = Len(all) - Len(rest)
      /\ \A i \in 1..Len(rest) : rest[i] = all[(n+1)+i]
      /\ rest = <<>> => n + 1 = Len(all)
      /\ n = 0 <=> preds = all
  BY <1>3, NextFilter, Zenon
<1>5. /\ found \in Seq(Paths) /\ IsInjective(found)
      /\ \A p \in Paths : p \in ToSet(found) <=> Matches(vault, p, all[n+1])
  BY <1>4, Zenon DEF MemoryAnswers
<1>6. joined = IF n = 0 THEN found ELSE Among(refs, ToSet(found))
  BY <1>4, Zenon DEF Joined
<1> HIDE DEF n, found, joined
<1>7. joined \in Seq(Paths) /\ IsInjective(joined) /\ Narrowed(all, n+1, joined, stood)
  BY <1>3, <1>4, <1>5, <1>6, JoinNarrows, Zenon
<1>8. CASE found = <<>> /\ call' = Answer(r, "unmatched", <<>>)
  <2>1. \A p \in Paths : ~Matches(vault, p, Head(preds))
    BY <1>4, <1>5, <1>8, NothingIsOK
  <2>2. AnswerOK(r, "unmatched", <<>>, stood')
    BY <1>1, <1>3, <1>4, <2>1, UnmatchedOK, Zenon
  <2>3. Asking' /\ Answered' /\ call'.at = "answered"
    BY <1>8, <2>2, AnsweredHolds, Zenon
  <2> QED
    BY <1>1, <1>2, <2>3 DEF IndInv, Calls
<1>9. ASSUME rest # <<>> \/ sorts,
             call' = [call EXCEPT !.at = IF rest # <<>> THEN "filter" ELSE "order",
                                 !.preds = rest, !.refs = joined]
      PROVE  IndInv'
  <2> DEFINE at == IF rest # <<>> THEN "filter" ELSE "order"
  <2>1. at \in {"filter", "order"} /\ (at = "filter") = (rest # <<>>)
        /\ (at = "order" => r.sort # "")
    BY <1>9
  <2>2. n + 1 \in Nat /\ n + 1 # 0
    BY <1>3
  <2> HIDE DEF at, rest, preds, refs, r, all
  <2>3. /\ DOMAIN call' = {"at", "request", "preds", "refs"}
        /\ call'.at = at /\ call'.request = r /\ call'.preds = rest /\ call'.refs = joined
    <3>1. call' = [call EXCEPT !.at = at, !.preds = rest, !.refs = joined]
      BY <1>9 DEF at
    <3> QED
      BY <1>2, <3>1, CallUpdated, Zenon DEF r
  <2>4. Narrowing(at, r, rest, joined, vault', stood')
    <3>1. vault' \in stood'
      BY <1>1, <1>3
    <3> QED
      BY <1>1, <1>3, <1>4, <1>7, <2>1, <2>2, <3>1, Zenon DEF Narrowing, all
  <2>5. Asking' /\ Answered' /\ call'.at = at
    BY <2>1, <2>3, <2>4, AskingHolds, Zenon
  <2> QED
    BY <1>1, <1>2, <2>1, <2>5 DEF IndInv, Calls
<1>10. CASE rest = <<>> /\ ~sorts /\ call' = Answer(r, "listed", joined)
  <2>1. Narrowed(all, Len(all), joined, stood')
    BY <1>1, <1>4, <1>7, <1>10, Zenon
  <2>2. r.sort = "" \/ joined = <<>>
    BY <1>10
  <2>3. all # <<>>
    BY <1>3, <1>4
  <2>4. vault \in stood'
    BY <1>1, <1>3
  <2> HIDE DEF rest, preds, refs, r
  <2>5. AnswerOK(r, "listed", joined, stood')
    BY <1>3, <1>7, <2>1, <2>2, <2>3, <2>4, UnsortedOK, Zenon
  <2>6. Asking' /\ Answered' /\ call'.at = "answered"
    BY <1>10, <2>5, AnsweredHolds, Zenon
  <2> QED
    BY <1>1, <1>2, <2>6 DEF IndInv, Calls
<1> QED
  BY <1>1, <1>8, <1>9, <1>10, Zenon

\* The order of a request is one that MemoryAnswers speaks of.
LEMMA OrderTyped ==
    ASSUME NEW r \in Requests, OrderAccepted(r), r.sort # ""
    PROVE  /\ r.sort \in Orderable /\ r.limit \in Int
           /\ Order(r).field = r.sort /\ Order(r).limit = r.limit
           /\ Order(r).dir \in {"asc", "desc"}
BY RequestsAssumption DEF OrderAccepted, Order

LEMMA MemorySorts ==
    ASSUME MemoryAnswers, NEW r, NEW f \in Orderable, f # "", Order(r).field = f,
           Order(r).dir \in {"asc", "desc"}
    PROVE  LET sorted == OrderedMemory(f, Order(r).dir, 0)
           IN  /\ sorted \in Seq(Paths) /\ IsInjective(sorted)
               /\ \A p \in Paths : p \in ToSet(sorted) <=> Carries(vault, p, f)
               /\ Comparable(vault, f) =>
                   \A i, j \in 1..Len(sorted) :
                       i < j => Precedes(vault, sorted[i], sorted[j], Order(r))
<1> DEFINE dir == Order(r).dir
           sorted == OrderedMemory(f, dir, 0)
           o == [field |-> f, dir |-> dir]
<1>1. /\ sorted \in Seq(Paths) /\ IsInjective(sorted)
      /\ \A p \in Paths : p \in ToSet(sorted) <=> Carries(vault, p, f)
      /\ Comparable(vault, f) =>
          \A i, j \in DOMAIN sorted : i < j => Precedes(vault, sorted[i], sorted[j], o)
  <2>1. f \in Orderable \ {""}
    OBVIOUS
  <2> QED
    BY <2>1, Zenon DEF MemoryAnswers
<1>2. \A p, q : Precedes(vault, p, q, o) => Precedes(vault, p, q, Order(r))
  <2>1. o.field = Order(r).field /\ o.dir = Order(r).dir
    OBVIOUS
  <2> HIDE DEF o
  <2> QED
    BY <2>1, Zenon DEF Precedes
<1>3. DOMAIN sorted = 1..Len(sorted)
  BY <1>1, Members, Zenon
<1> QED
  BY <1>1, <1>2, <1>3, Zenon

LEMMA NoneLeft ==
    \A s \in Seq(Filters) : s # <<>> => Len(s) - Len(<<>>) = Len(s) /\ Len(s) > 0
OBVIOUS

LEMMA SortKeeps == ASSUME IndInv, MemoryAnswers, Sort PROVE IndInv'
<1> DEFINE r == call.request
           all == Predicates(r)
           refs == call.refs
           f == r.sort
           sorted == OrderedMemory(f, Order(r).dir, 0)
           kept == IF all = <<>> THEN sorted ELSE Among(sorted, ToSet(refs))
<1>1. /\ call.at = "order" /\ vault' = vault /\ stood' = stood
      /\ call' = Answer(r, "listed",
                   IF all = <<>> THEN OrderedMemory(Order(r).field, Order(r).dir, Order(r).limit)
                   ELSE Ranked(Order(r), ToSet(refs)))
  BY DEF Sort
<1>2. /\ Narrowing("order", r, call.preds, refs, vault, stood)
      /\ vault \in Vaults /\ stood \subseteq Vaults /\ stood # {}
  BY <1>1 DEF IndInv, Calls, Asking
<1>3. /\ r \in Requests /\ OrderAccepted(r) /\ all \in Seq(Filters) /\ f # ""
      /\ vault \in stood /\ refs \in Seq(Paths) /\ call.preds = <<>>
      /\ Len(all) - Len(call.preds) > 0 =>
            Narrowed(all, Len(all) - Len(call.preds), refs, stood)
  BY <1>2, Zenon DEF Narrowing
<1>4. all # <<>> => Narrowed(all, Len(all), refs, stood)
  <2>1. all # <<>> => Len(all) - Len(call.preds) = Len(all) /\ Len(all) > 0
    BY <1>3, NoneLeft, Zenon
  <2> QED
    BY <1>3, <2>1, Zenon
<1>5. /\ f \in Orderable /\ r.limit \in Int /\ Order(r).field = f /\ Order(r).limit = r.limit
      /\ Order(r).dir \in {"asc", "desc"}
  BY <1>3, OrderTyped, Zenon
<1>6. /\ sorted \in Seq(Paths) /\ IsInjective(sorted)
      /\ \A p \in Paths : p \in ToSet(sorted) <=> Carries(vault, p, f)
      /\ Comparable(vault, f) =>
          \A i, j \in 1..Len(sorted) : i < j => Precedes(vault, sorted[i], sorted[j], Order(r))
  BY <1>3, <1>5, MemorySorts, Zenon
<1>7. call' = Answer(r, "listed", Capped(kept, r.limit))
  <2>1. OrderedMemory(f, Order(r).dir, r.limit) = Capped(sorted, r.limit)
    BY OrderedIsCapped, Zenon
  <2>2. Ranked(Order(r), ToSet(refs)) = Capped(Among(sorted, ToSet(refs)), r.limit)
    BY <1>5, Zenon DEF Ranked
  <2> HIDE DEF sorted, r, f, all, refs
  <2>3. CASE all = <<>>
    BY <1>1, <1>5, <2>1, <2>3, Zenon
  <2>4. CASE all # <<>>
    BY <1>1, <2>2, <2>4, Zenon
  <2> QED
    BY <2>3, <2>4
<1> HIDE DEF sorted
<1>8. /\ Among(sorted, ToSet(refs)) \in Seq(Paths) /\ IsInjective(Among(sorted, ToSet(refs)))
      /\ \A p : p \in ToSet(Among(sorted, ToSet(refs))) <=> p \in ToSet(sorted) /\ p \in ToSet(refs)
  BY <1>6, AmongFacts, Zenon
<1>9. /\ kept \in Seq(Paths) /\ IsInjective(kept)
      /\ \A p \in ToSet(kept) : p \in ToSet(sorted) /\ (all # <<>> => p \in ToSet(refs))
      /\ \A p \in ToSet(sorted) \ ToSet(kept) : all # <<>> /\ p \notin ToSet(refs)
  <2>1. CASE all = <<>>
    <3>1. kept = sorted
      BY <2>1
    <3> HIDE DEF kept
    <3> QED
      BY <1>6, <2>1, <3>1, Zenon
  <2>2. CASE all # <<>>
    <3>1. kept = Among(sorted, ToSet(refs))
      BY <2>2
    <3> HIDE DEF kept
    <3> QED
      BY <1>8, <2>2, <3>1, Zenon
  <2> QED
    BY <2>1, <2>2, Zenon
<1>10. \A p \in ToSet(kept) : p \in Paths
  BY <1>9, Members, Zenon
<1>11. \A p \in ToSet(kept) : Carries(vault, p, f)
  BY <1>6, <1>9, <1>10, Zenon
<1>12. /\ \A g : g \in ToSet(all) <=> \E i \in 1..Len(all) : g = all[i]
       /\ all = <<>> => ToSet(all) = {}
  BY <1>3, Members, NothingIsOK, Zenon
<1>13. \A p \in ToSet(kept) : \A g \in ToSet(all) : \E w \in stood : Matches(w, p, g)
  <2> SUFFICES ASSUME NEW p \in ToSet(kept), NEW g \in ToSet(all)
               PROVE  \E w \in stood : Matches(w, p, g)
    OBVIOUS
  <2>1. all # <<>>
    BY <1>12
  <2>2. p \in ToSet(refs) /\ p \in Paths
    BY <1>9, <1>10, <2>1, Zenon
  <2>3. \A i \in 1..Len(all) : \E w \in stood : Matches(w, p, all[i])
    BY <1>4, <2>1, <2>2, Zenon DEF Narrowed
  <2> QED
    BY <1>12, <2>3, Zenon
<1>14. \A p \in Paths \ ToSet(kept) :
          \/ ~Carries(vault, p, f)
          \/ \E g \in ToSet(all) : \E w \in stood : ~Matches(w, p, g)
  <2> SUFFICES ASSUME NEW p \in Paths \ ToSet(kept), Carries(vault, p, f)
               PROVE  \E g \in ToSet(all) : \E w \in stood : ~Matches(w, p, g)
    OBVIOUS
  <2>1. all # <<>> /\ p \notin ToSet(refs)
    BY <1>6, <1>9, Zenon
  <2>2. \E i \in 1..Len(all) : \E w \in stood : ~Matches(w, p, all[i])
    BY <1>4, <2>1, Zenon DEF Narrowed
  <2> QED
    BY <1>12, <2>2, Zenon
<1>15. Comparable(vault, f) =>
          \A i, j \in 1..Len(kept) : i < j => Precedes(vault, kept[i], kept[j], Order(r))
  <2>1. CASE all = <<>>
    <3>1. kept = sorted
      BY <2>1
    <3> HIDE DEF kept
    <3> QED
      BY <1>6, <3>1, Zenon
  <2>2. CASE all # <<>>
    <3>1. kept = Among(sorted, ToSet(refs))
      BY <2>2
    <3> HIDE DEF kept
    <3>2. Subsequence(kept, sorted, ToSet(refs), Len(sorted))
      BY <1>6, <3>1, AmongIsSubsequence, Zenon
    <3>3. \A x, y \in 1..Len(kept) :
             x < y => \E a, b \in 1..Len(sorted) : a < b /\ kept[x] = sorted[a] /\ kept[y] = sorted[b]
      BY <3>2, Zenon DEF Subsequence
    <3> QED
      BY <1>6, <3>3, Zenon
  <2> QED
    BY <2>1, <2>2, Zenon
<1>16. AnswerOK(r, "listed", Capped(kept, r.limit), stood')
  <2> HIDE DEF kept, refs, r
  <2> QED
    BY <1>1, <1>2, <1>3, <1>5, <1>9, <1>11, <1>13, <1>14, <1>15, SortedOK, Zenon
<1>17. Asking' /\ Answered' /\ call'.at = "answered"
  BY <1>7, <1>16, AnsweredHolds, Zenon
<1> QED
  BY <1>1, <1>2, <1>17 DEF IndInv, Calls

-----------------------------------------------------------------------------
(* The notes that are indexed *)

LEMMA VaultFacts ==
    ASSUME NEW v \in Vaults
    PROVE  DOMAIN v \subseteq Paths /\ \A p \in DOMAIN v : v[p] \in Notes
<1>1. PICK held \in SUBSET Paths : v \in [held -> Notes]
  BY DEF Vaults
<1> QED
  BY <1>1

LEMMA HeldFacts ==
    ASSUME NEW v \in Vaults
    PROVE  /\ Held(v) \in Seq(Paths) /\ IsInjective(Held(v))
           /\ \A p : p \in ToSet(Held(v)) <=> p \in DOMAIN v
<1>1. Walk \in Seq(Paths) /\ IsInjective(Walk) /\ ToSet(Walk) = Paths
  BY WalkAssumption
<1>2. LET r == Among(Walk, DOMAIN v)
      IN  /\ r \in Seq(Paths)
          /\ \A p : p \in ToSet(r) <=> p \in ToSet(Walk) /\ p \in DOMAIN v
          /\ IsInjective(Walk) => IsInjective(r)
  BY <1>1, AmongFacts, Zenon
<1>3. \A p \in DOMAIN v : p \in ToSet(Walk)
  BY <1>1, VaultFacts
<1> QED
  BY <1>1, <1>2, <1>3, Zenon DEF Held

DocsOf(v) == {Doc(v, p) : p \in DOMAIN v}

LEMMA DocsFacts ==
    ASSUME NEW v \in Vaults
    PROVE  LET docs == VaultDocs(v)
               held == Held(v)
           IN  /\ docs \in Seq(DocsOf(v)) /\ Len(docs) = Len(held) /\ Len(held) \in Nat
               /\ DOMAIN held = 1..Len(held) /\ DOMAIN docs = 1..Len(held)
               /\ \A i \in 1..Len(held) : /\ held[i] \in DOMAIN v
                                         /\ docs[i] = Doc(v, held[i]) /\ docs[i].path = held[i]
<1> DEFINE docs == VaultDocs(v)
           held == Held(v)
<1>1. /\ held \in Seq(Paths) /\ Len(held) \in Nat /\ DOMAIN held = 1..Len(held)
      /\ \A i \in 1..Len(held) : held[i] \in DOMAIN v
  <2>1. held \in Seq(Paths) /\ \A p : p \in ToSet(held) <=> p \in DOMAIN v
    BY HeldFacts, Zenon
  <2> HIDE DEF held
  <2>2. /\ \A x : x \in ToSet(held) <=> \E i \in 1..Len(held) : x = held[i]
        /\ DOMAIN held = 1..Len(held) /\ Len(held) \in Nat
    BY <2>1, Members, Zenon
  <2> QED
    BY <2>1, <2>2, Zenon
<1>2. docs = [i \in DOMAIN held |-> Doc(v, held[i])]
  BY DEF VaultDocs
<1> HIDE DEF docs, held
<1>3. \A i \in 1..Len(held) : docs[i] = Doc(v, held[i]) /\ docs[i] \in DocsOf(v)
  BY <1>1, <1>2 DEF DocsOf
<1>4. docs \in Seq(DocsOf(v)) /\ Len(docs) = Len(held) /\ DOMAIN docs = 1..Len(held)
  <2>1. docs \in [1..Len(held) -> DocsOf(v)]
    BY <1>1, <1>2, <1>3
  <2> QED
    BY <1>1, <2>1
<1>5. \A p : Doc(v, p).path = p
  BY DEF Doc
<1> QED
  BY <1>1, <1>3, <1>4, <1>5 DEF docs, held

\* Nothing is indexed before the first vault is.
LEMMA NoDocs == VaultDocs(<<>>) = <<>> /\ <<>> \in Vaults
<1>1. <<>> \in Vaults /\ DOMAIN <<>> = {}
  <2>1. <<>> \in [{} -> Notes]
    OBVIOUS
  <2> QED
    BY <2>1 DEF Vaults
<1>2. /\ VaultDocs(<<>>) \in Seq(DocsOf(<<>>))
      /\ \A i \in 1..Len(Held(<<>>)) : Held(<<>>)[i] \in DOMAIN <<>>
      /\ Len(VaultDocs(<<>>)) = Len(Held(<<>>)) /\ Len(Held(<<>>)) \in Nat
  BY <1>1, DocsFacts, Zenon
<1>3. Len(Held(<<>>)) = 0
  <2> DEFINE n == Len(Held(<<>>))
  <2>1. n \in Nat /\ \A i \in 1..n : FALSE
    BY <1>1, <1>2, Zenon
  <2> HIDE DEF n
  <2>2. n = 0
    BY <2>1
  <2> QED
    BY <2>2 DEF n
<1> QED
  BY <1>1, <1>2, <1>3

-----------------------------------------------------------------------------
(* The aliases *)

\* What the aliases lead to after one document more, f being the rounds before.
RegisterOne(docs, f, i) ==
    [k \in {Key[s] : s \in Spellings} |->
        IF i = 0 THEN "" ELSE IF k \in AliasKeys(docs[i]) THEN Key[docs[i].title] ELSE f[i-1][k]]

LEMMA RegisterRuns ==
    ASSUME NEW docs
    PROVE  \A n \in Nat : \E f : f = [i \in 0..n |-> RegisterOne(docs, f, i)]
<1> DEFINE T == {n \in Nat : \E f : f = [i \in 0..n |-> RegisterOne(docs, f, i)]}
<1>1. 0 \in T
  <2> DEFINE g == [i \in 0..0 |-> RegisterOne(docs, <<>>, 0)]
  <2>1. \A i \in 0..0 : i = 0
    OBVIOUS
  <2>2. \A f : RegisterOne(docs, f, 0) = RegisterOne(docs, <<>>, 0)
    BY DEF RegisterOne
  <2>3. \A f : \A i \in 0..0 : RegisterOne(docs, f, i) = RegisterOne(docs, <<>>, 0)
    BY <2>1, <2>2, Zenon
  <2> HIDE DEF RegisterOne
  <2>4. g = [i \in 0..0 |-> RegisterOne(docs, g, i)]
    BY <2>3
  <2> QED
    BY <2>4
<1>2. ASSUME NEW n \in T PROVE n + 1 \in T
  <2>1. PICK f : f = [i \in 0..n |-> RegisterOne(docs, f, i)]
    OBVIOUS
  <2> DEFINE g == [i \in 0..n+1 |-> IF i = n + 1 THEN RegisterOne(docs, f, n + 1) ELSE f[i]]
  <2>2. ASSUME NEW i \in 0..n+1 PROVE g[i] = RegisterOne(docs, g, i)
    <3>1. (i # 0 => f[i-1] = g[i-1]) => RegisterOne(docs, f, i) = RegisterOne(docs, g, i)
      <4> HIDE DEF g
      <4> QED
        BY DEF RegisterOne
    <3>2. CASE i = n + 1
      <4>1. i # 0 => f[i-1] = g[i-1]
        BY <3>2
      <4>2. g[i] = RegisterOne(docs, f, i)
        BY <3>2
      <4> QED
        BY <3>1, <4>1, <4>2
    <3>3. CASE i # n + 1
      <4>1. i \in 0..n /\ (i # 0 => i - 1 \in 0..n /\ i - 1 \in 0..n+1 /\ i - 1 # n + 1)
        BY <3>3
      <4>2. f[i] = RegisterOne(docs, f, i)
        BY <2>1, <4>1
      <4>3. g[i] = f[i] /\ (i # 0 => f[i-1] = g[i-1])
        BY <3>3, <4>1
      <4> HIDE DEF g
      <4> QED
        BY <3>1, <4>2, <4>3
    <3> QED
      BY <3>2, <3>3
  <2>3. g = [i \in 0..n+1 |-> RegisterOne(docs, g, i)]
    BY <2>2
  <2>4. n + 1 \in Nat
    OBVIOUS
  <2> HIDE DEF g
  <2> QED
    BY <2>3, <2>4
<1> HIDE DEF T
<1>3. T = Nat
  BY <1>1, <1>2, UpFromZero DEF T
<1> QED
  BY <1>3 DEF T

LEMMA RegisteredRounds ==
    ASSUME NEW docs, Len(docs) \in Nat
    PROVE  \A i \in 0..Len(docs) : Registered(docs)[i] = RegisterOne(docs, Registered(docs), i)
<1>1. Registered(docs) = [i \in 0..Len(docs) |-> RegisterOne(docs, Registered(docs), i)]
  <2>1. \E f : f = [i \in 0..Len(docs) |->
                      [k \in {Key[s] : s \in Spellings} |->
                          IF i = 0 THEN ""
                          ELSE IF k \in AliasKeys(docs[i]) THEN Key[docs[i].title] ELSE f[i-1][k]]]
    <3>1. PICK f : f = [i \in 0..Len(docs) |-> RegisterOne(docs, f, i)]
      BY RegisterRuns
    <3> QED
      BY <3>1, Zenon DEF RegisterOne
  <2> DEFINE m == Registered(docs)
  <2>2. m = [i \in 0..Len(docs) |->
                [k \in {Key[s] : s \in Spellings} |->
                    IF i = 0 THEN ""
                    ELSE IF k \in AliasKeys(docs[i]) THEN Key[docs[i].title] ELSE m[i-1][k]]]
    BY <2>1, Zenon DEF Registered
  <2> HIDE DEF m
  <2>3. m = [i \in 0..Len(docs) |-> RegisterOne(docs, m, i)]
    BY <2>2, Zenon DEF RegisterOne
  <2> QED
    BY <2>3 DEF m
<1> SUFFICES ASSUME NEW f, f = [i \in 0..Len(docs) |-> RegisterOne(docs, f, i)]
             PROVE  \A i \in 0..Len(docs) : f[i] = RegisterOne(docs, f, i)
  BY <1>1, Zenon
<1> QED
  OBVIOUS

\* The notes that declare the spelling s as an alias.
Namers(v, s) ==
    {p \in DOMAIN v : /\ Key[v[p].title] # "" /\ Key[s] # ""
                      /\ Key[s] \in {Key[a] : a \in ToSet(v[p].aliases)}}

LEMMA NamersAreIndexed ==
    ASSUME NEW v, NEW s, NEW p \in DOMAIN v, NEW d, d = Doc(v, p)
    PROVE  /\ Key[s] \in AliasKeys(d) <=> p \in Namers(v, s)
           /\ Key[d.title] = Key[v[p].title]
<1>1. d.title = v[p].title /\ d.aliases = v[p].aliases
  BY DEF Doc
<1> QED
  BY <1>1 DEF AliasKeys, Namers

LEMMA UpTo ==
    ASSUME NEW n \in Nat, NEW G \in SUBSET Nat, 0 \in G, \A j \in G : j < n => j + 1 \in G
    PROVE  n \in G
<1> DEFINE T == {i \in Nat : i <= n => i \in G}
<1>1. 0 \in T
  OBVIOUS
<1>2. \A j \in T : j + 1 \in T
  OBVIOUS
<1>3. T \in SUBSET Nat
  OBVIOUS
<1> HIDE DEF T
<1>4. T = Nat
  BY <1>1, <1>2, <1>3, UpFromZero, Zenon
<1> QED
  BY <1>4 DEF T

LEMMA LastAppended ==
    ASSUME NEW U, NEW c \in Seq(U), NEW x \in U
    PROVE  Append(c, x) \in Seq(U) /\ Append(c, x) # <<>> /\ Last(Append(c, x)) = x
<1> DEFINE d == Append(c, x)
<1>1. /\ d \in Seq(U) /\ Len(c) \in Nat /\ Len(d) = Len(c) + 1
      /\ d[Len(c) + 1] = x
  OBVIOUS
<1> HIDE DEF d
<1>2. d # <<>>
  BY <1>1
<1> QED
  BY <1>1, <1>2 DEF Last, d

LEMMA OneUp ==
    \A n, j \in Nat : j < n => j + 1 \in 1..n /\ (j + 1) - 1 = j /\ j + 1 \in Nat
OBVIOUS

\* y is the mark of the last member of x, if there is one.
Marked(U, t, x, y) == x \in Seq(U) /\ IF x = <<>> THEN y = "" ELSE y = t[Last(x)] /\ y # ""

LEMMA MarkedNothing == ASSUME NEW U, NEW t PROVE Marked(U, t, <<>>, "")
<1>1. <<>> \in Seq(U)
  OBVIOUS
<1> QED
  BY <1>1, Zenon DEF Marked

LEMMA MarkedNext ==
    ASSUME NEW U, NEW t, NEW x, NEW y, Marked(U, t, x, y), NEW e \in U, t[e] # ""
    PROVE  Marked(U, t, Append(x, e), t[e])
BY LastAppended DEF Marked

\* One loop keeps the members of held that are in N, another the mark t of the last of them.
LEMMA LastKept ==
    ASSUME NEW n \in Nat, NEW held, NEW N, NEW t, NEW c, NEW a,
           \A i \in 1..n : held[i] \in N => t[held[i]] # "",
           c[0] = <<>>, a[0] = "",
           \A i \in 1..n : c[i] = IF held[i] \in N THEN Append(c[i-1], held[i]) ELSE c[i-1],
           \A i \in 1..n : a[i] = IF held[i] \in N THEN t[held[i]] ELSE a[i-1]
    PROVE  Marked(N, t, c[n], a[n])
<1> DEFINE G == {i \in Nat : Marked(N, t, c[i], a[i])}
<1>1. 0 \in G
  <2>1. Marked(N, t, <<>>, "")
    BY MarkedNothing, Zenon
  <2> QED
    BY <2>1
<1>2. ASSUME NEW j \in G, j < n PROVE j + 1 \in G
  <2>1. j \in Nat /\ Marked(N, t, c[j], a[j])
    OBVIOUS
  <2>2. j + 1 \in 1..n /\ (j + 1) - 1 = j /\ j + 1 \in Nat
    BY <1>2, <2>1, OneUp, Zenon
  <2> DEFINE e == held[j + 1]
  <2>3. /\ e \in N => t[e] # ""
        /\ c[j + 1] = IF e \in N THEN Append(c[j], e) ELSE c[j]
        /\ a[j + 1] = IF e \in N THEN t[e] ELSE a[j]
    BY <2>2
  <2> HIDE DEF e
  <2>4. Marked(N, t, c[j + 1], a[j + 1])
    <3>1. CASE e \in N
      <4>1. Marked(N, t, Append(c[j], e), t[e])
        BY <2>1, <2>3, <3>1, MarkedNext, Zenon
      <4> QED
        BY <2>3, <3>1, <4>1, Zenon
    <3>2. CASE e \notin N
      BY <2>1, <2>3, <3>2, Zenon
    <3> QED
      BY <3>1, <3>2
  <2> QED
    BY <2>2, <2>4
<1>3. G \in SUBSET Nat
  OBVIOUS
<1> HIDE DEF G
<1>4. n \in G
  BY <1>1, <1>2, <1>3, UpTo, Zenon
<1> QED
  BY <1>4 DEF G

\* An alias leads to the key of the last note in the walk that declares it.
LEMMA AliasIsCanon ==
    ASSUME NEW v \in Vaults, NEW s \in Spellings
    PROVE  LET a == AliasMap(VaultDocs(v))[Key[s]]
           IN  (IF a # "" THEN a ELSE Key[s]) = Canon(v, s)
<1> DEFINE docs == VaultDocs(v)
           held == Held(v)
           k == Key[s]
           N == Namers(v, s)
           m == Registered(docs)
           c == Collected(held, N)
           n == Len(held)
           t == [p \in DOMAIN v |-> Key[v[p].title]]
           a == [i \in 0..n |-> m[i][k]]
<1>1. /\ Len(docs) = n /\ n \in Nat
      /\ \A i \in 1..n : held[i] \in DOMAIN v /\ docs[i] = Doc(v, held[i])
  BY DocsFacts, Zenon
<1>2. \A i \in 0..n : m[i] = RegisterOne(docs, m, i)
  BY <1>1, RegisteredRounds, Zenon
<1>3. \A i \in 0..n : c[i] = CollectOne(held, N, c, i)
  BY <1>1, CollectedRounds, Zenon
<1>4. \A p \in N : p \in DOMAIN v /\ Key[v[p].title] # ""
  BY DEF Namers
<1>5. k \in {Key[x] : x \in Spellings}
  OBVIOUS
<1>6. AliasMap(docs) = m[n] /\ Among(held, N) = c[n]
  BY <1>1, Zenon DEF AliasMap, Among
<1>7. Canon(v, s) = IF c[n] = <<>> THEN k ELSE Key[v[Last(c[n])].title]
  <2>1. Canon(v, s) = IF Among(held, N) = <<>> THEN Key[s] ELSE Key[v[Last(Among(held, N))].title]
    BY Zenon DEF Canon, Namers
  <2> QED
    BY <1>6, <2>1, Zenon
<1> HIDE DEF docs, held, m, c, n, N, k
<1>8. \A i \in 1..n : i \in 0..n /\ i - 1 \in 0..n /\ i # 0
  BY <1>1
<1>9. ASSUME NEW i \in 1..n
      PROVE  /\ c[i] = IF held[i] \in N THEN Append(c[i-1], held[i]) ELSE c[i-1]
             /\ a[i] = IF held[i] \in N THEN t[held[i]] ELSE a[i-1]
             /\ held[i] \in N => held[i] \in DOMAIN v /\ t[held[i]] # ""
  <2>1. c[i] = CollectOne(held, N, c, i) /\ m[i] = RegisterOne(docs, m, i)
    BY <1>2, <1>3, <1>8, Zenon
  <2>2. held[i] \in DOMAIN v /\ docs[i] = Doc(v, held[i])
    BY <1>1, Zenon
  <2>3. /\ k \in AliasKeys(docs[i]) <=> held[i] \in N
        /\ Key[docs[i].title] = Key[v[held[i]].title]
    BY <2>2, NamersAreIndexed, Zenon DEF k, N
  <2>4. t[held[i]] = Key[v[held[i]].title] /\ a[i] = m[i][k] /\ a[i-1] = m[i-1][k]
    BY <1>8, <2>2
  <2>5. m[i][k] = IF k \in AliasKeys(docs[i]) THEN Key[docs[i].title] ELSE m[i-1][k]
    BY <1>5, <1>8, <2>1 DEF RegisterOne
  <2>6. c[i] = IF held[i] \in N THEN Append(c[i-1], held[i]) ELSE c[i-1]
    BY <1>8, <2>1, Zenon DEF CollectOne
  <2> HIDE DEF t, a
  <2>7. a[i] = IF held[i] \in N THEN t[held[i]] ELSE a[i-1]
    BY <2>3, <2>4, <2>5
  <2>8. held[i] \in N => held[i] \in DOMAIN v /\ t[held[i]] # ""
    BY <1>4, <2>4
  <2> QED
    BY <2>6, <2>7, <2>8
<1>10. c[0] = <<>> /\ a[0] = "" /\ a[n] = m[n][k]
  <2>1. 0 \in 0..n /\ n \in 0..n
    BY <1>1
  <2>2. c[0] = CollectOne(held, N, c, 0) /\ m[0] = RegisterOne(docs, m, 0)
    BY <1>2, <1>3, <2>1, Zenon
  <2>3. m[0][k] = ""
    BY <1>5, <2>2 DEF RegisterOne
  <2> QED
    BY <2>1, <2>2, <2>3 DEF CollectOne
<1> HIDE DEF a, t
<1>11. IF c[n] = <<>> THEN a[n] = "" ELSE a[n] = t[Last(c[n])] /\ a[n] # ""
  <2>1. \A i \in 1..n : held[i] \in N => t[held[i]] # ""
    BY <1>9, Zenon
  <2>2. \A i \in 1..n : c[i] = IF held[i] \in N THEN Append(c[i-1], held[i]) ELSE c[i-1]
    BY <1>9, Zenon
  <2>3. \A i \in 1..n : a[i] = IF held[i] \in N THEN t[held[i]] ELSE a[i-1]
    BY <1>9, Zenon
  <2>4. Marked(N, t, c[n], a[n])
    BY <1>1, <1>10, <2>1, <2>2, <2>3, LastKept
  <2> QED
    BY <2>4, Zenon DEF Marked
<1>12. c[n] # <<>> => t[Last(c[n])] = Key[v[Last(c[n])].title]
  <2>1. c[n] # <<>> => Last(c[n]) \in DOMAIN v
    <3>1. held \in Seq(Paths)
      BY HeldFacts, Zenon DEF held
    <3>2. c[n] \in Seq(Paths) /\ \A p : p \in ToSet(c[n]) <=> p \in ToSet(held) /\ p \in N
      <4>1. LET r == Among(held, N)
            IN  r \in Seq(Paths) /\ \A p : p \in ToSet(r) <=> p \in ToSet(held) /\ p \in N
        BY <3>1, AmongFacts, Zenon
      <4> QED
        BY <1>6, <4>1, Zenon
    <3>3. ASSUME c[n] # <<>> PROVE Last(c[n]) \in ToSet(c[n])
      <4> DEFINE r == c[n]
      <4>1. r \in Seq(Paths) /\ r # <<>>
        BY <3>2, <3>3
      <4> HIDE DEF r
      <4>2. Len(r) \in DOMAIN r
        BY <4>1
      <4> QED
        BY <4>2 DEF ToSet, Last, r
    <3> QED
      BY <1>4, <3>2, <3>3, Zenon
  <2> QED
    BY <2>1 DEF t
<1>13. (IF m[n][k] # "" THEN m[n][k] ELSE k) = Canon(v, s)
  BY <1>7, <1>10, <1>11, <1>12
<1> QED
  BY <1>6, <1>13, Zenon DEF docs, k

-----------------------------------------------------------------------------
(* A single lookup of a value *)

Indexed ==
    /\ vault \in Vaults
    /\ \E ord \in OrdIndexes(VaultDocs(vault)) : memory = MemoryIndex(VaultDocs(vault), ord)

LEMMA IndexParts ==
    ASSUME Indexed
    PROVE  LET docs == VaultDocs(vault)
           IN  /\ vault \in Vaults /\ memory.alias = AliasMap(docs)
               /\ memory.dim = DimIndex(docs) /\ memory.disp = DispIndex(docs)
               /\ \A f \in Orderable : memory.ord[f] \in Sorts(Entries(docs, f))
<1> DEFINE docs == VaultDocs(vault)
<1>1. PICK ord \in OrdIndexes(docs) : memory = MemoryIndex(docs, ord)
  BY DEF Indexed
<1>2. \A f \in Orderable : ord[f] \in Sorts(Entries(docs, f))
  BY DEF OrdIndexes
<1> HIDE DEF docs
<1>3. /\ memory.alias = AliasMap(docs) /\ memory.dim = DimIndex(docs)
      /\ memory.disp = DispIndex(docs) /\ memory.ord = ord
  BY <1>1 DEF MemoryIndex
<1> QED
  BY <1>2, <1>3 DEF Indexed, docs

LEMMA UpToAreIntegers == \A n \in Nat : \A k \in 1..n : k \in Int
OBVIOUS

LEMMA OneIsLess == \A a, b \in Int : a # b => a < b \/ b < a
OBVIOUS

\* The documents with a value, in the order of the walk, by their paths.
LEMMA PathsFound ==
    ASSUME NEW v \in Vaults, NEW S
    PROVE  LET found == PathsOf(Among(VaultDocs(v), S))
           IN  /\ found \in Seq(Paths) /\ IsInjective(found)
               /\ \A p : p \in ToSet(found) <=> p \in DOMAIN v /\ Doc(v, p) \in S
<1> DEFINE docs == VaultDocs(v)
           held == Held(v)
           n == Len(held)
           r == Among(docs, S)
           found == PathsOf(r)
<1>1. /\ docs \in Seq(DocsOf(v)) /\ Len(docs) = n /\ n \in Nat /\ DOMAIN held = 1..n
      /\ \A i \in 1..n : /\ held[i] \in DOMAIN v
                         /\ docs[i] = Doc(v, held[i]) /\ docs[i].path = held[i]
  BY DocsFacts, Zenon
<1>2. r \in Seq(DocsOf(v)) /\ Subsequence(r, docs, S, n)
  <2>1. r \in Seq(DocsOf(v)) /\ Subsequence(r, docs, S, Len(docs))
    BY <1>1, AmongIsSubsequence, Zenon
  <2> QED
    BY <1>1, <2>1, Zenon
<1>3. IsInjective(held) /\ \A p : p \in DOMAIN v => \E i \in 1..n : p = held[i]
  <2>1. /\ held \in Seq(Paths) /\ IsInjective(held)
        /\ \A p : p \in ToSet(held) <=> p \in DOMAIN v
    BY HeldFacts, Zenon
  <2>2. \A x : x \in ToSet(held) <=> \E i \in 1..n : x = held[i]
    BY <2>1, Members, Zenon
  <2> QED
    BY <2>1, <2>2, Zenon
<1> HIDE DEF docs, held, n, r
<1>4. DOMAIN r = 1..Len(r) /\ Len(r) \in Nat
  BY <1>2, Members, Zenon
<1>5. found = [i \in 1..Len(r) |-> r[i].path]
  BY <1>4, Zenon DEF PathsOf
<1>6. /\ \A x \in 1..Len(r) : r[x] \in S /\ \E a \in 1..n : r[x] = docs[a]
      /\ \A a \in 1..n : docs[a] \in S => \E x \in 1..Len(r) : r[x] = docs[a]
      /\ \A x, y \in 1..Len(r) :
            x < y => \E a, b \in 1..n : a < b /\ r[x] = docs[a] /\ r[y] = docs[b]
  BY <1>2, Zenon DEF Subsequence
<1>7. ASSUME NEW x \in 1..Len(r)
      PROVE  found[x] \in DOMAIN v /\ Doc(v, found[x]) \in S
  <2>1. PICK a \in 1..n : r[x] = docs[a]
    BY <1>6, Zenon
  <2>2. found[x] = held[a]
    BY <1>1, <1>5, <2>1
  <2>3. r[x] \in S /\ held[a] \in DOMAIN v /\ docs[a] = Doc(v, held[a])
    BY <1>1, <1>6, Zenon
  <2> HIDE DEF found
  <2> QED
    BY <2>1, <2>2, <2>3
<1>8. ASSUME NEW p, p \in DOMAIN v, Doc(v, p) \in S
      PROVE  \E x \in 1..Len(r) : p = found[x]
  <2>1. PICK a \in 1..n : p = held[a]
    BY <1>3, <1>8, Zenon
  <2>2. docs[a] \in S
    BY <1>1, <1>8, <2>1, Zenon
  <2>3. PICK x \in 1..Len(r) : r[x] = docs[a]
    BY <1>6, <2>2, Zenon
  <2>4. found[x] = held[a]
    BY <1>1, <1>5, <2>3
  <2> QED
    BY <2>1, <2>4, Zenon
<1>9. ASSUME NEW x \in 1..Len(r), NEW y \in 1..Len(r), x < y PROVE found[x] # found[y]
  <2>1. PICK a \in 1..n, b \in 1..n : a < b /\ r[x] = docs[a] /\ r[y] = docs[b]
    BY <1>6, <1>9, Zenon
  <2>2. found[x] = held[a] /\ found[y] = held[b]
    BY <1>1, <1>5, <2>1
  <2>3. held[a] = held[b] => a = b
    BY <1>1, <1>3, Zenon DEF IsInjective
  <2>4. a # b
    BY <1>1, <2>1
  <2> QED
    BY <2>2, <2>3, <2>4, Zenon
<1>10. DOMAIN found = 1..Len(r)
  BY <1>5
<1>11. found \in Seq(Paths) /\ Len(found) = Len(r)
  <2>1. \A x \in 1..Len(r) : found[x] \in Paths
    BY <1>7, VaultFacts
  <2>2. found \in [1..Len(r) -> Paths]
    BY <1>5, <2>1
  <2> HIDE DEF found
  <2> QED
    BY <1>4, <2>2
<1> HIDE DEF found
<1>12. IsInjective(found)
  <2> SUFFICES ASSUME NEW x \in 1..Len(r), NEW y \in 1..Len(r), found[x] = found[y], x # y
               PROVE  FALSE
    BY <1>10, Zenon DEF IsInjective
  <2>1. x \in Int /\ y \in Int
    BY <1>4
  <2>2. x < y \/ y < x
    BY <2>1, OneIsLess, Zenon
  <2> QED
    BY <1>9, <2>2, Zenon
<1>13. \A p : p \in ToSet(found) <=> \E x \in 1..Len(r) : p = found[x]
  BY <1>10, Zenon DEF ToSet
<1>14. \A p : p \in ToSet(found) <=> p \in DOMAIN v /\ Doc(v, p) \in S
  BY <1>7, <1>8, <1>13, Zenon
<1> QED
  BY <1>11, <1>12, <1>14, Zenon DEF found, r, docs

\* A document is indexed under the key of each of its values.
LEMMA ValueIndexed ==
    ASSUME NEW v, NEW p \in DOMAIN v, NEW f
    PROVE  Canon(v, f.value) \in ValueKeys(Doc(v, p), f.dimension) <=> Matches(v, p, f)
<1>1. Doc(v, p).dims = v[p].dims
  BY DEF Doc
<1> DEFINE k == Canon(v, f.value)
<1> HIDE DEF k
<1> QED
  BY <1>1 DEF ValueKeys, Matches, k

LEMMA EnumerateFinds ==
    ASSUME Indexed, NEW f \in Filters
    PROVE  LET found == EnumerateMemory(f)
           IN  /\ found \in Seq(Paths) /\ IsInjective(found)
               /\ \A p \in Paths : p \in ToSet(found) <=> Matches(vault, p, f)
<1> DEFINE docs == VaultDocs(vault)
           k == Canon(vault, f.value)
           dim == f.dimension
           S == {d \in ToSet(docs) : k \in ValueKeys(d, dim)}
           found == EnumerateMemory(f)
<1>1. f.value \in Spellings /\ dim \in Dimensions
  BY DEF Filters
<1>2. vault \in Vaults /\ memory.alias = AliasMap(docs) /\ memory.dim = DimIndex(docs)
  BY IndexParts
<1>3. (IF memory.alias[Key[f.value]] # "" THEN memory.alias[Key[f.value]] ELSE Key[f.value]) = k
  BY <1>1, <1>2, AliasIsCanon
<1>4. found = IF k \in DOMAIN memory.dim[dim] THEN memory.dim[dim][k] ELSE <<>>
  BY <1>3 DEF EnumerateMemory
<1> HIDE DEF k
<1>5. memory.dim[dim] = [j \in Listed(docs, dim) |->
                           PathsOf(Among(docs, {d \in ToSet(docs) : j \in ValueKeys(d, dim)}))]
  BY <1>1, <1>2 DEF DimIndex
<1>6. found = IF k \in Listed(docs, dim) THEN PathsOf(Among(docs, S)) ELSE <<>>
  BY <1>4, <1>5
<1>7. ASSUME NEW p \in DOMAIN vault PROVE Doc(vault, p) \in ToSet(docs)
  <2> DEFINE held == Held(vault)
  <2>1. /\ docs \in Seq(DocsOf(vault)) /\ Len(docs) = Len(held)
        /\ \A i \in 1..Len(held) : docs[i] = Doc(vault, held[i])
    BY <1>2, DocsFacts, Zenon
  <2>2. held \in Seq(Paths) /\ \A q : q \in ToSet(held) <=> q \in DOMAIN vault
    BY <1>2, HeldFacts, Zenon
  <2> HIDE DEF docs, held
  <2>3. \A x : x \in ToSet(held) <=> \E i \in 1..Len(held) : x = held[i]
    BY <2>2, Members, Zenon
  <2>4. \A x : x \in ToSet(docs) <=> \E i \in 1..Len(docs) : x = docs[i]
    BY <2>1, Members, Zenon
  <2>5. PICK i \in 1..Len(held) : p = held[i]
    BY <2>2, <2>3, Zenon
  <2> QED
    BY <2>1, <2>4, <2>5
<1>8. ASSUME NEW p \in DOMAIN vault PROVE Doc(vault, p) \in S <=> Matches(vault, p, f)
  <2>1. k \in ValueKeys(Doc(vault, p), dim) <=> Matches(vault, p, f)
    BY ValueIndexed DEF k
  <2> QED
    BY <1>7, <2>1
<1>9. CASE k \in Listed(docs, dim)
  <2>1. /\ PathsOf(Among(docs, S)) \in Seq(Paths) /\ IsInjective(PathsOf(Among(docs, S)))
        /\ \A p : p \in ToSet(PathsOf(Among(docs, S))) <=> p \in DOMAIN vault /\ Doc(vault, p) \in S
    BY <1>2, PathsFound, Zenon
  <2>2. \A p : Matches(vault, p, f) => p \in DOMAIN vault
    BY DEF Matches
  <2> HIDE DEF S, found, docs
  <2>3. found = PathsOf(Among(docs, S))
    BY <1>6, <1>9
  <2> QED
    BY <1>8, <2>1, <2>2, <2>3, Zenon DEF found
<1>10. CASE k \notin Listed(docs, dim)
  <2>1. \A d \in ToSet(docs) : k \notin ValueKeys(d, dim)
    BY <1>10 DEF Listed
  <2>2. \A p \in DOMAIN vault : Doc(vault, p) \notin S
    BY <2>1
  <2>3. \A p : ~Matches(vault, p, f)
    BY <1>8, <2>2 DEF Matches
  <2>4. found = <<>>
    BY <1>6, <1>10
  <2> HIDE DEF found
  <2> QED
    BY <2>3, <2>4, NothingIsOK, Zenon DEF found
<1> QED
  BY <1>9, <1>10

-----------------------------------------------------------------------------
(* Sorting *)

\* The entries that have an order, as NaN is none of their keys.
EntryType == [path : Nat, key : Int]

LEMMA AscendsIsOrder ==
    /\ \A a, b \in EntryType : a # b => Ascends(a, b) \/ Ascends(b, a)
    /\ \A a, b, c \in EntryType : Ascends(a, b) /\ Ascends(b, c) => Ascends(a, c)
    /\ \A a \in EntryType : ~Ascends(a, a)
<1>1. \A a, b \in EntryType : a # b => Ascends(a, b) \/ Ascends(b, a)
  <2> SUFFICES ASSUME NEW a \in EntryType, NEW b \in EntryType, a # b
               PROVE  Ascends(a, b) \/ Ascends(b, a)
    OBVIOUS
  <2>1. a.key # b.key \/ a.path # b.path
    BY DEF EntryType
  <2>2. /\ a.key \in Int /\ b.key \in Int /\ a.key # NaN /\ b.key # NaN
        /\ a.path \in Nat /\ b.path \in Nat
    BY NumbersAssumption DEF EntryType
  <2> QED
    BY <2>1, <2>2 DEF Ascends, Below, Same
<1>2. \A a, b, c \in EntryType : Ascends(a, b) /\ Ascends(b, c) => Ascends(a, c)
  BY DEF EntryType, Ascends, Below, Same
<1>3. \A a \in EntryType : ~Ascends(a, a)
  BY DEF EntryType, Ascends, Below, Same
<1> QED
  BY <1>1, <1>2, <1>3

IsLargest(S, m) == m \in S /\ \A x \in S : x # m => Ascends(x, m)

LEMMA LargestExists ==
    \A n \in Nat : \A S \in SUBSET EntryType :
        IsFiniteSet(S) /\ Cardinality(S) = n + 1 => \E m : IsLargest(S, m)
<1> DEFINE T == {n \in Nat : \A S \in SUBSET EntryType :
                    IsFiniteSet(S) /\ Cardinality(S) = n + 1 => \E m : IsLargest(S, m)}
<1>1. 0 \in T
  <2> SUFFICES ASSUME NEW S \in SUBSET EntryType, IsFiniteSet(S), Cardinality(S) = 0 + 1
               PROVE  \E m : IsLargest(S, m)
    OBVIOUS
  <2>1. PICK x : S = {x}
    BY FS_Singleton
  <2> QED
    BY <2>1 DEF IsLargest
<1>2. ASSUME NEW n \in T PROVE n + 1 \in T
  <2> SUFFICES ASSUME NEW S \in SUBSET EntryType, IsFiniteSet(S), Cardinality(S) = (n + 1) + 1
               PROVE  \E m : IsLargest(S, m)
    OBVIOUS
  <2>1. n \in Nat /\ \A R \in SUBSET EntryType :
                         IsFiniteSet(R) /\ Cardinality(R) = n + 1 => \E m : IsLargest(R, m)
    OBVIOUS
  <2> HIDE DEF T
  <2>2. S # {}
    BY <2>1, FS_EmptySet
  <2>3. PICK x : x \in S
    BY <2>2
  <2> DEFINE R == S \ {x}
  <2>4. IsFiniteSet(R) /\ Cardinality(R) = n + 1 /\ R \in SUBSET EntryType
    <3>1. IsFiniteSet(R) /\ Cardinality(R) = Cardinality(S) - 1
      BY <2>3, FS_RemoveElement
    <3> QED
      BY <2>1, <3>1
  <2>5. PICK m : IsLargest(R, m)
    BY <2>1, <2>4, Zenon
  <2>6. m \in S /\ m # x /\ (\A y \in S : y # x /\ y # m => Ascends(y, m))
    BY <2>5 DEF IsLargest
  <2> HIDE DEF R
  <2>7. CASE Ascends(x, m)
    BY <2>6, <2>7 DEF IsLargest
  <2>8. CASE Ascends(m, x)
    <3>1. ASSUME NEW y \in S, y # x PROVE Ascends(y, x)
      <4>1. CASE y = m
        BY <2>8, <4>1
      <4>2. CASE y # m
        <5>1. Ascends(y, m) /\ y \in EntryType /\ m \in EntryType /\ x \in EntryType
          BY <2>3, <2>6, <3>1, <4>2
        <5> QED
          BY <2>8, <5>1, AscendsIsOrder, Zenon
      <4> QED
        BY <4>1, <4>2
    <3> QED
      BY <2>3, <3>1, Zenon DEF IsLargest
  <2>9. Ascends(x, m) \/ Ascends(m, x)
    <3>1. x \in EntryType /\ m \in EntryType
      BY <2>3, <2>6
    <3> QED
      BY <2>6, <3>1, AscendsIsOrder, Zenon
  <2> QED
    BY <2>7, <2>8, <2>9
<1> HIDE DEF T
<1>3. T \in SUBSET Nat
  BY DEF T
<1>4. T = Nat
  BY <1>1, <1>2, <1>3, UpFromZero, Zenon
<1> QED
  BY <1>4, Zenon DEF T

IsAscent(s, S) == ToSet(s) = S /\ \A i, j \in DOMAIN s : i < j => Ascends(s[i], s[j])

LEMMA SortExists ==
    \A n \in Nat : \A S \in SUBSET EntryType :
        IsFiniteSet(S) /\ Cardinality(S) = n => \E s \in [1..n -> S] : IsAscent(s, S)
<1> DEFINE T == {n \in Nat : \A S \in SUBSET EntryType :
                    IsFiniteSet(S) /\ Cardinality(S) = n => \E s \in [1..n -> S] : IsAscent(s, S)}
<1>1. 0 \in T
  <2> SUFFICES ASSUME NEW S \in SUBSET EntryType, IsFiniteSet(S), Cardinality(S) = 0
               PROVE  \E s \in [1..0 -> S] : IsAscent(s, S)
    OBVIOUS
  <2>1. S = {}
    BY FS_EmptySet
  <2>2. <<>> \in [1..0 -> S] /\ DOMAIN <<>> = {}
    OBVIOUS
  <2>3. IsAscent(<<>>, S)
    BY <2>1, <2>2, NothingIsOK, Zenon DEF IsAscent
  <2> QED
    BY <2>2, <2>3
<1>2. ASSUME NEW n \in T PROVE n + 1 \in T
  <2> SUFFICES ASSUME NEW S \in SUBSET EntryType, IsFiniteSet(S), Cardinality(S) = n + 1
               PROVE  \E s \in [1..n+1 -> S] : IsAscent(s, S)
    OBVIOUS
  <2>1. n \in Nat /\ \A R \in SUBSET EntryType :
                         IsFiniteSet(R) /\ Cardinality(R) = n => \E s \in [1..n -> R] : IsAscent(s, R)
    OBVIOUS
  <2> HIDE DEF T
  <2>2. PICK m : IsLargest(S, m)
    BY <2>1, LargestExists, Zenon
  <2> DEFINE R == S \ {m}
  <2>3. m \in S /\ \A x \in R : Ascends(x, m)
    BY <2>2 DEF IsLargest
  <2>4. IsFiniteSet(R) /\ Cardinality(R) = n /\ R \in SUBSET EntryType
    <3>1. IsFiniteSet(R) /\ Cardinality(R) = Cardinality(S) - 1
      BY <2>3, FS_RemoveElement
    <3> QED
      BY <2>1, <3>1
  <2>5. PICK r \in [1..n -> R] : IsAscent(r, R)
    BY <2>1, <2>4, Zenon
  <2> DEFINE s == [i \in 1..n+1 |-> IF i = n + 1 THEN m ELSE r[i]]
  <2>6. /\ \A x \in R : \E i \in 1..n : x = r[i]
        /\ \A i \in 1..n : r[i] \in R
        /\ \A i, j \in 1..n : i < j => Ascends(r[i], r[j])
    <3>1. DOMAIN r = 1..n
      OBVIOUS
    <3> HIDE DEF R
    <3> QED
      BY <2>5, <3>1, Zenon DEF IsAscent, ToSet
  <2>7. \A i \in 1..n+1 : i # n + 1 => i \in 1..n
    BY <2>1
  <2>8. n + 1 \in 1..n+1 /\ \A i \in 1..n : i \in 1..n+1 /\ i # n + 1
    BY <2>1
  <2>9. /\ s[n + 1] = m /\ \A i \in 1..n : s[i] = r[i]
        /\ DOMAIN s = 1..n+1
    BY <2>8
  <2>10. \A i \in 1..n+1 : s[i] \in S
    <3> HIDE DEF s
    <3> QED
      BY <2>3, <2>6, <2>7, <2>9
  <2>11. s \in [1..n+1 -> S]
    BY <2>10
  <2> HIDE DEF s
  <2>12. ToSet(s) = S
    <3>1. ASSUME NEW x \in S PROVE \E i \in 1..n+1 : x = s[i]
      <4>1. CASE x = m
        BY <2>8, <2>9, <4>1
      <4>2. CASE x # m
        <5>1. PICK i \in 1..n : x = r[i]
          BY <2>6, <4>2
        <5> QED
          BY <2>8, <2>9, <5>1
      <4> QED
        BY <4>1, <4>2
    <3> QED
      BY <2>9, <2>10, <3>1 DEF ToSet
  <2>13. ASSUME NEW i \in 1..n+1, NEW j \in 1..n+1, i < j PROVE Ascends(s[i], s[j])
    <3>1. i \in 1..n
      BY <2>1, <2>13
    <3>2. s[i] = r[i] /\ r[i] \in R
      BY <2>6, <2>9, <3>1, Zenon
    <3>3. CASE j = n + 1
      BY <2>3, <2>9, <3>2, <3>3, Zenon
    <3>4. CASE j # n + 1
      <4>1. j \in 1..n /\ s[j] = r[j]
        BY <2>7, <2>9, <3>4, Zenon
      <4> QED
        BY <2>6, <2>13, <3>1, <3>2, <4>1, Zenon
    <3> QED
      BY <3>3, <3>4
  <2>14. IsAscent(s, S)
    BY <2>9, <2>12, <2>13, Zenon DEF IsAscent
  <2> QED
    BY <2>11, <2>14
<1> HIDE DEF T
<1>3. T \in SUBSET Nat
  BY DEF T
<1>4. T = Nat
  BY <1>1, <1>2, <1>3, UpFromZero, Zenon
<1> QED
  BY <1>4, Zenon DEF T

\* Entries that have an order can be sorted.
LEMMA AscentExists ==
    ASSUME NEW S \in SUBSET EntryType, IsFiniteSet(S)
    PROVE  \E s \in Seq(S) : /\ \A x : x \in ToSet(s) <=> x \in S
                             /\ \A i, j \in 1..Len(s) : i < j => Ascends(s[i], s[j])
<1> DEFINE n == Cardinality(S)
<1>1. n \in Nat
  BY FS_CardinalityType
<1>2. PICK s \in [1..n -> S] : IsAscent(s, S)
  BY <1>1, SortExists, Zenon
<1> HIDE DEF n
<1>3. s \in Seq(S) /\ Len(s) = n /\ DOMAIN s = 1..n
  BY <1>1
<1> QED
  BY <1>2, <1>3, Zenon DEF IsAscent

-----------------------------------------------------------------------------
(* The descending order *)

LEMMA LeastExists ==
    ASSUME NEW T \in SUBSET Nat, NEW x \in T
    PROVE  \E j \in T : \A k \in T : ~(k < j)
<1>1. PICK j \in T : \A k \in T : ~(<<k, j>> \in OpToRel(<, Nat))
  <2> HIDE DEF OpToRel
  <2> QED
    BY WFMin, NatLessThanWellFounded
<1> QED
  BY <1>1 DEF OpToRel

\* Every group has a start: the least place from which on the keys are equal.  A key that is
\* not even equal to itself is a group of its own.
LEMMA GroupStarts ==
    ASSUME NEW e, NEW i \in Nat, i # 0
    PROVE  LET j == GroupStart(e, i)
           IN  /\ j \in 1..i /\ \A k \in j..i : e[k].key = e[i].key
               /\ j > 1 => ~Same(e[j-1].key, e[i].key)
<1> DEFINE T == {j \in 1..i : \A k \in j..(i-1) : Same(e[k].key, e[i].key)}
<1>1. i \in T
  <2>1. i..(i-1) = {}
    OBVIOUS
  <2> QED
    BY <2>1
<1>2. T \in SUBSET Nat
  OBVIOUS
<1> HIDE DEF T
<1>3. PICK j \in T : \A k \in T : ~(k < j)
  BY <1>1, <1>2, LeastExists, Zenon
<1>4. j \in 1..i /\ \A k \in j..(i-1) : Same(e[k].key, e[i].key)
  BY DEF T
<1>5. ASSUME j > 1, Same(e[j-1].key, e[i].key) PROVE FALSE
  <2>1. j - 1 \in 1..i /\ j - 1 < j
    BY <1>4, <1>5
  <2>2. ASSUME NEW k \in (j-1)..(i-1) PROVE Same(e[k].key, e[i].key)
    <3>1. CASE k = j - 1
      BY <1>5, <3>1
    <3>2. CASE k # j - 1
      BY <1>4, <3>2
    <3> QED
      BY <3>1, <3>2
  <2>3. j - 1 \in T
    BY <2>1, <2>2, Zenon DEF T
  <2> QED
    BY <1>3, <2>1, <2>3, Zenon
<1> DEFINE g == GroupStart(e, i)
<1>6. \E h \in 1..i : /\ \A k \in h..(i-1) : Same(e[k].key, e[i].key)
                      /\ h > 1 => ~Same(e[h-1].key, e[i].key)
  BY <1>4, <1>5, Zenon
<1>7. /\ g \in 1..i /\ \A k \in g..(i-1) : Same(e[k].key, e[i].key)
      /\ g > 1 => ~Same(e[g-1].key, e[i].key)
  BY <1>6, Zenon DEF GroupStart
<1> HIDE DEF g
<1>8. ASSUME NEW k \in g..i PROVE e[k].key = e[i].key
  <2>1. k = i \/ k \in g..(i-1)
    BY <1>7
  <2> QED
    BY <1>7, <2>1, Zenon DEF Same
<1> QED
  BY <1>7, <1>8, Zenon DEF g

\* One round of the walk backwards, f being what the rounds before it made.
DescendOne(e, f, i) ==
    IF i = 0 THEN <<>> ELSE SubSeq(e, GroupStart(e, i), i) \o f[GroupStart(e, i) - 1]

LEMMA DescendRuns ==
    ASSUME NEW e
    PROVE  \A n \in Nat : \E f : f = [i \in 0..n |-> DescendOne(e, f, i)]
<1> DEFINE T == {n \in Nat : \E f : f = [i \in 0..n |-> DescendOne(e, f, i)]}
<1>1. 0 \in T
  <2>1. [i \in 0..0 |-> <<>>] = [i \in 0..0 |-> DescendOne(e, [k \in 0..0 |-> <<>>], i)]
    BY DEF DescendOne
  <2> QED
    BY <2>1
<1>2. ASSUME NEW n \in T PROVE n + 1 \in T
  <2>1. PICK f : f = [i \in 0..n |-> DescendOne(e, f, i)]
    OBVIOUS
  <2> DEFINE g == [i \in 0..n+1 |-> IF i = n + 1 THEN DescendOne(e, f, n + 1) ELSE f[i]]
  <2>2. ASSUME NEW i \in 0..n+1 PROVE g[i] = DescendOne(e, g, i)
    <3> DEFINE j == GroupStart(e, i) - 1
    <3>1. i # 0 => j \in 0..n+1 /\ j \in 0..n /\ j # n + 1
      <4>1. i # 0 => GroupStart(e, i) \in 1..i
        BY GroupStarts
      <4> QED
        BY <4>1
    <3>2. i # 0 => f[j] = g[j]
      BY <3>1
    <3>3. g[i] = DescendOne(e, f, i)
      <4>1. CASE i = n + 1
        BY <4>1
      <4>2. CASE i # n + 1
        <5>1. i \in 0..n
          BY <4>2
        <5>2. f[i] = DescendOne(e, f, i)
          BY <2>1, <5>1
        <5> QED
          BY <4>2, <5>2
      <4> QED
        BY <4>1, <4>2
    <3> HIDE DEF g
    <3> QED
      BY <3>2, <3>3 DEF DescendOne
  <2>3. g = [i \in 0..n+1 |-> DescendOne(e, g, i)]
    BY <2>2
  <2>4. n + 1 \in Nat
    OBVIOUS
  <2> HIDE DEF g
  <2> QED
    BY <2>3, <2>4
<1> HIDE DEF T
<1>3. T = Nat
  BY <1>1, <1>2, UpFromZero DEF T
<1> QED
  BY <1>3 DEF T

LEMMA DescendRounds ==
    ASSUME NEW e, Len(e) \in Nat
    PROVE  \A i \in 0..Len(e) : Descended(e)[i] = DescendOne(e, Descended(e), i)
<1>1. Descended(e) = [i \in 0..Len(e) |-> DescendOne(e, Descended(e), i)]
  <2>1. \E f : f = [i \in 0..Len(e) |->
                      IF i = 0 THEN <<>>
                      ELSE SubSeq(e, GroupStart(e, i), i) \o f[GroupStart(e, i) - 1]]
    <3>1. PICK f : f = [i \in 0..Len(e) |-> DescendOne(e, f, i)]
      BY DescendRuns
    <3> QED
      BY <3>1, Zenon DEF DescendOne
  <2> DEFINE m == Descended(e)
  <2>2. m = [i \in 0..Len(e) |->
                IF i = 0 THEN <<>>
                ELSE SubSeq(e, GroupStart(e, i), i) \o m[GroupStart(e, i) - 1]]
    BY <2>1, Zenon DEF Descended
  <2> HIDE DEF m
  <2>3. m = [i \in 0..Len(e) |-> DescendOne(e, m, i)]
    BY <2>2, Zenon DEF DescendOne
  <2> QED
    BY <2>3 DEF m
<1> SUFFICES ASSUME NEW f, f = [i \in 0..Len(e) |-> DescendOne(e, f, i)]
             PROVE  \A i \in 0..Len(e) : f[i] = DescendOne(e, f, i)
  BY <1>1, Zenon
<1> QED
  OBVIOUS

\* Two members of a concatenation, by the places they have in its parts.
Parted(c, b, r) ==
    \A x, y \in 1..Len(c) : x < y =>
        \/ \E p, q \in 1..Len(b) : p < q /\ c[x] = b[p] /\ c[y] = b[q]
        \/ \E p \in 1..Len(b), q \in 1..Len(r) : c[x] = b[p] /\ c[y] = r[q]
        \/ \E p, q \in 1..Len(r) : p < q /\ c[x] = r[p] /\ c[y] = r[q]

LEMMA ConcatPlaces ==
    ASSUME NEW U, NEW b \in Seq(U), NEW r \in Seq(U), NEW c, c = b \o r
    PROVE  /\ c \in Seq(U)
           /\ \A x : x \in ToSet(c) <=> x \in ToSet(b) \/ x \in ToSet(r)
           /\ Parted(c, b, r)
<1> DEFINE l == Len(b)
<1>1. /\ c \in Seq(U) /\ l \in Nat /\ Len(r) \in Nat /\ Len(c) = l + Len(r)
      /\ \A x \in 1..l : c[x] = b[x]
      /\ \A y \in 1..Len(r) : c[l + y] = r[y]
  OBVIOUS
<1>2. /\ \A x : x \in ToSet(b) <=> \E i \in 1..l : x = b[i]
      /\ \A x : x \in ToSet(r) <=> \E i \in 1..Len(r) : x = r[i]
  BY Members, Zenon
<1>3. \A x : x \in ToSet(c) <=> \E i \in 1..Len(c) : x = c[i]
  <2>1. c \in Seq(U)
    BY <1>1
  <2> QED
    BY <2>1, Members, Zenon
<1> HIDE DEF l
<1>4. ASSUME NEW x \in 1..Len(c), x \notin 1..l
      PROVE  x - l \in 1..Len(r) /\ c[x] = r[x - l] /\ l < x
  <2>1. x - l \in 1..Len(r) /\ l + (x - l) = x /\ l < x
    BY <1>1, <1>4
  <2> QED
    BY <1>1, <2>1
<1>5. \A x \in 1..l : x \in 1..Len(c)
  BY <1>1
<1>6. \A y \in 1..Len(r) : l + y \in 1..Len(c)
  BY <1>1
<1>7. ASSUME NEW x PROVE x \in ToSet(c) <=> x \in ToSet(b) \/ x \in ToSet(r)
  <2>1. ASSUME x \in ToSet(c) PROVE x \in ToSet(b) \/ x \in ToSet(r)
    <3>1. PICK i \in 1..Len(c) : x = c[i]
      BY <1>3, <2>1, Zenon
    <3>2. CASE i \in 1..l
      BY <1>1, <1>2, <3>1, <3>2, Zenon
    <3>3. CASE i \notin 1..l
      BY <1>2, <1>4, <3>1, <3>3, Zenon
    <3> QED
      BY <3>2, <3>3
  <2>2. ASSUME x \in ToSet(b) PROVE x \in ToSet(c)
    <3>1. PICK i \in 1..l : x = b[i]
      BY <1>2, <2>2, Zenon
    <3>2. i \in 1..Len(c) /\ c[i] = x
      BY <1>1, <1>5, <3>1
    <3> QED
      BY <1>3, <3>2, Zenon
  <2>3. ASSUME x \in ToSet(r) PROVE x \in ToSet(c)
    <3>1. PICK i \in 1..Len(r) : x = r[i]
      BY <1>2, <2>3, Zenon
    <3>2. l + i \in 1..Len(c) /\ c[l + i] = x
      BY <1>1, <1>6, <3>1
    <3> QED
      BY <1>3, <3>2, Zenon
  <2> QED
    BY <2>1, <2>2, <2>3
<1>8. ASSUME NEW x \in 1..Len(c), NEW y \in 1..Len(c), x < y
      PROVE  \/ \E p, q \in 1..l : p < q /\ c[x] = b[p] /\ c[y] = b[q]
             \/ \E p \in 1..l, q \in 1..Len(r) : c[x] = b[p] /\ c[y] = r[q]
             \/ \E p, q \in 1..Len(r) : p < q /\ c[x] = r[p] /\ c[y] = r[q]
  <2>1. CASE y \in 1..l
    <3>1. x \in 1..l
      BY <1>1, <1>8, <2>1
    <3> QED
      BY <1>1, <1>8, <2>1, <3>1, Zenon
  <2>2. CASE x \in 1..l /\ y \notin 1..l
    BY <1>1, <1>4, <2>2, Zenon
  <2>3. CASE x \notin 1..l /\ y \notin 1..l
    <3>1. x - l < y - l
      BY <1>1, <1>8
    <3> QED
      BY <1>4, <2>3, <3>1, Zenon
  <2> QED
    BY <2>1, <2>2, <2>3
<1> QED
  BY <1>1, <1>7, <1>8, Zenon DEF l, Parted

\* A stretch of a sequence, and the places of its members in the whole.
LEMMA Stretch ==
    ASSUME NEW U, NEW e \in Seq(U), NEW i \in 1..Len(e), NEW g \in 1..i
    PROVE  LET b == SubSeq(e, g, i)
           IN  /\ b \in Seq(U) /\ Len(b) = i - g + 1
               /\ \A p \in 1..Len(b) : p + (g - 1) \in g..i /\ b[p] = e[p + (g - 1)]
               /\ \A k \in g..i : k - (g - 1) \in 1..Len(b) /\ b[k - (g - 1)] = e[k]
<1>1. /\ Len(e) \in Nat /\ i \in Nat /\ g \in Nat /\ \A x \in g..i : x \in 1..Len(e)
  OBVIOUS
<1>2. SubSeq(e, g, i) \in Seq(U) /\ Len(SubSeq(e, g, i)) = i - g + 1
  OBVIOUS
<1>3. \A p \in 1..(i - g + 1) : p + (g - 1) \in g..i /\ SubSeq(e, g, i)[p] = e[p + (g - 1)]
  OBVIOUS
<1>4. \A k \in g..i : k - (g - 1) \in 1..(i - g + 1) /\ (k - (g - 1)) + (g - 1) = k
  OBVIOUS
<1> DEFINE b == SubSeq(e, g, i)
<1> HIDE DEF b
<1> QED
  BY <1>2, <1>3, <1>4, Zenon DEF b

\* The order of a descending answer: by key, the largest first, and then by path.
Falls(a, b) == Below(b.key, a.key) \/ (Same(a.key, b.key) /\ a.path < b.path)

\* A sequence with no member twice, and one that is in an order too.
Distinct(e) == \A x, y \in 1..Len(e) : x < y => e[x] # e[y]
InOrder(e, S) ==
    S \in SUBSET EntryType /\ \A x, y \in 1..Len(e) : x < y => Ascends(e[x], e[y])

\* What the walk backwards has made of the first i entries.
Fell(e, S, i) ==
    LET d == Descended(e)[i]
    IN  /\ d \in Seq(S)
        /\ \A x : x \in ToSet(d) <=> \E k \in 1..i : x = e[k]
        /\ Distinct(d)
        /\ InOrder(e, S) => \A x, y \in 1..Len(d) : x < y => Falls(d[x], d[y])

LEMMA FallsFacts ==
    /\ \A a, b : Ascends(a, b) => Same(a.key, b.key) \/ Below(a.key, b.key)
    /\ \A a, b \in EntryType : Ascends(a, b) /\ a.key = b.key => Falls(a, b)
    /\ \A a, b, c : Below(a.key, b.key) /\ b.key = c.key => Falls(c, a)
    /\ \A a, b, c : Same(a.key, b.key) /\ Below(b.key, c.key) => Below(a.key, c.key)
    /\ \A a, b, c \in EntryType :
          Below(a.key, b.key) /\ Below(b.key, c.key) => Below(a.key, c.key)
BY DEF EntryType, Ascends, Falls, Below, Same

\* The entries before a group have smaller keys.
LEMMA BelowGroup ==
    ASSUME NEW S \in SUBSET EntryType, NEW e \in Seq(S), NEW i \in 1..Len(e),
           \A x, y \in 1..Len(e) : x < y => Ascends(e[x], e[y]),
           NEW k \in 1..(GroupStart(e, i) - 1)
    PROVE  Below(e[k].key, e[i].key)
<1> DEFINE g == GroupStart(e, i)
<1>1. i \in Nat /\ i # 0
  OBVIOUS
<1>2. g \in 1..i /\ (g > 1 => ~Same(e[g-1].key, e[i].key))
  BY <1>1, GroupStarts
<1>3. k \in 1..(g - 1)
  OBVIOUS
<1> HIDE DEF g
<1>4. /\ g > 1 /\ g - 1 \in 1..Len(e) /\ g - 1 < i /\ k \in 1..Len(e)
      /\ k = g - 1 \/ k < g - 1
  BY <1>2, <1>3
<1>5. \A j \in 1..Len(e) : e[j] \in EntryType
  OBVIOUS
<1>6. Below(e[g-1].key, e[i].key)
  <2>1. Ascends(e[g-1], e[i])
    BY <1>4
  <2> QED
    BY <1>2, <1>4, <2>1, FallsFacts, Zenon
<1>7. CASE k = g - 1
  BY <1>6, <1>7
<1>8. CASE k < g - 1
  <2>1. Ascends(e[k], e[g-1])
    BY <1>4, <1>8
  <2>2. Same(e[k].key, e[g-1].key) \/ Below(e[k].key, e[g-1].key)
    BY <2>1, FallsFacts, Zenon
  <2> QED
    BY <1>4, <1>5, <1>6, <2>2, FallsFacts, Zenon
<1> QED
  BY <1>4, <1>7, <1>8

\* A group more.
LEMMA FellFurther ==
    ASSUME NEW S, NEW e \in Seq(S), NEW i \in 1..Len(e), Distinct(e),
           Fell(e, S, GroupStart(e, i) - 1)
    PROVE  Fell(e, S, i)
<1> DEFINE g == GroupStart(e, i)
           b == SubSeq(e, g, i)
           r == Descended(e)[g - 1]
           c == b \o r
<1>1. i \in Nat /\ i # 0 /\ i \in 0..Len(e) /\ Len(e) \in Nat
  OBVIOUS
<1>2. g \in 1..i /\ \A j \in g..i : e[j].key = e[i].key
  BY <1>1, GroupStarts
<1>3. Descended(e)[i] = c
  BY <1>1, DescendRounds DEF DescendOne
<1>4. InOrder(e, S) => \A k \in 1..(g - 1) : Below(e[k].key, e[i].key)
  BY BelowGroup DEF InOrder
<1>5. /\ r \in Seq(S) /\ \A x : x \in ToSet(r) <=> \E k \in 1..(g - 1) : x = e[k]
      /\ Distinct(r)
      /\ InOrder(e, S) => \A x, y \in 1..Len(r) : x < y => Falls(r[x], r[y])
  BY Zenon DEF Fell
<1> HIDE DEF g
<1>6. /\ b \in Seq(S)
      /\ \A p \in 1..Len(b) : p + (g - 1) \in g..i /\ b[p] = e[p + (g - 1)]
      /\ \A k \in g..i : k - (g - 1) \in 1..Len(b) /\ b[k - (g - 1)] = e[k]
  BY <1>2, Stretch
<1> HIDE DEF b, r
<1>7. /\ c \in Seq(S)
      /\ \A x : x \in ToSet(c) <=> x \in ToSet(b) \/ x \in ToSet(r)
      /\ Parted(c, b, r)
  <2>1. b \in Seq(S) /\ r \in Seq(S)
    BY <1>5, <1>6
  <2>2. c = b \o r
    OBVIOUS
  <2> HIDE DEF c
  <2> QED
    BY <2>1, <2>2, ConcatPlaces, Zenon
<1> HIDE DEF c
<1>8. InOrder(e, S) => \A j \in 1..Len(e) : e[j] \in EntryType
  BY DEF InOrder
<1>9. \A j \in g..i : j \in 1..Len(e) /\ j \in 1..i
  BY <1>2
<1>10. \A j \in 1..(g - 1) : j \in 1..Len(e) /\ j \in 1..i
  BY <1>2
<1>11. \A j \in 1..i : j \in g..i \/ j \in 1..(g - 1)
  BY <1>2
<1>12. ASSUME NEW x PROVE x \in ToSet(c) <=> \E k \in 1..i : x = e[k]
  <2>1. x \in ToSet(b) <=> \E k \in g..i : x = e[k]
    <3>1. b \in Seq(S)
      BY <1>6
    <3>2. x \in ToSet(b) <=> \E p \in 1..Len(b) : x = b[p]
      BY <3>1, Members, Zenon
    <3> QED
      BY <1>6, <3>2, Zenon
  <2> QED
    BY <1>5, <1>7, <1>9, <1>10, <1>11, <2>1, Zenon
<1>13. ASSUME NEW x \in 1..Len(c), NEW y \in 1..Len(c), x < y
       PROVE  c[x] # c[y] /\ (InOrder(e, S) => Falls(c[x], c[y]))
  <2>1. CASE \E p, q \in 1..Len(b) : p < q /\ c[x] = b[p] /\ c[y] = b[q]
    <3>1. PICK p \in 1..Len(b), q \in 1..Len(b) : p < q /\ c[x] = b[p] /\ c[y] = b[q]
      BY <2>1, Zenon
    <3> DEFINE s == p + (g - 1)
               t == q + (g - 1)
    <3>2. /\ s \in g..i /\ t \in g..i /\ c[x] = e[s] /\ c[y] = e[t]
      BY <1>6, <3>1, Zenon
    <3>3. s < t
      <4>1. g \in Int /\ Len(b) \in Nat
        BY <1>2, <1>6
      <4> QED
        BY <3>1, <4>1
    <3> HIDE DEF s, t
    <3>4. s \in 1..Len(e) /\ t \in 1..Len(e) /\ e[s].key = e[t].key
      BY <1>2, <1>9, <3>2, Zenon
    <3>5. e[s] # e[t] /\ (InOrder(e, S) => Ascends(e[s], e[t]))
      BY <3>3, <3>4, Zenon DEF Distinct, InOrder
    <3> QED
      BY <1>8, <3>2, <3>4, <3>5, FallsFacts, Zenon
  <2>2. CASE \E p \in 1..Len(b), q \in 1..Len(r) : c[x] = b[p] /\ c[y] = r[q]
    <3>1. PICK p \in 1..Len(b), q \in 1..Len(r) : c[x] = b[p] /\ c[y] = r[q]
      BY <2>2, Zenon
    <3>2. PICK s \in g..i : c[x] = e[s]
      BY <1>6, <3>1, Zenon
    <3>3. r[q] \in ToSet(r)
      BY <1>5, Members, Zenon
    <3>4. PICK k \in 1..(g - 1) : c[y] = e[k]
      BY <1>5, <3>1, <3>3, Zenon
    <3>5. s \in 1..Len(e) /\ k \in 1..Len(e) /\ e[i].key = e[s].key
      BY <1>2, <1>9, <1>10, Zenon
    <3>6. k < s
      BY <1>2
    <3>7. e[s] # e[k]
      BY <3>5, <3>6, Zenon DEF Distinct
    <3>8. InOrder(e, S) => Below(e[k].key, e[i].key)
      BY <1>4, Zenon
    <3> QED
      BY <3>2, <3>4, <3>5, <3>7, <3>8, FallsFacts, Zenon
  <2>3. CASE \E p, q \in 1..Len(r) : p < q /\ c[x] = r[p] /\ c[y] = r[q]
    BY <1>5, <2>3, Zenon DEF Distinct
  <2> QED
    BY <1>7, <1>13, <2>1, <2>2, <2>3, Zenon DEF Parted
<1> QED
  BY <1>3, <1>7, <1>12, <1>13, Zenon DEF Fell, Distinct

LEMMA DescendSorts ==
    ASSUME NEW S, NEW e \in Seq(S), Distinct(e)
    PROVE  LET d == Descend(e)
           IN  /\ d \in Seq(S) /\ \A x : x \in ToSet(d) <=> x \in ToSet(e)
               /\ Distinct(d)
               /\ InOrder(e, S) => \A x, y \in 1..Len(d) : x < y => Falls(d[x], d[y])
<1> DEFINE n == Len(e)
           G == {j \in Nat : \A i \in 0..j : i \in 0..n => Fell(e, S, i)}
<1>1. n \in Nat /\ \A x : x \in ToSet(e) <=> \E k \in 1..n : x = e[k]
  BY Members, Zenon
<1>2. Fell(e, S, 0)
  <2>1. Descended(e)[0] = <<>>
    BY <1>1, DescendRounds DEF DescendOne
  <2>2. <<>> \in Seq(S) /\ Len(<<>>) = 0 /\ 1..0 = {} /\ ToSet(<<>>) = {}
    BY DEF ToSet
  <2> QED
    BY <2>1, <2>2 DEF Fell, Distinct
<1>3. 0 \in G
  BY <1>2
<1>4. ASSUME NEW j \in G, j < n PROVE j + 1 \in G
  <2>1. j \in Nat /\ j + 1 \in 1..n /\ j + 1 \in Nat /\ j + 1 # 0
    BY <1>1, <1>4
  <2>2. GroupStart(e, j + 1) \in 1..(j + 1)
    BY <2>1, GroupStarts
  <2>3. GroupStart(e, j + 1) - 1 \in 0..j /\ GroupStart(e, j + 1) - 1 \in 0..n
    BY <1>1, <1>4, <2>1, <2>2
  <2>4. Fell(e, S, GroupStart(e, j + 1) - 1)
    BY <2>3
  <2>5. Fell(e, S, j + 1)
    BY <2>1, <2>4, FellFurther
  <2>6. \A i \in 0..(j + 1) : i \in 0..j \/ i = j + 1
    BY <2>1
  <2> QED
    BY <2>1, <2>5, <2>6
<1>5. n \in G
  <2> HIDE DEF G
  <2>1. G \in SUBSET Nat
    BY DEF G
  <2> QED
    BY <1>1, <1>3, <1>4, <2>1, UpTo
<1>6. Fell(e, S, n)
  BY <1>1, <1>5
<1> QED
  BY <1>1, <1>6, Zenon DEF Fell, Descend

-----------------------------------------------------------------------------
(* The order of a field *)

Carriers(v, f) == {p \in DOMAIN v : Usable(v, p, f)}
EntryOf(v, f, p) == [path |-> p, key |-> v[p].fields[f].key]
ValuesIn(d, f) == {[path |-> d.path, key |-> o.key] : o \in {e \in d.ordered : e.field = f}}

LEMMA DocsIndexed ==
    ASSUME NEW v \in Vaults
    PROVE  \A d : d \in ToSet(VaultDocs(v)) <=> \E p \in DOMAIN v : d = Doc(v, p)
<1> DEFINE docs == VaultDocs(v)
           held == Held(v)
<1>1. /\ docs \in Seq(DocsOf(v)) /\ Len(docs) = Len(held)
      /\ \A i \in 1..Len(held) : held[i] \in DOMAIN v /\ docs[i] = Doc(v, held[i])
  BY DocsFacts, Zenon
<1>2. held \in Seq(Paths) /\ \A q : q \in ToSet(held) <=> q \in DOMAIN v
  BY HeldFacts, Zenon
<1> HIDE DEF docs, held
<1>3. \A x : x \in ToSet(held) <=> \E i \in 1..Len(held) : x = held[i]
  BY <1>2, Members, Zenon
<1>4. \A x : x \in ToSet(docs) <=> \E i \in 1..Len(docs) : x = docs[i]
  BY <1>1, Members, Zenon
<1>5. ASSUME NEW d, d \in ToSet(docs) PROVE \E p \in DOMAIN v : d = Doc(v, p)
  <2>1. PICK i \in 1..Len(docs) : d = docs[i]
    BY <1>4, <1>5, Zenon
  <2>2. held[i] \in DOMAIN v /\ d = Doc(v, held[i])
    BY <1>1, <2>1
  <2> QED
    BY <2>2
<1>6. ASSUME NEW d, NEW p \in DOMAIN v, d = Doc(v, p) PROVE d \in ToSet(docs)
  <2>1. PICK i \in 1..Len(held) : p = held[i]
    BY <1>2, <1>3, Zenon
  <2> QED
    BY <1>1, <1>4, <1>6, <2>1
<1>7. \A d : d \in ToSet(docs) <=> \E p \in DOMAIN v : d = Doc(v, p)
  <2>1. \A d : (\E p \in DOMAIN v : d = Doc(v, p)) => d \in ToSet(docs)
    <3> SUFFICES ASSUME NEW d, \E p \in DOMAIN v : d = Doc(v, p) PROVE d \in ToSet(docs)
      OBVIOUS
    <3>1. PICK p \in DOMAIN v : d = Doc(v, p)
      OBVIOUS
    <3> QED
      BY <1>6, <3>1
  <2> QED
    BY <1>5, <2>1
<1> QED
  BY <1>7, Zenon DEF docs

\* A document has one value of a field, if it has one that is usable.
LEMMA ValuesOf ==
    ASSUME NEW v, NEW p \in DOMAIN v, NEW f \in Orderable, NEW d, d = Doc(v, p)
    PROVE  \A x : x \in ValuesIn(d, f) <=> Usable(v, p, f) /\ x = EntryOf(v, f, p)
<1>1. /\ d.path = p
      /\ d.ordered = {[field |-> g, key |-> v[p].fields[g].key] :
                        g \in {h \in Orderable : Usable(v, p, h)}}
  BY DEF Doc
<1> DEFINE V == {e \in d.ordered : e.field = f}
<1>2. \A o : o \in V <=> Usable(v, p, f) /\ o = [field |-> f, key |-> v[p].fields[f].key]
  BY <1>1
<1> HIDE DEF V
<1>3. \A x : x \in {[path |-> d.path, key |-> o.key] : o \in V} <=>
          \E o \in V : x = [path |-> p, key |-> o.key]
  BY <1>1
<1>4. \A x : (\E o \in V : x = [path |-> p, key |-> o.key])
                <=> Usable(v, p, f) /\ x = EntryOf(v, f, p)
  <2> DEFINE k == v[p].fields[f].key
             o == [field |-> f, key |-> k]
  <2>1. o.key = k
    OBVIOUS
  <2>2. EntryOf(v, f, p) = [path |-> p, key |-> o.key]
    BY <2>1, Zenon DEF EntryOf
  <2>3. \A e : e \in V <=> Usable(v, p, f) /\ e = o
    BY <1>2
  <2> HIDE DEF o
  <2> QED
    BY <2>2, <2>3, Zenon
<1> QED
  BY <1>3, <1>4, Zenon DEF V, ValuesIn

LEMMA EntriesAre ==
    ASSUME NEW v \in Vaults, NEW f \in Orderable
    PROVE  Entries(VaultDocs(v), f) = {EntryOf(v, f, p) : p \in Carriers(v, f)}
<1> DEFINE docs == VaultDocs(v)
<1>1. ASSUME NEW p \in DOMAIN v, NEW x
      PROVE  x \in ValuesIn(Doc(v, p), f) <=> Usable(v, p, f) /\ x = EntryOf(v, f, p)
  <2> DEFINE d == Doc(v, p)
  <2>1. d = Doc(v, p)
    OBVIOUS
  <2> HIDE DEF d
  <2>2. x \in ValuesIn(d, f) <=> Usable(v, p, f) /\ x = EntryOf(v, f, p)
    BY <2>1, ValuesOf, Zenon
  <2> QED
    BY <2>2 DEF d
<1>2. \A d : d \in ToSet(docs) <=> \E p \in DOMAIN v : d = Doc(v, p)
  BY DocsIndexed, Zenon
<1>3. Entries(docs, f) = UNION {ValuesIn(d, f) : d \in ToSet(docs)}
  BY Zenon DEF Entries, ValuesIn
<1> HIDE DEF docs
<1>4. \A x : x \in Entries(docs, f) <=> \E d \in ToSet(docs) : x \in ValuesIn(d, f)
  BY <1>3
<1>5. \A x : x \in Entries(docs, f) <=> \E p \in Carriers(v, f) : x = EntryOf(v, f, p)
  BY <1>1, <1>2, <1>4, Zenon DEF Carriers
<1> QED
  BY <1>5 DEF docs

LEMMA PathsFinite == IsFiniteSet(Paths)
<1> DEFINE n == Len(Walk)
<1>1. n \in Nat /\ Walk \in [1..n -> Paths]
  BY WalkAssumption
<1>2. \A p \in Paths : \E i \in 1..n : Walk[i] = p
  <2>1. \A x : x \in ToSet(Walk) <=> \E i \in 1..n : x = Walk[i]
    BY WalkAssumption, Members, Zenon
  <2> QED
    BY <2>1, WalkAssumption
<1>3. Walk \in Surjection(1..n, Paths)
  BY <1>1, <1>2 DEF Surjection
<1>4. IsFiniteSet(1..n)
  BY <1>1, FS_Interval
<1> HIDE DEF n
<1> QED
  BY <1>3, <1>4, FS_Surjection, Zenon

LEMMA EntriesFinite ==
    ASSUME NEW v \in Vaults, NEW f \in Orderable
    PROVE  LET E == {EntryOf(v, f, p) : p \in Carriers(v, f)}
           IN  /\ IsFiniteSet(E)
               /\ Comparable(v, f) => E \in SUBSET EntryType /\ \A e \in E : e.key # NaN
<1> DEFINE C == Carriers(v, f)
           E == {EntryOf(v, f, p) : p \in C}
           g == [p \in C |-> EntryOf(v, f, p)]
<1>1. C \in SUBSET Paths
  BY VaultFacts DEF Carriers
<1>2. IsFiniteSet(C)
  <2> HIDE DEF C
  <2> QED
    BY <1>1, PathsFinite, FS_Subset, Zenon
<1>3. ASSUME Comparable(v, f), NEW p \in C PROVE EntryOf(v, f, p) \in EntryType
  <2>1. p \in Nat /\ v[p] \in Notes
    BY <1>1, VaultFacts, WalkAssumption DEF Carriers
  <2>2. v[p].fields[f].key # NaN
    BY <1>3 DEF Comparable, Carriers, Rank
  <2>3. v[p].fields[f].key \in (-Infinity)..Infinity \cup {NaN}
    BY <2>1, NotesAssumption
  <2>4. v[p].fields[f].key \in Int
    BY <2>2, <2>3
  <2> QED
    BY <2>1, <2>4 DEF EntryOf, EntryType
<1> HIDE DEF C
<1>4. g \in Surjection(C, E)
  BY DEF Surjection
<1>5. IsFiniteSet(E)
  <2> HIDE DEF g, E
  <2> QED
    BY <1>2, <1>4, FS_Surjection, Zenon
<1>6. \A e \in EntryType : e.key # NaN
  BY NumbersAssumption DEF EntryType
<1> HIDE DEF g
<1>7. Comparable(v, f) => E \in SUBSET EntryType /\ \A e \in E : e.key # NaN
  BY <1>3, <1>6
<1> QED
  BY <1>5, <1>7 DEF C

LEMMA ListIsSequence ==
    ASSUME NEW U, NEW n \in Nat, NEW r \in [1..n -> U]
    PROVE  r \in Seq(U) /\ DOMAIN r = 1..n
OBVIOUS

LEMMA EntryFields ==
    \A v, f, p : EntryOf(v, f, p).path = p /\ EntryOf(v, f, p).key = Rank(v, p, f)
BY DEF EntryOf, Rank

\* Sorted entries, by their paths: those of the documents that carry the field, in its order.
LEMMA PathsInOrder ==
    ASSUME NEW v \in Vaults, NEW f \in Orderable, f # "", NEW dir \in {"asc", "desc"},
           NEW E, E = {EntryOf(v, f, p) : p \in Carriers(v, f)},
           NEW s \in Seq(E), \A x : x \in ToSet(s) <=> x \in E, Distinct(s),
           Comparable(v, f) =>
               \A i, j \in 1..Len(s) :
                   i < j => IF dir = "asc" THEN Ascends(s[i], s[j]) ELSE Falls(s[i], s[j]),
           NEW r, r = PathsOf(s)
    PROVE  /\ r \in Seq(Paths) /\ IsInjective(r)
           /\ \A p \in Paths : p \in ToSet(r) <=> Carries(v, p, f)
           /\ Comparable(v, f) =>
               \A i, j \in DOMAIN r :
                   i < j => Precedes(v, r[i], r[j], [field |-> f, dir |-> dir])
<1>1. /\ \A x : x \in ToSet(s) <=> \E i \in 1..Len(s) : x = s[i]
      /\ DOMAIN s = 1..Len(s) /\ Len(s) \in Nat
  BY Members, Zenon
<1>2. r = [i \in 1..Len(s) |-> s[i].path]
  BY <1>1, Zenon DEF PathsOf
<1>3. ASSUME NEW i \in 1..Len(s)
      PROVE  r[i] \in Carriers(v, f) /\ s[i] = EntryOf(v, f, r[i])
  <2>1. s[i] \in E
    BY <1>1, Zenon
  <2>2. PICK p \in Carriers(v, f) : s[i] = EntryOf(v, f, p)
    BY <2>1
  <2>3. r[i] = s[i].path
    BY <1>2
  <2>4. EntryOf(v, f, p).path = p
    BY EntryFields, Zenon
  <2>5. r[i] = p
    BY <2>2, <2>3, <2>4
  <2> QED
    BY <2>2, <2>5
<1>4. ASSUME NEW p \in Carriers(v, f) PROVE \E i \in 1..Len(s) : p = r[i]
  <2>1. EntryOf(v, f, p) \in ToSet(s)
    BY Zenon
  <2>2. PICK i \in 1..Len(s) : EntryOf(v, f, p) = s[i]
    BY <1>1, <2>1, Zenon
  <2>3. r[i] = s[i].path
    BY <1>2
  <2>4. EntryOf(v, f, p).path = p
    BY EntryFields, Zenon
  <2>5. r[i] = p
    BY <2>2, <2>3, <2>4
  <2> QED
    BY <2>5
<1>5. \A p : p \in Carriers(v, f) <=> Carries(v, p, f)
  BY DEF Carries, Carriers
<1>6. Carriers(v, f) \subseteq Paths
  BY VaultFacts DEF Carriers
<1>7. r \in Seq(Paths) /\ DOMAIN r = 1..Len(s)
  <2>1. \A i \in 1..Len(s) : r[i] \in Paths
    BY <1>3, <1>6
  <2> DEFINE n == Len(s)
  <2>2. r \in [1..n -> Paths]
    BY <1>2, <2>1
  <2>3. n \in Nat
    BY <1>1
  <2> HIDE DEF n
  <2>4. r \in Seq(Paths) /\ DOMAIN r = 1..n
    BY <2>2, <2>3, ListIsSequence, Zenon
  <2> QED
    BY <2>4 DEF n
<1>8. \A p : p \in ToSet(r) <=> \E i \in 1..Len(s) : p = r[i]
  BY <1>7, Zenon DEF ToSet
<1>9. ASSUME NEW p PROVE p \in ToSet(r) <=> Carries(v, p, f)
  <2>1. (\E i \in 1..Len(s) : p = r[i]) => p \in Carriers(v, f)
    BY <1>3
  <2> QED
    BY <1>4, <1>5, <1>8, <2>1, Zenon
<1>10. ASSUME Comparable(v, f), NEW i \in 1..Len(s), NEW j \in 1..Len(s), i < j
       PROVE  Precedes(v, r[i], r[j], [field |-> f, dir |-> dir])
  <2> DEFINE o == [field |-> f, dir |-> dir]
  <2>1. o.field = f /\ o.dir = dir
    OBVIOUS
  <2>2. Carries(v, r[i], f) /\ Carries(v, r[j], f)
    BY <1>3, <1>5, Zenon
  <2>3. /\ s[i].path = r[i] /\ s[i].key = Rank(v, r[i], f)
        /\ s[j].path = r[j] /\ s[j].key = Rank(v, r[j], f)
    <3>1. ASSUME NEW k \in 1..Len(s) PROVE s[k].path = r[k] /\ s[k].key = Rank(v, r[k], f)
      <4>1. s[k] = EntryOf(v, f, r[k])
        BY <1>3
      <4>2. EntryOf(v, f, r[k]).path = r[k] /\ EntryOf(v, f, r[k]).key = Rank(v, r[k], f)
        BY EntryFields, Zenon
      <4> QED
        BY <4>1, <4>2
    <3> QED
      BY <3>1
  <2>4. IF dir = "asc" THEN Ascends(s[i], s[j]) ELSE Falls(s[i], s[j])
    BY <1>10
  <2>5. \/ IF dir = "asc" THEN Below(Rank(v, r[i], f), Rank(v, r[j], f))
           ELSE Below(Rank(v, r[j], f), Rank(v, r[i], f))
        \/ Same(Rank(v, r[i], f), Rank(v, r[j], f)) /\ r[i] < r[j]
    BY <2>3, <2>4, Zenon DEF Ascends, Falls
  <2> HIDE DEF o
  <2>6. Precedes(v, r[i], r[j], o)
    BY <2>1, <2>2, <2>5, Zenon DEF Precedes
  <2> QED
    BY <2>6 DEF o
<1>11. ASSUME NEW i \in 1..Len(s), NEW j \in 1..Len(s), r[i] = r[j] PROVE i = j
  <2>1. s[i] = s[j]
    BY <1>3, <1>11, Zenon
  <2>2. ~(i < j) /\ ~(j < i)
    BY <2>1, Zenon DEF Distinct
  <2>3. i \in Int /\ j \in Int
    BY <1>1, UpToAreIntegers, Zenon
  <2> QED
    BY <2>2, <2>3, OneIsLess, Zenon
<1>12. IsInjective(r)
  BY <1>7, <1>11, Zenon DEF IsInjective
<1> QED
  BY <1>7, <1>9, <1>10, <1>12, Zenon

\* Without a limit everything is answered.
LEMMA NotCapped == \A s : Capped(s, 0) = s
BY DEF Capped

\* Sorting puts every entry in one place: it is all of a finite set, in as many places.
LEMMA SortedOnce ==
    ASSUME NEW E, IsFiniteSet(E), NEW s \in Sorts(E)
    PROVE  s \in Seq(E) /\ (\A x : x \in ToSet(s) <=> x \in E) /\ Distinct(s)
<1> DEFINE n == Cardinality(E)
<1>1. n \in Nat
  BY FS_CardinalityType
<1>2. s \in [1..n -> E] /\ ToSet(s) = E
  BY Zenon DEF Sorts
<1>3. IsFiniteSet(1..n) /\ Cardinality(1..n) = n
  BY <1>1, FS_Interval
<1>4. s \in Surjection(1..n, E)
  <2>1. DOMAIN s = 1..n
    BY <1>2
  <2>2. \A x \in E : \E i \in 1..n : s[i] = x
    BY <1>2, <2>1 DEF ToSet
  <2> HIDE DEF n
  <2> QED
    BY <1>2, <2>2 DEF Surjection
<1>5. s \in Injection(1..n, E)
  BY <1>3, <1>4, FS_SurjSameCardinalityImpliesInj, Zenon
<1> HIDE DEF n
<1>6. s \in Seq(E) /\ Len(s) = n
  BY <1>1, <1>2
<1>7. \A x, y \in 1..n : s[x] = s[y] => x = y
  BY <1>5 DEF Injection, IsInjective
<1>8. Distinct(s)
  <2> SUFFICES ASSUME NEW x \in 1..n, NEW y \in 1..n, x < y PROVE x # y
    BY <1>6, <1>7, Zenon DEF Distinct
  <2> QED
    BY <1>1
<1> QED
  BY <1>2, <1>6, <1>8, Zenon

LEMMA OrderedSorts ==
    ASSUME Indexed, NEW f \in Orderable, f # "", NEW dir \in {"asc", "desc"}
    PROVE  LET sorted == OrderedMemory(f, dir, 0)
               o == [field |-> f, dir |-> dir]
           IN  /\ sorted \in Seq(Paths) /\ IsInjective(sorted)
               /\ \A p \in Paths : p \in ToSet(sorted) <=> Carries(vault, p, f)
               /\ Comparable(vault, f) =>
                   \A i, j \in DOMAIN sorted : i < j => Precedes(vault, sorted[i], sorted[j], o)
<1> DEFINE E == {EntryOf(vault, f, p) : p \in Carriers(vault, f)}
           asc == memory.ord[f]
           s == IF dir = "desc" THEN Descend(asc) ELSE asc
           sorted == OrderedMemory(f, dir, 0)
<1>1. vault \in Vaults /\ asc \in Sorts(Entries(VaultDocs(vault), f))
  BY IndexParts
<1>2. asc \in Sorts(E)
  <2>1. Entries(VaultDocs(vault), f) = E
    BY <1>1, EntriesAre, Zenon
  <2> HIDE DEF E
  <2> QED
    BY <1>1, <2>1, Zenon
<1>3. /\ IsFiniteSet(E)
      /\ Comparable(vault, f) => E \in SUBSET EntryType /\ \A e \in E : e.key # NaN
  BY <1>1, EntriesFinite, Zenon
<1>4. sorted = PathsOf(s)
  BY NotCapped, Zenon DEF OrderedMemory
<1>5. E = {EntryOf(vault, f, p) : p \in Carriers(vault, f)}
  OBVIOUS
<1> HIDE DEF E, asc
<1>6. asc \in Seq(E) /\ (\A x : x \in ToSet(asc) <=> x \in E) /\ Distinct(asc)
  BY <1>2, <1>3, SortedOnce, Zenon
<1>7. Comparable(vault, f) => InOrder(asc, E)
  <2>1. DOMAIN asc = 1..Len(asc)
    BY <1>6, Members, Zenon
  <2>2. (\A e \in E : e.key # NaN) =>
            \A i, j \in DOMAIN asc : i < j => Ascends(asc[i], asc[j])
    BY <1>2, Zenon DEF Sorts
  <2> QED
    BY <1>3, <2>1, <2>2, Zenon DEF InOrder
<1>8. /\ Descend(asc) \in Seq(E) /\ \A x : x \in ToSet(Descend(asc)) <=> x \in ToSet(asc)
      /\ Distinct(Descend(asc))
      /\ InOrder(asc, E) =>
          \A i, j \in 1..Len(Descend(asc)) : i < j => Falls(Descend(asc)[i], Descend(asc)[j])
  BY <1>6, DescendSorts, Zenon
<1>9. /\ s \in Seq(E) /\ (\A x : x \in ToSet(s) <=> x \in E) /\ Distinct(s)
      /\ Comparable(vault, f) =>
          \A i, j \in 1..Len(s) :
              i < j => IF dir = "asc" THEN Ascends(s[i], s[j]) ELSE Falls(s[i], s[j])
  <2>1. CASE dir = "desc"
    <3>1. s = Descend(asc) /\ dir # "asc"
      BY <2>1
    <3> HIDE DEF s
    <3> QED
      BY <1>6, <1>7, <1>8, <3>1, Zenon
  <2>2. CASE dir = "asc"
    <3>1. s = asc
      BY <2>2
    <3> HIDE DEF s
    <3> QED
      BY <1>6, <1>7, <2>2, <3>1, Zenon DEF InOrder
  <2> QED
    BY <2>1, <2>2
<1> HIDE DEF s, sorted
<1>10. /\ sorted \in Seq(Paths) /\ IsInjective(sorted)
       /\ \A p \in Paths : p \in ToSet(sorted) <=> Carries(vault, p, f)
       /\ Comparable(vault, f) =>
           \A i, j \in DOMAIN sorted :
               i < j => Precedes(vault, sorted[i], sorted[j], [field |-> f, dir |-> dir])
  BY <1>1, <1>4, <1>5, <1>9, PathsInOrder, Zenon
<1> QED
  BY <1>10, Zenon DEF sorted

\* The index of a vault answers as its notes say.
LEMMA IndexAnswers == ASSUME Indexed PROVE MemoryAnswers
BY EnumerateFinds, OrderedSorts, Zenon DEF MemoryAnswers

-----------------------------------------------------------------------------
(* The ladybug backend *)

\* The last note in the walk that declares an alias.
LEMMA LastNamer ==
    ASSUME NEW v \in Vaults, NEW N, NEW held, held = Held(v), NEW r, r = Among(held, N)
    PROVE  IF r = <<>> THEN \A i \in 1..Len(held) : held[i] \notin N
           ELSE \E i \in 1..Len(held) : /\ held[i] \in N /\ held[i] = Last(r)
                                       /\ \A j \in 1..Len(held) : i < j => held[j] \notin N
<1> DEFINE n == Len(held)
<1>1. held \in Seq(Paths) /\ IsInjective(held)
  BY HeldFacts
<1>2. r \in Seq(Paths) /\ Subsequence(r, held, N, n)
  BY <1>1, AmongIsSubsequence, Zenon
<1>3. /\ DOMAIN held = 1..n /\ n \in Nat
      /\ DOMAIN r = 1..Len(r) /\ Len(r) \in Nat
  BY <1>1, <1>2, Members, Zenon
<1> HIDE DEF n
<1>4. /\ \A x \in 1..Len(r) : r[x] \in N /\ \E a \in 1..n : r[x] = held[a]
      /\ \A a \in 1..n : held[a] \in N => \E x \in 1..Len(r) : r[x] = held[a]
      /\ \A x, y \in 1..Len(r) :
            x < y => \E a, b \in 1..n : a < b /\ r[x] = held[a] /\ r[y] = held[b]
  BY <1>2, Zenon DEF Subsequence
<1>5. \A a, b \in 1..n : held[a] = held[b] => a = b
  BY <1>1, <1>3, Zenon DEF IsInjective
<1>6. CASE r = <<>>
  <2>1. 1..Len(r) = {}
    BY <1>6
  <2>2. \A i \in 1..n : held[i] \notin N
    BY <1>4, <2>1
  <2> QED
    BY <1>6, <2>2, Zenon DEF n
<1>7. CASE r # <<>>
  <2> DEFINE m == Len(r)
  <2>1. m \in 1..m /\ r[m] = Last(r) /\ \A x \in 1..m : x = m \/ x < m
    <3>1. m # 0 /\ m \in Nat
      BY <1>2, <1>7
    <3> HIDE DEF m
    <3>2. m \in 1..m /\ \A x \in 1..m : x = m \/ x < m
      BY <3>1
    <3> QED
      BY <3>2, Zenon DEF Last, m
  <2> HIDE DEF m
  <2>2. PICK i \in 1..n : r[m] = held[i]
    BY <1>4, <2>1, Zenon DEF m
  <2>3. held[i] \in N
    BY <1>4, <2>1, <2>2, Zenon DEF m
  <2>4. ASSUME NEW j \in 1..n, i < j, held[j] \in N PROVE FALSE
    <3>1. PICK x \in 1..m : r[x] = held[j]
      BY <1>4, <2>4, Zenon DEF m
    <3>2. i \in Int /\ j \in Int /\ i # j
      BY <1>3, <2>4
    <3>3. x # m
      BY <1>5, <2>2, <3>1, <3>2, Zenon
    <3>4. PICK a \in 1..n, b \in 1..n : a < b /\ r[x] = held[a] /\ r[m] = held[b]
      BY <1>4, <2>1, <3>3, Zenon DEF m
    <3>5. a = j /\ b = i
      BY <1>5, <2>2, <3>1, <3>4, Zenon
    <3> QED
      BY <2>4, <3>2, <3>4, <3>5
  <2>5. \E k \in 1..n : /\ held[k] \in N /\ held[k] = Last(r)
                        /\ \A j \in 1..n : k < j => held[j] \notin N
    BY <2>1, <2>2, <2>3, <2>4, Zenon
  <2> QED
    BY <1>7, <2>5, Zenon DEF n
<1> QED
  BY <1>6, <1>7

\* What the node of an alias is left with.
Canons(docs, k) == {a.canon : a \in {b \in AliasRows(docs) : b.nk = k}}

\* The document i is the last that writes the alias k.
Writes(docs, k, i) ==
    k \in AliasKeys(docs[i]) /\ \A j \in DOMAIN docs : i < j => k \notin AliasKeys(docs[j])

LeadsTo(docs, k, c) == \E i \in DOMAIN docs : Writes(docs, k, i) /\ c = Key[docs[i].title]

LEMMA AliasRowsAre ==
    ASSUME NEW docs, NEW k, NEW c
    PROVE  c \in Canons(docs, k) <=> LeadsTo(docs, k, c)
<1> DEFINE Lasts(i) == {a \in AliasKeys(docs[i]) :
                          \A j \in DOMAIN docs : i < j => a \notin AliasKeys(docs[j])}
           Row(i, l) == [nk |-> l, canon |-> Key[docs[i].title]]
<1>1. \A b : b \in AliasRows(docs) <=> \E i \in DOMAIN docs : \E l \in Lasts(i) : b = Row(i, l)
  <2>1. AliasRows(docs) = UNION {{Row(i, l) : l \in Lasts(i)} : i \in DOMAIN docs}
    BY Zenon DEF AliasRows
  <2> HIDE DEF Lasts, Row
  <2> QED
    BY <2>1
<1>2. \A i, l : Row(i, l).nk = l /\ Row(i, l).canon = Key[docs[i].title]
  OBVIOUS
<1>3. \A i : k \in Lasts(i) <=> Writes(docs, k, i)
  BY DEF Writes
<1> HIDE DEF Lasts, Row
<1>4. c \in Canons(docs, k) <=> \E a \in AliasRows(docs) : a.nk = k /\ c = a.canon
  BY DEF Canons
<1>5. ASSUME NEW a \in AliasRows(docs), a.nk = k, c = a.canon
      PROVE  \E i \in DOMAIN docs : k \in Lasts(i) /\ c = Key[docs[i].title]
  <2>1. PICK i \in DOMAIN docs : \E l \in Lasts(i) : a = Row(i, l)
    BY <1>1
  <2>2. PICK l \in Lasts(i) : a = Row(i, l)
    BY <2>1
  <2>3. l = k /\ c = Key[docs[i].title]
    BY <1>2, <1>5, <2>2
  <2> QED
    BY <2>2, <2>3
<1>6. ASSUME NEW i \in DOMAIN docs, k \in Lasts(i), c = Key[docs[i].title]
      PROVE  \E a \in AliasRows(docs) : a.nk = k /\ c = a.canon
  <2>1. Row(i, k) \in AliasRows(docs)
    BY <1>1, <1>6
  <2>2. Row(i, k).nk = k /\ c = Row(i, k).canon
    BY <1>2, <1>6
  <2> QED
    BY <2>1, <2>2
<1> QED
  BY <1>3, <1>4, <1>5, <1>6, Zenon DEF LeadsTo

\* So an alias leads to the same key as in the memory backend.
LEMMA GraphAliasIsCanon ==
    ASSUME NEW v \in Vaults, NEW s \in Spellings
    PROVE  LET C == Canons(VaultDocs(v), Key[s])
           IN  (IF C # {} THEN CHOOSE c \in C : TRUE ELSE Key[s]) = Canon(v, s)
<1> DEFINE docs == VaultDocs(v)
           held == Held(v)
           k == Key[s]
           N == Namers(v, s)
           n == Len(held)
           r == Among(held, N)
           C == Canons(docs, k)
           Final(i) == held[i] \in N /\ \A j \in 1..n : i < j => held[j] \notin N
<1>1. /\ n \in Nat /\ DOMAIN docs = 1..n
      /\ \A i \in 1..n : held[i] \in DOMAIN v /\ docs[i] = Doc(v, held[i])
  BY DocsFacts, Zenon
<1>2. IF r = <<>> THEN \A i \in 1..n : held[i] \notin N
      ELSE \E i \in 1..n : /\ held[i] \in N /\ held[i] = Last(r)
                           /\ \A j \in 1..n : i < j => held[j] \notin N
  BY LastNamer, Zenon
<1>3. Canon(v, s) = IF r = <<>> THEN k ELSE Key[v[Last(r)].title]
  BY Zenon DEF Canon, Namers
<1>4. ASSUME NEW c
      PROVE  c \in C <=> \E i \in 1..n :
                            Writes(docs, k, i) /\ c = Key[docs[i].title]
  <2>1. DOMAIN docs = 1..n
    BY <1>1
  <2>2. c \in C <=> LeadsTo(docs, k, c)
    BY AliasRowsAre, Zenon
  <2> HIDE DEF docs, n, C, k
  <2> QED
    BY <2>1, <2>2 DEF LeadsTo
<1>5. ASSUME NEW i \in 1..n
      PROVE  /\ k \in AliasKeys(docs[i]) <=> held[i] \in N
             /\ Key[docs[i].title] = Key[v[held[i]].title]
  BY <1>1, NamersAreIndexed, Zenon
<1> HIDE DEF docs, held, k, N, n, r, C
<1>6. \A c : c \in C <=> \E i \in 1..n : Final(i) /\ c = Key[v[held[i]].title]
  <2>1. ASSUME NEW i \in 1..n
        PROVE  Final(i) <=> Writes(docs, k, i)
    BY <1>1, <1>5, Zenon DEF Writes
  <2> HIDE DEF Final
  <2> QED
    BY <1>4, <1>5, <2>1
<1>7. \A i, j \in 1..n : Final(i) /\ Final(j) => i = j
  <2>1. \A i, j \in 1..n : i # j => i < j \/ j < i
    BY <1>1
  <2> QED
    BY <2>1, Zenon
<1>8. CASE r = <<>>
  <2>1. C = {}
    BY <1>2, <1>6, <1>8
  <2> QED
    BY <1>3, <1>8, <2>1 DEF C, k, docs
<1>9. CASE r # <<>>
  <2>1. PICK i \in 1..n : Final(i) /\ held[i] = Last(r)
    BY <1>2, <1>9, Zenon
  <2> DEFINE x == Key[v[held[i]].title]
  <2>2. \A c : c \in C <=> c = x
    BY <1>6, <1>7, <2>1, Zenon
  <2> HIDE DEF x
  <2>3. C = {x}
    BY <2>2
  <2>4. C # {} /\ (CHOOSE c \in C : TRUE) = x
    BY <2>3
  <2>5. Canon(v, s) = x
    BY <1>3, <1>9, <2>1 DEF x
  <2> QED
    BY <2>4, <2>5 DEF C, k, docs
<1> QED
  BY <1>8, <1>9

\* Two sequences of the same members in the order R are the same, as far as the first goes.
LEMMA SameSoFar ==
    ASSUME NEW U, NEW R, \A x, y : ~(<<x, y>> \in R /\ <<y, x>> \in R),
           NEW r \in Seq(U), NEW s \in Seq(U), \A x : x \in ToSet(r) <=> x \in ToSet(s),
           \A i, j \in 1..Len(r) : i < j => <<r[i], r[j]>> \in R,
           \A i, j \in 1..Len(s) : i < j => <<s[i], s[j]>> \in R
    PROVE  \A i \in 1..Len(r) : i \in 1..Len(s) /\ r[i] = s[i]
<1> DEFINE m == Len(r)
           n == Len(s)
           G == {j \in Nat : \A i \in 1..j : i \in 1..m => i \in 1..n /\ r[i] = s[i]}
<1>1. /\ \A x : x \in ToSet(r) <=> \E i \in 1..m : x = r[i]
      /\ \A x : x \in ToSet(s) <=> \E i \in 1..n : x = s[i]
      /\ m \in Nat /\ n \in Nat
  BY Members, Zenon
<1>2. \A x : ~(<<x, x>> \in R)
  OBVIOUS
<1>3. \A i, j \in 1..m : i < j => r[i] # r[j]
  BY <1>2, Zenon
<1>4. \A i, j \in 1..n : i < j => s[i] # s[j]
  BY <1>2, Zenon
<1>5. /\ \A i \in 1..m : \E k \in 1..n : r[i] = s[k]
      /\ \A i \in 1..n : \E k \in 1..m : s[i] = r[k]
  BY <1>1, Zenon
<1> HIDE DEF m, n
<1>6. 0 \in G
  OBVIOUS
<1>7. ASSUME NEW j \in G, j < m PROVE j + 1 \in G
  <2> DEFINE i == j + 1
  <2>1. j \in Nat /\ i \in Nat /\ i \in 1..m /\ \A k \in 1..i : k \in 1..j \/ k = i
    BY <1>1, <1>7
  <2>2. \A k \in 1..j : k \in 1..m /\ k \in 1..n /\ r[k] = s[k] /\ k < i
    BY <1>1, <1>7
  <2>3. PICK k \in 1..n : r[i] = s[k]
    BY <1>5, <2>1
  <2> HIDE DEF i
  <2>4. k \notin 1..j
    BY <1>3, <2>1, <2>2, <2>3, Zenon
  <2>5. i \in 1..n /\ (k = i \/ i < k)
    BY <1>1, <2>1, <2>3, <2>4 DEF i
  <2>6. PICK l \in 1..m : s[i] = r[l]
    BY <1>5, <2>5
  <2>7. l \notin 1..j
    BY <1>4, <2>2, <2>5, <2>6, Zenon
  <2>8. l = i \/ i < l
    BY <1>1, <2>1, <2>6, <2>7 DEF i
  <2>9. r[i] = s[i]
    <3>1. ASSUME i < k, i < l PROVE FALSE
      <4>1. <<r[i], r[l]>> \in R /\ <<s[i], s[k]>> \in R
        BY <2>1, <2>5, <3>1 DEF m, n
      <4> QED
        BY <2>3, <2>6, <4>1
    <3> QED
      BY <2>3, <2>5, <2>6, <2>8, <3>1
  <2> QED
    BY <2>1, <2>2, <2>5, <2>9 DEF i
<1>8. m \in G
  <2> HIDE DEF G
  <2>1. G \in SUBSET Nat
    BY DEF G
  <2> QED
    BY <1>1, <1>6, <1>7, <2>1, UpTo
<1>9. \A i \in 1..m : i \in 1..n /\ r[i] = s[i]
  BY <1>8
<1> QED
  BY <1>9 DEF m, n

LEMMA SameInOrder ==
    ASSUME NEW U, NEW R, \A x, y : ~(<<x, y>> \in R /\ <<y, x>> \in R),
           NEW r \in Seq(U), NEW s \in Seq(U), \A x : x \in ToSet(r) <=> x \in ToSet(s),
           \A i, j \in 1..Len(r) : i < j => <<r[i], r[j]>> \in R,
           \A i, j \in 1..Len(s) : i < j => <<s[i], s[j]>> \in R
    PROVE  r = s
<1>1. \A i \in 1..Len(r) : i \in 1..Len(s) /\ r[i] = s[i]
  BY SameSoFar
<1>2. \A i \in 1..Len(s) : i \in 1..Len(r)
  BY SameSoFar
<1>3. Len(r) = Len(s)
  <2> DEFINE m == Len(r)
             n == Len(s)
  <2>1. m \in Nat /\ n \in Nat
    OBVIOUS
  <2> HIDE DEF m, n
  <2>2. (m # 0 => m \in 1..m) /\ (n # 0 => n \in 1..n)
    BY <2>1
  <2>3. (m # 0 => m \in 1..n) /\ (n # 0 => n \in 1..m)
    BY <1>1, <1>2, <2>2, Zenon DEF m, n
  <2>4. m = n
    BY <2>1, <2>3
  <2> QED
    BY <2>4 DEF m, n
<1> QED
  BY <1>1, <1>3

\* The order of an answer, as a relation.
LEMMA NeverBothWays ==
    ASSUME NEW v \in Vaults, NEW p \in Paths, NEW q \in Paths, NEW o, o.field \in Orderable
    PROVE  ~(Precedes(v, p, q, o) /\ Precedes(v, q, p, o))
<1> SUFFICES ASSUME Precedes(v, p, q, o), Precedes(v, q, p, o) PROVE FALSE
  OBVIOUS
<1> DEFINE a == Rank(v, p, o.field)
           b == Rank(v, q, o.field)
<1>1. p \in DOMAIN v /\ q \in DOMAIN v
  BY Zenon DEF Precedes, Carries
<1>2. v[p] \in Notes /\ v[q] \in Notes /\ p \in Nat /\ q \in Nat
  BY <1>1, VaultFacts, WalkAssumption
<1>3. a \in Int \cup {NaN} /\ b \in Int \cup {NaN}
  BY <1>2, NotesAssumption, NumbersAssumption DEF Rank
<1>4. /\ (IF o.dir = "asc" THEN Below(a, b) ELSE Below(b, a)) \/ (Same(a, b) /\ p < q)
      /\ (IF o.dir = "asc" THEN Below(b, a) ELSE Below(a, b)) \/ (Same(b, a) /\ q < p)
  BY Zenon DEF Precedes
<1> HIDE DEF a, b
<1>5. a \in Int /\ b \in Int
  BY <1>3, <1>4 DEF Below, Same
<1> QED
  BY <1>2, <1>4, <1>5 DEF Below, Same

\* The two orders of a query are those of the index and of the walk backwards over it.
LEMMA BeforeIs ==
    \A dir \in {"asc", "desc"} : \A a, b \in EntryType :
        Before(dir, a, b) <=> IF dir = "asc" THEN Ascends(a, b) ELSE Falls(a, b)
<1> SUFFICES ASSUME NEW dir \in {"asc", "desc"}, NEW a \in EntryType, NEW b \in EntryType
             PROVE  Before(dir, a, b) <=> IF dir = "asc" THEN Ascends(a, b) ELSE Falls(a, b)
  OBVIOUS
<1>1. a.key # NaN /\ b.key # NaN
  BY NumbersAssumption DEF EntryType
<1> QED
  BY <1>1 DEF Before, Ascends, Falls, Below, Same

LEMMA FallsIsStrict == \A a \in EntryType : ~Falls(a, a)
BY DEF EntryType, Falls, Below, Same

\* A sequence of all members of a set, each once, is as long as the set is large.
LEMMA OnceEach ==
    ASSUME NEW E, NEW s \in Seq(E), \A x : x \in ToSet(s) <=> x \in E, Distinct(s)
    PROVE  s \in [1..Cardinality(E) -> E] /\ Len(s) = Cardinality(E)
<1> DEFINE n == Len(s)
<1>1. /\ n \in Nat /\ s \in [1..n -> E]
      /\ \A x : x \in ToSet(s) <=> \E i \in 1..n : x = s[i]
  BY Members
<1>2. \A x \in E : \E i \in 1..n : s[i] = x
  BY <1>1
<1>3. \A i, j \in 1..n : s[i] = s[j] => i = j
  <2>1. \A i, j \in 1..n : i # j => i < j \/ j < i
    BY <1>1
  <2> QED
    BY <2>1, Zenon DEF Distinct
<1> HIDE DEF n
<1>4. s \in Bijection(1..n, E)
  <2>1. s \in Injection(1..n, E)
    BY <1>1, <1>3 DEF Injection, IsInjective
  <2>2. s \in Surjection(1..n, E)
    BY <1>1, <1>2 DEF Surjection
  <2> QED
    BY <2>1, <2>2 DEF Bijection
<1>5. IsFiniteSet(1..n) /\ Cardinality(1..n) = n
  BY <1>1, FS_Interval
<1>6. ExistsBijection(1..n, E)
  BY <1>4 DEF ExistsBijection
<1>7. Cardinality(E) = n
  BY <1>5, <1>6, FS_Bijection
<1> QED
  BY <1>1, <1>7 DEF n

\* What a query answers is in its order.
LEMMA QuerySorts ==
    ASSUME NEW E \in SUBSET EntryType, IsFiniteSet(E), NEW dir \in {"asc", "desc"},
           NEW s, s = OrderedBy(E, dir)
    PROVE  /\ s \in Seq(E) /\ (\A x : x \in ToSet(s) <=> x \in E) /\ Distinct(s)
           /\ \A i, j \in 1..Len(s) :
                 i < j => IF dir = "asc" THEN Ascends(s[i], s[j]) ELSE Falls(s[i], s[j])
<1> DEFINE n == Cardinality(E)
<1>1. PICK asc \in Seq(E) : /\ \A x : x \in ToSet(asc) <=> x \in E
                           /\ \A i, j \in 1..Len(asc) : i < j => Ascends(asc[i], asc[j])
  BY AscentExists
<1> DEFINE w == IF dir = "asc" THEN asc ELSE Descend(asc)
<1>2. /\ Descend(asc) \in Seq(E) /\ \A x : x \in ToSet(Descend(asc)) <=> x \in ToSet(asc)
      /\ \A i, j \in 1..Len(Descend(asc)) : i < j => Falls(Descend(asc)[i], Descend(asc)[j])
  <2>1. \A i \in 1..Len(asc) : asc[i] \in EntryType
    OBVIOUS
  <2>2. Distinct(asc) /\ InOrder(asc, E)
    BY <1>1, <2>1, AscendsIsOrder, Zenon DEF Distinct, InOrder
  <2> QED
    BY <2>2, DescendSorts, Zenon
<1>3. /\ w \in Seq(E) /\ \A x : x \in ToSet(w) <=> x \in E
      /\ \A i, j \in 1..Len(w) : i < j => Before(dir, w[i], w[j])
  <2>3. \A d \in Seq(E) : \A i \in 1..Len(d) : d[i] \in EntryType
    OBVIOUS
  <2>1. CASE dir = "asc"
    <3>1. w = asc
      BY <2>1
    <3> HIDE DEF w
    <3> QED
      BY <1>1, <2>1, <2>3, <3>1, BeforeIs, Zenon
  <2>2. CASE dir # "asc"
    <3>1. w = Descend(asc)
      BY <2>2
    <3> HIDE DEF w
    <3> QED
      BY <1>1, <1>2, <2>2, <2>3, <3>1, BeforeIs, Zenon
  <2> QED
    BY <2>1, <2>2
<1> HIDE DEF w
<1>4. \A a \in E : ~Before(dir, a, a)
  <2>1. \A a \in E : a \in EntryType
    OBVIOUS
  <2> QED
    BY <2>1, BeforeIs, AscendsIsOrder, FallsIsStrict, Zenon
<1>5. /\ DOMAIN w = 1..Len(w) /\ \A i \in 1..Len(w) : w[i] \in E
  BY <1>3
<1>6. w \in [1..n -> E] /\ Len(w) = n
  <2>1. Distinct(w)
    BY <1>3, <1>4, <1>5, Zenon DEF Distinct
  <2> QED
    BY <1>3, <2>1, OnceEach, Zenon
<1>7. n \in Nat
  BY FS_CardinalityType
<1>8. \E r \in [1..n -> E] : ToSet(r) = E /\ \A i, j \in DOMAIN r : i < j => Before(dir, r[i], r[j])
  <2>1. ToSet(w) = E
    BY <1>3
  <2> QED
    BY <1>3, <1>5, <1>6, <2>1, Zenon
<1>9. /\ s \in [1..n -> E] /\ ToSet(s) = E
      /\ \A i, j \in DOMAIN s : i < j => Before(dir, s[i], s[j])
  BY <1>8, Zenon DEF OrderedBy
<1> HIDE DEF n
<1>10. s \in Seq(E) /\ DOMAIN s = 1..Len(s)
  <2>1. s \in Seq(E)
    BY <1>7, <1>9, ListIsSequence, Zenon
  <2> QED
    BY <2>1
<1>11. \A i \in 1..Len(s) : s[i] \in E /\ s[i] \in EntryType
  BY <1>10
<1>12. Distinct(s)
  BY <1>4, <1>9, <1>10, <1>11, Zenon DEF Distinct
<1>13. \A x : x \in ToSet(s) <=> x \in E
  BY <1>9
<1> QED
  BY <1>9, <1>10, <1>11, <1>12, <1>13, BeforeIs, Zenon

-----------------------------------------------------------------------------
(* What a rebuild leaves in the graph *)

PairsOf(docs) ==
    UNION {UNION {{<<d.path, dim, k>> : k \in ValueKeys(d, dim)} : dim \in Dimensions} :
             d \in ToSet(docs)}
ValueRows(docs) ==
    {[dim |-> e[2], nk |-> e[3], disp |-> Display(docs, e[2], e[3])] : e \in PairsOf(docs)}
OrdinalRows(docs) ==
    UNION {{[path |-> d.path, field |-> o.field, key |-> o.key] : o \in d.ordered} : d \in ToSet(docs)}

\* The graph holds what it should of the documents.
Graphed(docs) ==
    /\ graph.hasValue = PairsOf(docs) /\ graph.values = ValueRows(docs)
    /\ graph.aliases = AliasRows(docs) /\ graph.ordinals = OrdinalRows(docs)

LEMMA MergedIntoNothing == \A rows, id : Merge({}, rows, id) = rows
BY DEF Merge

LEMMA RebuildGraphs ==
    ASSUME NEW docs, graph' = Rebuilt(docs)
    PROVE  Graphed(docs)'
<1> DEFINE g == Rebuilt(docs)
<1>1. /\ EmptyGraph.hasValue = {} /\ EmptyGraph.values = {}
      /\ EmptyGraph.aliases = {} /\ EmptyGraph.ordinals = {}
  BY DEF EmptyGraph
<1>2. /\ g.hasValue = Deleted.hasValue \cup PairsOf(docs)
      /\ g.values = Merge(Deleted.values, ValueRows(docs), {"dim", "nk"})
      /\ g.aliases = Merge(Deleted.aliases, AliasRows(docs), {"nk"})
      /\ g.ordinals = Merge(Deleted.ordinals, OrdinalRows(docs), {"path", "field"})
  BY DEF Rebuilt, PairsOf, ValueRows, OrdinalRows
<1> HIDE DEF g
<1>3. /\ g.hasValue = PairsOf(docs) /\ g.values = ValueRows(docs)
      /\ g.aliases = AliasRows(docs) /\ g.ordinals = OrdinalRows(docs)
  BY <1>1, <1>2, MergedIntoNothing DEF Deleted
<1> QED
  BY <1>3, Zenon DEF Graphed, g

LEMMA NothingGraphed == ASSUME graph = EmptyGraph PROVE Graphed(<<>>)
<1>1. ToSet(<<>>) = {} /\ DOMAIN <<>> = {}
  BY DEF ToSet
<1>2. PairsOf(<<>>) = {} /\ OrdinalRows(<<>>) = {}
  BY <1>1 DEF PairsOf, OrdinalRows
<1>3. ValueRows(<<>>) = {}
  BY <1>2 DEF ValueRows
<1>4. AliasRows(<<>>) = {}
  BY <1>1 DEF AliasRows
<1> QED
  BY <1>2, <1>3, <1>4 DEF Graphed, EmptyGraph

-----------------------------------------------------------------------------
(* Both backends *)

LEMMA PairsAre ==
    ASSUME NEW docs, NEW dim \in Dimensions, NEW k
    PROVE  \A p : p \in {e[1] : e \in {h \in PairsOf(docs) : h[2] = dim /\ h[3] = k}} <=>
                     \E d \in ToSet(docs) : p = d.path /\ k \in ValueKeys(d, dim)
<1> DEFINE Triple(d, m, l) == <<d.path, m, l>>
<1>1. \A e : e \in PairsOf(docs) <=>
          \E d \in ToSet(docs) : \E m \in Dimensions : \E l \in ValueKeys(d, m) : e = Triple(d, m, l)
  BY DEF PairsOf
<1>2. \A d, m, l : Triple(d, m, l)[1] = d.path /\ Triple(d, m, l)[2] = m /\ Triple(d, m, l)[3] = l
  OBVIOUS
<1> HIDE DEF Triple
<1>3. ASSUME NEW e \in PairsOf(docs), e[2] = dim, e[3] = k
      PROVE  \E d \in ToSet(docs) : e[1] = d.path /\ k \in ValueKeys(d, dim)
  <2>1. PICK d \in ToSet(docs) :
             \E m \in Dimensions : \E l \in ValueKeys(d, m) : e = Triple(d, m, l)
    BY <1>1
  <2>2. PICK m \in Dimensions : \E l \in ValueKeys(d, m) : e = Triple(d, m, l)
    BY <2>1
  <2>3. PICK l \in ValueKeys(d, m) : e = Triple(d, m, l)
    BY <2>2
  <2>4. m = dim /\ l = k /\ e[1] = d.path
    BY <1>2, <1>3, <2>3
  <2> QED
    BY <2>3, <2>4
<1>4. ASSUME NEW d \in ToSet(docs), k \in ValueKeys(d, dim)
      PROVE  \E e \in PairsOf(docs) : e[1] = d.path /\ e[2] = dim /\ e[3] = k
  <2>1. Triple(d, dim, k) \in PairsOf(docs)
    BY <1>1, <1>4
  <2> QED
    BY <1>2, <2>1
<1>5. \A p : p \in {e[1] : e \in {h \in PairsOf(docs) : h[2] = dim /\ h[3] = k}} <=>
          \E e \in PairsOf(docs) : p = e[1] /\ e[2] = dim /\ e[3] = k
  OBVIOUS
<1> QED
  BY <1>3, <1>4, <1>5

\* A document matches in the graph as it does in the notes.
LEMMA GraphFinds ==
    ASSUME vault \in Vaults, Graphed(VaultDocs(vault)), NEW f \in Filters
    PROVE  \A p : p \in EnumerateGraph(f) <=> Matches(vault, p, f)
<1> DEFINE docs == VaultDocs(vault)
           k == Canon(vault, f.value)
           dim == f.dimension
           given == Key[f.value]
           C == Canons(docs, given)
<1>1. f.value \in Spellings /\ dim \in Dimensions
  BY DEF Filters
<1>2. graph.hasValue = PairsOf(docs) /\ graph.aliases = AliasRows(docs)
  BY Zenon DEF Graphed
<1>3. (IF C # {} THEN CHOOSE c \in C : TRUE ELSE given) = k
  BY <1>1, GraphAliasIsCanon
<1>4. C = {a.canon : a \in {b \in graph.aliases : b.nk = given}}
  BY <1>2, Zenon DEF Canons
<1>5. EnumerateGraph(f) = {e[1] : e \in {h \in PairsOf(docs) : h[2] = dim /\ h[3] = k}}
  <2> HIDE DEF k, C, docs
  <2> QED
    BY <1>2, <1>3, <1>4, Zenon DEF EnumerateGraph
<1>6. \A p : p \in EnumerateGraph(f) <=> \E d \in ToSet(docs) : p = d.path /\ k \in ValueKeys(d, dim)
  <2> DEFINE S == {e[1] : e \in {h \in PairsOf(docs) : h[2] = dim /\ h[3] = k}}
             Source(p) == \E d \in ToSet(docs) : p = d.path /\ k \in ValueKeys(d, dim)
  <2> HIDE DEF docs, k, dim
  <2>1. \A p : p \in S <=> Source(p)
    BY <1>1, PairsAre, Zenon
  <2>2. EnumerateGraph(f) = S
    BY <1>5
  <2> HIDE DEF S, Source
  <2>3. \A p : p \in EnumerateGraph(f) <=> Source(p)
    BY <2>1, <2>2
  <2> QED
    BY <2>3 DEF Source
<1>7. \A d : d \in ToSet(docs) <=> \E p \in DOMAIN vault : d = Doc(vault, p)
  BY DocsIndexed, Zenon
<1>8. \A p \in DOMAIN vault : /\ k \in ValueKeys(Doc(vault, p), dim) <=> Matches(vault, p, f)
                              /\ Doc(vault, p).path = p
  <2>1. \A p \in DOMAIN vault : k \in ValueKeys(Doc(vault, p), dim) <=> Matches(vault, p, f)
    BY ValueIndexed, Zenon
  <2>2. \A p : Doc(vault, p).path = p
    BY DEF Doc
  <2> QED
    BY <2>1, <2>2, Zenon
<1> HIDE DEF docs, k, dim
<1>9. ASSUME NEW p, p \in EnumerateGraph(f) PROVE Matches(vault, p, f)
  <2>1. PICK d \in ToSet(docs) : p = d.path /\ k \in ValueKeys(d, dim)
    BY <1>6, <1>9
  <2>2. PICK q \in DOMAIN vault : d = Doc(vault, q)
    BY <1>7, <2>1
  <2> QED
    BY <1>8, <2>1, <2>2
<1>10. ASSUME NEW p, Matches(vault, p, f) PROVE p \in EnumerateGraph(f)
  <2>1. p \in DOMAIN vault
    BY <1>10 DEF Matches
  <2>2. Doc(vault, p) \in ToSet(docs)
    BY <1>7, <2>1
  <2> QED
    BY <1>6, <1>8, <1>10, <2>1, <2>2
<1> QED
  BY <1>9, <1>10

\* A value is shown with the same spelling.
LEMMA SameValues ==
    ASSUME Indexed, Graphed(VaultDocs(vault)), NEW dim \in Dimensions
    PROVE  DimensionsMemory(dim) = DimensionsGraph(dim)
<1> DEFINE docs == VaultDocs(vault)
           Shown(k) == Display(docs, dim, k)
<1>1. memory.disp[dim] = [k \in Listed(docs, dim) |-> Shown(k)]
  <2>1. memory.disp = DispIndex(docs)
    BY IndexParts
  <2> QED
    BY <2>1 DEF DispIndex
<1>2. graph.values = ValueRows(docs)
  BY Zenon DEF Graphed
<1> HIDE DEF docs
<1>3. \A x : x \in DimensionsMemory(dim) <=> \E k \in Listed(docs, dim) : x = Shown(k)
  BY <1>1 DEF DimensionsMemory
<1>4. \A k : k \in Listed(docs, dim) <=> \E d \in ToSet(docs) : k \in ValueKeys(d, dim)
  BY DEF Listed
<1> DEFINE Row(e) == [dim |-> e[2], nk |-> e[3], disp |-> Display(docs, e[2], e[3])]
<1>5. \A e : Row(e).dim = e[2] /\ Row(e).disp = Display(docs, e[2], e[3])
  OBVIOUS
<1>6. \A x : x \in DimensionsGraph(dim) <=>
          \E w \in ValueRows(docs) : w.dim = dim /\ x = w.disp
  BY <1>2 DEF DimensionsGraph
<1>7. \A w : w \in ValueRows(docs) <=> \E e \in PairsOf(docs) : w = Row(e)
  BY DEF ValueRows
<1> HIDE DEF Row
<1>8. \A k : (\E e \in PairsOf(docs) : e[2] = dim /\ e[3] = k) <=> k \in Listed(docs, dim)
  <2> SUFFICES ASSUME NEW k
               PROVE  (\E e \in PairsOf(docs) : e[2] = dim /\ e[3] = k) <=> k \in Listed(docs, dim)
    OBVIOUS
  <2> DEFINE S == {e[1] : e \in {h \in PairsOf(docs) : h[2] = dim /\ h[3] = k}}
  <2>1. (\E e \in PairsOf(docs) : e[2] = dim /\ e[3] = k) <=> \E p : p \in S
    OBVIOUS
  <2>2. \A p : p \in S <=> \E d \in ToSet(docs) : p = d.path /\ k \in ValueKeys(d, dim)
    BY PairsAre, Zenon
  <2> HIDE DEF S
  <2> QED
    BY <1>4, <2>1, <2>2
<1>9. ASSUME NEW x, x \in DimensionsGraph(dim) PROVE \E k \in Listed(docs, dim) : x = Shown(k)
  <2>1. PICK w \in ValueRows(docs) : w.dim = dim /\ x = w.disp
    BY <1>6, <1>9
  <2>2. PICK e \in PairsOf(docs) : w = Row(e)
    BY <1>7, <2>1
  <2>3. e[2] = dim /\ x = Shown(e[3])
    BY <1>5, <2>1, <2>2
  <2> QED
    BY <1>8, <2>2, <2>3
<1>10. ASSUME NEW x, NEW k \in Listed(docs, dim), x = Shown(k) PROVE x \in DimensionsGraph(dim)
  <2>1. PICK e \in PairsOf(docs) : e[2] = dim /\ e[3] = k
    BY <1>8
  <2>2. Row(e) \in ValueRows(docs) /\ Row(e).dim = dim /\ x = Row(e).disp
    BY <1>5, <1>7, <1>10, <2>1
  <2> QED
    BY <1>6, <2>2
<1> HIDE DEF Shown
<1>11. \A x : x \in DimensionsMemory(dim) <=> x \in DimensionsGraph(dim)
  BY <1>3, <1>9, <1>10, Zenon
<1> QED
  BY <1>11

\* The rows that a query sorts are the entries of the index.
LEMMA RowsAre ==
    ASSUME NEW docs, graph.ordinals = OrdinalRows(docs), NEW f
    PROVE  {[path |-> o.path, key |-> o.key] : o \in {n \in graph.ordinals : n.field = f}} =
               Entries(docs, f)
<1> DEFINE Row(d, o) == [path |-> d.path, field |-> o.field, key |-> o.key]
           Entry(x, k) == [path |-> x, key |-> k]
           rows == {Entry(o.path, o.key) : o \in {n \in graph.ordinals : n.field = f}}
           all == ToSet(docs)
<1>1. \A d, o : /\ Row(d, o).path = d.path /\ Row(d, o).field = o.field
               /\ Row(d, o).key = o.key
  OBVIOUS
<1>2. \A n : n \in graph.ordinals <=> \E d \in all : \E o \in d.ordered : n = Row(d, o)
  BY DEF OrdinalRows
<1>3. \A x : x \in Entries(docs, f) <=>
          \E d \in all : \E o \in d.ordered : o.field = f /\ x = Entry(d.path, o.key)
  BY DEF Entries
<1>4. \A x : x \in rows <=> \E n \in graph.ordinals : n.field = f /\ x = Entry(n.path, n.key)
  OBVIOUS
<1> HIDE DEF Row, Entry, all
<1>5. ASSUME NEW x, x \in rows PROVE x \in Entries(docs, f)
  <2>1. PICK n \in graph.ordinals : n.field = f /\ x = Entry(n.path, n.key)
    BY <1>4, <1>5
  <2>2. PICK d \in all : \E o \in d.ordered : n = Row(d, o)
    BY <1>2, <2>1
  <2>3. PICK o \in d.ordered : n = Row(d, o)
    BY <2>2
  <2>4. o.field = f /\ x = Entry(d.path, o.key)
    BY <1>1, <2>1, <2>3
  <2> QED
    BY <1>3, <2>3, <2>4
<1>6. ASSUME NEW x, x \in Entries(docs, f) PROVE x \in rows
  <2>1. PICK d \in all : \E o \in d.ordered : o.field = f /\ x = Entry(d.path, o.key)
    BY <1>3, <1>6
  <2>2. PICK o \in d.ordered : o.field = f /\ x = Entry(d.path, o.key)
    BY <2>1
  <2>3. Row(d, o) \in graph.ordinals
    BY <1>2, <2>2
  <2>4. Row(d, o).field = f /\ x = Entry(Row(d, o).path, Row(d, o).key)
    BY <1>1, <2>2
  <2> QED
    BY <1>4, <2>3, <2>4
<1> HIDE DEF rows
<1>7. rows = Entries(docs, f)
  BY <1>5, <1>6
<1> QED
  BY <1>7 DEF rows, Entry

\* A vault that the graph can be built of has only values that have an order.
LEMMA WritableIsComparable ==
    ASSUME NEW v \in Vaults, Writable(VaultDocs(v)), NEW f \in Orderable
    PROVE  Comparable(v, f)
<1> SUFFICES ASSUME NEW p \in DOMAIN v, Usable(v, p, f) PROVE v[p].fields[f].key # NaN
  BY DEF Comparable, Rank
<1> DEFINE k == v[p].fields[f].key
           d == Doc(v, p)
<1>1. d \in ToSet(VaultDocs(v))
  BY DocsIndexed, Zenon
<1>2. [field |-> f, key |-> k] \in d.ordered
  BY DEF Doc
<1> HIDE DEF d, k
<1>3. Literal([field |-> f, key |-> k].key)
  BY <1>1, <1>2, Zenon DEF Writable
<1> QED
  BY <1>3 DEF Literal, k

\* What the graph answers is sorted as what the index answers is.
LEMMA GraphSorts ==
    ASSUME vault \in Vaults, Graphed(VaultDocs(vault)), NEW f \in Orderable, f # "",
           Comparable(vault, f), NEW dir \in {"asc", "desc"},
           NEW sorted, sorted = OrderedGraph(f, dir, 0)
    PROVE  /\ sorted \in Seq(Paths)
           /\ \A p \in Paths : p \in ToSet(sorted) <=> Carries(vault, p, f)
           /\ \A i, j \in DOMAIN sorted :
                 i < j => Precedes(vault, sorted[i], sorted[j], [field |-> f, dir |-> dir])
<1> DEFINE E == {EntryOf(vault, f, p) : p \in Carriers(vault, f)}
           rows == {[path |-> o.path, key |-> o.key] : o \in {n \in graph.ordinals : n.field = f}}
           s == OrderedBy(E, dir)
<1>1. rows = E
  <2>1. Entries(VaultDocs(vault), f) = E
    BY EntriesAre, Zenon
  <2>2. graph.ordinals = OrdinalRows(VaultDocs(vault))
    BY Zenon DEF Graphed
  <2>3. rows = Entries(VaultDocs(vault), f)
    BY <2>2, RowsAre, Zenon
  <2> HIDE DEF E, rows
  <2> QED
    BY <2>1, <2>3
<1>2. sorted = PathsOf(OrderedBy(rows, dir))
  BY NotCapped, Zenon DEF OrderedGraph
<1>3. E \in SUBSET EntryType /\ IsFiniteSet(E)
  BY EntriesFinite, Zenon
<1>4. E = {EntryOf(vault, f, p) : p \in Carriers(vault, f)}
  OBVIOUS
<1> HIDE DEF E, rows
<1>5. sorted = PathsOf(s)
  BY <1>1, <1>2
<1>6. /\ s \in Seq(E) /\ (\A x : x \in ToSet(s) <=> x \in E) /\ Distinct(s)
      /\ \A i, j \in 1..Len(s) :
            i < j => IF dir = "asc" THEN Ascends(s[i], s[j]) ELSE Falls(s[i], s[j])
  BY <1>3, QuerySorts, Zenon
<1> HIDE DEF s
<1> QED
  BY <1>4, <1>5, <1>6, PathsInOrder, Zenon

LEMMA GraphIsCapped ==
    ASSUME NEW f, NEW dir, NEW limit
    PROVE  OrderedGraph(f, dir, limit) = Capped(OrderedGraph(f, dir, 0), limit)
<1> DEFINE rows == {[path |-> o.path, key |-> o.key] : o \in {n \in graph.ordinals : n.field = f}}
           s == PathsOf(OrderedBy(rows, dir))
<1>1. OrderedGraph(f, dir, limit) = Capped(s, limit) /\ OrderedGraph(f, dir, 0) = Capped(s, 0)
  BY DEF OrderedGraph
<1> HIDE DEF s
<1> QED
  BY <1>1, NotCapped

\* There is one sequence of those documents in that order.
LEMMA SameOrder ==
    ASSUME Indexed, Graphed(VaultDocs(vault)), NEW f \in Orderable, f # "",
           Comparable(vault, f), NEW dir \in {"asc", "desc"}, NEW limit
    PROVE  OrderedMemory(f, dir, limit) = OrderedGraph(f, dir, limit)
<1> DEFINE r == OrderedMemory(f, dir, 0)
           s == OrderedGraph(f, dir, 0)
           o == [field |-> f, dir |-> dir]
           R == {e \in Paths \X Paths : Precedes(vault, e[1], e[2], o)}
<1>1. vault \in Vaults
  BY DEF Indexed
<1>2. /\ r \in Seq(Paths)
      /\ \A p \in Paths : p \in ToSet(r) <=> Carries(vault, p, f)
      /\ \A i, j \in DOMAIN r : i < j => Precedes(vault, r[i], r[j], o)
  BY OrderedSorts, Zenon
<1>3. /\ s \in Seq(Paths)
      /\ \A p \in Paths : p \in ToSet(s) <=> Carries(vault, p, f)
      /\ \A i, j \in DOMAIN s : i < j => Precedes(vault, s[i], s[j], o)
  BY <1>1, GraphSorts, Zenon
<1>4. o.field \in Orderable
  OBVIOUS
<1> HIDE DEF r, s, o
<1>5. \A x, y : <<x, y>> \in R <=> x \in Paths /\ y \in Paths /\ Precedes(vault, x, y, o)
  OBVIOUS
<1> HIDE DEF R
<1>6. \A x, y : ~(<<x, y>> \in R /\ <<y, x>> \in R)
  BY <1>1, <1>4, <1>5, NeverBothWays, Zenon
<1>7. ASSUME NEW t \in Seq(Paths),
             \A i, j \in DOMAIN t : i < j => Precedes(vault, t[i], t[j], o)
      PROVE  \A i, j \in 1..Len(t) : i < j => <<t[i], t[j]>> \in R
  <2>1. DOMAIN t = 1..Len(t) /\ \A i \in 1..Len(t) : t[i] \in Paths
    BY Members, Places, Zenon
  <2> QED
    BY <1>5, <1>7, <2>1, Zenon
<1>8. \A x : x \in ToSet(r) <=> x \in ToSet(s)
  <2>1. (\A x \in ToSet(r) : x \in Paths) /\ (\A x \in ToSet(s) : x \in Paths)
    BY <1>2, <1>3, Members, Zenon
  <2> QED
    BY <1>2, <1>3, <2>1, Zenon
<1>9. r = s
  <2>1. \A i, j \in 1..Len(r) : i < j => <<r[i], r[j]>> \in R
    BY <1>2, <1>7, Zenon
  <2>2. \A i, j \in 1..Len(s) : i < j => <<s[i], s[j]>> \in R
    BY <1>3, <1>7, Zenon
  <2> QED
    BY <1>2, <1>3, <1>6, <1>8, <2>1, <2>2, SameInOrder, Zenon
<1>10. OrderedMemory(f, dir, limit) = Capped(r, limit)
  BY OrderedIsCapped, Zenon DEF r
<1>11. OrderedGraph(f, dir, limit) = Capped(s, limit)
  BY GraphIsCapped, Zenon DEF s
<1> QED
  BY <1>9, <1>10, <1>11

\* A document is found in both, or in none.
LEMMA SameFound ==
    ASSUME Indexed, Graphed(VaultDocs(vault)), NEW f \in Filters
    PROVE  ToSet(EnumerateMemory(f)) = EnumerateGraph(f)
<1> DEFINE found == EnumerateMemory(f)
<1>1. found \in Seq(Paths) /\ \A p \in Paths : p \in ToSet(found) <=> Matches(vault, p, f)
  BY EnumerateFinds, Zenon
<1>2. vault \in Vaults
  BY DEF Indexed
<1>3. \A p : p \in EnumerateGraph(f) <=> Matches(vault, p, f)
  BY <1>2, GraphFinds, Zenon
<1>4. \A p : Matches(vault, p, f) => p \in Paths
  <2>1. \A p : Matches(vault, p, f) => p \in DOMAIN vault
    BY DEF Matches
  <2>2. \A p \in DOMAIN vault : p \in Paths
    BY <1>2, VaultFacts
  <2> QED
    BY <2>1, <2>2, Zenon
<1> HIDE DEF found
<1>5. \A p \in ToSet(found) : p \in Paths
  BY <1>1, Members, Zenon
<1>6. \A p : p \in ToSet(found) <=> p \in EnumerateGraph(f)
  BY <1>1, <1>3, <1>4, <1>5, Zenon
<1>7. ToSet(found) = EnumerateGraph(f)
  BY <1>6
<1> QED
  BY <1>7 DEF found

\* The graph is of the vault, unless the vault cannot be written: then it is of an older one.
GraphIsOfVault == Writable(VaultDocs(vault)) => Graphed(VaultDocs(vault))

\* Both backends, over one vault.
LEMMA BothAgree ==
    ASSUME Indexed, GraphIsOfVault
    PROVE  BackendsAgree
<1>1. MemoryAnswers
  BY IndexAnswers
<1> SUFFICES ASSUME Writable(VaultDocs(vault))
             PROVE  /\ \A f \in Filters : ToSet(EnumerateMemory(f)) = EnumerateGraph(f)
                    /\ \A d \in Dimensions : DimensionsMemory(d) = DimensionsGraph(d)
                    /\ \A f \in Orderable \ {""}, dir \in {"asc", "desc"}, limit \in 0..1 :
                        OrderedMemory(f, dir, limit) = OrderedGraph(f, dir, limit)
  BY <1>1, Zenon DEF BackendsAgree
<1>2. Graphed(VaultDocs(vault))
  BY Zenon DEF GraphIsOfVault
<1>3. \A f \in Filters : ToSet(EnumerateMemory(f)) = EnumerateGraph(f)
  BY <1>2, SameFound, Zenon
<1>4. \A d \in Dimensions : DimensionsMemory(d) = DimensionsGraph(d)
  BY <1>2, SameValues, Zenon
<1>5. \A f \in Orderable : Comparable(vault, f)
  BY WritableIsComparable, Zenon DEF Indexed
<1>6. \A f \in Orderable \ {""}, dir \in {"asc", "desc"}, limit \in 0..1 :
          OrderedMemory(f, dir, limit) = OrderedGraph(f, dir, limit)
  BY <1>2, <1>5, SameOrder
<1> QED
  BY <1>3, <1>4, <1>6

-----------------------------------------------------------------------------
(* The theorems *)

\* The invariant: the call under way, and both indexes as the vault is.
LEMMA Invariance == Spec => [](IndInv /\ Indexed /\ GraphIsOfVault)
<1>1. Init => IndInv /\ Indexed /\ GraphIsOfVault
  <2> SUFFICES ASSUME Init PROVE IndInv /\ Indexed /\ GraphIsOfVault
    OBVIOUS
  <2>1. /\ vault = <<>> /\ graph = EmptyGraph
        /\ \E ord \in OrdIndexes(<<>>) : memory = MemoryIndex(<<>>, ord)
        /\ call = NoCall /\ stood = {}
    BY Zenon DEF Init
  <2>2. Indexed
    BY <2>1, NoDocs, Zenon DEF Indexed
  <2>3. GraphIsOfVault
    BY <2>1, NoDocs, NothingGraphed, Zenon DEF GraphIsOfVault
  <2>4. call.at = "idle" /\ vault \in Vaults
    BY <2>1, NoDocs DEF NoCall
  <2> QED
    BY <2>1, <2>2, <2>3, <2>4 DEF IndInv, Calls, Asking, Answered
<1>2. IndInv /\ Indexed /\ [Next]_vars => IndInv'
  <2> SUFFICES ASSUME IndInv, MemoryAnswers, [Next]_vars PROVE IndInv'
    BY IndexAnswers
  <2>1. CASE \E r \in Requests : Call(r)
    BY <2>1, CallKeeps
  <2>2. CASE Filter
    BY <2>2, FilterKeeps
  <2>3. CASE Sort
    BY <2>3, SortKeeps
  <2>4. CASE Return
    BY <2>4, ReturnKeeps
  <2>5. CASE \E v \in Vaults :
                 (call.at = "idle" \/ Cardinality(stood) <= MaxReindexes) /\ Reindex(v)
    BY <2>5, ReindexKeeps
  <2>6. CASE UNCHANGED vars
    BY <2>6 DEF vars, IndInv, Calls, Asking, Answered
  <2> QED
    BY <2>1, <2>2, <2>3, <2>4, <2>5, <2>6 DEF Next
<1>3. Indexed /\ [Next]_vars => Indexed'
  <2> SUFFICES ASSUME Indexed, [Next]_vars PROVE Indexed'
    OBVIOUS
  <2>1. CASE \E v \in Vaults : Reindex(v)
    BY <2>1, Zenon DEF Indexed, Reindex
  <2>2. CASE vault' = vault /\ memory' = memory
    BY <2>2, Zenon DEF Indexed
  <2>3. \A r : Call(r) => vault' = vault /\ memory' = memory
    BY DEF Call
  <2>4. Filter \/ Sort \/ Return \/ UNCHANGED vars => vault' = vault /\ memory' = memory
    BY DEF Filter, Sort, Return, vars
  <2> QED
    BY <2>1, <2>2, <2>3, <2>4, Zenon DEF Next
<1>4. GraphIsOfVault /\ [Next]_vars => GraphIsOfVault'
  <2> SUFFICES ASSUME GraphIsOfVault, [Next]_vars PROVE GraphIsOfVault'
    OBVIOUS
  <2>1. ASSUME NEW v \in Vaults, Reindex(v) PROVE GraphIsOfVault'
    <3>1. vault' = v /\ (Writable(VaultDocs(v)) => graph' = Rebuilt(VaultDocs(v)))
      BY <2>1, Zenon DEF Reindex
    <3>2. VaultDocs(vault)' = VaultDocs(v)
      BY <3>1
    <3>3. Writable(VaultDocs(vault))' = Writable(VaultDocs(v))
      BY <3>1
    <3> QED
      BY <3>1, <3>2, <3>3, RebuildGraphs, Zenon DEF GraphIsOfVault, Graphed
  <2>2. CASE vault' = vault /\ graph' = graph
    BY <2>2, Zenon DEF GraphIsOfVault, Graphed
  <2>3. \A r : Call(r) => vault' = vault /\ graph' = graph
    BY DEF Call
  <2>4. Filter \/ Sort \/ Return \/ UNCHANGED vars => vault' = vault /\ graph' = graph
    BY DEF Filter, Sort, Return, vars
  <2> QED
    BY <2>1, <2>2, <2>3, <2>4, Zenon DEF Next
<1> QED
  BY <1>1, <1>2, <1>3, <1>4, PTL DEF Spec

\* Whatever the vault holds and whatever was indexed before it, the memory backend finds a
\* value, an alias of it too, in each of the documents that match and in no other, and gives
\* those that carry a field, each once; sorted, both ways, ties by path, if the field has no
\* value that is no number (buildStructured, buildOrdered, Memory.Enumerate, Memory.Ordered).
THEOREM MemoryIsRight == Spec => []MemoryAnswers
BY Invariance, IndexAnswers, PTL

\* So do both backends, alike, of every vault that the graph can be built of, whichever vaults
\* stood before and failed to be: the graph holds nothing of an earlier vault, an alias leads
\* where it does in the index, and a query asks for the one order that the index is in
\* (Memory.Ordered and Ladybug.Ordered, Memory.Enumerate and Ladybug.Enumerate,
\* Dimensions of either, rebuildStructured).
THEOREM BackendsAreAlike == Spec => []BackendsAgree
BY Invariance, BothAgree, PTL

LEMMA OfAnswer ==
    ASSUME IndInv, call.at = "answered"
    PROVE  AnswerOK(call.request, call.outcome, call.refs, stood)
BY DEF IndInv, Answered

\* Every document that an answer lists matched each filter, and carried the field it is
\* sorted by, when the store was asked (intersect, ordered), however often the vault was
\* reindexed during the call.
THEOREM AnswersMatch == Spec => []ListedMatches
<1>1. IndInv => ListedMatches
  BY OfAnswer, Zenon DEF ListedMatches, Listing, AnswerOK, ListedOK
<1> QED
  BY <1>1, Invariance, PTL

\* A document that matched throughout a call and is not in its answer is cut by the limit,
\* by documents before it wherever the values of the field have an order (ordered caps after
\* the filters are applied, intersect drops only what one of them does not match).
THEOREM AnswersAreComplete == Spec => []NothingLeftOut
<1>1. IndInv => NothingLeftOut
  BY OfAnswer, Zenon DEF NothingLeftOut, AnswerOK, LeftOK
<1> QED
  BY <1>1, Invariance, PTL

\* A sorted answer is in the order of one vault whose index stood during the call, if the
\* values of the field have one there, which are all of one kind (orderedKinds).
THEOREM AnswersAreOrdered == Spec => []InOneOrder
<1>1. IndInv => InOneOrder
  BY OfAnswer, Zenon DEF InOneOrder, Listing, AnswerOK, OrderOK
<1> QED
  BY <1>1, Invariance, PTL

\* The type invariant: what is left of the arguments that were parsed (parsePredicates,
\* parseOrder) is something the store can be asked, and no document is listed twice.
THEOREM LookupTypeCorrect == Spec => []TypeOK
<1>1. IndInv => TypeOK
  <2> SUFFICES ASSUME IndInv PROVE TypeOK
    OBVIOUS
  <2>1. Calls /\ Asking
    BY DEF IndInv
  <2>2. CASE call.at = "idle"
    BY <2>1, <2>2 DEF TypeOK, Calls
  <2>3. CASE call.at \in {"filter", "order"}
    <3>1. Narrowing(call.at, call.request, call.preds, call.refs, vault, stood)
      BY <2>1, <2>3, Zenon DEF Asking
    <3>2. /\ call.request \in Requests /\ OrderAccepted(call.request)
          /\ call.refs \in Seq(Paths) /\ IsInjective(call.refs)
          /\ call.preds \in Seq(Filters) /\ (call.at = "filter") = (call.preds # <<>>)
          /\ call.at = "order" => call.request.sort # ""
      BY <3>1, Zenon DEF Narrowing
    <3>3. call.at = "order" => call.request.sort \in Orderable
      BY <3>2 DEF OrderAccepted
    <3>4. ToSet(call.refs) \subseteq Paths
      BY <3>2, Members, Zenon
    <3> QED
      BY <2>1, <2>3, <3>2, <3>3, <3>4 DEF TypeOK, Calls
  <2>4. CASE call.at = "answered"
    <3>1. call.refs \in Seq(Paths) /\ IsInjective(call.refs)
      BY <2>4, OfAnswer, Zenon DEF AnswerOK
    <3>2. ToSet(call.refs) \subseteq Paths
      BY <3>1, Members, Zenon
    <3> QED
      BY <2>1, <2>4, <3>1, <3>2 DEF TypeOK, Calls
  <2> QED
    BY <2>1, <2>2, <2>3, <2>4 DEF Calls
<1> QED
  BY <1>1, Invariance, PTL
=============================================================================
