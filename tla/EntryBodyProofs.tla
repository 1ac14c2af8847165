-------------------------- MODULE EntryBodyProofs --------------------------
(***************************************************************************)
(* Theorems about EntryBody and the marker replacement it contains, for    *)
(* every set of entries, every table of replacements, every frame, channel *)
(* and spool size and any number of attempts: the replacement of a stream  *)
(* does not depend on where its chunks are cut, a whole body is the        *)
(* validated content, its claims are given back before its last byte is    *)
(* seen, and what attempts record for one another is true.                 *)
(***************************************************************************)
EXTENDS EntryBody, TLAPS, WellFoundedInduction, FiniteSetTheorems, SequenceTheorems

-----------------------------------------------------------------------------
(* Induction, in the form of a least element and of a closed set *)

\* The order of the numbers, as the relation that well-founded induction takes.
LEMMA NatOrder ==
  \E R : IsWellFoundedOn(R, Nat) /\ \A m, n \in Nat : m < n => <<m, n>> \in R
  <1>1. IsWellFoundedOn(OpToRel(<, Nat), Nat)
    BY NatLessThanWellFounded
  <1>2. \A m, n \in Nat : m < n => <<m, n>> \in OpToRel(<, Nat)
    BY DEF OpToRel
  <1> QED BY <1>1, <1>2

\* Every nonempty set of numbers has a least element.
LEMMA LeastNumber ==
  ASSUME NEW S \in SUBSET Nat, S # {}
  PROVE  \E m \in S : \A n \in S : m <= n
  <1>1. PICK R : IsWellFoundedOn(R, Nat) /\ \A m, n \in Nat : m < n => <<m, n>> \in R
    BY NatOrder
  <1>2. S \subseteq Nat /\ IsWellFoundedOn(R, Nat)
    BY <1>1
  <1>3. PICK m \in S : \A n \in S : ~(<<n, m>> \in R)
    BY <1>2, WFMin, Zenon
  <1>4. ASSUME NEW n \in S PROVE m <= n
    <2>1. m \in Nat /\ n \in Nat /\ ~(<<n, m>> \in R)
      BY <1>3
    <2>2. ~(n < m)
      BY <1>1, <2>1, Zenon
    <2> QED BY <2>1, <2>2
  <1> QED BY <1>4

\* A set of numbers that has 0 and the successor of each of its members.
LEMMA Closed ==
  ASSUME NEW S \in SUBSET Nat, 0 \in S, \A n \in S : n + 1 \in S
  PROVE  \A n \in Nat : n \in S
  <1> DEFINE D == Nat \ S
  <1> SUFFICES ASSUME D # {} PROVE FALSE
    OBVIOUS
  <1>1. PICK m \in D : \A n \in D : m <= n
    BY LeastNumber
  <1>2. m \in Nat /\ m # 0 /\ m - 1 \in Nat /\ m - 1 \notin D
    BY <1>1
  <1> QED BY <1>2

\* The greatest element of a set with a bound.
LEMMA GreatestNumber ==
  ASSUME NEW S \in SUBSET Nat, S # {}, NEW b \in Nat, \A n \in S : n <= b
  PROVE  \E m \in S : \A n \in S : n <= m
  <1> DEFINE U == {u \in Nat : \A n \in S : n <= u}
  <1>1. PICK m \in U : \A u \in U : m <= u
    <2>1. b \in U
      OBVIOUS
    <2> HIDE DEF U
    <2>2. U \subseteq Nat
      BY DEF U
    <2> QED BY <2>1, <2>2, LeastNumber
  <1>2. m \in Nat /\ \A n \in S : n <= m
    BY <1>1
  <1>3. m \in S
    <2> SUFFICES ASSUME m \notin S PROVE FALSE
      OBVIOUS
    <2>1. PICK n \in S : TRUE
      OBVIOUS
    <2>2. m - 1 \in Nat /\ \A k \in S : k <= m - 1
      BY <1>2, <2>1
    <2>3. m - 1 \in U
      BY <2>2
    <2> HIDE DEF U
    <2> QED BY <1>1, <1>2, <2>3
  <1> QED BY <1>2, <1>3

\* Finitely many numbers have a bound.
LEMMA Bounded ==
  ASSUME NEW S, IsFiniteSet(S), NEW f, \A x \in S : f[x] \in Nat
  PROVE  \E b \in Nat : \A x \in S : f[x] <= b
  <1>0. PICK n \in Nat : \E q : q \in Bijection(1 .. n, S)
    BY FS_NatBijection DEF ExistsBijection
  <1>1. PICK q : n \in Nat /\ q \in Bijection(1 .. n, S)
    BY <1>0
  <1>2. \A x \in S : \E i \in 1 .. n : q[i] = x
    BY <1>1 DEF Bijection, Surjection
  <1>3. \A i \in 1 .. n : q[i] \in S
    BY <1>1 DEF Bijection, Injection
  <1> DEFINE T == {m \in Nat : m <= n => \E b \in Nat : \A i \in 1 .. m : f[q[i]] <= b}
  <1>4. \A m \in Nat : m \in T
    <2>1. 0 \in T
      OBVIOUS
    <2>2. ASSUME NEW m \in T, m + 1 <= n
          PROVE  \E b \in Nat : \A i \in 1 .. m + 1 : f[q[i]] <= b
      <3>1. PICK b \in Nat : \A i \in 1 .. m : f[q[i]] <= b
        BY <1>1, <2>2
      <3>2. m + 1 \in 1 .. n /\ f[q[m + 1]] \in Nat
        BY <1>1, <1>3, <2>2
      <3> DEFINE c == IF f[q[m + 1]] <= b THEN b ELSE f[q[m + 1]]
      <3>3. c \in Nat /\ f[q[m + 1]] <= c /\ b <= c
        BY <3>1, <3>2
      <3>4. \A i \in 1 .. m : f[q[i]] \in Nat
        BY <1>1, <1>3, <2>2
      <3> HIDE DEF c
      <3>5. \A i \in 1 .. m + 1 : f[q[i]] <= c
        <4> SUFFICES ASSUME NEW i \in 1 .. m + 1 PROVE f[q[i]] <= c
          OBVIOUS
        <4>1. CASE i \in 1 .. m
          BY <3>1, <3>3, <3>4, <4>1
        <4>2. CASE i = m + 1
          BY <3>3, <4>2
        <4>3. i \in 1 .. m \/ i = m + 1
          <5>1. m \in Nat
            BY <2>2
          <5> QED BY <5>1
        <4> QED BY <4>1, <4>2, <4>3
      <3> QED BY <3>3, <3>5
    <2>3. T \in SUBSET Nat
      OBVIOUS
    <2>4. ASSUME NEW m \in T PROVE m + 1 \in T
      <3>1. m + 1 \in Nat
        BY <2>3
      <3>2. m + 1 <= n => \E b \in Nat : \A i \in 1 .. m + 1 : f[q[i]] <= b
        BY <2>2
      <3> QED BY <3>1, <3>2
    <2> HIDE DEF T
    <2> QED BY <2>1, <2>3, <2>4, Closed
  <1>5. PICK b \in Nat : \A i \in 1 .. n : f[q[i]] <= b
    <2>1. n \in T
      BY <1>1, <1>4
    <2> QED BY <1>1, <2>1
  <1> QED BY <1>2, <1>5

\* A function defined from its end backwards exists: its value at i is G's, which
\* depends on the values behind i only.
DependsOnTheRest(n, X, G) ==
  /\ \A i \in 0 .. n : \A f \in [0 .. n -> X] : G[<<i, f>>] \in X
  /\ \A i \in 0 .. n : \A f, g \in [0 .. n -> X] :
       (\A j \in i + 1 .. n : f[j] = g[j]) => G[<<i, f>>] = G[<<i, g>>]

Solves(f, n, X, G) == f \in [0 .. n -> X] /\ \A i \in 0 .. n : f[i] = G[<<i, f>>]

\* A function that is given at each place by its values at later places exists.
LEMMA Backward ==
  ASSUME NEW n \in Nat, NEW X, X # {}, NEW G, DependsOnTheRest(n, X, G)
  PROVE  \E f : Solves(f, n, X, G)
  <1>a. /\ \A i \in 0 .. n : \A f \in [0 .. n -> X] : G[<<i, f>>] \in X
        /\ \A i \in 0 .. n : \A f, g \in [0 .. n -> X] :
             (\A j \in i + 1 .. n : f[j] = g[j]) => G[<<i, f>>] = G[<<i, g>>]
    BY DEF DependsOnTheRest
  <1> DEFINE F == [0 .. n -> X]
             S == {m \in Nat : m <= n + 1 =>
                     \E f \in F : \A i \in 0 .. n : i > n - m => f[i] = G[<<i, f>>]}
  <1>1. 0 \in S
    <2>1. PICK x \in X : TRUE
      OBVIOUS
    <2>2. [i \in 0 .. n |-> x] \in F
      OBVIOUS
    <2>3. \A i \in 0 .. n : ~(i > n - 0)
      OBVIOUS
    <2>4. \E f \in F : \A i \in 0 .. n : i > n - 0 => f[i] = G[<<i, f>>]
      BY <2>2, <2>3
    <2> QED BY <2>4
  <1>2. ASSUME NEW m \in S, m + 1 <= n + 1
        PROVE  \E f \in F : \A i \in 0 .. n : i > n - (m + 1) => f[i] = G[<<i, f>>]
    <2>1. PICK f \in F : \A i \in 0 .. n : i > n - m => f[i] = G[<<i, f>>]
      BY <1>2
    <2> DEFINE a == n - m
               g == [f EXCEPT ![a] = G[<<a, f>>]]
    <2>2. a \in 0 .. n /\ m \in Nat
      BY <1>2
    <2>3. g \in F /\ g[a] = G[<<a, f>>] /\ \A i \in 0 .. n : i # a => g[i] = f[i]
      BY <1>a, <2>1, <2>2
    <2> HIDE DEF g
    <2>4. \A i \in 0 .. n : i >= a => G[<<i, g>>] = G[<<i, f>>]
      <3> SUFFICES ASSUME NEW i \in 0 .. n, i >= a PROVE G[<<i, g>>] = G[<<i, f>>]
        OBVIOUS
      <3>1. \A j \in i + 1 .. n : g[j] = f[j]
        BY <2>2, <2>3
      <3> QED BY <1>a, <2>1, <2>3, <3>1
    <2>5. \A i \in 0 .. n : i > n - (m + 1) => g[i] = G[<<i, g>>]
      <3> SUFFICES ASSUME NEW i \in 0 .. n, i > n - (m + 1) PROVE g[i] = G[<<i, g>>]
        OBVIOUS
      <3>1. CASE i = a
        BY <2>3, <2>4, <3>1
      <3>2. CASE i # a
        <4>1. i > n - m /\ i >= a
          BY <2>2, <3>2
        <4> QED BY <2>1, <2>3, <2>4, <3>2, <4>1
      <3> QED BY <3>1, <3>2
    <2> QED BY <2>3, <2>5
  <1>3. \A m \in Nat : m \in S
    <2>1. \A m \in S : m \in Nat /\ m + 1 \in S
      <3> SUFFICES ASSUME NEW m \in S PROVE m + 1 \in S
        OBVIOUS
      <3>1. m + 1 \in Nat
        OBVIOUS
      <3> QED BY <1>2, <3>1
    <2> HIDE DEF S
    <2>2. S \in SUBSET Nat
      BY <2>1
    <2> QED BY <1>1, <2>1, <2>2, Closed
  <1>4. n + 1 \in S
    BY <1>3
  <1>5. PICK f \in F : \A i \in 0 .. n : i > n - (n + 1) => f[i] = G[<<i, f>>]
    BY <1>4
  <1>6. \A i \in 0 .. n : i > n - (n + 1)
    OBVIOUS
  <1> QED BY <1>5, <1>6 DEF Solves

\* A property of the places 0 to n that holds of a place when it holds of all
\* behind it.
LEMMA Downward ==
  ASSUME NEW n \in Nat, NEW S,
         \A i \in 0 .. n : (\A j \in i + 1 .. n : j \in S) => i \in S
  PROVE  \A i \in 0 .. n : i \in S
  <1> DEFINE T == {m \in Nat : \A i \in 0 .. n : i > n - m => i \in S}
  <1>1. 0 \in T
    OBVIOUS
  <1>2. ASSUME NEW m \in T, NEW i \in 0 .. n, i > n - (m + 1) PROVE i \in S
    <2>1. m \in Nat /\ \A j \in 0 .. n : j > n - m => j \in S
      OBVIOUS
    <2>2. \A j \in i + 1 .. n : j \in 0 .. n /\ j > n - m
      BY <1>2, <2>1
    <2> QED BY <2>1, <2>2
  <1>3. T \in SUBSET Nat /\ \A m \in T : m + 1 \in T
    <2>1. ASSUME NEW m \in T PROVE m + 1 \in T
      <3>1. m + 1 \in Nat
        OBVIOUS
      <3> QED BY <1>2, <3>1
    <2> QED BY <2>1
  <1> HIDE DEF T
  <1>4. n + 1 \in T
    BY <1>1, <1>3, Closed
  <1> QED BY <1>4 DEF T

-----------------------------------------------------------------------------
(* Patterns and where they are found *)

\* A pattern is a nonempty sequence, and MaxPattern bounds its length.
LEMMA PatternFacts ==
  /\ MaxPattern \in Nat
  /\ \A p \in Pattern : /\ p \in Seq(Symbol) /\ Replacement[p] \in Seq(Symbol)
                        /\ Len(p) \in Nat /\ 1 <= Len(p) /\ Len(p) <= MaxPattern
  <1>1. \A p \in Pattern : /\ p \in Seq(Symbol) /\ Replacement[p] \in Seq(Symbol)
                           /\ Len(p) \in Nat /\ 1 <= Len(p)
    <2>1. ASSUME NEW p \in Pattern PROVE p \in Seq(Symbol) /\ p # <<>> /\ Replacement[p] \in Seq(Symbol)
      BY ReplacementAssumption
    <2> QED BY <2>1
  <1>2. CASE Pattern = {}
    BY <1>2 DEF MaxPattern
  <1>3. CASE Pattern # {}
    <2> DEFINE L == {Len(p) : p \in Pattern}
               f == [p \in Pattern |-> Len(p)]
    <2>1. PICK b \in Nat : \A p \in Pattern : f[p] <= b
      <3>1. IsFiniteSet(Pattern) /\ \A p \in Pattern : f[p] \in Nat
        BY <1>1, ReplacementAssumption
      <3> HIDE DEF f
      <3> QED BY <3>1, Bounded
    <2>2. \E m \in L : \A n \in L : n <= m
      <3>1. L \in SUBSET Nat /\ L # {} /\ \A n \in L : n <= b
        BY <1>1, <1>3, <2>1
      <3> HIDE DEF L
      <3> QED BY <3>1, <2>1, GreatestNumber
    <2>3. \E m \in L : \A p \in Pattern : Len(p) <= m
      BY <2>2
    <2>4. MaxPattern \in L /\ \A p \in Pattern : Len(p) <= MaxPattern
      BY <1>3, <2>3 DEF MaxPattern
    <2> QED BY <1>1, <2>4
  <1> QED BY <1>2, <1>3

\* Where some pattern occurs, the longest one that occurs there is chosen.
LEMMA LongestAt ==
  ASSUME NEW s \in Seq(Symbol), NEW i \in Nat, At(s, i) # {}
  PROVE  /\ Longest(At(s, i)) \in Pattern
         /\ i + Len(Longest(At(s, i))) <= Len(s)
  <1> DEFINE L == {Len(p) : p \in At(s, i)}
  <1>1. \A p \in At(s, i) : p \in Pattern /\ Len(p) \in Nat /\ i + Len(p) <= Len(s)
    BY PatternFacts DEF At
  <1>2. \E m \in L : \A n \in L : n <= m
    <2>1. L \in SUBSET Nat /\ L # {} /\ Len(s) \in Nat
      <3>1. PICK p \in At(s, i) : TRUE
        OBVIOUS
      <3>2. Len(p) \in L
        OBVIOUS
      <3>3. L \in SUBSET Nat
        BY <1>1
      <3> QED BY <3>2, <3>3
    <2>2. \A n \in L : n <= Len(s)
      BY <1>1, <2>1
    <2> HIDE DEF L
    <2> QED BY <2>1, <2>2, GreatestNumber
  <1>3. \E p \in At(s, i) : \A q \in At(s, i) : Len(q) <= Len(p)
    BY <1>2
  <1>4. Longest(At(s, i)) \in At(s, i)
    BY <1>3 DEF Longest
  <1> QED BY <1>1, <1>4

LEMMA EndType ==
  ASSUME NEW s \in Seq(Symbol), NEW eof
  PROVE  StableEnd(s, eof) \in 0 .. Len(s)
  BY PatternFacts DEF StableEnd

\* Before the stable end, what is found does not depend on what is yet to come.
LEMMA StableAt ==
  ASSUME NEW s \in Seq(Symbol), NEW u \in Seq(Symbol), NEW eof \in BOOLEAN, eof => u = <<>>,
         NEW i \in Nat, i < StableEnd(s, eof)
  PROVE  At(s, i) = At(s \o u, i)
  <1>1. CASE eof
    <2>1. s \o u = s
      BY <1>1
    <2> QED BY <2>1
  <1>2. CASE ~eof
    <2>1. ASSUME NEW p \in Pattern PROVE i + Len(p) <= Len(s)
      <3>1. MaxPattern # 0 /\ MaxPattern \in Nat /\ Len(p) \in Nat /\ Len(p) <= MaxPattern
        BY PatternFacts
      <3> QED BY <1>2, <3>1 DEF StableEnd
    <2>2. ASSUME NEW p \in Pattern
          PROVE  /\ i + Len(p) <= Len(s \o u)
                 /\ SubSeq(s \o u, i + 1, i + Len(p)) = SubSeq(s, i + 1, i + Len(p))
      <3>1. Len(p) \in Nat /\ i + Len(p) <= Len(s)
        BY <2>1, PatternFacts
      <3> QED BY <3>1
    <2> QED BY <2>1, <2>2 DEF At
  <1> QED BY <1>1, <1>2

\* The search finds the first place with a match.
LEMMA FindFirst ==
  ASSUME NEW s \in Seq(Symbol), NEW c \in Nat, Starts(s, c) # {}
  PROVE  /\ Find(s, c) \in c .. Len(s) - 1 /\ At(s, Find(s, c)) # {}
         /\ \A i \in c .. Find(s, c) - 1 : At(s, i) = {}
  <1>1. \E i \in Starts(s, c) : \A j \in Starts(s, c) : i <= j
    <2>1. Starts(s, c) \in SUBSET Nat
      BY DEF Starts
    <2> QED BY <2>1, LeastNumber
  <1>2. Find(s, c) \in Starts(s, c) /\ \A j \in Starts(s, c) : Find(s, c) <= j
    BY <1>1 DEF Find
  <1>3. Find(s, c) \in c .. Len(s) - 1 /\ At(s, Find(s, c)) # {}
    BY <1>2 DEF Starts
  <1>4. ASSUME NEW i \in c .. Find(s, c) - 1 PROVE At(s, i) = {}
    <2>1. i \in c .. Len(s) - 1 /\ ~(Find(s, c) <= i)
      BY <1>3
    <2> QED BY <1>2, <2>1 DEF Starts
  <1> QED BY <1>3, <1>4

-----------------------------------------------------------------------------
(* What the two functions compute *)

\* One step of the replacement of a whole content, and of emit_stable.
ReplacedStep(s, i, f) ==
  IF i = Len(s) THEN <<>>
  ELSE IF At(s, i) = {} THEN <<s[i + 1]>> \o f[i + 1]
  ELSE Replacement[Longest(At(s, i))] \o f[i + Len(Longest(At(s, i)))]

EmittedStep(s, eof, c, f) ==
  LET start == Find(s, c)
      found == Longest(At(s, start))
      rest  == f[start + Len(found)]
  IN IF c >= StableEnd(s, eof) THEN [out |-> <<>>, cursor |-> c]
     ELSE IF Starts(s, c) = {} \/ start >= StableEnd(s, eof)
     THEN [out |-> SubSeq(s, c + 1, StableEnd(s, eof)), cursor |-> StableEnd(s, eof)]
     ELSE [out |-> SubSeq(s, c + 1, start) \o Replacement[found] \o rest.out,
           cursor |-> rest.cursor]

LEMMA ReplacedStepType ==
  ASSUME NEW s \in Seq(Symbol), NEW i \in 0 .. Len(s), NEW f,
         \A j \in i + 1 .. Len(s) : f[j] \in Seq(Symbol)
  PROVE  ReplacedStep(s, i, f) \in Seq(Symbol)
  <1>1. CASE i = Len(s)
    BY <1>1 DEF ReplacedStep
  <1>2. CASE i # Len(s) /\ At(s, i) = {}
    <2>1. i + 1 \in 1 .. Len(s) /\ i + 1 \in i + 1 .. Len(s)
      BY <1>2
    <2>2. <<s[i + 1]>> \in Seq(Symbol) /\ f[i + 1] \in Seq(Symbol)
      BY <2>1
    <2>3. ReplacedStep(s, i, f) = <<s[i + 1]>> \o f[i + 1]
      BY <1>2 DEF ReplacedStep
    <2> QED BY <2>2, <2>3, ConcatProperties
  <1>3. CASE i # Len(s) /\ At(s, i) # {}
    <2> DEFINE p == Longest(At(s, i))
    <2>1. p \in Pattern /\ i + Len(p) <= Len(s)
      BY <1>3, LongestAt
    <2> HIDE DEF p
    <2>2. Replacement[p] \in Seq(Symbol) /\ i + Len(p) \in i + 1 .. Len(s)
      BY <2>1, PatternFacts
    <2>3. ReplacedStep(s, i, f) = Replacement[p] \o f[i + Len(p)]
      BY <1>3 DEF ReplacedStep, p
    <2> QED BY <2>2, <2>3, ConcatProperties
  <1> QED BY <1>1, <1>2, <1>3

\* The replacement of what follows a place is one step and that of the rest.
LEMMA ReplacedUnfolds ==
  ASSUME NEW s \in Seq(Symbol)
  PROVE  \A i \in 0 .. Len(s) : /\ ReplacedFrom(s)[i] \in Seq(Symbol)
                                /\ ReplacedFrom(s)[i] = ReplacedStep(s, i, ReplacedFrom(s))
  <1> DEFINE n == Len(s)
             X == Seq(Symbol)
             G == [x \in (0 .. n) \X [0 .. n -> X] |-> ReplacedStep(s, x[1], x[2])]
  <1>0. n \in Nat /\ X # {}
    <2>1. <<>> \in X
      OBVIOUS
    <2> QED BY <2>1
  <1>1. ASSUME NEW i \in 0 .. n, NEW f \in [0 .. n -> X] PROVE G[<<i, f>>] = ReplacedStep(s, i, f)
    OBVIOUS
  <1>2. ASSUME NEW i \in 0 .. n, NEW f \in [0 .. n -> X] PROVE G[<<i, f>>] \in X
    <2>1. \A j \in i + 1 .. n : f[j] \in X
      BY <1>0
    <2> QED BY <1>1, <2>1, ReplacedStepType
  <1>3. ASSUME NEW i \in 0 .. n, NEW f \in [0 .. n -> X], NEW g \in [0 .. n -> X],
               \A j \in i + 1 .. n : f[j] = g[j]
        PROVE  ReplacedStep(s, i, f) = ReplacedStep(s, i, g)
    <2>1. CASE i = n
      BY <2>1 DEF ReplacedStep
    <2>2. CASE i # n /\ At(s, i) = {}
      <3>1. f[i + 1] = g[i + 1]
        BY <1>0, <1>3, <2>2
      <3> QED BY <2>2, <3>1 DEF ReplacedStep
    <2>3. CASE i # n /\ At(s, i) # {}
      <3> DEFINE p == Longest(At(s, i))
      <3>1. p \in Pattern /\ i + Len(p) <= Len(s)
        BY <2>3, LongestAt
      <3> HIDE DEF p
      <3>2. i + Len(p) \in i + 1 .. n
        BY <3>1, PatternFacts
      <3>3. f[i + Len(p)] = g[i + Len(p)]
        BY <1>3, <3>2
      <3> QED BY <2>3, <3>3 DEF ReplacedStep, p
    <2> QED BY <2>1, <2>2, <2>3
  <1>4. \A i \in 0 .. n : \A f, g \in [0 .. n -> X] :
           (\A j \in i + 1 .. n : f[j] = g[j]) => G[<<i, f>>] = G[<<i, g>>]
    BY <1>1, <1>3
  <1>5. \A i \in 0 .. n : \A f \in [0 .. n -> X] : G[<<i, f>>] \in X
    BY <1>2
  <1>6. PICK h \in [0 .. n -> X] : \A i \in 0 .. n : h[i] = ReplacedStep(s, i, h)
    <2>1. DependsOnTheRest(n, X, G)
      <3> HIDE DEF G, X, n
      <3> QED BY <1>4, <1>5 DEF DependsOnTheRest
    <2>2. \E h : Solves(h, n, X, G)
      <3> HIDE DEF G, X, n
      <3> QED BY <1>0, <2>1, Backward
    <2> QED BY <2>2, <1>1 DEF Solves
  <1>7. h = [i \in 0 .. n |-> ReplacedStep(s, i, h)]
    BY <1>6
  <1>8. ReplacedFrom(s) = [i \in 0 .. n |-> ReplacedStep(s, i, ReplacedFrom(s))]
    BY <1>7 DEF ReplacedFrom, ReplacedStep
  <1> DEFINE S == {i \in 0 .. n : ReplacedFrom(s)[i] \in Seq(Symbol)}
  <1>9. ASSUME NEW i \in 0 .. n, \A j \in i + 1 .. n : j \in S PROVE i \in S
    <2>1. ReplacedFrom(s)[i] = ReplacedStep(s, i, ReplacedFrom(s))
      BY <1>8
    <2>2. \A j \in i + 1 .. Len(s) : ReplacedFrom(s)[j] \in Seq(Symbol)
      BY <1>9
    <2>3. ReplacedStep(s, i, ReplacedFrom(s)) \in Seq(Symbol)
      BY <2>2, ReplacedStepType
    <2> QED BY <2>1, <2>3
  <1>10. \A i \in 0 .. n : i \in S
    <2> HIDE DEF S, n
    <2> QED BY <1>0, <1>9, Downward
  <1>11. \A i \in 0 .. n : ReplacedFrom(s)[i] = ReplacedStep(s, i, ReplacedFrom(s))
    BY <1>8
  <1> QED BY <1>10, <1>11

-----------------------------------------------------------------------------
\* What emit_stable yields from cursor c on: it never ends before the stable end.
Yields(s, eof) == [out : Seq(Symbol), cursor : StableEnd(s, eof) .. Len(s)]

\* A match found before the stable end leaves the search further to the right.
LEMMA FoundMatch ==
  ASSUME NEW s \in Seq(Symbol), NEW eof, NEW c \in 0 .. Len(s), c < StableEnd(s, eof),
         Starts(s, c) # {}, Find(s, c) < StableEnd(s, eof)
  PROVE  /\ Find(s, c) \in c .. Len(s) - 1 /\ At(s, Find(s, c)) # {}
         /\ Longest(At(s, Find(s, c))) \in Pattern
         /\ Find(s, c) + Len(Longest(At(s, Find(s, c)))) \in c + 1 .. Len(s)
  <1>1. c \in Nat /\ Len(s) \in Nat
    OBVIOUS
  <1>2. Find(s, c) \in c .. Len(s) - 1 /\ At(s, Find(s, c)) # {}
    BY <1>1, FindFirst
  <1> DEFINE start == Find(s, c)
             found == Longest(At(s, start))
  <1>3. found \in Pattern /\ start + Len(found) <= Len(s)
    <2>1. start \in Nat /\ At(s, start) # {}
      BY <1>1, <1>2
    <2> HIDE DEF start
    <2> QED BY <2>1, LongestAt
  <1>4. start + Len(found) \in c + 1 .. Len(s)
    <2>1. Len(found) \in Nat /\ 1 <= Len(found)
      BY <1>3, PatternFacts
    <2> HIDE DEF start, found
    <2> QED BY <1>1, <1>2, <1>3, <2>1 DEF start
  <1> QED BY <1>2, <1>3, <1>4

LEMMA EmittedStepType ==
  ASSUME NEW s \in Seq(Symbol), NEW eof, NEW c \in 0 .. Len(s), NEW f,
         \A j \in c + 1 .. Len(s) : f[j] \in Yields(s, eof)
  PROVE  EmittedStep(s, eof, c, f) \in Yields(s, eof)
  <1> DEFINE end == StableEnd(s, eof)
             start == Find(s, c)
             found == Longest(At(s, start))
             j == start + Len(found)
  <1>0. end \in 0 .. Len(s) /\ Len(s) \in Nat /\ c \in Nat
    BY EndType
  <1>1. CASE c >= end
    <2>1. EmittedStep(s, eof, c, f) = [out |-> <<>>, cursor |-> c]
      BY <1>1 DEF EmittedStep
    <2>2. <<>> \in Seq(Symbol) /\ c \in end .. Len(s)
      BY <1>0, <1>1
    <2> QED BY <2>1, <2>2 DEF Yields
  <1>2. CASE ~(c >= end) /\ (Starts(s, c) = {} \/ start >= end)
    <2>1. EmittedStep(s, eof, c, f) = [out |-> SubSeq(s, c + 1, end), cursor |-> end]
      BY <1>2 DEF EmittedStep
    <2>2. SubSeq(s, c + 1, end) \in Seq(Symbol) /\ end \in end .. Len(s)
      BY <1>0
    <2> QED BY <2>1, <2>2 DEF Yields
  <1>3. CASE ~(c >= end) /\ Starts(s, c) # {} /\ ~(start >= end)
    <2>1. c < end
      BY <1>0, <1>3
    <2>2. start < end
      <3>1. start \in Int
        BY <1>0, <1>3, FindFirst
      <3> HIDE DEF start
      <3> QED BY <1>0, <1>3, <3>1 DEF start
    <2>3. start \in c .. Len(s) - 1 /\ found \in Pattern /\ j \in c + 1 .. Len(s)
      BY <1>3, <2>1, <2>2, FoundMatch
    <2>4. EmittedStep(s, eof, c, f) =
            [out |-> SubSeq(s, c + 1, start) \o Replacement[found] \o f[j].out,
             cursor |-> f[j].cursor]
      BY <1>3 DEF EmittedStep
    <2>5. f[j] \in Yields(s, eof)
      BY <2>3
    <2>6. f[j].out \in Seq(Symbol) /\ f[j].cursor \in end .. Len(s)
      BY <2>5 DEF Yields
    <2>7. SubSeq(s, c + 1, start) \in Seq(Symbol) /\ Replacement[found] \in Seq(Symbol)
      <3> HIDE DEF start, found
      <3>1. Replacement[found] \in Seq(Symbol)
        BY <2>3, PatternFacts
      <3>2. \A i \in c + 1 .. start : s[i] \in Symbol
        BY <1>0, <2>3
      <3> QED BY <1>0, <2>3, <3>1, <3>2, SubSeqProperties
    <2> HIDE DEF start, found, j, end
    <2>8. SubSeq(s, c + 1, start) \o Replacement[found] \o f[j].out \in Seq(Symbol)
      BY <2>6, <2>7, ConcatProperties
    <2> QED BY <2>4, <2>6, <2>8 DEF Yields, end
  <1> QED BY <1>1, <1>2, <1>3

\* So is what is emitted from a cursor on, which stays within the input.
LEMMA EmittedUnfolds ==
  ASSUME NEW s \in Seq(Symbol), NEW eof
  PROVE  \A c \in 0 .. Len(s) :
           /\ EmittedFrom(s, eof)[c] \in Yields(s, eof)
           /\ EmittedFrom(s, eof)[c] = EmittedStep(s, eof, c, EmittedFrom(s, eof))
  <1> DEFINE n == Len(s)
             X == Yields(s, eof)
             G == [x \in (0 .. n) \X [0 .. n -> X] |-> EmittedStep(s, eof, x[1], x[2])]
  <1>0. n \in Nat /\ X # {}
    <2>1. StableEnd(s, eof) \in 0 .. Len(s)
      BY EndType
    <2>2. [out |-> <<>>, cursor |-> n] \in X
      BY <2>1 DEF Yields
    <2> QED BY <2>2
  <1>1. ASSUME NEW i \in 0 .. n, NEW f \in [0 .. n -> X]
        PROVE  G[<<i, f>>] = EmittedStep(s, eof, i, f)
    OBVIOUS
  <1>2. ASSUME NEW i \in 0 .. n, NEW f \in [0 .. n -> X] PROVE G[<<i, f>>] \in X
    <2>1. \A j \in i + 1 .. n : f[j] \in X
      BY <1>0
    <2> QED BY <1>1, <2>1, EmittedStepType
  <1>3. ASSUME NEW i \in 0 .. n, NEW f \in [0 .. n -> X], NEW g \in [0 .. n -> X],
               \A j \in i + 1 .. n : f[j] = g[j]
        PROVE  EmittedStep(s, eof, i, f) = EmittedStep(s, eof, i, g)
    <2> DEFINE start == Find(s, i)
               j == start + Len(Longest(At(s, start)))
    <2>1. CASE i >= StableEnd(s, eof) \/ Starts(s, i) = {} \/ start >= StableEnd(s, eof)
      BY <2>1 DEF EmittedStep
    <2>2. CASE ~(i >= StableEnd(s, eof)) /\ Starts(s, i) # {} /\ ~(start >= StableEnd(s, eof))
      <3>1. StableEnd(s, eof) \in 0 .. Len(s) /\ i \in Nat
        BY EndType
      <3>2. start \in Int
        BY <2>2, <3>1, FindFirst
      <3>3. i < StableEnd(s, eof) /\ start < StableEnd(s, eof)
        <4> HIDE DEF start
        <4> QED BY <2>2, <3>1, <3>2
      <3>4. j \in i + 1 .. n
        BY <2>2, <3>3, FoundMatch
      <3>5. f[j] = g[j]
        <4> HIDE DEF j
        <4> QED BY <1>3, <3>4
      <3> QED BY <2>2, <3>5 DEF EmittedStep
    <2> QED BY <2>1, <2>2
  <1>4. \A i \in 0 .. n : \A f, g \in [0 .. n -> X] :
           (\A j \in i + 1 .. n : f[j] = g[j]) => G[<<i, f>>] = G[<<i, g>>]
    BY <1>1, <1>3
  <1>5. \A i \in 0 .. n : \A f \in [0 .. n -> X] : G[<<i, f>>] \in X
    BY <1>2
  <1>6. PICK h \in [0 .. n -> X] : \A i \in 0 .. n : h[i] = EmittedStep(s, eof, i, h)
    <2>1. DependsOnTheRest(n, X, G)
      <3> HIDE DEF G, X, n
      <3> QED BY <1>4, <1>5 DEF DependsOnTheRest
    <2>2. \E h : Solves(h, n, X, G)
      <3> HIDE DEF G, X, n
      <3> QED BY <1>0, <2>1, Backward
    <2> QED BY <2>2, <1>1 DEF Solves
  <1>7. h = [i \in 0 .. n |-> EmittedStep(s, eof, i, h)]
    BY <1>6
  <1>8. EmittedFrom(s, eof) = [i \in 0 .. n |-> EmittedStep(s, eof, i, EmittedFrom(s, eof))]
    BY <1>7 DEF EmittedFrom, EmittedStep, After
  <1> DEFINE S == {i \in 0 .. n : EmittedFrom(s, eof)[i] \in X}
  <1>9. ASSUME NEW i \in 0 .. n, \A j \in i + 1 .. n : j \in S PROVE i \in S
    <2>1. EmittedFrom(s, eof)[i] = EmittedStep(s, eof, i, EmittedFrom(s, eof))
      BY <1>8
    <2>2. \A j \in i + 1 .. Len(s) : EmittedFrom(s, eof)[j] \in X
      BY <1>9
    <2>3. EmittedStep(s, eof, i, EmittedFrom(s, eof)) \in X
      BY <2>2, EmittedStepType
    <2> QED BY <2>1, <2>3
  <1>10. \A i \in 0 .. n : i \in S
    <2> HIDE DEF S, n
    <2> QED BY <1>0, <1>9, Downward
  <1>11. \A i \in 0 .. n : EmittedFrom(s, eof)[i] = EmittedStep(s, eof, i, EmittedFrom(s, eof))
    BY <1>8
  <1> QED BY <1>10, <1>11

-----------------------------------------------------------------------------
(* Chunks of the input *)

LEMMA Associative ==
  ASSUME NEW x \in Seq(Symbol), NEW y \in Seq(Symbol), NEW z \in Seq(Symbol)
  PROVE  (x \o y) \o z = x \o (y \o z)
  BY ConcatAssociative

\* The same, with a name for the concatenation.
Joined(x, y) == x \o y

LEMMA JoinedAssociative ==
  \A x, y, z \in Seq(Symbol) : Joined(Joined(x, y), z) = Joined(x, Joined(y, z))
  BY ConcatAssociative DEF Joined

LEMMA JoinedTwice ==
  ASSUME NEW x \in Seq(Symbol), NEW y \in Seq(Symbol), NEW z \in Seq(Symbol), NEW w \in Seq(Symbol)
  PROVE  Joined(x, Joined(y, Joined(z, w))) = Joined(Joined(Joined(x, y), z), w)
  <1>1. \A a, b \in Seq(Symbol) : Joined(a, b) \in Seq(Symbol)
    BY ConcatProperties DEF Joined
  <1> QED BY <1>1, JoinedAssociative

LEMMA ReplacedType ==
  ASSUME NEW s \in Seq(Symbol), NEW i \in 0 .. Len(s)
  PROVE  ReplacedFrom(s)[i] \in Seq(Symbol)
  BY ReplacedUnfolds

CopiedTo(s, m, c) == ReplacedFrom(s)[c] = SubSeq(s, c + 1, m) \o ReplacedFrom(s)[m]

\* What no pattern occurs in is copied.
LEMMA Copied ==
  ASSUME NEW s \in Seq(Symbol), NEW m \in 0 .. Len(s), NEW b \in 0 .. m,
         \A i \in b .. m - 1 : At(s, i) = {}
  PROVE  ReplacedFrom(s)[b] = SubSeq(s, b + 1, m) \o ReplacedFrom(s)[m]
  <1> DEFINE R == ReplacedFrom(s)
             S == {c \in 0 .. m : b <= c => CopiedTo(s, m, c)}
  <1>0. m \in Nat /\ b \in Nat /\ b <= m /\ Len(s) \in Nat /\ R[m] \in Seq(Symbol) /\ m <= Len(s)
    BY ReplacedType
  <1>1. ASSUME NEW c \in 0 .. m, \A j \in c + 1 .. m : j \in S, b <= c
        PROVE  R[c] = SubSeq(s, c + 1, m) \o R[m]
    <2>1. CASE c = m
      <3>1. SubSeq(s, c + 1, m) = <<>>
        BY <1>0, <2>1, SubSeqEmpty
      <3> QED BY <1>0, <2>1, <3>1, ConcatEmptySeq
    <2>2. CASE c # m
      <3>1. c + 1 \in c + 1 .. m /\ c + 1 \in 1 .. Len(s) /\ m \in c + 1 .. Len(s) /\ b <= c + 1
            /\ c \in 0 .. Len(s) /\ c # Len(s) /\ c \in b .. m - 1
        BY <1>0, <1>1, <2>2
      <3>2. R[c + 1] = SubSeq(s, c + 2, m) \o R[m]
        <4>1. c + 1 \in S
          BY <1>1, <3>1
        <4>2. (c + 1) + 1 = c + 2
          BY <3>1
        <4>3. CopiedTo(s, m, c + 1)
          BY <3>1, <4>1
        <4> QED BY <4>2, <4>3 DEF CopiedTo
      <3>3. R[c] = <<s[c + 1]>> \o R[c + 1]
        <4>1. R[c] = ReplacedStep(s, c, R)
          BY <3>1, ReplacedUnfolds
        <4>2. At(s, c) = {}
          BY <3>1
        <4> QED BY <3>1, <4>1, <4>2 DEF ReplacedStep
      <3>4. SubSeq(s, c + 1, m) = <<s[c + 1]>> \o SubSeq(s, c + 2, m)
        <4>1. (c + 1) + 1 = c + 2
          BY <3>1
        <4> QED BY <3>1, <4>1, SubSeqRecursiveFirst
      <3>5. <<s[c + 1]>> \in Seq(Symbol) /\ SubSeq(s, c + 2, m) \in Seq(Symbol)
        <4>1. \A i \in c + 2 .. m : s[i] \in Symbol
          BY <1>0
        <4> QED BY <1>0, <3>1, <4>1, SubSeqProperties
      <3> HIDE DEF R
      <3>6. (<<s[c + 1]>> \o SubSeq(s, c + 2, m)) \o R[m] = <<s[c + 1]>> \o (SubSeq(s, c + 2, m) \o R[m])
        BY <1>0, <3>5, Associative, Zenon
      <3> QED BY <3>2, <3>3, <3>4, <3>6, Zenon
    <2> QED BY <2>1, <2>2
  <1>2. \A c \in 0 .. m : (\A j \in c + 1 .. m : j \in S) => c \in S
    BY <1>1 DEF CopiedTo
  <1>3. \A c \in 0 .. m : c \in S
    <2> HIDE DEF S
    <2> QED BY <1>0, <1>2, Downward
  <1>4. b \in S
    BY <1>0, <1>3
  <1>5. CopiedTo(s, m, b)
    BY <1>0, <1>4
  <1> QED BY <1>5 DEF CopiedTo

LEMMA JoinedType ==
  ASSUME NEW s \in Seq(Symbol), NEW u \in Seq(Symbol)
  PROVE  s \o u \in Seq(Symbol) /\ Len(s \o u) = Len(s) + Len(u) /\ Len(s) \in Nat /\ Len(u) \in Nat
  BY ConcatProperties

\* What emit_stable writes of a chunk is what the replacement of the chunk with all
\* that follows it begins with, and the rest is the replacement from its cursor on.
LEMMA ChunkFrom ==
  ASSUME NEW s \in Seq(Symbol), NEW u \in Seq(Symbol), NEW eof \in BOOLEAN, eof => u = <<>>
  PROVE  \A c \in 0 .. Len(s) :
           ReplacedFrom(s \o u)[c] =
             EmittedFrom(s, eof)[c].out \o ReplacedFrom(s \o u)[EmittedFrom(s, eof)[c].cursor]
  <1> DEFINE t == s \o u
             n == Len(s)
             end == StableEnd(s, eof)
             R == ReplacedFrom(t)
             E == EmittedFrom(s, eof)
             S == {c \in 0 .. n : R[c] = E[c].out \o R[E[c].cursor]}
  <1>0. t \in Seq(Symbol) /\ n \in Nat /\ Len(t) \in Nat /\ n <= Len(t) /\ end \in 0 .. n
    BY JoinedType, EndType
  <1>r. \A c \in 0 .. n : R[c] \in Seq(Symbol)
    <2>1. \A c \in 0 .. n : c \in 0 .. Len(t)
      BY <1>0
    <2> HIDE DEF t
    <2> QED BY <1>0, <2>1, ReplacedType
  <1>e. \A c \in 0 .. n : E[c].out \in Seq(Symbol) /\ E[c].cursor \in 0 .. n
    <2>1. \A c \in 0 .. n : E[c] \in Yields(s, eof)
      BY EmittedUnfolds
    <2>2. \A x \in Yields(s, eof) : x.out \in Seq(Symbol) /\ x.cursor \in 0 .. n
      BY <1>0 DEF Yields
    <2> HIDE DEF E
    <2> QED BY <2>1, <2>2
  <1>a. \A i \in Nat : i < end => At(s, i) = At(t, i)
    BY StableAt
  <1>1. ASSUME NEW c \in 0 .. n, \A j \in c + 1 .. n : j \in S
        PROVE  R[c] = E[c].out \o R[E[c].cursor]
    <2>0. E[c] = EmittedStep(s, eof, c, E)
      BY EmittedUnfolds
    <2>n. c \in Nat
      OBVIOUS
    <2>1. CASE c >= end
      <3>1. E[c].out = <<>> /\ E[c].cursor = c
        BY <2>0, <2>1 DEF EmittedStep
      <3>2. R[c] \in Seq(Symbol)
        BY <1>r
      <3> HIDE DEF R, E
      <3> QED BY <3>1, <3>2, ConcatEmptySeq
    <2>2. CASE ~(c >= end) /\ (Starts(s, c) = {} \/ Find(s, c) >= end)
      <3>1. E[c].out = SubSeq(s, c + 1, end) /\ E[c].cursor = end
        <4>1. E[c] = [out |-> SubSeq(s, c + 1, end), cursor |-> end]
          BY <2>0, <2>2 DEF EmittedStep
        <4>2. PICK o : o = SubSeq(s, c + 1, end)
          OBVIOUS
        <4>3. PICK k : k = end
          OBVIOUS
        <4> HIDE DEF E
        <4>4. E[c] = [out |-> o, cursor |-> k]
          BY <4>1, <4>2, <4>3, Zenon
        <4>5. E[c].out = o /\ E[c].cursor = k
          BY <4>4
        <4> QED BY <4>2, <4>3, <4>5, Zenon
      <3>2. ASSUME NEW i \in c .. end - 1 PROVE At(s, i) = {}
        <4>1. i \in Nat /\ i \in c .. n - 1 /\ i < end
          BY <1>0, <2>n
        <4>2. CASE Starts(s, c) = {}
          BY <4>1, <4>2 DEF Starts
        <4>3. CASE Starts(s, c) # {}
          <5>1. Find(s, c) >= end /\ Find(s, c) \in c .. n - 1 /\ \A j \in c .. Find(s, c) - 1 : At(s, j) = {}
            BY <2>2, <2>n, <4>3, FindFirst
          <5>2. i \in c .. Find(s, c) - 1
            BY <1>0, <2>n, <4>1, <5>1
          <5> QED BY <5>1, <5>2
        <4> QED BY <4>2, <4>3
      <3>3. \A i \in c .. end - 1 : At(t, i) = {}
        <4>1. \A i \in c .. end - 1 : i \in Nat /\ i < end
          BY <1>0, <2>n
        <4> QED BY <1>a, <3>2, <4>1
      <3>4. R[c] = SubSeq(t, c + 1, end) \o R[end]
        <4>1. end \in 0 .. Len(t) /\ c \in 0 .. end
          BY <1>0, <2>n, <2>2
        <4> HIDE DEF t, end
        <4> QED BY <1>0, <3>3, <4>1, Copied
      <3>5. SubSeq(t, c + 1, end) = SubSeq(s, c + 1, end)
        <4>1. c + 1 \in 1 .. n /\ end \in 1 .. n
          BY <1>0, <2>n, <2>2
        <4> HIDE DEF end
        <4> QED BY <4>1, SubSeqOfConcat1
      <3> HIDE DEF R, E, t, end
      <3> QED BY <3>1, <3>4, <3>5
    <2>3. CASE ~(c >= end) /\ Starts(s, c) # {} /\ ~(Find(s, c) >= end)
      <3> DEFINE start == Find(s, c)
                 found == Longest(At(s, start))
                 j == start + Len(found)
      <3>0. c < end /\ start < end
        <4>1. start \in Int
          BY <2>n, <2>3, FindFirst
        <4> HIDE DEF start
        <4> QED BY <1>0, <2>n, <2>3, <4>1 DEF start
      <3>1. /\ start \in c .. n - 1 /\ At(s, start) # {} /\ found \in Pattern /\ j \in c + 1 .. n
            /\ \A i \in c .. start - 1 : At(s, i) = {}
        <4>1. \A i \in c .. start - 1 : At(s, i) = {}
          BY <2>n, <2>3, FindFirst
        <4> QED BY <2>3, <3>0, <4>1, FoundMatch
      <3>2. E[c].out = SubSeq(s, c + 1, start) \o Replacement[found] \o E[j].out
            /\ E[c].cursor = E[j].cursor
        <4>1. E[c] = [out |-> SubSeq(s, c + 1, start) \o Replacement[found] \o E[j].out,
                      cursor |-> E[j].cursor]
          BY <2>0, <2>3 DEF EmittedStep
        <4>2. PICK o : o = SubSeq(s, c + 1, start) \o Replacement[found] \o E[j].out
          OBVIOUS
        <4>3. PICK k : k = E[j].cursor
          OBVIOUS
        <4> HIDE DEF E
        <4>4. E[c] = [out |-> o, cursor |-> k]
          BY <4>1, <4>2, <4>3, Zenon
        <4>5. E[c].out = o /\ E[c].cursor = k
          BY <4>4
        <4> QED BY <4>2, <4>3, <4>5, Zenon
      <3>3. start \in Nat /\ start + 1 \in Nat /\ start \in 0 .. Len(t) /\ c \in 0 .. start /\ start # Len(t)
        <4> HIDE DEF start, t
        <4> QED BY <1>0, <2>n, <3>1
      <3>4. \A i \in c .. start - 1 : At(t, i) = {}
        <4> HIDE DEF start
        <4>1. \A i \in c .. start - 1 : i \in Nat /\ i < end
          BY <1>0, <2>n, <3>0, <3>1, <3>3
        <4> HIDE DEF t
        <4> QED BY <1>a, <3>1, <4>1
      <3>5. R[c] = SubSeq(t, c + 1, start) \o R[start]
        <4> HIDE DEF t, start
        <4> QED BY <1>0, <3>3, <3>4, Copied
      <3>6. SubSeq(t, c + 1, start) = SubSeq(s, c + 1, start)
        <4>1. CASE start = c
          <5>1. start < c + 1 /\ c + 1 \in Int /\ start \in Int
            BY <4>1, <2>n
          <5> HIDE DEF start, t
          <5> QED BY <5>1, SubSeqEmpty
        <4>2. CASE start # c
          <5> HIDE DEF start
          <5>1. c + 1 \in 1 .. n /\ start \in 1 .. n
            BY <1>0, <2>n, <3>1, <4>2
          <5> QED BY <5>1, SubSeqOfConcat1
        <4> QED BY <4>1, <4>2
      <3>7. At(t, start) = At(s, start)
        <4> HIDE DEF t, start
        <4> QED BY <1>a, <3>0, <3>3
      <3>8. R[start] = Replacement[found] \o R[j]
        <4>1. R[start] = ReplacedStep(t, start, R)
          <5> HIDE DEF t, start
          <5> QED BY <1>0, <3>3, ReplacedUnfolds
        <4>2. R[start] = Replacement[Longest(At(t, start))] \o R[start + Len(Longest(At(t, start)))]
          <5> HIDE DEF t, start, R
          <5> QED BY <3>1, <3>3, <3>7, <4>1 DEF ReplacedStep
        <4> HIDE DEF t, start, R
        <4> QED BY <3>7, <4>2
      <3>9. R[j] = E[j].out \o R[E[j].cursor]
        <4> HIDE DEF j, R, E
        <4>1. j \in S
          BY <1>1, <3>1
        <4> QED BY <4>1
      <3>10. /\ SubSeq(s, c + 1, start) \in Seq(Symbol) /\ Replacement[found] \in Seq(Symbol)
             /\ E[j].out \in Seq(Symbol) /\ R[E[j].cursor] \in Seq(Symbol)
        <4>1. \A i \in c + 1 .. start : s[i] \in Symbol
          <5> HIDE DEF start
          <5> QED BY <1>0, <2>n, <3>1, <3>3
        <4>2. SubSeq(s, c + 1, start) \in Seq(Symbol)
          <5> HIDE DEF start
          <5> QED BY <2>n, <3>3, <4>1, SubSeqProperties
        <4>3. Replacement[found] \in Seq(Symbol)
          <5> HIDE DEF found
          <5> QED BY <3>1, PatternFacts
        <4>4. j \in 0 .. n
          <5> HIDE DEF j
          <5> QED BY <1>0, <2>n, <3>1
        <4> HIDE DEF j, R, E, found, start
        <4> QED BY <1>r, <1>e, <4>2, <4>3, <4>4
      <3> HIDE DEF t, start, R, E, j, found
      <3>11. R[c] = SubSeq(s, c + 1, start) \o (Replacement[found] \o (E[j].out \o R[E[j].cursor]))
        BY <3>5, <3>6, <3>8, <3>9
      <3>12. R[c] = ((SubSeq(s, c + 1, start) \o Replacement[found]) \o E[j].out) \o R[E[j].cursor]
        <4>1. PICK x \in Seq(Symbol) : x = SubSeq(s, c + 1, start)
          BY <3>10, Zenon
        <4>2. PICK y \in Seq(Symbol) : y = Replacement[found]
          BY <3>10, Zenon
        <4>3. PICK z \in Seq(Symbol) : z = E[j].out
          BY <3>10, Zenon
        <4>4. PICK w \in Seq(Symbol) : w = R[E[j].cursor]
          BY <3>10, Zenon
        <4>5. R[c] = x \o (y \o (z \o w))
          BY <3>11, <4>1, <4>2, <4>3, <4>4, Zenon
        <4>6. R[c] = ((x \o y) \o z) \o w
          <5>1. x \o (y \o (z \o w)) = ((x \o y) \o z) \o w
            <6>1. Joined(x, Joined(y, Joined(z, w))) = Joined(Joined(Joined(x, y), z), w)
              BY JoinedTwice
            <6> QED BY <6>1, Zenon DEF Joined
          <5> QED BY <4>5, <5>1
        <4>7. (x \o y) \o z = (SubSeq(s, c + 1, start) \o Replacement[found]) \o E[j].out
          BY <4>1, <4>2, <4>3, Zenon
        <4> QED BY <4>4, <4>6, <4>7, Zenon
      <3> QED BY <3>2, <3>12
    <2> QED BY <2>1, <2>2, <2>3
  <1>2. \A c \in 0 .. n : (\A j \in c + 1 .. n : j \in S) => c \in S
    BY <1>1
  <1>3. \A c \in 0 .. n : c \in S
    <2> HIDE DEF S, n
    <2> QED BY <1>0, <1>2, Downward
  <1> QED BY <1>3

\* The part of a sequence between two of its places.
LEMMA Between ==
  ASSUME NEW s \in Seq(Symbol), NEW b \in 0 .. Len(s), NEW a \in 0 .. b
  PROVE  /\ SubSeq(s, a + 1, b) \in Seq(Symbol) /\ Len(SubSeq(s, a + 1, b)) = b - a
         /\ \A j \in 1 .. b - a : SubSeq(s, a + 1, b)[j] = s[a + j]
  <1>0. a \in Nat /\ b \in Nat /\ a <= b /\ b <= Len(s) /\ Len(s) \in Nat
    OBVIOUS
  <1>1. \A i \in a + 1 .. b : s[i] \in Symbol
    BY <1>0
  <1> DEFINE x == SubSeq(s, a + 1, b)
             l == a + 1
  <1>2. l \in Int /\ b \in Int /\ b - l + 1 = b - a
    BY <1>0
  <1>3. /\ x \in Seq(Symbol) /\ Len(x) = (IF l <= b THEN b - l + 1 ELSE 0)
        /\ \A i \in 1 .. b - l + 1 : x[i] = s[l + i - 1]
    <2> HIDE DEF l
    <2>1. \A i \in l .. b : s[i] \in Symbol
      BY <1>1 DEF l
    <2> QED BY <1>2, <2>1, SubSeqProperties DEF l
  <1>4. \A i \in 1 .. b - a : l + i - 1 = a + i
    BY <1>0
  <1>5. Len(x) = b - a
    <2> HIDE DEF x
    <2> QED BY <1>0, <1>3
  <1> HIDE DEF x, l
  <1>6. \A j \in 1 .. b - a : x[j] = s[a + j]
    BY <1>2, <1>3, <1>4
  <1> QED BY <1>3, <1>5, <1>6 DEF x

\* The replacement from a place on is the replacement of what follows the place.
LEMMA FromHereOn ==
  ASSUME NEW t \in Seq(Symbol), NEW c \in 0 .. Len(t), NEW w, w = SubSeq(t, c + 1, Len(t))
  PROVE  /\ w \in Seq(Symbol) /\ Len(w) = Len(t) - c
         /\ \A i \in 0 .. Len(t) - c : ReplacedFrom(t)[c + i] = ReplacedFrom(w)[i]
  <1> DEFINE R == ReplacedFrom(t)
             Q == ReplacedFrom(w)
             n == Len(t) - c
             S == {i \in 0 .. n : R[c + i] = Q[i]}
  <1>0. Len(t) \in Nat /\ c \in Nat /\ n \in Nat /\ c <= Len(t)
    OBVIOUS
  <1>1. w \in Seq(Symbol) /\ Len(w) = n /\ \A i \in 1 .. n : w[i] = t[c + i]
    <2>1. Len(t) \in 0 .. Len(t) /\ c \in 0 .. Len(t)
      BY <1>0
    <2> QED BY <2>1, Between
  <1>2. ASSUME NEW i \in 0 .. n PROVE At(w, i) = At(t, c + i)
    <2>0. i \in Nat
      OBVIOUS
    <2>1. ASSUME NEW p \in Pattern
          PROVE  /\ i + Len(p) <= Len(w) <=> (c + i) + Len(p) <= Len(t)
                 /\ i + Len(p) <= Len(w) =>
                      SubSeq(w, i + 1, i + Len(p)) = SubSeq(t, (c + i) + 1, (c + i) + Len(p))
      <3>1. Len(p) \in Nat /\ 1 <= Len(p)
        BY PatternFacts
      <3>2. ASSUME NEW m \in Nat, 1 <= m
            PROVE  /\ i + m <= Len(w) <=> (c + i) + m <= Len(t)
                   /\ i + m <= Len(w) => SubSeq(w, i + 1, i + m) = SubSeq(t, (c + i) + 1, (c + i) + m)
        <4>1. i + m <= Len(w) <=> (c + i) + m <= Len(t)
          BY <1>0, <1>1, <2>0
        <4>2. ASSUME i + m <= Len(w)
              PROVE  SubSeq(w, i + 1, i + m) = SubSeq(t, (c + i) + 1, (c + i) + m)
          <5> DEFINE x == SubSeq(w, i + 1, i + m)
                     y == SubSeq(t, (c + i) + 1, (c + i) + m)
          <5>3. x \in Seq(Symbol) /\ Len(x) = m /\ \A j \in 1 .. m : x[j] = w[i + j]
            <6>1. i + m \in 0 .. Len(w) /\ i \in 0 .. i + m /\ i + m - i = m
              BY <1>0, <1>1, <2>0, <4>2
            <6>2. /\ x \in Seq(Symbol) /\ Len(x) = i + m - i
                  /\ \A j \in 1 .. i + m - i : x[j] = w[i + j]
              BY <1>1, <6>1, Between
            <6> HIDE DEF x
            <6> QED BY <6>1, <6>2
          <5>4. y \in Seq(Symbol) /\ Len(y) = m /\ \A j \in 1 .. m : y[j] = t[c + i + j]
            <6>1. c + i + m \in 0 .. Len(t) /\ c + i \in 0 .. c + i + m /\ c + i + m - (c + i) = m
              BY <1>0, <1>1, <2>0, <4>1, <4>2
            <6>2. /\ y \in Seq(Symbol) /\ Len(y) = c + i + m - (c + i)
                  /\ \A j \in 1 .. c + i + m - (c + i) : y[j] = t[c + i + j]
              BY <1>1, <6>1, Between
            <6> HIDE DEF y
            <6> QED BY <6>1, <6>2
          <5>5. ASSUME NEW j \in 1 .. m PROVE x[j] = y[j]
            <6>1. c + i + j = c + (i + j) /\ i + j \in 1 .. n
              BY <1>0, <1>1, <2>0, <4>2
            <6> HIDE DEF x, y, n
            <6> QED BY <1>1, <5>3, <5>4, <6>1
          <5> HIDE DEF x, y
          <5>6. x = y
            BY <5>3, <5>4, <5>5, SeqEqual
          <5> QED BY <5>6 DEF x, y
        <4> QED BY <4>1, <4>2
      <3> QED BY <3>1, <3>2
    <2> QED BY <2>1 DEF At
  <1>3. ASSUME NEW i \in 0 .. n, \A j \in i + 1 .. n : j \in S PROVE i \in S
    <2>0. i \in Nat /\ i \in 0 .. Len(w) /\ c + i \in 0 .. Len(t) /\ c + i \in Nat
      BY <1>0, <1>1
    <2>1. R[c + i] = ReplacedStep(t, c + i, R)
      BY <2>0, ReplacedUnfolds
    <2>2. Q[i] = ReplacedStep(w, i, Q)
      BY <1>1, <2>0, ReplacedUnfolds
    <2>3. At(w, i) = At(t, c + i)
      BY <1>2
    <2>j. ASSUME NEW m \in Nat, m >= 1, i + m <= n PROVE R[c + i + m] = Q[i + m]
      <3>1. i + m \in i + 1 .. n /\ c + i + m = c + (i + m)
        BY <1>0, <2>0, <2>j
      <3>2. i + m \in S
        BY <1>3, <3>1
      <3> HIDE DEF R, Q
      <3> QED BY <3>1, <3>2
    <2> HIDE DEF R, Q
    <2>4. CASE i = n
      <3>1. c + i = Len(t) /\ i = Len(w)
        BY <1>0, <1>1, <2>4
      <3>2. R[c + i] = <<>> /\ Q[i] = <<>>
        BY <2>1, <2>2, <3>1 DEF ReplacedStep
      <3> QED BY <3>2
    <2>5. CASE i # n /\ At(w, i) = {}
      <3>1. c + i # Len(t) /\ i # Len(w) /\ i + 1 \in 1 .. n /\ i + 1 <= n /\ c + (i + 1) = c + i + 1
        BY <1>0, <1>1, <2>0, <2>5
      <3>2. R[c + i] = <<t[c + i + 1]>> \o R[c + i + 1] /\ Q[i] = <<w[i + 1]>> \o Q[i + 1]
        BY <2>1, <2>2, <2>3, <2>5, <3>1 DEF ReplacedStep
      <3>3. w[i + 1] = t[c + i + 1]
        BY <1>1, <3>1
      <3>4. R[c + i + 1] = Q[i + 1]
        BY <2>j, <3>1
      <3>5. R[c + i] = Q[i]
        BY <3>2, <3>3, <3>4, Zenon
      <3> QED BY <3>5
    <2>6. CASE i # n /\ At(w, i) # {}
      <3> DEFINE p == Longest(At(w, i))
      <3>1. c + i # Len(t) /\ i # Len(w)
        BY <1>0, <1>1, <2>0, <2>6
      <3>2. p \in Pattern /\ i + Len(p) <= Len(w)
        BY <1>1, <2>0, <2>6, LongestAt
      <3>3. R[c + i] = Replacement[p] \o R[c + i + Len(p)] /\ Q[i] = Replacement[p] \o Q[i + Len(p)]
        BY <2>1, <2>2, <2>3, <2>6, <3>1 DEF ReplacedStep
      <3> HIDE DEF p
      <3>4. Len(p) \in Nat /\ Len(p) >= 1 /\ i + Len(p) <= n
        <4>1. Len(p) \in Nat /\ 1 <= Len(p)
          BY <3>2, PatternFacts
        <4> QED BY <1>1, <3>2, <4>1
      <3>5. R[c + i + Len(p)] = Q[i + Len(p)]
        BY <2>j, <3>4
      <3>6. R[c + i] = Q[i]
        BY <3>3, <3>5, Zenon
      <3> QED BY <3>6
    <2> QED BY <2>4, <2>5, <2>6
  <1>4. \A i \in 0 .. n : i \in S
    <2> HIDE DEF S, n
    <2> QED BY <1>0, <1>3, Downward
  <1>5. \A i \in 0 .. n : R[c + i] = Q[i]
    <2> HIDE DEF R, Q
    <2> QED BY <1>4
  <1> QED BY <1>1, <1>5

LEMMA ReplacedIsSeq ==
  ASSUME NEW s \in Seq(Symbol)
  PROVE  Replaced(s) \in Seq(Symbol)
  <1>1. 0 \in 0 .. Len(s)
    OBVIOUS
  <1> QED BY <1>1, ReplacedType DEF Replaced

\* What is emitted and carried over are sequences, and the cursor is in the input.
LEMMA EmittedFacts ==
  ASSUME NEW s \in Seq(Symbol), NEW eof
  PROVE  /\ Emitted(s, eof).out \in Seq(Symbol)
         /\ Emitted(s, eof).cursor \in StableEnd(s, eof) .. Len(s)
         /\ Emitted(s, eof).cursor \in 0 .. Len(s)
         /\ Carry(s, eof) \in Seq(Symbol)
  <1>1. 0 \in 0 .. Len(s) /\ Len(s) \in Nat
    OBVIOUS
  <1>2. Emitted(s, eof) \in Yields(s, eof)
    BY <1>1, EmittedUnfolds DEF Emitted
  <1>3. Emitted(s, eof).out \in Seq(Symbol) /\ Emitted(s, eof).cursor \in StableEnd(s, eof) .. Len(s)
    BY <1>2 DEF Yields
  <1>4. Emitted(s, eof).cursor \in 0 .. Len(s)
    BY <1>1, <1>3, EndType
  <1>5. Carry(s, eof) \in Seq(Symbol)
    <2>1. PICK k \in 0 .. Len(s) : k = Emitted(s, eof).cursor
      BY <1>4
    <2>2. SubSeq(s, k + 1, Len(s)) \in Seq(Symbol)
      BY <2>1, FromHereOn
    <2> QED BY <2>1, <2>2 DEF Carry
  <1> QED BY <1>3, <1>4, <1>5

\* What is written of a chunk and the replacement of what is carried over with all
\* that is still to come are the replacement of the chunk with all that is to come.
THEOREM ChunkReplaced ==
  ASSUME NEW s \in Seq(Symbol), NEW u \in Seq(Symbol), NEW eof \in BOOLEAN, eof => u = <<>>
  PROVE  Replaced(s \o u) = Emitted(s, eof).out \o Replaced(Carry(s, eof) \o u)
  <1> DEFINE t == s \o u
  <1>0. t \in Seq(Symbol) /\ Len(s) \in Nat /\ Len(t) \in Nat /\ Len(t) = Len(s) + Len(u) /\ Len(u) \in Nat
        /\ 0 \in 0 .. Len(s)
    BY JoinedType
  <1>1. PICK k \in 0 .. Len(s) : k = Emitted(s, eof).cursor
    BY EmittedFacts
  <1>2. ReplacedFrom(t)[0] = Emitted(s, eof).out \o ReplacedFrom(t)[k]
    BY <1>0, <1>1, ChunkFrom DEF Emitted
  <1> DEFINE w == SubSeq(t, k + 1, Len(t))
  <1>3. k \in 0 .. Len(t) /\ 0 \in 0 .. Len(t) - k /\ k + 0 = k
    <2> HIDE DEF t
    <2> QED BY <1>0
  <1>4. w \in Seq(Symbol) /\ Len(w) = Len(t) - k /\ ReplacedFrom(t)[k] = ReplacedFrom(w)[0]
    <2>1. PICK v : v = w
      OBVIOUS
    <2>2. v \in Seq(Symbol) /\ Len(v) = Len(t) - k /\ ReplacedFrom(t)[k + 0] = ReplacedFrom(v)[0]
      <3> HIDE DEF t
      <3> QED BY <1>0, <1>3, <2>1, FromHereOn
    <2> HIDE DEF w, t
    <2> QED BY <1>3, <2>1, <2>2
  <1>5. w = SubSeq(s, k + 1, Len(s)) \o u
    <2> DEFINE v == SubSeq(s, k + 1, Len(s))
    <2>1. v \in Seq(Symbol) /\ Len(v) = Len(s) - k /\ \A i \in 1 .. Len(s) - k : v[i] = s[k + i]
      <3>1. Len(s) \in 0 .. Len(s) /\ k \in 0 .. Len(s)
        BY <1>0
      <3> QED BY <3>1, Between
    <2>2. \A i \in 1 .. Len(t) - k : w[i] = t[k + i]
      <3>1. Len(t) \in 0 .. Len(t) /\ k \in 0 .. Len(t)
        BY <1>0, <1>3
      <3> HIDE DEF t
      <3> QED BY <1>0, <3>1, Between
    <2>3. \A i \in 1 .. Len(t) : t[i] = IF i <= Len(s) THEN s[i] ELSE u[i - Len(s)]
      BY <1>0, ConcatProperties
    <2> DEFINE x == v \o u
    <2>4. x \in Seq(Symbol) /\ Len(x) = Len(v) + Len(u)
          /\ \A i \in 1 .. Len(v) + Len(u) : x[i] = IF i <= Len(v) THEN v[i] ELSE u[i - Len(v)]
      <3> HIDE DEF v
      <3> QED BY <2>1, ConcatProperties
    <2> HIDE DEF x, v, w, t
    <2>5. Len(x) = Len(w)
      BY <1>0, <1>4, <2>1, <2>4
    <2>6. ASSUME NEW i \in 1 .. Len(x) PROVE x[i] = w[i]
      <3>1. i \in 1 .. Len(t) - k /\ k + i \in 1 .. Len(t) /\ i \in 1 .. Len(v) + Len(u)
        BY <1>0, <1>4, <2>1, <2>4, <2>5
      <3>2. w[i] = IF k + i <= Len(s) THEN s[k + i] ELSE u[k + i - Len(s)]
        BY <2>2, <2>3, <3>1
      <3>3. CASE i <= Len(v)
        <4>1. k + i <= Len(s) /\ i \in 1 .. Len(s) - k
          BY <1>0, <2>1, <3>1, <3>3
        <4> QED BY <2>1, <2>4, <3>1, <3>2, <3>3, <4>1
      <3>4. CASE ~(i <= Len(v))
        <4>1. ~(k + i <= Len(s)) /\ k + i - Len(s) = i - Len(v)
          BY <1>0, <2>1, <3>1, <3>4
        <4> QED BY <2>4, <3>1, <3>2, <3>4, <4>1
      <3> QED BY <3>3, <3>4
    <2>7. x = w
      BY <1>4, <2>4, <2>5, <2>6, SeqEqual
    <2> QED BY <2>7 DEF x, v
  <1>6. w = Carry(s, eof) \o u
    BY <1>1, <1>5 DEF Carry
  <1> HIDE DEF w, t
  <1>7. ReplacedFrom(t)[0] = Emitted(s, eof).out \o ReplacedFrom(w)[0]
    BY <1>2, <1>4, Zenon
  <1> QED BY <1>6, <1>7, Zenon DEF Replaced, t

\* At the end of the input, everything is replaced and nothing is carried over.
THEOREM LastChunk ==
  ASSUME NEW s \in Seq(Symbol)
  PROVE  Emitted(s, TRUE).out = Replaced(s) /\ Carry(s, TRUE) = <<>>
  <1>0. <<>> \in Seq(Symbol) /\ s \o <<>> = s /\ Len(s) \in Nat
    BY ConcatEmptySeq
  <1>1. Emitted(s, TRUE).cursor = Len(s)
    <2>1. StableEnd(s, TRUE) = Len(s)
      BY DEF StableEnd
    <2>2. Emitted(s, TRUE).cursor \in StableEnd(s, TRUE) .. Len(s)
      BY EmittedFacts
    <2>3. PICK k : k = Emitted(s, TRUE).cursor
      OBVIOUS
    <2>4. k \in Len(s) .. Len(s)
      BY <2>1, <2>2, <2>3, Zenon
    <2>5. k = Len(s)
      BY <1>0, <2>4
    <2> QED BY <2>3, <2>5, Zenon
  <1>2. Carry(s, TRUE) = <<>>
    <2>1. SubSeq(s, Len(s) + 1, Len(s)) = <<>>
      BY <1>0, SubSeqEmpty
    <2>2. Carry(s, TRUE) = SubSeq(s, Len(s) + 1, Len(s))
      BY <1>1, Zenon DEF Carry
    <2> QED BY <2>1, <2>2, Zenon
  <1>3. Replaced(<<>>) = <<>>
    <2>1. 0 \in 0 .. Len(<<>>) /\ Len(<<>>) = 0
      OBVIOUS
    <2>2. ReplacedFrom(<<>>)[0] = ReplacedStep(<<>>, 0, ReplacedFrom(<<>>))
      BY <1>0, <2>1, ReplacedUnfolds
    <2> QED BY <2>1, <2>2 DEF Replaced, ReplacedStep
  <1>4. Replaced(s \o <<>>) = Emitted(s, TRUE).out \o Replaced(Carry(s, TRUE) \o <<>>)
    BY <1>0, ChunkReplaced
  <1>5. <<>> \o <<>> = <<>>
    BY ConcatEmptySeq
  <1>6. Replaced(s) = Emitted(s, TRUE).out \o <<>>
    BY <1>0, <1>2, <1>3, <1>4, <1>5, Zenon
  <1>7. PICK x \in Seq(Symbol) : x = Emitted(s, TRUE).out
    BY EmittedFacts
  <1>8. x \o <<>> = x
    BY ConcatEmptySeq
  <1> QED BY <1>2, <1>6, <1>7, <1>8, Zenon

-----------------------------------------------------------------------------
(* Types *)

Frames == [kind : {"Data", "Final", "Complete", "Invalid", "Other"}, data : Seq(Symbol)]

Bodies == [got : Seq(Symbol), open : BOOLEAN, complete : BOOLEAN,
           error : {"None", "Invalid", "Other"}]

Producers ==
  [pc : {"None", "Run", "Last", "Sent", "Error", "End"}, read : Nat, carry : Seq(Symbol),
   out : Seq(Symbol), pipe : Seq(Symbol), over : BOOLEAN, made : Seq(Symbol),
   frame : Seq(Symbol), held : Seq(Symbol), send : Seq(Seq(Symbol) \cup BOOLEAN),
   claim : BOOLEAN, abort : BOOLEAN]

\* What is being sent: a frame or, at the end, whether the error is one of validation.
SendOK(p) ==
  /\ p.pc = "Run" /\ p.send # <<>> => p.send = <<p.send[1]>> /\ p.send[1] \in Seq(Symbol)
  /\ p.pc = "Error" => p.send \in {<<TRUE>>, <<FALSE>>}

Marks == [attempt : 0 .. MaxAttempts,
          stage : {"AwaitingFirstPoll", "ReadingSource", "FinalFrameReady", "Complete",
                   "ReceiverClosed", "BodyError"}]

\* A request whose body is not polled yet has not used up its attempt, and the
\* bodies not polled yet are untouched.
TypeOK ==
  /\ entry \in Entry
  /\ task \in {"Prepare", "Between", "Request", "Done", "Reconciled", "Skipped", "Failed"}
  /\ tries \in 0 .. entry.attempts /\ length \in Nat
  /\ spooled \in BOOLEAN /\ planned \in BOOLEAN /\ invalid \in BOOLEAN
  /\ etag \in Seq(Seq(Symbol))
  /\ bodies \in 0 .. tries /\ current \in 0 .. bodies
  /\ task = "Request" /\ current = 0 => bodies < tries
  /\ body \in [Attempt -> Bodies]
  /\ prod \in [Attempt -> Producers]
  /\ \A k \in Attempt : SendOK(prod[k])
  /\ chan \in [Attempt -> Seq(Frames)]
  /\ mark \in Marks
  /\ snap \in [attempt : 0 .. MaxAttempts, emitted : Nat, dropped : BOOLEAN]
  /\ \A k \in Attempt : k > bodies => body[k] = NoBody /\ prod[k] = NoProducer /\ chan[k] = <<>>

-----------------------------------------------------------------------------
(* Content *)

\* The content of an entry: what its deliveries are to have.
ContentOf(e) == IF e.marker THEN Replaced(e.stream) ELSE e.stream

LEMMA EntryFacts ==
  ASSUME NEW e \in Entry
  PROVE  /\ e.stream \in Seq(Symbol) /\ e.declared \in Seq(Symbol)
         /\ Len(e.stream) \in Nat /\ Len(e.declared) \in Nat
         /\ e.marker \in BOOLEAN /\ e.header \in BOOLEAN
         /\ e.trusted \in BOOLEAN /\ e.attempts \in 1 .. MaxAttempts /\ MaxAttempts \in Nat
         /\ ContentOf(e) \in Seq(Symbol) /\ Len(ContentOf(e)) \in Nat
         /\ Output(e) = ContentOf(e)
  <1>1. /\ e.stream \in Seq(Symbol) /\ e.declared \in Seq(Symbol)
        /\ e.marker \in BOOLEAN /\ e.header \in BOOLEAN /\ e.trusted \in BOOLEAN
        /\ e.attempts \in 1 .. MaxAttempts /\ MaxAttempts \in Nat
    BY EntryAssumption
  <1>2. Replaced(e.stream) \in Seq(Symbol) /\ Emitted(e.stream, TRUE).out = Replaced(e.stream)
    BY <1>1, ReplacedIsSeq, LastChunk
  <1>3. ContentOf(e) \in Seq(Symbol) /\ Output(e) = ContentOf(e)
    BY <1>1, <1>2, Zenon DEF ContentOf, Output
  <1> QED BY <1>1, <1>3

\* s is the content I between two of its places.
Piece(I, a, s, b) == a \in Nat /\ b \in a .. Len(I) /\ s = SubSeq(I, a + 1, b)

Places(I) == 0 .. Len(I)

LEMMA PieceFacts ==
  ASSUME NEW I \in Seq(Symbol), NEW a, NEW b, NEW s, Piece(I, a, s, b)
  PROVE  /\ a \in Places(I) /\ b \in Places(I) /\ a <= b /\ a \in Nat /\ b \in Nat
         /\ s \in Seq(Symbol) /\ Len(s) = b - a
         /\ \A j \in 1 .. b - a : s[j] = I[a + j]
  <1>1. a \in Nat /\ b \in 0 .. Len(I) /\ a \in 0 .. b /\ s = SubSeq(I, a + 1, b) /\ Len(I) \in Nat
    BY DEF Piece
  <1>2. a \in Places(I) /\ b \in Places(I) /\ a <= b /\ b \in Nat
    BY <1>1 DEF Places
  <1> QED BY <1>1, <1>2, Between

\* A piece is told by its symbols.
LEMMA PieceIs ==
  ASSUME NEW I \in Seq(Symbol), NEW b \in 0 .. Len(I), NEW a \in 0 .. b, NEW s \in Seq(Symbol),
         Len(s) = b - a, \A j \in 1 .. b - a : s[j] = I[a + j]
  PROVE  Piece(I, a, s, b)
  <1> DEFINE x == SubSeq(I, a + 1, b)
  <1>1. x \in Seq(Symbol) /\ Len(x) = b - a /\ \A j \in 1 .. b - a : x[j] = I[a + j]
    BY Between
  <1> HIDE DEF x
  <1>2. \A j \in 1 .. Len(s) : s[j] = x[j]
    BY <1>1
  <1>3. s = x
    BY <1>1, <1>2, SeqEqual
  <1>4. a \in Nat /\ b \in a .. Len(I)
    OBVIOUS
  <1> QED BY <1>3, <1>4 DEF Piece, x

LEMMA PieceEmpty ==
  ASSUME NEW I \in Seq(Symbol), NEW a \in Places(I)
  PROVE  Piece(I, a, <<>>, a) /\ \A b : Piece(I, a, <<>>, b) => b = a
  <1>1. Piece(I, a, <<>>, a)
    <2>1. SubSeq(I, a + 1, a) = <<>>
      BY SubSeqEmpty DEF Places
    <2> QED BY <2>1 DEF Piece, Places
  <1>2. ASSUME NEW b, Piece(I, a, <<>>, b) PROVE b = a
    <2>1. Len(<<>>) = b - a /\ a \in Nat /\ b \in Nat
      BY <1>2, PieceFacts
    <2> QED BY <2>1
  <1> QED BY <1>1, <1>2

\* Pieces that meet are one piece, and one piece is two that meet.
LEMMA PieceJoin ==
  ASSUME NEW I \in Seq(Symbol), NEW a, NEW b, NEW c, NEW s, NEW t,
         Piece(I, a, s, b), Piece(I, b, t, c)
  PROVE  Piece(I, a, s \o t, c)
  <1>1. /\ a \in Nat /\ b \in Nat /\ a <= b /\ s \in Seq(Symbol) /\ Len(s) = b - a
        /\ \A j \in 1 .. b - a : s[j] = I[a + j]
    BY PieceFacts
  <1>2. /\ c \in Places(I) /\ c \in Nat /\ b <= c /\ t \in Seq(Symbol) /\ Len(t) = c - b
        /\ \A j \in 1 .. c - b : t[j] = I[b + j]
    BY PieceFacts
  <1> DEFINE x == s \o t
  <1>3. /\ x \in Seq(Symbol) /\ Len(x) = Len(s) + Len(t)
        /\ \A i \in 1 .. Len(s) + Len(t) : x[i] = IF i <= Len(s) THEN s[i] ELSE t[i - Len(s)]
    BY <1>1, <1>2, ConcatProperties
  <1> HIDE DEF x
  <1>4. ASSUME NEW j \in 1 .. c - a PROVE x[j] = I[a + j]
    <2>1. j \in 1 .. Len(s) + Len(t)
      BY <1>1, <1>2
    <2>2. CASE j <= Len(s)
      BY <1>1, <1>3, <2>1, <2>2
    <2>3. CASE ~(j <= Len(s))
      <3>1. j - Len(s) \in 1 .. c - b /\ b + (j - Len(s)) = a + j
        BY <1>1, <1>2, <2>3
      <3> QED BY <1>2, <1>3, <2>1, <2>3, <3>1
    <2> QED BY <2>2, <2>3
  <1>5. c \in 0 .. Len(I) /\ a \in 0 .. c /\ Len(x) = c - a
    BY <1>1, <1>2, <1>3 DEF Places
  <1> QED BY <1>3, <1>4, <1>5, PieceIs DEF x

LEMMA PieceSplit ==
  ASSUME NEW I \in Seq(Symbol), NEW a, NEW c, NEW s, Piece(I, a, s, c), NEW n \in 0 .. Len(s)
  PROVE  /\ Piece(I, a, SubSeq(s, 1, n), a + n)
         /\ Piece(I, a + n, SubSeq(s, n + 1, Len(s)), c)
  <1>1. /\ a \in Nat /\ c \in Nat /\ c \in 0 .. Len(I) /\ a <= c /\ s \in Seq(Symbol) /\ Len(s) = c - a
        /\ \A j \in 1 .. c - a : s[j] = I[a + j]
    BY PieceFacts DEF Places
  <1>2. n \in Nat /\ n <= c - a
    BY <1>1
  <1> DEFINE x == SubSeq(s, 1, n)
             y == SubSeq(s, n + 1, Len(s))
  <1>3. x \in Seq(Symbol) /\ Len(x) = n /\ \A j \in 1 .. n : x[j] = s[j]
    <2>1. 0 \in 0 .. n /\ n \in 0 .. Len(s) /\ 0 + 1 = 1 /\ n - 0 = n
      BY <1>1, <1>2
    <2>2. /\ SubSeq(s, 0 + 1, n) \in Seq(Symbol) /\ Len(SubSeq(s, 0 + 1, n)) = n - 0
          /\ \A j \in 1 .. n - 0 : SubSeq(s, 0 + 1, n)[j] = s[0 + j]
      BY <1>1, <2>1, Between
    <2>3. \A j \in 1 .. n : 0 + j = j
      OBVIOUS
    <2> QED BY <2>1, <2>2, <2>3
  <1>4. y \in Seq(Symbol) /\ Len(y) = Len(s) - n /\ \A j \in 1 .. Len(s) - n : y[j] = s[n + j]
    <2>1. Len(s) \in 0 .. Len(s) /\ n \in 0 .. Len(s)
      BY <1>1, <1>2
    <2> QED BY <1>1, <2>1, Between
  <1> HIDE DEF x, y
  <1>5. Piece(I, a, x, a + n)
    <2>1. a + n \in 0 .. Len(I) /\ a \in 0 .. a + n /\ Len(x) = (a + n) - a
      BY <1>1, <1>2, <1>3
    <2>2. ASSUME NEW j \in 1 .. (a + n) - a PROVE x[j] = I[a + j]
      <3>1. j \in 1 .. n /\ j \in 1 .. c - a
        BY <1>1, <1>2
      <3> QED BY <1>1, <1>3, <3>1
    <2> QED BY <1>3, <2>1, <2>2, PieceIs
  <1>6. Piece(I, a + n, y, c)
    <2>1. a + n \in 0 .. c /\ Len(y) = c - (a + n)
      BY <1>1, <1>2, <1>4
    <2>2. ASSUME NEW j \in 1 .. c - (a + n) PROVE y[j] = I[a + n + j]
      <3>1. j \in 1 .. Len(s) - n /\ n + j \in 1 .. c - a /\ a + (n + j) = a + n + j
        BY <1>1, <1>2
      <3> QED BY <1>1, <1>4, <3>1
    <2> QED BY <1>1, <1>4, <2>1, <2>2, PieceIs
  <1> QED BY <1>5, <1>6 DEF x, y

\* The piece from end to end is the content.
LEMMA PieceWhole ==
  ASSUME NEW I \in Seq(Symbol), NEW s, Piece(I, 0, s, Len(I))
  PROVE  s = I
  <1>1. SubSeq(I, 1, Len(I)) = I
    BY SubSeqFull
  <1> QED BY <1>1 DEF Piece

\* The middle one of three parts.
LEMMA PieceMiddle ==
  ASSUME NEW x \in Seq(Symbol), NEW y \in Seq(Symbol), NEW z \in Seq(Symbol),
         NEW I, I = (x \o y) \o z
  PROVE  Piece(I, Len(x), y, Len(x \o y)) /\ Len(x \o y) <= Len(I)
  <1> DEFINE w == x \o y
  <1>1. w \in Seq(Symbol) /\ Len(w) = Len(x) + Len(y) /\ Len(x) \in Nat /\ Len(y) \in Nat
        /\ \A i \in 1 .. Len(x) + Len(y) : w[i] = IF i <= Len(x) THEN x[i] ELSE y[i - Len(x)]
    BY ConcatProperties
  <1> HIDE DEF w
  <1>2. I \in Seq(Symbol) /\ Len(I) = Len(w) + Len(z) /\ Len(z) \in Nat
        /\ \A i \in 1 .. Len(w) + Len(z) : I[i] = IF i <= Len(w) THEN w[i] ELSE z[i - Len(w)]
    BY <1>1, ConcatProperties DEF w
  <1>3. ASSUME NEW j \in 1 .. Len(w) - Len(x) PROVE y[j] = I[Len(x) + j]
    <2>1. Len(x) + j \in 1 .. Len(w) + Len(z) /\ Len(x) + j <= Len(w) /\ ~(Len(x) + j <= Len(x))
          /\ Len(x) + j \in 1 .. Len(x) + Len(y) /\ Len(x) + j - Len(x) = j
      BY <1>1, <1>2
    <2> QED BY <1>1, <1>2, <2>1
  <1>4. Len(w) \in 0 .. Len(I) /\ Len(x) \in 0 .. Len(w) /\ Len(y) = Len(w) - Len(x)
    BY <1>1, <1>2
  <1>5. Piece(I, Len(x), y, Len(w))
    BY <1>1, <1>2, <1>3, <1>4, PieceIs
  <1> QED BY <1>4, <1>5 DEF w

-----------------------------------------------------------------------------
(* Frames on their way *)

Ends(item) == item.kind \in {"Final", "Complete"}

\* The frames in a channel are the content from a to b, piece by piece, and after
\* the last frame of a body nothing of it is left.
Queued(I, q, a, b) ==
  \E cut \in [0 .. Len(q) -> Places(I)] :
    /\ cut[0] = a /\ cut[Len(q)] = b
    /\ \A i \in 1 .. Len(q) :
         /\ Piece(I, cut[i - 1], q[i].data, cut[i])
         /\ Ends(q[i]) => cut[i] = Len(I)

LEMMA QueuedEmpty ==
  ASSUME NEW I \in Seq(Symbol), NEW a \in Places(I)
  PROVE  Queued(I, <<>>, a, a)
  <1> DEFINE cut == [i \in 0 .. 0 |-> a]
  <1>1. Len(<<>>) = 0 /\ cut \in [0 .. 0 -> Places(I)] /\ cut[0] = a /\ 0 \in 0 .. 0
    OBVIOUS
  <1>2. \A i \in 1 .. 0 : FALSE
    OBVIOUS
  <1> HIDE DEF cut
  <1> QED BY <1>1, <1>2 DEF Queued

\* A frame sent adds its piece to those in the channel, one received takes it away.
LEMMA QueuedAppend ==
  ASSUME NEW I \in Seq(Symbol), NEW q \in Seq(Frames), NEW a, NEW b, NEW c, NEW item \in Frames,
         Queued(I, q, a, b), Piece(I, b, item.data, c), Ends(item) => c = Len(I)
  PROVE  Queued(I, Append(q, item), a, c)
  <1>1. PICK cut \in [0 .. Len(q) -> Places(I)] :
          /\ cut[0] = a /\ cut[Len(q)] = b
          /\ \A i \in 1 .. Len(q) :
               /\ Piece(I, cut[i - 1], q[i].data, cut[i])
               /\ Ends(q[i]) => cut[i] = Len(I)
    BY DEF Queued
  <1> DEFINE r == Append(q, item)
             n == Len(q)
             new == [i \in 0 .. n + 1 |-> IF i <= n THEN cut[i] ELSE c]
  <1>2. n \in Nat /\ Len(r) = n + 1 /\ r[n + 1] = item /\ \A i \in 1 .. n : r[i] = q[i]
    BY AppendProperties
  <1>3. c \in Places(I)
    BY PieceFacts
  <1>4. new \in [0 .. n + 1 -> Places(I)] /\ new[n + 1] = c /\ \A i \in 0 .. n : new[i] = cut[i]
    <2> HIDE DEF n
    <2> QED BY <1>1, <1>2, <1>3 DEF n
  <1> HIDE DEF new, r, n
  <1>5. ASSUME NEW i \in 1 .. n + 1
        PROVE  Piece(I, new[i - 1], r[i].data, new[i]) /\ (Ends(r[i]) => new[i] = Len(I))
    <2>1. CASE i \in 1 .. n
      <3>1. i - 1 \in 0 .. n /\ i \in 0 .. n
        BY <1>2, <2>1
      <3> QED BY <1>1, <1>2, <1>4, <2>1, <3>1 DEF n
    <2>2. CASE i = n + 1
      <3>1. i - 1 = n /\ n \in 0 .. n
        BY <1>2, <2>2
      <3>2. new[i - 1] = b /\ new[i] = c /\ r[i] = item
        BY <1>1, <1>2, <1>4, <2>2, <3>1 DEF n
      <3> QED BY <3>2
    <2> QED BY <1>2, <2>1, <2>2
  <1>6. new[0] = a
    BY <1>1, <1>2, <1>4
  <1>7. Len(r) = n + 1
    BY <1>2
  <1>8. Queued(I, r, a, c)
    BY <1>4, <1>5, <1>6, <1>7 DEF Queued
  <1> QED BY <1>8 DEF r

LEMMA QueuedTail ==
  ASSUME NEW I \in Seq(Symbol), NEW q \in Seq(Frames), NEW a, NEW b,
         Queued(I, q, a, b), q # <<>>
  PROVE  \E m \in Places(I) : /\ Piece(I, a, Head(q).data, m) /\ Queued(I, Tail(q), m, b)
                              /\ Ends(Head(q)) => m = Len(I)
  <1>1. PICK cut \in [0 .. Len(q) -> Places(I)] :
          /\ cut[0] = a /\ cut[Len(q)] = b
          /\ \A i \in 1 .. Len(q) :
               /\ Piece(I, cut[i - 1], q[i].data, cut[i])
               /\ Ends(q[i]) => cut[i] = Len(I)
    BY DEF Queued
  <1> DEFINE r == Tail(q)
             n == Len(q)
             new == [i \in 0 .. n - 1 |-> cut[i + 1]]
  <1>2. n \in Nat /\ n >= 1 /\ Len(r) = n - 1 /\ Head(q) = q[1] /\ \A i \in 1 .. n - 1 : r[i] = q[i + 1]
    BY HeadTailProperties
  <1>3. \A i \in 0 .. n - 1 : i + 1 \in 0 .. n
    BY <1>2
  <1>4. new \in [0 .. n - 1 -> Places(I)] /\ \A i \in 0 .. n - 1 : new[i] = cut[i + 1]
    <2> HIDE DEF n
    <2> QED BY <1>1, <1>2, <1>3 DEF n
  <1> HIDE DEF new, r, n
  <1>5. ASSUME NEW i \in 1 .. n - 1
        PROVE  Piece(I, new[i - 1], r[i].data, new[i]) /\ (Ends(r[i]) => new[i] = Len(I))
    <2>1. i - 1 \in 0 .. n - 1 /\ i \in 0 .. n - 1 /\ i + 1 \in 1 .. n /\ i + 1 - 1 = i /\ i - 1 + 1 = i
      BY <1>2
    <2>2. new[i - 1] = cut[i] /\ new[i] = cut[i + 1] /\ r[i] = q[i + 1]
      BY <1>2, <1>4, <2>1
    <2>3. Piece(I, cut[i + 1 - 1], q[i + 1].data, cut[i + 1]) /\ (Ends(q[i + 1]) => cut[i + 1] = Len(I))
      BY <1>1, <2>1 DEF n
    <2> QED BY <2>1, <2>2, <2>3
  <1>6. new[0] = cut[1] /\ new[n - 1] = b /\ cut[1] \in Places(I)
    <2>1. 0 \in 0 .. n - 1 /\ n - 1 \in 0 .. n - 1 /\ 0 + 1 = 1 /\ n - 1 + 1 = n /\ 1 \in 0 .. n
      BY <1>2
    <2> QED BY <1>1, <1>4, <2>1 DEF n
  <1>7. Queued(I, r, cut[1], b)
    BY <1>2, <1>4, <1>5, <1>6 DEF Queued
  <1>8. Piece(I, a, Head(q).data, cut[1]) /\ (Ends(Head(q)) => cut[1] = Len(I))
    <2>1. 1 \in 1 .. n /\ 1 - 1 = 0
      BY <1>2
    <2>2. Piece(I, cut[1 - 1], q[1].data, cut[1]) /\ (Ends(q[1]) => cut[1] = Len(I))
      BY <1>1, <2>1 DEF n
    <2> QED BY <1>1, <1>2, <2>1, <2>2
  <1> QED BY <1>6, <1>7, <1>8 DEF r

-----------------------------------------------------------------------------
(* What a producer still has *)

\* The frame being sent, the one held back and the one being filled are the
\* content from a to d.
Front(I, p, a, d) ==
  \E b \in Places(I) : \E c \in Places(I) :
    /\ IF p.send = <<>> THEN b = a ELSE Piece(I, a, p.send[1], b)
    /\ Piece(I, b, p.held, c) /\ Piece(I, c, p.frame, d)

\* And the pipe and the output on its way to it all that follows and was output.
Back(I, p, d) ==
  \E e \in Places(I) : Piece(I, d, p.pipe, e) /\ Piece(I, e, p.out, Len(p.made))

Pending(e, p, a) ==
  \E d \in Places(ContentOf(e)) :
    /\ Front(ContentOf(e), p, a, d)
    /\ IF e.marker THEN Back(ContentOf(e), p, d) ELSE d = p.read

\* All but the frames and what is sent of them.
SameBut(p, q) ==
  /\ q.pc = p.pc /\ q.read = p.read /\ q.carry = p.carry /\ q.out = p.out /\ q.pipe = p.pipe
  /\ q.over = p.over /\ q.made = p.made /\ q.claim = p.claim /\ q.abort = p.abort

LEMMA ShiftFacts ==
  ASSUME NEW p \in Producers, p.pc = "Run", p.send = <<>>
  PROVE  /\ Shift(p) \in Producers /\ SendOK(Shift(p)) /\ SameBut(p, Shift(p))
         /\ Shift(p).frame = <<>> /\ Shift(p).held = p.frame
         /\ Shift(p).send = IF p.held = <<>> THEN <<>> ELSE <<p.held>>
  <1> DEFINE new == IF p.held = <<>> THEN <<>> ELSE <<p.held>>
  <1>1. new \in Seq(Seq(Symbol) \cup BOOLEAN) /\ <<>> \in Seq(Symbol) /\ p.held \in Seq(Symbol)
        /\ (new # <<>> => new = <<new[1]>> /\ new[1] \in Seq(Symbol))
    <2>1. p.held \in Seq(Symbol) /\ <<>> \in Seq(Symbol)
      BY DEF Producers
    <2>2. PICK h : h = p.held
      OBVIOUS
    <2>3. <<h>> \in Seq(Seq(Symbol) \cup BOOLEAN) /\ <<>> \in Seq(Seq(Symbol) \cup BOOLEAN)
          /\ <<h>>[1] = h
      BY <2>1, <2>2
    <2>4. CASE h = <<>>
      <3>1. new = <<>>
        BY <2>2, <2>4
      <3> HIDE DEF new
      <3> QED BY <2>1, <2>3, <3>1
    <2>5. CASE h # <<>>
      <3>1. new = <<h>>
        BY <2>2, <2>5
      <3> HIDE DEF new
      <3> QED BY <2>1, <2>2, <2>3, <3>1
    <2> QED BY <2>4, <2>5
  <1>2. Shift(p) = [p EXCEPT !.frame = <<>>, !.held = p.frame, !.send = new]
    BY DEF Shift
  <1> HIDE DEF new
  <1>3. /\ Shift(p) \in Producers /\ SameBut(p, Shift(p)) /\ Shift(p).frame = <<>>
        /\ Shift(p).held = p.frame /\ Shift(p).send = new
    BY <1>1, <1>2 DEF Producers, SameBut
  <1>4. SendOK(Shift(p))
    BY <1>1, <1>3 DEF SendOK, SameBut
  <1> QED BY <1>3, <1>4 DEF new

LEMMA ShiftFront ==
  ASSUME NEW I \in Seq(Symbol), NEW p \in Producers, p.pc = "Run", p.send = <<>>,
         NEW a \in Places(I), NEW d, Front(I, p, a, d)
  PROVE  Front(I, Shift(p), a, d)
  <1>1. PICK c \in Places(I) : Piece(I, a, p.held, c) /\ Piece(I, c, p.frame, d)
    BY DEF Front
  <1>2. d \in Places(I)
    BY <1>1, PieceFacts
  <1> DEFINE q == Shift(p)
  <1>3. /\ q.frame = <<>> /\ q.held = p.frame
        /\ q.send = IF p.held = <<>> THEN <<>> ELSE <<p.held>>
    BY ShiftFacts
  <1> HIDE DEF q
  <1>4. Piece(I, d, q.frame, d) /\ Piece(I, c, q.held, d)
    BY <1>1, <1>2, <1>3, PieceEmpty
  <1>5. IF q.send = <<>> THEN c = a ELSE Piece(I, a, q.send[1], c)
    <2>1. CASE p.held = <<>>
      <3>1. c = a
        BY <1>1, <2>1, PieceEmpty
      <3> QED BY <1>3, <2>1, <3>1
    <2>2. CASE p.held # <<>>
      <3>1. q.send = <<p.held>> /\ q.send # <<>> /\ q.send[1] = p.held
        BY <1>3, <2>2
      <3> QED BY <1>1, <3>1
    <2> QED BY <2>1, <2>2
  <1> QED BY <1>2, <1>4, <1>5 DEF Front, q

LEMMA FilledFacts ==
  ASSUME NEW p \in Producers, p.pc = "Run", p.send = <<>>, NEW s \in Seq(Symbol)
  PROVE  Filled(p, s) \in Producers /\ SendOK(Filled(p, s)) /\ SameBut(p, Filled(p, s))
  <1> DEFINE q == [p EXCEPT !.frame = p.frame \o s]
  <1>1. p.frame \o s \in Seq(Symbol)
    BY ConcatProperties DEF Producers
  <1>2. q \in Producers /\ q.pc = "Run" /\ q.send = <<>> /\ SameBut(p, q) /\ SendOK(q)
    BY <1>1 DEF Producers, SameBut, SendOK
  <1>3. Filled(p, s) = IF Len(q.frame) = Frame THEN Shift(q) ELSE q
    BY DEF Filled
  <1> HIDE DEF q
  <1>4. Shift(q) \in Producers /\ SendOK(Shift(q)) /\ SameBut(q, Shift(q))
    BY <1>2, ShiftFacts
  <1> QED BY <1>2, <1>3, <1>4 DEF SameBut

\* Symbols that enter the frame lengthen what is on its way to the channel.
LEMMA FilledFront ==
  ASSUME NEW I \in Seq(Symbol), NEW p \in Producers, p.pc = "Run", p.send = <<>>,
         NEW s \in Seq(Symbol), NEW a \in Places(I), NEW d, NEW e,
         Front(I, p, a, d), Piece(I, d, s, e)
  PROVE  Front(I, Filled(p, s), a, e)
  <1> DEFINE q == [p EXCEPT !.frame = p.frame \o s]
  <1>1. p.frame \o s \in Seq(Symbol)
    BY ConcatProperties DEF Producers
  <1>2. q \in Producers /\ q.pc = "Run" /\ q.send = <<>> /\ q.held = p.held /\ q.frame = p.frame \o s
    BY <1>1 DEF Producers
  <1>3. Filled(p, s) = IF Len(q.frame) = Frame THEN Shift(q) ELSE q
    BY DEF Filled
  <1> HIDE DEF q
  <1>4. PICK c \in Places(I) : Piece(I, a, p.held, c) /\ Piece(I, c, p.frame, d)
    BY DEF Front
  <1>5. Piece(I, c, q.frame, e)
    BY <1>2, <1>4, PieceJoin
  <1>6. Front(I, q, a, e)
    BY <1>2, <1>4, <1>5 DEF Front
  <1>7. Front(I, Shift(q), a, e)
    BY <1>2, <1>6, ShiftFront
  <1> QED BY <1>3, <1>6, <1>7

-----------------------------------------------------------------------------
(* Type correctness *)

\* What a producer holds, and the length of a frame.
LEMMA ProducerParts ==
  ASSUME NEW p \in Producers
  PROVE  /\ p.read \in Nat /\ {p.frame, p.out, p.pipe} \subseteq Seq(Symbol)
         /\ Len(p.frame) \in Nat /\ Len(p.out) \in Nat /\ Len(p.pipe) \in Nat
  BY DEF Producers

LEMMA FrameIsNat == Frame \in Nat
  BY EntryAssumption

\* The parts of the type invariant that the steps below rest on.
LEMMA Typed ==
  ASSUME TypeOK, NEW k \in Attempt
  PROVE  /\ prod[k] \in Producers /\ SendOK(prod[k]) /\ body[k] \in Bodies /\ chan[k] \in Seq(Frames)
         /\ prod \in [Attempt -> Producers] /\ body \in [Attempt -> Bodies]
         /\ chan \in [Attempt -> Seq(Frames)] /\ mark \in Marks
         /\ invalid \in BOOLEAN /\ etag \in Seq(Seq(Symbol)) /\ entry \in Entry
         /\ bodies \in Nat /\ k \in Nat /\ k >= 1
         /\ k > bodies => body[k] = NoBody /\ prod[k] = NoProducer /\ chan[k] = <<>>
  <1>1. entry.attempts \in Nat /\ MaxAttempts \in Nat
    BY EntryFacts DEF TypeOK
  <1>2. tries \in Nat /\ bodies \in Nat /\ k \in Nat /\ k >= 1
    BY <1>1 DEF TypeOK, Attempt
  <1> QED BY <1>2 DEF TypeOK

\* What a step of a producer may do.
Step(k) ==
  /\ k <= bodies
  /\ \E q \in Producers : prod' = [prod EXCEPT ![k] = q] /\ SendOK(q) /\ q.pc # "None"
  /\ chan' \in [Attempt -> Seq(Frames)] /\ \A j \in Attempt \ {k} : chan'[j] = chan[j]
  /\ mark' \in Marks /\ mark'.attempt = mark.attempt
  /\ etag' \in Seq(Seq(Symbol)) /\ invalid' \in BOOLEAN

LEMMA MarkedType ==
  ASSUME mark \in Marks, NEW k,
         NEW stage \in {"ReadingSource", "FinalFrameReady", "Complete", "ReceiverClosed", "BodyError"}
  PROVE  Marked(k, stage) \in Marks /\ Marked(k, stage).attempt = mark.attempt
  BY DEF Marked, Marks

LEMMA Used ==
  ASSUME TypeOK, NEW k \in Attempt, prod[k].pc # "None"
  PROVE  k <= bodies
  <1>1. NoProducer.pc = "None"
    BY DEF NoProducer
  <1> QED BY <1>1, Typed

LEMMA FailType ==
  ASSUME TypeOK, NEW k \in Attempt, NEW bad \in BOOLEAN, Fail(k, bad), prod[k].pc = "Run"
  PROVE  Step(k)
  <1> DEFINE q == [prod[k] EXCEPT !.pc = "Error", !.claim = FALSE, !.send = <<bad>>]
  <1>1. <<bad>> \in Seq(Seq(Symbol) \cup BOOLEAN) /\ <<bad>> \in {<<TRUE>>, <<FALSE>>}
    <2>1. <<bad>> \in Seq(Seq(Symbol) \cup BOOLEAN)
      OBVIOUS
    <2>2. bad = TRUE \/ bad = FALSE
      OBVIOUS
    <2> QED BY <2>1, <2>2, Zenon
  <1>2. q \in Producers /\ SendOK(q) /\ q.pc # "None"
    <2>1. prod[k] \in Producers
      BY Typed
    <2> QED BY <1>1, <2>1 DEF Producers, SendOK
  <1>3. prod' = [prod EXCEPT ![k] = q] /\ chan' = chan /\ etag' = etag
        /\ mark' = Marked(k, "BodyError") /\ invalid' = (invalid \/ bad)
    BY DEF Fail, Update, InvalidAt
  <1> HIDE DEF q
  <1>4. chan \in [Attempt -> Seq(Frames)] /\ mark \in Marks /\ invalid \in BOOLEAN /\ etag \in Seq(Seq(Symbol))
    BY Typed
  <1>5. k <= bodies
    BY Used
  <1>6. mark' \in Marks /\ mark'.attempt = mark.attempt
    BY <1>3, <1>4, MarkedType
  <1> QED BY <1>2, <1>3, <1>4, <1>5, <1>6 DEF Step

\* A step that only moves the producer.
LEMMA MoveType ==
  ASSUME TypeOK, NEW k \in Attempt, NEW q \in Producers, SendOK(q), q.pc # "None",
         prod[k].pc # "None", prod' = [prod EXCEPT ![k] = q],
         UNCHANGED <<etag, invalid, chan>>,
         mark' = mark \/ mark' = Marked(k, "FinalFrameReady")
                      \/ mark' = Marked(k, "Complete") \/ mark' = Marked(k, "ReceiverClosed")
  PROVE  Step(k)
  <1>1. chan \in [Attempt -> Seq(Frames)] /\ mark \in Marks /\ invalid \in BOOLEAN /\ etag \in Seq(Seq(Symbol))
    BY Typed
  <1>2. mark' \in Marks /\ mark'.attempt = mark.attempt
    BY <1>1, MarkedType
  <1>3. k <= bodies
    BY Used
  <1> QED BY <1>1, <1>2, <1>3 DEF Step

\* A frame sent into the channel.
LEMMA SentType ==
  ASSUME TypeOK, NEW k \in Attempt, NEW kind \in {"Data", "Final", "Complete", "Invalid", "Other"},
         NEW data \in Seq(Symbol), Sent(k, kind, data)
  PROVE  /\ chan' \in [Attempt -> Seq(Frames)] /\ \A j \in Attempt \ {k} : chan'[j] = chan[j]
         /\ [kind |-> kind, data |-> data] \in Frames
         /\ chan'[k] = Append(chan[k], [kind |-> kind, data |-> data])
  <1> DEFINE item == [kind |-> kind, data |-> data]
  <1>1. item \in Frames
    BY DEF Frames
  <1>2. chan' = [chan EXCEPT ![k] = Append(chan[k], item)]
    BY DEF Sent
  <1> HIDE DEF item
  <1>3. chan \in [Attempt -> Seq(Frames)] /\ chan[k] \in Seq(Frames)
    BY Typed
  <1>4. Append(chan[k], item) \in Seq(Frames)
    BY <1>1, <1>3, AppendProperties
  <1>5. chan' \in [Attempt -> Seq(Frames)] /\ \A j \in Attempt \ {k} : chan'[j] = chan[j]
    BY <1>2, <1>3, <1>4
  <1>6. chan'[k] = Append(chan[k], item)
    BY <1>2, <1>3
  <1> QED BY <1>1, <1>5, <1>6 DEF item

LEMMA FetchedFacts ==
  ASSUME NEW s \in Seq(Symbol), NEW r \in Nat, NEW n \in Nat, r + n <= Len(s)
  PROVE  Piece(s, r, SubSeq(s, r + 1, r + n), r + n) /\ SubSeq(s, r + 1, r + n) \in Seq(Symbol)
  <1>1. Piece(s, r, SubSeq(s, r + 1, r + n), r + n)
    BY DEF Piece
  <1> QED BY <1>1, PieceFacts

\* What one read takes from the source.
LEMMA Reading ==
  ASSUME TypeOK, NEW k \in Attempt, NEW n \in Nat, n <= Len(entry.stream) - prod[k].read
  PROVE  /\ prod[k].read + n \in Nat /\ prod[k].read + n <= Len(entry.stream)
         /\ Piece(entry.stream, prod[k].read, Fetched(prod[k], n), prod[k].read + n)
         /\ Fetched(prod[k], n) \in Seq(Symbol)
  <1>1. prod[k].read \in Nat /\ entry.stream \in Seq(Symbol) /\ Len(entry.stream) \in Nat
    BY Typed, EntryFacts DEF Producers
  <1>2. prod[k].read + n \in Nat /\ prod[k].read + n <= Len(entry.stream)
    BY <1>1
  <1> QED BY <1>1, <1>2, FetchedFacts DEF Fetched

LEMMA ReadFrameType ==
  ASSUME TypeOK, NEW k \in Attempt, ReadFrame(k)
  PROVE  Step(k)
  <1>1. prod[k] \in Producers /\ prod[k].pc = "Run" /\ prod[k].send = <<>>
    BY Typed DEF ReadFrame, Running
  <1>2. PICK n \in 1 .. Least(Frame - Len(prod[k].frame), Len(entry.stream) - prod[k].read) :
          IF TooLong(prod[k].read + n) THEN Fail(k, TRUE)
          ELSE /\ Update(k, Filled([prod[k] EXCEPT !.read = @ + n], Fetched(prod[k], n)))
               /\ UNCHANGED <<etag, invalid, chan, mark>>
    BY DEF ReadFrame
  <1>3. n \in Nat /\ n <= Len(entry.stream) - prod[k].read
    <2>1. prod[k].read \in Nat /\ Len(entry.stream) \in Nat /\ Len(prod[k].frame) \in Nat
          /\ Frame \in Nat
      <3>1. entry \in Entry
        BY Typed
      <3> QED BY <1>1, <3>1, ProducerParts, EntryFacts, FrameIsNat
    <2> QED BY <2>1 DEF Least
  <1>4. CASE TooLong(prod[k].read + n)
    BY <1>1, <1>2, <1>4, FailType
  <1>5. CASE ~TooLong(prod[k].read + n)
    <2> DEFINE r == [prod[k] EXCEPT !.read = @ + n]
               q == Filled(r, Fetched(prod[k], n))
    <2>1. Fetched(prod[k], n) \in Seq(Symbol) /\ prod[k].read + n \in Nat
      BY <1>3, Reading
    <2>2. r \in Producers /\ r.pc = "Run" /\ r.send = <<>>
      BY <1>1, <2>1 DEF Producers
    <2>3. prod' = [prod EXCEPT ![k] = q] /\ UNCHANGED <<etag, invalid, chan, mark>>
      BY <1>2, <1>5 DEF Update
    <2> HIDE DEF r
    <2>4. q \in Producers /\ SendOK(q) /\ q.pc # "None"
      BY <2>1, <2>2, FilledFacts DEF SameBut
    <2> HIDE DEF q
    <2> QED BY <1>1, <2>3, <2>4, MoveType
  <1> QED BY <1>4, <1>5

LEMMA ReplaceType ==
  ASSUME TypeOK, NEW k \in Attempt, Replace(k)
  PROVE  Step(k)
  <1>1. prod[k] \in Producers /\ prod[k].pc = "Run" /\ prod[k].send = <<>>
    BY Typed DEF Replace, Running
  <1>2. PICK n \in 0 .. Len(entry.stream) - prod[k].read :
          LET eof     == n = 0
              input   == prod[k].carry \o Fetched(prod[k], n)
              written == Emitted(input, eof).out
          IN IF TooLong(prod[k].read + n) \/ Len(prod[k].made \o written) > OutputLimit THEN Fail(k, TRUE)
             ELSE /\ Update(k, [prod[k] EXCEPT !.read = @ + n, !.carry = Carry(input, eof),
                                               !.out = written, !.made = @ \o written, !.over = eof])
                  /\ UNCHANGED <<etag, invalid, chan, mark>>
    BY DEF Replace
  <1> DEFINE eof     == n = 0
             input   == prod[k].carry \o Fetched(prod[k], n)
             written == Emitted(input, eof).out
             q == [prod[k] EXCEPT !.read = @ + n, !.carry = Carry(input, eof),
                                  !.out = written, !.made = @ \o written, !.over = eof]
  <1>3. n \in Nat /\ n <= Len(entry.stream) - prod[k].read
    <2>1. prod[k].read \in Nat /\ Len(entry.stream) \in Nat
      BY <1>1, Typed, EntryFacts DEF Producers
    <2> QED BY <2>1
  <1>4. CASE TooLong(prod[k].read + n) \/ Len(prod[k].made \o written) > OutputLimit
    BY <1>1, <1>2, <1>4, FailType
  <1>5. CASE ~(TooLong(prod[k].read + n) \/ Len(prod[k].made \o written) > OutputLimit)
    <2>1. Fetched(prod[k], n) \in Seq(Symbol) /\ prod[k].read + n \in Nat
      BY <1>3, Reading
    <2>2. input \in Seq(Symbol)
      BY <1>1, <2>1, ConcatProperties DEF Producers
    <2>3. written \in Seq(Symbol) /\ Carry(input, eof) \in Seq(Symbol) /\ eof \in BOOLEAN
      <3> HIDE DEF input
      <3> QED BY <2>2, EmittedFacts
    <2>4. prod' = [prod EXCEPT ![k] = q] /\ UNCHANGED <<etag, invalid, chan, mark>>
      BY <1>2, <1>5 DEF Update
    <2>5. q \in Producers /\ SendOK(q) /\ q.pc # "None"
      <3> HIDE DEF input, written, eof
      <3>1. prod[k].made \o written \in Seq(Symbol)
        BY <1>1, <2>3, ConcatProperties DEF Producers
      <3> QED BY <1>1, <2>1, <2>3, <3>1 DEF Producers, SendOK
    <2> HIDE DEF q
    <2> QED BY <1>1, <2>4, <2>5, MoveType
  <1> QED BY <1>4, <1>5

LEMMA WritePipeType ==
  ASSUME TypeOK, NEW k \in Attempt, WritePipe(k)
  PROVE  Step(k)
  <1> DEFINE n == Least(Len(prod[k].out), 2 * Frame - Len(prod[k].pipe))
             q == [prod[k] EXCEPT !.out = SubSeq(@, n + 1, Len(@)),
                                  !.pipe = @ \o SubSeq(prod[k].out, 1, n)]
  <1>1. prod[k] \in Producers /\ SendOK(prod[k]) /\ prod[k].pc = "Run" /\ n > 0
        /\ prod' = [prod EXCEPT ![k] = q] /\ UNCHANGED <<etag, invalid, chan, mark>>
    BY Typed DEF WritePipe, Update
  <1>2. n \in 0 .. Len(prod[k].out)
    <2>1. Len(prod[k].out) \in Nat /\ Len(prod[k].pipe) \in Nat /\ Frame \in Nat
      BY <1>1, ProducerParts, FrameIsNat
    <2> QED BY <1>1, <2>1 DEF Least
  <1> HIDE DEF n
  <1>3. q \in Producers /\ SendOK(q) /\ q.pc # "None"
    <2>1. prod[k].out \in Seq(Symbol) /\ prod[k].pipe \in Seq(Symbol)
      BY <1>1 DEF Producers
    <2>2. SubSeq(prod[k].out, n + 1, Len(prod[k].out)) \in Seq(Symbol)
          /\ SubSeq(prod[k].out, 1, n) \in Seq(Symbol)
      BY <1>2, <2>1
    <2>3. prod[k].pipe \o SubSeq(prod[k].out, 1, n) \in Seq(Symbol)
      BY <2>1, <2>2, ConcatProperties
    <2> QED BY <1>1, <2>2, <2>3 DEF Producers, SendOK
  <1> HIDE DEF q
  <1> QED BY <1>1, <1>3, MoveType

LEMMA ForwardPipeType ==
  ASSUME TypeOK, NEW k \in Attempt, ForwardPipe(k)
  PROVE  Step(k)
  <1> DEFINE n == Least(Frame - Len(prod[k].frame), Len(prod[k].pipe))
             r == [prod[k] EXCEPT !.pipe = SubSeq(@, n + 1, Len(@))]
             s == SubSeq(prod[k].pipe, 1, n)
             q == Filled(r, s)
  <1>1. prod[k] \in Producers /\ prod[k].pc = "Run" /\ prod[k].send = <<>> /\ n > 0
        /\ prod' = [prod EXCEPT ![k] = q] /\ UNCHANGED <<etag, invalid, chan, mark>>
    BY Typed DEF ForwardPipe, Update, Running
  <1>2. n \in 0 .. Len(prod[k].pipe)
    <2>1. Len(prod[k].frame) \in Nat /\ Len(prod[k].pipe) \in Nat /\ Frame \in Nat
      BY <1>1, EntryAssumption DEF Producers
    <2> QED BY <1>1, <2>1 DEF Least
  <1> HIDE DEF n
  <1>3. r \in Producers /\ r.pc = "Run" /\ r.send = <<>> /\ s \in Seq(Symbol)
    <2>1. prod[k].pipe \in Seq(Symbol)
      BY <1>1 DEF Producers
    <2>2. SubSeq(prod[k].pipe, n + 1, Len(prod[k].pipe)) \in Seq(Symbol) /\ s \in Seq(Symbol)
      BY <1>2, <2>1
    <2> QED BY <1>1, <2>2 DEF Producers
  <1> HIDE DEF r, s
  <1>4. q \in Producers /\ SendOK(q) /\ q.pc # "None"
    BY <1>3, FilledFacts DEF SameBut
  <1> HIDE DEF q
  <1> QED BY <1>1, <1>4, MoveType

LEMMA FinishType ==
  ASSUME TypeOK, NEW k \in Attempt, Finish(k)
  PROVE  Step(k)
  <1> DEFINE s == IF entry.marker THEN prod[k].made ELSE entry.stream
             q == [prod[k] EXCEPT !.pc = "Last", !.claim = Handshake(prod[k])]
  <1>1. prod[k] \in Producers /\ prod[k].pc = "Run" /\ prod[k].send = <<>>
    BY Typed DEF Finish, Running
  <1>2. CASE Fail(k, TRUE)
    BY <1>1, <1>2, FailType
  <1>3. CASE ~Fail(k, TRUE)
    <2>1. prod' = [prod EXCEPT ![k] = q] /\ RecordEtag(s) /\ mark' = Marked(k, "FinalFrameReady")
          /\ UNCHANGED <<invalid, chan>>
      BY <1>3 DEF Finish, Update
    <2>2. q \in Producers /\ SendOK(q) /\ q.pc # "None"
      BY <1>1 DEF Producers, SendOK, Handshake
    <2>3. s \in Seq(Symbol)
      BY <1>1, Typed, EntryFacts DEF Producers
    <2>4. chan \in [Attempt -> Seq(Frames)] /\ mark \in Marks /\ invalid \in BOOLEAN /\ etag \in Seq(Seq(Symbol))
      BY Typed
    <2> HIDE DEF q, s
    <2>5. etag' \in Seq(Seq(Symbol))
      BY <2>1, <2>3, <2>4 DEF RecordEtag
    <2>6. mark' \in Marks /\ mark'.attempt = mark.attempt
      BY <2>1, <2>4, MarkedType
    <2>7. k <= bodies
      BY <1>1, Used
    <2> QED BY <2>1, <2>2, <2>4, <2>5, <2>6, <2>7 DEF Step
  <1> QED BY <1>2, <1>3

LEMMA SendFrameType ==
  ASSUME TypeOK, NEW k \in Attempt, SendFrame(k)
  PROVE  Step(k)
  <1>1. prod[k] \in Producers /\ SendOK(prod[k]) /\ prod[k].pc = "Run" /\ prod[k].send # <<>>
    BY Typed DEF SendFrame
  <1>2. CASE Room(k) /\ Sent(k, "Data", prod[k].send[1])
             /\ Update(k, [prod[k] EXCEPT !.send = <<>>]) /\ UNCHANGED <<mark, invalid, etag>>
    <2> DEFINE q == [prod[k] EXCEPT !.send = <<>>]
    <2>1. prod[k].send[1] \in Seq(Symbol)
      BY <1>1 DEF SendOK
    <2>2. chan' \in [Attempt -> Seq(Frames)] /\ \A j \in Attempt \ {k} : chan'[j] = chan[j]
      BY <1>2, <2>1, SentType
    <2>3. q \in Producers /\ SendOK(q) /\ q.pc # "None"
      <3>1. <<>> \in Seq(Seq(Symbol) \cup BOOLEAN)
        OBVIOUS
      <3>2. q \in Producers /\ q.pc = "Run" /\ q.send = <<>>
        BY <1>1, <3>1 DEF Producers
      <3> HIDE DEF q
      <3> QED BY <3>2 DEF SendOK
    <2>4. prod' = [prod EXCEPT ![k] = q]
      BY <1>2 DEF Update
    <2>5. k <= bodies /\ mark \in Marks /\ invalid \in BOOLEAN /\ etag \in Seq(Seq(Symbol))
      BY <1>1, Used, Typed
    <2> HIDE DEF q
    <2> QED BY <1>2, <2>2, <2>3, <2>4, <2>5 DEF Step
  <1>3. CASE Fail(k, FALSE)
    BY <1>1, <1>3, FailType
  <1>4. CASE /\ Update(k, [prod[k] EXCEPT !.pc = "End", !.claim = FALSE])
             /\ mark' = Marked(k, "ReceiverClosed") /\ UNCHANGED <<chan, invalid, etag>>
    <2> DEFINE q == [prod[k] EXCEPT !.pc = "End", !.claim = FALSE]
    <2>1. q \in Producers /\ SendOK(q) /\ q.pc # "None"
      BY <1>1 DEF Producers, SendOK
    <2>2. prod' = [prod EXCEPT ![k] = q]
      BY <1>4 DEF Update
    <2> HIDE DEF q
    <2> QED BY <1>1, <1>4, <2>1, <2>2, MoveType
  <1> QED BY <1>2, <1>3, <1>4 DEF SendFrame

LEMMA SendLastType ==
  ASSUME TypeOK, NEW k \in Attempt, SendLast(k)
  PROVE  Step(k)
  <1> DEFINE q == [prod[k] EXCEPT !.pc = "Sent"]
             kind == IF prod[k].held = <<>> THEN "Complete" ELSE "Final"
  <1>1. prod[k] \in Producers /\ prod[k].pc = "Last" /\ prod' = [prod EXCEPT ![k] = q]
        /\ UNCHANGED <<etag, invalid, mark>> /\ (Sent(k, kind, prod[k].held) \/ UNCHANGED chan)
    BY Typed DEF SendLast, Update
  <1>2. q \in Producers /\ SendOK(q) /\ q.pc # "None"
    BY <1>1 DEF Producers, SendOK
  <1>3. prod[k].held \in Seq(Symbol) /\ kind \in {"Final", "Complete"}
    BY <1>1 DEF Producers
  <1> HIDE DEF q, kind
  <1>4. CASE UNCHANGED chan
    BY <1>1, <1>2, <1>4, MoveType
  <1>5. CASE Sent(k, kind, prod[k].held)
    <2>1. chan' \in [Attempt -> Seq(Frames)] /\ \A j \in Attempt \ {k} : chan'[j] = chan[j]
      BY <1>3, <1>5, SentType
    <2>2. k <= bodies /\ mark \in Marks /\ invalid \in BOOLEAN /\ etag \in Seq(Seq(Symbol))
      BY <1>1, Used, Typed
    <2> QED BY <1>1, <1>2, <2>1, <2>2 DEF Step
  <1> QED BY <1>1, <1>4, <1>5

LEMMA SendErrorType ==
  ASSUME TypeOK, NEW k \in Attempt, SendError(k)
  PROVE  Step(k)
  <1> DEFINE q == [prod[k] EXCEPT !.pc = "End"]
             kind == IF prod[k].send[1] THEN "Invalid" ELSE "Other"
  <1>1. prod[k] \in Producers /\ prod[k].pc = "Error" /\ prod' = [prod EXCEPT ![k] = q]
        /\ UNCHANGED <<etag, invalid, mark>> /\ (Sent(k, kind, <<>>) \/ UNCHANGED chan)
    BY Typed DEF SendError, Update
  <1>2. q \in Producers /\ SendOK(q) /\ q.pc # "None"
    BY <1>1 DEF Producers, SendOK
  <1>3. <<>> \in Seq(Symbol) /\ kind \in {"Invalid", "Other"}
    OBVIOUS
  <1> HIDE DEF q, kind
  <1>4. CASE UNCHANGED chan
    BY <1>1, <1>2, <1>4, MoveType
  <1>5. CASE Sent(k, kind, <<>>)
    <2>1. chan' \in [Attempt -> Seq(Frames)] /\ \A j \in Attempt \ {k} : chan'[j] = chan[j]
      BY <1>3, <1>5, SentType
    <2>2. k <= bodies /\ mark \in Marks /\ invalid \in BOOLEAN /\ etag \in Seq(Seq(Symbol))
      BY <1>1, Used, Typed
    <2> QED BY <1>1, <1>2, <2>1, <2>2 DEF Step
  <1> QED BY <1>1, <1>4, <1>5

LEMMA ProduceType ==
  ASSUME TypeOK, NEW k \in Attempt, Produce(k) \/ ProducerBreaks(k)
  PROVE  Step(k)
  <1>t. prod[k] \in Producers /\ SendOK(prod[k])
    BY Typed
  <1>1. CASE OpenFails(k)
    BY <1>1, FailType DEF OpenFails, Running
  <1>2. CASE ReplaceEnds(k)
    <2> DEFINE q == [prod[k] EXCEPT !.claim = FALSE]
    <2>0. prod[k].pc = "Run"
      BY <1>2 DEF ReplaceEnds
    <2>1. CASE Fail(k, TRUE)
      BY <2>0, <2>1, FailType
    <2>2. CASE ~Fail(k, TRUE)
      <3>1. prod' = [prod EXCEPT ![k] = q] /\ UNCHANGED <<etag, invalid, chan, mark>>
        BY <1>2, <2>2 DEF ReplaceEnds, Update
      <3>2. q \in Producers /\ SendOK(q) /\ q.pc # "None"
        BY <1>t, <2>0 DEF Producers, SendOK
      <3> HIDE DEF q
      <3> QED BY <2>0, <3>1, <3>2, MoveType
    <2> QED BY <2>1, <2>2
  <1>3. CASE LastFrame(k)
    <2>1. prod[k].pc = "Run" /\ prod[k].send = <<>> /\ prod' = [prod EXCEPT ![k] = Shift(prod[k])]
          /\ UNCHANGED <<etag, invalid, chan, mark>>
      BY <1>3 DEF LastFrame, Running, Update
    <2>2. Shift(prod[k]) \in Producers /\ SendOK(Shift(prod[k])) /\ Shift(prod[k]).pc # "None"
      BY <1>t, <2>1, ShiftFacts DEF SameBut
    <2> QED BY <2>1, <2>2, MoveType
  <1>4. CASE Return(k)
    <2> DEFINE q == [prod[k] EXCEPT !.pc = "End", !.claim = FALSE]
    <2>1. prod[k].pc = "Sent" /\ prod' = [prod EXCEPT ![k] = q] /\ UNCHANGED <<etag, invalid, chan>>
          /\ mark' = Marked(k, "Complete")
      BY <1>4 DEF Return, Update
    <2>2. q \in Producers /\ SendOK(q) /\ q.pc # "None"
      BY <1>t DEF Producers, SendOK
    <2> HIDE DEF q
    <2> QED BY <2>1, <2>2, MoveType
  <1>5. CASE Aborted(k)
    <2> DEFINE q == [prod[k] EXCEPT !.pc = "End", !.claim = FALSE]
    <2>1. prod[k].pc # "None" /\ prod' = [prod EXCEPT ![k] = q] /\ UNCHANGED <<etag, invalid, chan, mark>>
      BY <1>5 DEF Aborted, Update
    <2>2. q \in Producers /\ SendOK(q) /\ q.pc # "None"
      BY <1>t DEF Producers, SendOK
    <2> HIDE DEF q
    <2> QED BY <2>1, <2>2, MoveType
  <1>6. CASE ProducerBreaks(k)
    BY <1>6, FailType DEF ProducerBreaks, ReadFails, Running
  <1> QED BY <1>1, <1>2, <1>3, <1>4, <1>5, <1>6, ReadFrameType, ReplaceType, WritePipeType,
             ForwardPipeType, FinishType, SendFrameType, SendLastType, SendErrorType DEF Produce

-----------------------------------------------------------------------------
(* The type of a step: polls, and the whole of Next *)

\* A step of a producer keeps the types.
LEMMA StepTyped ==
  ASSUME TypeOK, NEW k \in Attempt, Step(k),
         UNCHANGED <<payloadVars, taskVars, current, bodies, body, snap>>
  PROVE  TypeOK'
  <1> USE DEF payloadVars, taskVars
  <1>1. PICK q \in Producers : prod' = [prod EXCEPT ![k] = q] /\ SendOK(q) /\ q.pc # "None"
    BY DEF Step
  <1>2. prod' \in [Attempt -> Producers] /\ \A j \in Attempt : SendOK(prod'[j])
        /\ \A i \in Attempt \ {k} : prod'[i] = prod[i]
    <2>1. prod \in [Attempt -> Producers] /\ \A j \in Attempt : SendOK(prod[j])
      BY DEF TypeOK
    <2> QED BY <1>1, <2>1
  <1>3. \A i \in Attempt : i > bodies' => body'[i] = NoBody /\ prod'[i] = NoProducer /\ chan'[i] = <<>>
    <2> SUFFICES ASSUME NEW j \in Attempt, j > bodies
                 PROVE  body[j] = NoBody /\ prod'[j] = NoProducer /\ chan'[j] = <<>>
      OBVIOUS
    <2>1. j # k
      <3>1. k <= bodies /\ k \in Nat /\ bodies \in Nat /\ j \in Nat
        BY Typed DEF Step
      <3> QED BY <3>1
    <2> QED BY <1>2, <2>1, Typed DEF Step
  <1>4. /\ chan' \in [Attempt -> Seq(Frames)] /\ mark' \in Marks
        /\ etag' \in Seq(Seq(Symbol)) /\ invalid' \in BOOLEAN
    BY DEF Step
  <1> QED BY <1>2, <1>3, <1>4 DEF TypeOK

\* The outcomes of a poll that finds a frame: data, the end of the body, an error.
PollGuard(k) ==
  /\ body[k].open /\ ~body[k].complete /\ body[k].error = "None" /\ chan[k] # <<>>
  /\ chan' = [chan EXCEPT ![k] = Tail(chan[k])]
  /\ UNCHANGED <<payloadVars, taskVars, etag, invalid, current, bodies, prod, mark>>

PollData(k) ==
  /\ Head(chan[k]).kind = "Data" /\ Len(Head(chan[k]).data) < length - Len(body[k].got)
  /\ body' = [body EXCEPT ![k] = [body[k] EXCEPT !.got = body[k].got \o Head(chan[k]).data]]
  /\ snap' = snap

PollEnd(k) ==
  /\ Ends(Head(chan[k]))
  /\ body' = [body EXCEPT ![k] = [body[k] EXCEPT !.got = body[k].got \o Head(chan[k]).data,
                                                 !.complete = TRUE]]
  /\ snap' = Published(k, body[k].got \o Head(chan[k]).data, FALSE)

PollError(k) ==
  \E why \in {"Invalid", "Other"} : \E complete \in BOOLEAN :
    /\ why = "Invalid" => Head(chan[k]).kind = "Invalid"
    /\ body' = [body EXCEPT ![k] = [body[k] EXCEPT !.error = why, !.complete = complete]]
    /\ snap' = Published(k, body[k].got, FALSE)

\* A poll of a frame is one of three outcomes.
LEMMA PollFrameCases ==
  ASSUME TypeOK, NEW k \in Attempt, PollFrame(k)
  PROVE  PollGuard(k) /\ (PollData(k) \/ PollEnd(k) \/ PollError(k))
  <1> DEFINE frame == Head(chan[k])
             left == length - Len(body[k].got)
             b == [body[k] EXCEPT !.got = @ \o frame.data]
             c == [b EXCEPT !.complete = TRUE]
             why == IF frame.kind = "Invalid" THEN "Invalid" ELSE "Other"
             d == [body[k] EXCEPT !.error = why, !.complete = @ \/ frame.kind = "Complete"]
  <1>0. body[k] \in Bodies
    BY Typed
  <1>1. PollGuard(k)
    BY DEF PollFrame, PollGuard
  <1>2. b = [body[k] EXCEPT !.got = body[k].got \o frame.data] /\ b.got = body[k].got \o frame.data
    BY <1>0 DEF Bodies
  <1>3. c = [body[k] EXCEPT !.got = body[k].got \o frame.data, !.complete = TRUE]
    BY <1>0 DEF Bodies
  <1>4. d = [body[k] EXCEPT !.error = why, !.complete = body[k].complete \/ frame.kind = "Complete"]
    BY <1>0 DEF Bodies
  <1>5. \/ /\ frame.kind = "Data" /\ Len(frame.data) < left
           /\ body' = [body EXCEPT ![k] = b] /\ snap' = snap
        \/ /\ frame.kind = "Final" /\ Len(frame.data) = left /\ left > 0
           /\ body' = [body EXCEPT ![k] = c] /\ snap' = Published(k, b.got, FALSE)
        \/ /\ frame.kind = "Complete" /\ left = 0
           /\ body' = [body EXCEPT ![k] = c] /\ snap' = Published(k, b.got, FALSE)
        \/ body' = [body EXCEPT ![k] = d] /\ snap' = Published(k, body[k].got, FALSE)
    BY DEF PollFrame, DataFits
  <1>6. ASSUME frame.kind = "Data" /\ Len(frame.data) < left,
               body' = [body EXCEPT ![k] = b] /\ snap' = snap
        PROVE  PollData(k)
    <2> HIDE DEF b
    <2> QED BY <1>2, <1>6 DEF PollData
  <1>7. ASSUME frame.kind \in {"Final", "Complete"},
               body' = [body EXCEPT ![k] = c] /\ snap' = Published(k, b.got, FALSE)
        PROVE  PollEnd(k)
    <2> HIDE DEF b, c
    <2> QED BY <1>2, <1>3, <1>7 DEF PollEnd, Ends
  <1>8. ASSUME body' = [body EXCEPT ![k] = d] /\ snap' = Published(k, body[k].got, FALSE)
        PROVE  PollError(k)
    <2>1. why \in {"Invalid", "Other"} /\ (why = "Invalid" => frame.kind = "Invalid")
          /\ (body[k].complete \/ frame.kind = "Complete") \in BOOLEAN
      BY <1>0 DEF Bodies
    <2> HIDE DEF d, why
    <2> QED BY <1>4, <1>8, <2>1 DEF PollError
  <1> HIDE DEF frame, left, b, c, d, why
  <1> QED BY <1>1, <1>5, <1>6, <1>7, <1>8

Snaps == [attempt : 0 .. MaxAttempts, emitted : Nat, dropped : BOOLEAN]

LEMMA PublishedType ==
  ASSUME TypeOK, NEW k \in Attempt, NEW got \in Seq(Symbol), NEW dropped \in BOOLEAN
  PROVE  Published(k, got, dropped) \in Snaps
  <1>1. k \in 0 .. MaxAttempts /\ Len(got) \in Nat /\ snap \in Snaps
    <2>1. MaxAttempts \in Nat
      BY Typed, EntryFacts
    <2> QED BY <2>1 DEF Attempt, TypeOK, Snaps
  <1> QED BY <1>1 DEF Published, Snaps

LEMMA PollFrameType ==
  ASSUME TypeOK, NEW k \in Attempt, PollFrame(k)
  PROVE  TypeOK'
  <1> USE DEF payloadVars, taskVars
  <1>0. /\ body[k] \in Bodies /\ chan[k] \in Seq(Frames) /\ body \in [Attempt -> Bodies]
        /\ chan \in [Attempt -> Seq(Frames)] /\ chan[k] # <<>> /\ body[k].got \in Seq(Symbol)
    BY Typed, PollFrameCases DEF PollGuard, Bodies
  <1>1. Head(chan[k]) \in Frames /\ Tail(chan[k]) \in Seq(Frames)
    BY <1>0, HeadTailProperties
  <1>2. Head(chan[k]).data \in Seq(Symbol) /\ body[k].got \o Head(chan[k]).data \in Seq(Symbol)
    <2>1. Head(chan[k]).data \in Seq(Symbol)
      BY <1>1 DEF Frames
    <2> QED BY <1>0, <2>1, ConcatProperties
  <1>3. \E c \in Bodies : body' = [body EXCEPT ![k] = c]
    <2>1. CASE PollData(k)
      <3>1. [body[k] EXCEPT !.got = body[k].got \o Head(chan[k]).data] \in Bodies
        BY <1>0, <1>2 DEF Bodies
      <3> QED BY <2>1, <3>1 DEF PollData
    <2>2. CASE PollEnd(k)
      <3>1. [body[k] EXCEPT !.got = body[k].got \o Head(chan[k]).data, !.complete = TRUE] \in Bodies
        BY <1>0, <1>2 DEF Bodies
      <3> QED BY <2>2, <3>1 DEF PollEnd
    <2>3. CASE PollError(k)
      <3>1. PICK why \in {"Invalid", "Other"}, complete \in BOOLEAN :
              body' = [body EXCEPT ![k] = [body[k] EXCEPT !.error = why, !.complete = complete]]
        BY <2>3 DEF PollError
      <3>2. [body[k] EXCEPT !.error = why, !.complete = complete] \in Bodies
        BY <1>0 DEF Bodies
      <3> QED BY <3>1, <3>2
    <2> QED BY <2>1, <2>2, <2>3, PollFrameCases
  <1>4. snap' \in Snaps
    <2>1. snap \in Snaps
      BY DEF TypeOK, Snaps
    <2>2. Published(k, body[k].got \o Head(chan[k]).data, FALSE) \in Snaps
          /\ Published(k, body[k].got, FALSE) \in Snaps
      BY <1>0, <1>2, PublishedType
    <2> QED BY <2>1, <2>2, PollFrameCases DEF PollData, PollEnd, PollError
  <1>5. body' \in [Attempt -> Bodies] /\ \A j \in Attempt \ {k} : body'[j] = body[j]
    BY <1>0, <1>3
  <1>6. chan' = [chan EXCEPT ![k] = Tail(chan[k])]
        /\ UNCHANGED <<payloadVars, taskVars, etag, invalid, current, bodies, prod, mark>>
    BY PollFrameCases DEF PollGuard
  <1>7. chan' \in [Attempt -> Seq(Frames)] /\ \A j \in Attempt \ {k} : chan'[j] = chan[j]
    BY <1>0, <1>1, <1>6
  <1>8. k <= bodies
    <2>1. NoBody.open = FALSE
      BY DEF NoBody
    <2> QED BY <2>1, Typed, PollFrameCases DEF PollGuard
  <1>9. \A j \in Attempt : j > bodies' => body'[j] = NoBody /\ prod'[j] = NoProducer /\ chan'[j] = <<>>
    <2> SUFFICES ASSUME NEW j \in Attempt, j > bodies
                 PROVE  body'[j] = NoBody /\ prod[j] = NoProducer /\ chan'[j] = <<>>
      BY <1>6
    <2>1. j # k
      <3>1. k \in Nat /\ bodies \in Nat /\ j \in Nat
        BY Typed
      <3> QED BY <1>8, <3>1
    <2> QED BY <1>5, <1>7, <2>1, Typed
  <1> QED BY <1>4, <1>5, <1>6, <1>7, <1>9 DEF TypeOK, Snaps

LEMMA NoneTyped ==
  /\ NoBody \in Bodies /\ NoProducer \in Producers /\ SendOK(NoProducer) /\ <<>> \in Seq(Frames)
  /\ NoBody.open = FALSE /\ NoProducer.pc = "None"
  <1>1. <<>> \in Seq(Symbol) /\ <<>> \in Seq(Seq(Symbol) \cup BOOLEAN) /\ <<>> \in Seq(Frames)
    OBVIOUS
  <1>2. NoBody \in Bodies /\ NoBody.open = FALSE
    BY <1>1 DEF NoBody, Bodies
  <1>3. NoProducer \in Producers /\ NoProducer.pc = "None" /\ SendOK(NoProducer)
    BY <1>1 DEF NoProducer, Producers, SendOK
  <1> QED BY <1>1, <1>2, <1>3

LEMMA InitType == Init => TypeOK
  <1> SUFFICES ASSUME Init PROVE TypeOK
    OBVIOUS
  <1>1. /\ entry \in Entry /\ entry.attempts \in 1 .. MaxAttempts /\ MaxAttempts \in Nat
    BY EntryFacts DEF Init
  <1>2. /\ body \in [Attempt -> Bodies] /\ prod \in [Attempt -> Producers]
        /\ chan \in [Attempt -> Seq(Frames)] /\ \A k \in Attempt : SendOK(prod[k])
        /\ \A k \in Attempt : body[k] = NoBody /\ prod[k] = NoProducer /\ chan[k] = <<>>
    BY NoneTyped DEF Init
  <1>3. mark \in Marks /\ snap \in Snaps /\ etag \in Seq(Seq(Symbol))
    BY <1>1 DEF Init, Marks, Snaps
  <1>4. /\ task = "Prepare" /\ tries = 0 /\ length = 0 /\ spooled = FALSE /\ planned = TRUE
        /\ invalid = FALSE /\ current = 0 /\ bodies = 0
    BY DEF Init
  <1>5. tries \in 0 .. entry.attempts /\ bodies \in 0 .. tries /\ current \in 0 .. bodies
        /\ length \in Nat /\ snap \in [attempt : 0 .. MaxAttempts, emitted : Nat, dropped : BOOLEAN]
    BY <1>1, <1>3, <1>4 DEF Snaps
  <1> QED BY <1>1, <1>2, <1>3, <1>4, <1>5 DEF TypeOK

\* A body loses its client or its end.
LEMMA BodyTyped ==
  ASSUME TypeOK, NEW k \in Attempt, k <= bodies, NEW c \in Bodies, NEW q \in Producers, SendOK(q),
         body' = [body EXCEPT ![k] = c], prod' = [prod EXCEPT ![k] = q], snap' \in Snaps,
         UNCHANGED <<payloadVars, taskVars, etag, invalid, current, bodies, chan, mark>>
  PROVE  TypeOK'
  <1> USE DEF payloadVars, taskVars
  <1>1. body \in [Attempt -> Bodies] /\ prod \in [Attempt -> Producers] /\ \A j \in Attempt : SendOK(prod[j])
    BY DEF TypeOK
  <1>2. body' \in [Attempt -> Bodies] /\ \A j \in Attempt \ {k} : body'[j] = body[j]
    BY <1>1
  <1>3. prod' \in [Attempt -> Producers] /\ \A j \in Attempt : SendOK(prod'[j])
        /\ \A i \in Attempt \ {k} : prod'[i] = prod[i]
    BY <1>1
  <1>4. \A i \in Attempt : i > bodies' => body'[i] = NoBody /\ prod'[i] = NoProducer /\ chan'[i] = <<>>
    <2> SUFFICES ASSUME NEW j \in Attempt, j > bodies
                 PROVE  body'[j] = NoBody /\ prod'[j] = NoProducer /\ chan[j] = <<>>
      OBVIOUS
    <2>1. j # k
      <3>1. k \in Nat /\ bodies \in Nat /\ j \in Nat
        BY Typed
      <3> QED BY <3>1
    <2> QED BY <1>2, <1>3, <2>1, Typed
  <1> QED BY <1>2, <1>3, <1>4 DEF TypeOK, Snaps

LEMMA Opened ==
  ASSUME TypeOK, NEW k \in Attempt, body[k].open
  PROVE  k <= bodies /\ body[k].got \in Seq(Symbol)
  <1>1. k <= bodies
    BY NoneTyped, Typed
  <1> QED BY <1>1, Typed DEF Bodies

LEMMA PollClosedType ==
  ASSUME TypeOK, NEW k \in Attempt, PollClosed(k)
  PROVE  TypeOK'
  <1> DEFINE c == [body[k] EXCEPT !.complete = TRUE, !.error = "Other"]
  <1>1. body[k].open /\ body[k] \in Bodies /\ prod[k] \in Producers /\ SendOK(prod[k])
    BY Typed DEF PollClosed
  <1>2. body' = [body EXCEPT ![k] = c] /\ prod' = [prod EXCEPT ![k] = prod[k]]
    BY Typed DEF PollClosed
  <1>3. c \in Bodies
    BY <1>1 DEF Bodies
  <1>4. snap' \in Snaps
    BY <1>1, Opened, PublishedType DEF PollClosed
  <1>5. k <= bodies
    BY <1>1, Opened
  <1>6. UNCHANGED <<payloadVars, taskVars, etag, invalid, current, bodies, chan, mark>>
    BY DEF PollClosed
  <1> HIDE DEF c
  <1> QED BY <1>1, <1>2, <1>3, <1>4, <1>5, <1>6, BodyTyped

LEMMA DropBodyType ==
  ASSUME TypeOK, NEW k \in Attempt, DropBody(k)
  PROVE  TypeOK'
  <1> DEFINE c == [body[k] EXCEPT !.open = FALSE]
             q == [prod[k] EXCEPT !.abort = prod[k].abort \/ ~body[k].complete]
  <1>1. body[k].open /\ body[k] \in Bodies /\ prod[k] \in Producers /\ SendOK(prod[k])
    BY Typed DEF DropBody
  <1>2. body' = [body EXCEPT ![k] = c] /\ prod' = [prod EXCEPT ![k] = q]
    BY Typed DEF DropBody
  <1>3. c \in Bodies /\ q \in Producers /\ SendOK(q)
    <2>1. c \in Bodies /\ body[k].complete \in BOOLEAN
      BY <1>1 DEF Bodies
    <2>2. q \in Producers /\ q.pc = prod[k].pc /\ q.send = prod[k].send
      BY <1>1, <2>1 DEF Producers
    <2> HIDE DEF q
    <2> QED BY <1>1, <2>1, <2>2 DEF SendOK
  <1>4. snap' \in Snaps
    <2>1. snap \in Snaps
      BY DEF TypeOK, Snaps
    <2> QED BY <1>1, <2>1, Opened, PublishedType DEF DropBody
  <1>5. k <= bodies
    BY <1>1, Opened
  <1>6. UNCHANGED <<payloadVars, taskVars, etag, invalid, current, bodies, chan, mark>>
    BY DEF DropBody
  <1> HIDE DEF c, q
  <1> QED BY <1>1, <1>2, <1>3, <1>4, <1>5, <1>6, BodyTyped

LEMMA AbortBodiesType ==
  ASSUME TypeOK, AbortBodies
  PROVE  TypeOK'
  <1> USE DEF payloadVars, taskVars
  <1>1. prod' = [k \in Attempt |-> [prod[k] EXCEPT !.abort = prod[k].abort \/ body[k].open]]
        /\ UNCHANGED <<payloadVars, taskVars, etag, invalid, current, bodies, body, chan, mark, snap>>
    BY DEF AbortBodies
  <1>2. ASSUME NEW k \in Attempt
        PROVE  /\ prod'[k] \in Producers /\ SendOK(prod'[k])
               /\ k > bodies => prod'[k] = NoProducer
    <2>1. prod[k] \in Producers /\ SendOK(prod[k]) /\ body[k].open \in BOOLEAN
      BY Typed DEF Bodies
    <2>2. prod'[k] = [prod[k] EXCEPT !.abort = prod[k].abort \/ body[k].open]
      BY <1>1
    <2>3. prod'[k] \in Producers /\ prod'[k].pc = prod[k].pc /\ prod'[k].send = prod[k].send
      BY <2>1, <2>2 DEF Producers
    <2>4. ASSUME k > bodies PROVE prod'[k] = NoProducer
      <3>1. prod[k] = NoProducer /\ body[k] = NoBody
        BY <2>4, Typed
      <3>2. prod[k].abort = FALSE /\ body[k].open = FALSE
        BY <3>1, NoneTyped DEF NoProducer
      <3>3. prod'[k] = prod[k]
        BY <2>1, <2>2, <3>2 DEF Producers
      <3> QED BY <3>1, <3>3
    <2> QED BY <2>1, <2>3, <2>4 DEF SendOK
  <1>3. prod' \in [Attempt -> Producers]
    BY <1>1, <1>2
  <1> QED BY <1>1, <1>2, <1>3 DEF TypeOK

LEMMA FirstPollType ==
  ASSUME TypeOK, FirstPoll
  PROVE  TypeOK'
  <1> USE DEF payloadVars
  <1> DEFINE k == bodies + 1
             c == [body[k] EXCEPT !.open = TRUE]
             q == [prod[k] EXCEPT !.pc = "Run", !.claim = TRUE]
  <1>0. /\ task = "Request" /\ current = 0 /\ bodies < tries /\ bodies \in Nat /\ tries \in Nat
        /\ tries <= MaxAttempts /\ MaxAttempts \in Nat
    BY EntryFacts DEF TypeOK, FirstPoll
  <1>1. k \in Attempt /\ k \in 0 .. tries /\ k > bodies /\ k \in 0 .. MaxAttempts /\ k # 0
    BY <1>0 DEF Attempt
  <1>2. /\ bodies' = k /\ current' = k /\ planned' = FALSE
        /\ body' = [body EXCEPT ![k].open = TRUE]
        /\ prod' = [prod EXCEPT ![k].pc = "Run", ![k].claim = TRUE]
        /\ mark' = [attempt |-> k, stage |-> "ReadingSource"]
        /\ UNCHANGED <<payloadVars, task, tries, etag, invalid, chan, snap>>
    BY DEF FirstPoll
  <1> HIDE DEF k
  <1>3. /\ prod[k] \in Producers /\ body[k] \in Bodies /\ prod \in [Attempt -> Producers]
        /\ body \in [Attempt -> Bodies] /\ prod[k] = NoProducer
    BY <1>1, Typed
  <1>4. prod' = [prod EXCEPT ![k] = q] /\ body' = [body EXCEPT ![k] = c]
    BY <1>1, <1>2, <1>3
  <1>5. c \in Bodies /\ q \in Producers /\ SendOK(q)
    <2>1. prod[k].send = <<>>
      BY <1>3 DEF NoProducer
    <2>2. c \in Bodies /\ q \in Producers /\ q.pc = "Run" /\ q.send = <<>>
      BY <1>3, <2>1 DEF Bodies, Producers
    <2> HIDE DEF q
    <2> QED BY <2>2 DEF SendOK
  <1> HIDE DEF c, q
  <1>6. /\ prod' \in [Attempt -> Producers] /\ body' \in [Attempt -> Bodies]
        /\ \A j \in Attempt \ {k} : prod'[j] = prod[j] /\ body'[j] = body[j]
        /\ \A j \in Attempt : SendOK(prod'[j])
    BY <1>1, <1>3, <1>4, <1>5 DEF TypeOK
  <1>7. \A j \in Attempt : j > bodies' => body'[j] = NoBody /\ prod'[j] = NoProducer /\ chan'[j] = <<>>
    <2> SUFFICES ASSUME NEW j \in Attempt, j > k
                 PROVE  body'[j] = NoBody /\ prod'[j] = NoProducer /\ chan[j] = <<>>
      BY <1>2
    <2>1. j # k /\ j > bodies
      <3>1. j \in Nat /\ k \in Nat
        BY <1>1, Typed
      <3> QED BY <1>0, <1>1, <3>1
    <2> QED BY <1>6, <2>1, Typed
  <1>8. mark' \in Marks
    BY <1>1, <1>2 DEF Marks
  <1>9. bodies' \in 0 .. tries' /\ current' \in 0 .. bodies' /\ ~(task' = "Request" /\ current' = 0)
    BY <1>0, <1>1, <1>2
  <1> QED BY <1>2, <1>6, <1>7, <1>8, <1>9 DEF TypeOK

\* The steps of the task itself.
LEMMA TaskType ==
  ASSUME TypeOK,
         Unprepared \/ Prepared \/ PrepareFails \/ Begin \/ RequestOk \/ RequestErr \/ Terminated
  PROVE  TypeOK'
  <1> USE DEF payloadVars, taskVars
  <1>e. /\ entry \in Entry /\ Len(entry.declared) \in Nat /\ entry.attempts \in 1 .. MaxAttempts
        /\ MaxAttempts \in Nat /\ Output(entry) \in Seq(Symbol) /\ tries \in Nat /\ bodies \in Nat
        /\ tries <= entry.attempts /\ bodies <= tries /\ current \in Nat
    <2>1. entry \in Entry
      BY DEF TypeOK
    <2>2. /\ Len(entry.declared) \in Nat /\ entry.attempts \in 1 .. MaxAttempts
          /\ MaxAttempts \in Nat /\ Output(entry) \in Seq(Symbol)
      BY <2>1, EntryFacts
    <2> QED BY <2>1, <2>2 DEF TypeOK
  <1>1. CASE Unprepared
    BY <1>1, <1>e DEF Unprepared, TypeOK
  <1>2. CASE Prepared
    <2>1. length' \in Nat /\ spooled' \in BOOLEAN /\ planned' \in BOOLEAN /\ etag' \in Seq(Seq(Symbol))
          /\ task' \in {"Skipped", "Between"}
      <3>1. <<Output(entry)>> \in Seq(Seq(Symbol)) /\ Len(Output(entry)) \in Nat
            /\ etag \in Seq(Seq(Symbol)) /\ length \in Nat /\ spooled \in BOOLEAN
        BY <1>e DEF TypeOK
      <3>2. CASE task' = "Skipped" /\ planned' = FALSE /\ UNCHANGED <<length, spooled, etag>>
        BY <3>1, <3>2
      <3>3. CASE /\ task' = "Between" /\ length' = Len(Output(entry))
                 /\ spooled' = (Len(Output(entry)) <= SpoolLimit)
                 /\ planned' = Retained(Len(Output(entry)) <= SpoolLimit)
                 /\ RecordEtag(Output(entry))
        BY <3>1, <3>3 DEF RecordEtag, Retained
      <3> QED BY <1>2, <3>2, <3>3 DEF Prepared
    <2>2. UNCHANGED <<entry, tries, invalid, current, bodies, body, prod, chan, mark, snap>>
      BY <1>2 DEF Prepared
    <2> QED BY <2>1, <2>2 DEF TypeOK
  <1>3. CASE PrepareFails
    BY <1>3 DEF PrepareFails, TypeOK
  <1>4. CASE Begin
    <2>1. /\ task' = "Request" /\ tries' = tries + 1 /\ current' = 0
          /\ mark' = [attempt |-> 0, stage |-> "AwaitingFirstPoll"] /\ tries < entry.attempts
          /\ UNCHANGED <<payloadVars, planned, etag, invalid, bodies, body, prod, chan, snap>>
      BY <1>4 DEF Begin
    <2>2. tries' \in 0 .. entry'.attempts /\ bodies' \in 0 .. tries' /\ current' \in 0 .. bodies'
          /\ bodies' < tries'
      BY <1>e, <2>1
    <2>3. mark' \in Marks
      BY <1>e, <2>1 DEF Marks
    <2> QED BY <2>1, <2>2, <2>3 DEF TypeOK
  <1>5. CASE RequestOk
    BY <1>5 DEF RequestOk, TypeOK
  <1>6. CASE RequestErr
    <2>1. task' \in {"Failed", "Reconciled", "Between"}
          /\ UNCHANGED <<payloadVars, tries, planned, etag, invalid, current, bodies, body, prod,
                         chan, mark, snap>>
      BY <1>6 DEF RequestErr
    <2> QED BY <2>1 DEF TypeOK
  <1>7. CASE Terminated
    BY <1>7 DEF Terminated, vars, TypeOK
  <1> QED BY <1>1, <1>2, <1>3, <1>4, <1>5, <1>6, <1>7

LEMMA ActionsTyped ==
  ASSUME TypeOK, Next
  PROVE  TypeOK'
  <1>1. ASSUME NEW k \in Attempt, Produce(k) \/ ProducerBreaks(k)
        PROVE  TypeOK'
    <2>1. Step(k)
      BY <1>1, ProduceType
    <2>2. UNCHANGED <<payloadVars, taskVars, current, bodies, body, snap>>
      BY <1>1 DEF Produce, ProducerBreaks
    <2> QED BY <2>1, <2>2, StepTyped
  <1> QED BY <1>1, PollFrameType, PollClosedType, DropBodyType, FirstPollType, AbortBodiesType,
             TaskType DEF Next

LEMMA StutterTyped ==
  ASSUME TypeOK, UNCHANGED vars
  PROVE  TypeOK'
  BY DEF TypeOK, vars, payloadVars, taskVars

\* Every variable has its type in every reachable state.
THEOREM TypeCorrect == Spec => []TypeOK
  <1>1. TypeOK /\ [Next]_vars => TypeOK'
    BY ActionsTyped, StutterTyped
  <1> QED BY <1>1, InitType, PTL DEF Spec

-----------------------------------------------------------------------------
(* What is output is the content *)

\* An entry whose markers are replaced has been prepared before any body of it.
Ready ==
  /\ Valid(entry) /\ Len(ContentOf(entry)) <= OutputLimit
  /\ length = Len(ContentOf(entry)) /\ etag # <<>>

\* What has been planned, and whose claims wait.
Order ==
  /\ task \in {"Prepare", "Skipped"} => bodies = 0
  /\ mark.attempt = current
  /\ bodies > 0 \/ spooled \/ task = "Skipped" => ~planned
  /\ entry.marker /\ (task \in {"Between", "Request"} \/ bodies > 0) => Ready

\* The input that has not been read after r symbols.
Rest(e, r) == SubSeq(e.stream, r + 1, Len(e.stream))

\* The output is the content, or it will be with the replacement of the rest.
Whole(e, made) == made = ContentOf(e)
Leaves(e, made, carry, r) == made \o Replaced(carry \o Rest(e, r)) = ContentOf(e)

\* What a producer has output and the replacement of what it has carried over and
\* not read yet are the content; it has dropped its claims only after all its
\* output, and it has a last frame only of a valid entry.
ProducerOK(e, p) ==
  /\ p.read <= Len(e.stream)
  /\ p.claim => p.pc = "Run"
  /\ p.over \/ p.pipe # <<>> \/ p.out # <<>> => e.marker
  /\ e.marker =>
       /\ p.over => Whole(e, p.made)
       /\ ~p.over => Leaves(e, p.made, p.carry, p.read)
       /\ p.pc = "Run" /\ ~p.claim => p.over /\ p.out = <<>>
  /\ p.pc = "Last" =>
       /\ Valid(e) /\ p.send = <<>> /\ p.frame = <<>>
       /\ e.marker => p.over /\ p.pipe = <<>> /\ p.out = <<>>
       /\ ~e.marker => p.read = Len(e.stream)

EtagOK == etag \in {<<>>, <<ContentOf(entry)>>}

SafeInv ==
  /\ Order /\ EtagOK /\ NoFalseAlarm
  /\ \A k \in Attempt : k <= bodies => ProducerOK(entry, prod[k])

\* What a step of a producer keeps.
SafeStep(k) ==
  /\ \E q \in Producers : prod' = [prod EXCEPT ![k] = q] /\ ProducerOK(entry, q)
  /\ invalid' => invalid \/ ~entry.header \/ ~Valid(entry)
  /\ etag' \in {etag, <<ContentOf(entry)>>} /\ (etag # <<>> => etag' = etag)

\* A producer that has ended, or the same one with other frames.
LEMMA Ended ==
  ASSUME NEW e, NEW p \in Producers, NEW q, ProducerOK(e, p),
         q.read = p.read, q.carry = p.carry, q.over = p.over, q.made = p.made,
         q.pipe = p.pipe, q.out = p.out, q.pc \in {"Sent", "Error", "End"}, ~q.claim
  PROVE  ProducerOK(e, q)
  BY DEF ProducerOK

LEMMA Reframed ==
  ASSUME NEW e, NEW p \in Producers, NEW q \in Producers, ProducerOK(e, p), p.pc = "Run",
         q.read = p.read, q.carry = p.carry, q.over = p.over, q.made = p.made,
         q.pc = p.pc, q.claim = p.claim, p.out = <<>> => q.out = <<>>,
         e.marker \/ (q.pipe = p.pipe /\ q.out = p.out)
  PROVE  ProducerOK(e, q)
  BY DEF ProducerOK

\* A failure is one of validation only if the entry is not what is declared.
LEMMA FailSafe ==
  ASSUME TypeOK, SafeInv, NEW k \in Attempt, NEW bad \in BOOLEAN, Fail(k, bad), prod[k].pc # "None",
         bad => ~entry.header \/ ~Valid(entry)
  PROVE  SafeStep(k)
  <1> DEFINE q == [prod[k] EXCEPT !.pc = "Error", !.claim = FALSE, !.send = <<bad>>]
  <1>1. prod[k] \in Producers /\ k <= bodies /\ ProducerOK(entry, prod[k])
    BY Typed, Used DEF SafeInv
  <1>2. prod' = [prod EXCEPT ![k] = q] /\ etag' = etag /\ invalid' = (invalid \/ bad)
    BY DEF Fail, Update, InvalidAt
  <1>3. q \in Producers /\ q.read = prod[k].read /\ q.carry = prod[k].carry /\ q.over = prod[k].over
        /\ q.made = prod[k].made /\ q.pc = "Error" /\ ~q.claim
        /\ q.pipe = prod[k].pipe /\ q.out = prod[k].out
    <2>1. <<bad>> \in Seq(Seq(Symbol) \cup BOOLEAN)
      OBVIOUS
    <2> QED BY <1>1, <2>1 DEF Producers
  <1> HIDE DEF q
  <1>4. ProducerOK(entry, q)
    BY <1>1, <1>3, Ended
  <1> QED BY <1>2, <1>3, <1>4 DEF SafeStep

\* A step that neither fails nor finishes.
LEMMA MoveSafe ==
  ASSUME NEW k, NEW q \in Producers, prod' = [prod EXCEPT ![k] = q], ProducerOK(entry, q),
         UNCHANGED <<etag, invalid>>
  PROVE  SafeStep(k)
  BY DEF SafeStep

LEMMA ReadFrameSafe ==
  ASSUME TypeOK, SafeInv, NEW k \in Attempt, ReadFrame(k)
  PROVE  SafeStep(k)
  <1>1. prod[k] \in Producers /\ prod[k].pc = "Run" /\ prod[k].send = <<>> /\ ~entry.marker
    BY Typed DEF ReadFrame, Running
  <1>o. ProducerOK(entry, prod[k])
    BY <1>1, Used DEF SafeInv
  <1>2. PICK n \in 1 .. Least(Frame - Len(prod[k].frame), Len(entry.stream) - prod[k].read) :
          IF TooLong(prod[k].read + n) THEN Fail(k, TRUE)
          ELSE /\ Update(k, Filled([prod[k] EXCEPT !.read = @ + n], Fetched(prod[k], n)))
               /\ UNCHANGED <<etag, invalid, chan, mark>>
    BY DEF ReadFrame
  <1>3. n \in Nat /\ n <= Len(entry.stream) - prod[k].read /\ prod[k].read \in Nat
        /\ Len(entry.stream) \in Nat /\ Len(entry.declared) \in Nat
    <2>1. prod[k].read \in Nat /\ Len(entry.stream) \in Nat /\ Len(prod[k].frame) \in Nat
          /\ Frame \in Nat /\ Len(entry.declared) \in Nat
      <3>1. entry \in Entry
        BY Typed
      <3> QED BY <1>1, <3>1, ProducerParts, EntryFacts, FrameIsNat
    <2> QED BY <2>1 DEF Least
  <1>4. CASE TooLong(prod[k].read + n)
    <2>1. ~Valid(entry)
      <3>1. Len(entry.stream) # Len(entry.declared)
        BY <1>3, <1>4 DEF TooLong
      <3> QED BY <3>1 DEF Valid
    <2> QED BY <1>1, <1>2, <1>4, <2>1, FailSafe
  <1>5. CASE ~TooLong(prod[k].read + n)
    <2> DEFINE r == [prod[k] EXCEPT !.read = @ + n]
               q == Filled(r, Fetched(prod[k], n))
    <2>1. Fetched(prod[k], n) \in Seq(Symbol) /\ prod[k].read + n \in Nat
          /\ prod[k].read + n <= Len(entry.stream)
      BY <1>3, Reading
    <2>2. r \in Producers /\ r.pc = "Run" /\ r.send = <<>> /\ r.read = prod[k].read + n
          /\ r.claim = prod[k].claim /\ r.over = prod[k].over
          /\ r.pipe = prod[k].pipe /\ r.out = prod[k].out
      BY <1>1, <2>1 DEF Producers
    <2>3. prod' = [prod EXCEPT ![k] = q] /\ UNCHANGED <<etag, invalid>>
      BY <1>2, <1>5 DEF Update
    <2>4. ProducerOK(entry, r)
      <3> HIDE DEF r
      <3> QED BY <1>1, <1>o, <2>1, <2>2 DEF ProducerOK
    <2> HIDE DEF r
    <2>5. q \in Producers /\ SameBut(r, q)
      BY <2>1, <2>2, FilledFacts
    <2> HIDE DEF q
    <2>6. ProducerOK(entry, q)
      BY <2>2, <2>4, <2>5, Reframed DEF SameBut
    <2> QED BY <2>3, <2>5, <2>6, MoveSafe
  <1> QED BY <1>4, <1>5

LEMMA Regrouped ==
  ASSUME NEW x \in Seq(Symbol), NEW y \in Seq(Symbol), NEW z \in Seq(Symbol),
         NEW u, u = y \o z, NEW w, w = x \o y
  PROVE  x \o u = w \o z
  BY Associative

\* One chunk of the input through the replacement.
Takes(e, p, n, eof, fetched, input, written) ==
  /\ e.marker /\ ProducerOK(e, p) /\ ~p.over
  /\ n \in Nat /\ p.read + n <= Len(e.stream) /\ (n = 0 <=> p.read = Len(e.stream)) /\ eof = (n = 0)
  /\ fetched = SubSeq(e.stream, p.read + 1, p.read + n)
  /\ input = p.carry \o fetched /\ written = Emitted(input, eof).out

\* One read through the replacement leaves the content what it was.
LEMMA Chunk ==
  ASSUME NEW e \in Entry, NEW p \in Producers, NEW n \in Nat, NEW eof \in BOOLEAN, NEW fetched, NEW input, NEW written,
         Takes(e, p, n, eof, fetched, input, written)
  PROVE  /\ p.made \o written \in Seq(Symbol) /\ Len(p.made \o written) <= Len(ContentOf(e))
         /\ Piece(ContentOf(e), Len(p.made), written, Len(p.made \o written))
         /\ Leaves(e, p.made \o written, Carry(input, eof), p.read + n)
         /\ eof => Whole(e, p.made \o written)
  <1>t. /\ e.marker /\ ProducerOK(e, p) /\ ~p.over
        /\ n \in Nat /\ p.read + n <= Len(e.stream) /\ (n = 0 <=> p.read = Len(e.stream)) /\ eof = (n = 0)
        /\ fetched = SubSeq(e.stream, p.read + 1, p.read + n)
        /\ input = p.carry \o fetched /\ written = Emitted(input, eof).out
    BY DEF Takes
  <1>l. PICK left : left = Rest(e, p.read + n)
    OBVIOUS
  <1>m. left = SubSeq(e.stream, p.read + n + 1, Len(e.stream))
    BY <1>l DEF Rest
  <1> USE <1>t, <1>m
  <1>1. /\ e.stream \in Seq(Symbol) /\ Len(e.stream) \in Nat /\ p.read \in Nat /\ p.carry \in Seq(Symbol)
        /\ p.made \in Seq(Symbol)
    BY EntryFacts DEF Producers
  <1>2. fetched \in Seq(Symbol)
    BY <1>1, FetchedFacts
  <1>3. Piece(e.stream, p.read + n, left, Len(e.stream)) /\ left \in Seq(Symbol)
    <2>1. Piece(e.stream, p.read + n, left, Len(e.stream))
      BY <1>1 DEF Piece
    <2> QED BY <1>1, <2>1, PieceFacts
  <1>4. Rest(e, p.read) = fetched \o left
    <2>1. Piece(e.stream, p.read, fetched, p.read + n)
      BY <1>1, FetchedFacts
    <2>2. Piece(e.stream, p.read, fetched \o left, Len(e.stream))
      BY <1>1, <1>3, <2>1, PieceJoin
    <2> QED BY <2>2 DEF Piece, Rest
  <1>5. input \in Seq(Symbol)
    BY <1>1, <1>2, ConcatProperties
  <1>6. p.carry \o Rest(e, p.read) = input \o left
    <2>1. PICK c \in Seq(Symbol) : c = p.carry
      BY <1>1
    <2>2. PICK u : u = fetched \o left
      OBVIOUS
    <2>3. input = c \o fetched /\ p.carry \o Rest(e, p.read) = c \o u
      BY <1>4, <2>1, <2>2
    <2>4. c \o u = input \o left
      <3>1. fetched \in Seq(Symbol) /\ left \in Seq(Symbol) /\ input = c \o fetched
        BY <1>2, <1>3, <2>3
      <3> QED BY ONLY c \in Seq(Symbol), u = fetched \o left, <3>1, Regrouped
    <2> QED BY <2>3, <2>4
  <1>7. n = 0 => left = <<>>
    BY <1>1, SubSeqEmpty
  <1>9. Replaced(input \o left) = written \o Replaced(Carry(input, eof) \o left)
    <2>1. written = Emitted(input, eof).out
      OBVIOUS
    <2>2. eof => left = <<>>
      BY <1>7
    <2>3. Replaced(input \o left) = Emitted(input, eof).out \o Replaced(Carry(input, eof) \o left)
      BY ONLY <1>3, <1>5, eof \in BOOLEAN, <2>2, ChunkReplaced, Zenon
    <2> QED BY <2>1, <2>3, Zenon
  <1>10. written \in Seq(Symbol) /\ Carry(input, eof) \in Seq(Symbol)
    BY <1>5, EmittedFacts
  <1>11. PICK z \in Seq(Symbol) : z = Replaced(Carry(input, eof) \o left)
    <2>1. Carry(input, eof) \o left \in Seq(Symbol)
      BY <1>3, <1>10, ConcatProperties
    <2> QED BY <2>1, ReplacedIsSeq
  <1>12. p.made \o (written \o z) = ContentOf(e)
    <2>1. p.made \o Replaced(p.carry \o Rest(e, p.read)) = ContentOf(e)
      BY DEF ProducerOK, Leaves
    <2>2. Replaced(p.carry \o Rest(e, p.read)) = written \o z
      BY <1>6, <1>9, <1>11, Zenon
    <2> QED BY <2>1, <2>2, Zenon
  <1>13. (p.made \o written) \o z = ContentOf(e)
    <2>1. (p.made \o written) \o z = p.made \o (written \o z)
      <3>1. PICK x \in Seq(Symbol) : x = p.made
        BY <1>1
      <3>2. (x \o written) \o z = x \o (written \o z)
        <4> QED BY ONLY x \in Seq(Symbol), z \in Seq(Symbol), <1>10, Associative
      <3> QED BY <3>1, <3>2, Zenon
    <2> QED BY <1>12, <2>1, Zenon
  <1>14. p.made \o written \in Seq(Symbol)
    BY <1>1, <1>10, ConcatProperties
  <1>15. /\ Piece(ContentOf(e), Len(p.made), written, Len(p.made \o written))
         /\ Len(p.made \o written) <= Len(ContentOf(e))
    <2>1. PICK x \in Seq(Symbol) : x = p.made
      BY <1>1
    <2>2. PICK I : I = ContentOf(e)
      OBVIOUS
    <2>3. I = (x \o written) \o z
      BY <1>13, <2>1, <2>2, Zenon
    <2>4. Piece(I, Len(x), written, Len(x \o written)) /\ Len(x \o written) <= Len(I)
      BY <1>10, <2>3, PieceMiddle
    <2> QED BY <2>1, <2>2, <2>4, Zenon
  <1>16. ASSUME eof PROVE p.made \o written = ContentOf(e)
    <2>1. written = Replaced(input)
      BY <1>5, <1>16, LastChunk
    <2>2. input \o left = input
      BY <1>5, <1>7, <1>16, ConcatEmptySeq
    <2>3. p.made \o Replaced(input) = ContentOf(e)
      <3>1. p.made \o Replaced(p.carry \o Rest(e, p.read)) = ContentOf(e)
        BY DEF ProducerOK, Leaves
      <3> QED BY <1>6, <2>2, <3>1, Zenon
    <2> QED BY <2>1, <2>3, Zenon
  <1>17. (p.made \o written) \o Replaced(Carry(input, eof) \o Rest(e, p.read + n)) = ContentOf(e)
    BY <1>l, <1>11, <1>13, Zenon
  <1>18. Leaves(e, p.made \o written, Carry(input, eof), p.read + n)
    BY <1>17, Zenon DEF Leaves
  <1>19. eof => Whole(e, p.made \o written)
    BY <1>16, Zenon DEF Whole
  <1> QED BY <1>14, <1>15, <1>18, <1>19

-----------------------------------------------------------------------------
(* Producers that replace markers *)

LEMMA Parts ==
  ASSUME NEW s \in Seq(Symbol), NEW n \in 0 .. Len(s)
  PROVE  SubSeq(s, 1, n) \in Seq(Symbol) /\ SubSeq(s, n + 1, Len(s)) \in Seq(Symbol)
  OBVIOUS

LEMMA ChunkProducer ==
  ASSUME NEW e \in Entry, NEW p \in Producers, NEW n \in Nat, NEW eof \in BOOLEAN, NEW fetched, NEW input, NEW written,
         Takes(e, p, n, eof, fetched, input, written), p.pc = "Run", p.out = <<>>,
         NEW q, q.read = p.read + n, q.carry = Carry(input, eof), q.out = written,
         q.made = p.made \o written, q.over = eof, q.pc = p.pc, q.claim = p.claim
  PROVE  ProducerOK(e, q)
  <1>0. /\ e.marker /\ ProducerOK(e, p) /\ ~p.over /\ n \in Nat /\ p.read + n <= Len(e.stream)
    BY DEF Takes
  <1>1. /\ Leaves(e, p.made \o written, Carry(input, eof), p.read + n)
        /\ eof => Whole(e, p.made \o written)
    BY Chunk
  <1>2. p.claim
    BY <1>0 DEF ProducerOK
  <1>3. q.over => Whole(e, q.made)
    BY <1>1
  <1>4. Leaves(e, q.made, q.carry, q.read)
    BY <1>1
  <1> QED BY <1>0, <1>2, <1>3, <1>4 DEF ProducerOK

\* An entry with a running producer and markers has been planned.
LEMMA Readied ==
  ASSUME TypeOK, SafeInv, NEW k \in Attempt, prod[k].pc # "None", entry.marker
  PROVE  Ready
  <1>1. k <= bodies /\ k >= 1 /\ k \in Nat /\ bodies \in Nat
    BY Used, Typed
  <1>2. bodies > 0
    BY <1>1
  <1> QED BY <1>2 DEF SafeInv, Order

LEMMA ReplaceSafe ==
  ASSUME TypeOK, SafeInv, NEW k \in Attempt, Replace(k)
  PROVE  SafeStep(k)
  <1>1. /\ prod[k] \in Producers /\ prod[k].pc = "Run" /\ prod[k].send = <<>> /\ entry.marker
        /\ ~prod[k].over /\ prod[k].out = <<>> /\ entry \in Entry
    BY Typed DEF Replace, Running
  <1>2. ProducerOK(entry, prod[k]) /\ Ready
    BY <1>1, Used, Readied DEF SafeInv
  <1>3. PICK n \in 0 .. Len(entry.stream) - prod[k].read :
          LET eof     == n = 0
              input   == prod[k].carry \o Fetched(prod[k], n)
              written == Emitted(input, eof).out
          IN /\ eof <=> prod[k].read = Len(entry.stream)
             /\ IF TooLong(prod[k].read + n) \/ Len(prod[k].made \o written) > OutputLimit THEN Fail(k, TRUE)
                ELSE /\ Update(k, [prod[k] EXCEPT !.read = @ + n, !.carry = Carry(input, eof),
                                                  !.out = written, !.made = @ \o written, !.over = eof])
                     /\ UNCHANGED <<etag, invalid, chan, mark>>
    BY DEF Replace
  <1>4. /\ n \in Nat /\ n <= Len(entry.stream) - prod[k].read /\ prod[k].read \in Nat
        /\ Len(entry.stream) \in Nat /\ Len(entry.declared) \in Nat
    <2>1. prod[k].read \in Nat /\ Len(entry.stream) \in Nat /\ Len(entry.declared) \in Nat
      BY <1>1, EntryFacts DEF Producers
    <2> QED BY <2>1
  <1>e. PICK eof \in BOOLEAN : eof = (n = 0)
    OBVIOUS
  <1> DEFINE fetched == SubSeq(entry.stream, prod[k].read + 1, prod[k].read + n)
             input   == prod[k].carry \o fetched
             written == Emitted(input, eof).out
             q == [prod[k] EXCEPT !.read = @ + n, !.carry = Carry(input, eof),
                                  !.out = written, !.made = @ \o written, !.over = eof]
  <1>5. Fetched(prod[k], n) = fetched
    BY DEF Fetched
  <1>6. n = 0 <=> prod[k].read = Len(entry.stream)
    BY <1>3
  <1>7. IF TooLong(prod[k].read + n) \/ Len(prod[k].made \o written) > OutputLimit THEN Fail(k, TRUE)
        ELSE prod' = [prod EXCEPT ![k] = q] /\ UNCHANGED <<etag, invalid, chan, mark>>
    BY <1>3, <1>5, <1>e DEF Update
  <1>8. prod[k].read + n <= Len(entry.stream) /\ prod[k].read + n \in Nat
    BY <1>4
  <1>a. Takes(entry, prod[k], n, eof, fetched, input, written)
    BY <1>1, <1>2, <1>4, <1>6, <1>8, <1>e DEF Takes
  <1>9. Len(prod[k].made \o written) <= Len(ContentOf(entry)) /\ prod[k].made \o written \in Seq(Symbol)
    <2> HIDE DEF fetched, input, written
    <2> QED BY <1>1, <1>a, Chunk
  <1>10. ~TooLong(prod[k].read + n)
    BY <1>2, <1>4, <1>8 DEF TooLong, Ready, Valid
  <1>11. ~(Len(prod[k].made \o written) > OutputLimit)
    <2>1. Len(ContentOf(entry)) <= OutputLimit /\ Len(ContentOf(entry)) \in Nat /\ OutputLimit \in Nat
      BY <1>1, <1>2, EntryFacts, EntryAssumption DEF Ready
    <2>2. PICK w \in Seq(Symbol) : w = prod[k].made \o written
      BY <1>9
    <2>3. PICK m \in Nat : m = Len(w)
      OBVIOUS
    <2>4. m <= Len(ContentOf(entry))
      BY <1>9, <2>2, <2>3, Zenon
    <2>5. ~(m > OutputLimit)
      BY <2>1, <2>3, <2>4
    <2> QED BY <2>2, <2>3, <2>5, Zenon
  <1>12. prod' = [prod EXCEPT ![k] = q] /\ UNCHANGED <<etag, invalid>>
    BY <1>7, <1>10, <1>11
  <1>13. input \in Seq(Symbol) /\ written \in Seq(Symbol) /\ Carry(input, eof) \in Seq(Symbol)
    <2>1. fetched \in Seq(Symbol) /\ prod[k].carry \in Seq(Symbol)
      BY <1>1, <1>4, <1>5, Reading DEF Producers
    <2>2. input \in Seq(Symbol)
      BY <2>1, ConcatProperties
    <2> HIDE DEF input
    <2> QED BY <2>2, EmittedFacts
  <1>14. /\ q \in Producers /\ q.read = prod[k].read + n /\ q.carry = Carry(input, eof)
         /\ q.out = written /\ q.made = prod[k].made \o written /\ q.over = eof
         /\ q.pc = prod[k].pc /\ q.claim = prod[k].claim
    <2> HIDE DEF fetched, input, written
    <2>1. PICK new \in Seq(Symbol) : new = prod[k].made \o written
      BY <1>9
    <2>2. PICK c \in Seq(Symbol) : c = Carry(input, eof)
      BY <1>13
    <2>4. q = [prod[k] EXCEPT !.read = prod[k].read + n, !.carry = c, !.out = written, !.made = new,
                              !.over = eof]
      BY <1>1, <2>1, <2>2
    <2> HIDE DEF q
    <2> QED BY <1>1, <1>8, <1>13, <2>1, <2>2, <2>4 DEF Producers
  <1>15. ProducerOK(entry, q)
    <2> HIDE DEF q, fetched, input, written
    <2>1. PICK p \in Producers : p = prod[k]
      BY <1>1
    <2>2. PICK new : new = p.made \o written
      OBVIOUS
    <2>3. q.made = new
      BY <1>14, <2>1, <2>2
    <2>4. q.made = p.made \o written
      BY <2>2, <2>3, Zenon
    <2>5. Takes(entry, p, n, eof, fetched, input, written) /\ p.pc = "Run" /\ p.out = <<>>
      BY <1>1, <1>a, <2>1
    <2>6. /\ q.read = p.read + n /\ q.carry = Carry(input, eof) /\ q.out = written /\ q.over = eof
          /\ q.pc = p.pc /\ q.claim = p.claim
      BY <1>14, <2>1
    <2> QED BY <1>1, <2>4, <2>5, <2>6, ChunkProducer
  <1> HIDE DEF q
  <1> QED BY <1>12, <1>14, <1>15, MoveSafe

LEMMA WritePipeSafe ==
  ASSUME TypeOK, SafeInv, NEW k \in Attempt, WritePipe(k)
  PROVE  SafeStep(k)
  <1> DEFINE n == Least(Len(prod[k].out), 2 * Frame - Len(prod[k].pipe))
             q == [prod[k] EXCEPT !.out = SubSeq(@, n + 1, Len(@)),
                                  !.pipe = @ \o SubSeq(prod[k].out, 1, n)]
  <1>1. /\ prod[k] \in Producers /\ prod[k].pc = "Run" /\ n > 0
        /\ prod' = [prod EXCEPT ![k] = q] /\ UNCHANGED <<etag, invalid, chan, mark>>
    BY Typed DEF WritePipe, Update
  <1>2. n \in Nat /\ n <= Len(prod[k].out) /\ Len(prod[k].out) \in Nat /\ prod[k].out \in Seq(Symbol)
        /\ prod[k].pipe \in Seq(Symbol)
    <2>1. Len(prod[k].pipe) \in Nat /\ Frame \in Nat /\ Len(prod[k].out) \in Nat
          /\ prod[k].out \in Seq(Symbol) /\ prod[k].pipe \in Seq(Symbol)
      BY <1>1, ProducerParts, FrameIsNat
    <2> QED BY <1>1, <2>1 DEF Least
  <1>3. /\ q \in Producers /\ q.read = prod[k].read /\ q.carry = prod[k].carry
        /\ q.over = prod[k].over /\ q.made = prod[k].made /\ q.pc = prod[k].pc
        /\ q.claim = prod[k].claim
    <2> HIDE DEF n
    <2>0. n \in 0 .. Len(prod[k].out)
      BY <1>2
    <2>1. PICK o \in Seq(Symbol) : o = SubSeq(prod[k].out, n + 1, Len(prod[k].out))
      BY <1>2, <2>0, Parts
    <2>2. SubSeq(prod[k].out, 1, n) \in Seq(Symbol)
      BY <1>2, <2>0, Parts
    <2>3. PICK x \in Seq(Symbol) : x = prod[k].pipe \o SubSeq(prod[k].out, 1, n)
      BY <1>2, <2>2, ConcatProperties
    <2>4. q = [prod[k] EXCEPT !.out = o, !.pipe = x]
      BY <1>1, <2>1, <2>3
    <2> HIDE DEF q
    <2> QED BY <1>1, <2>4 DEF Producers
  <1>4. prod[k].out # <<>>
    BY <1>1, <1>2
  <1> HIDE DEF n, q
  <1>5. ProducerOK(entry, prod[k])
    BY <1>1, Used DEF SafeInv
  <1>6. entry.marker
    BY <1>4, <1>5 DEF ProducerOK
  <1>7. ProducerOK(entry, q)
    BY <1>1, <1>3, <1>4, <1>5, <1>6, Reframed
  <1> QED BY <1>1, <1>3, <1>7, MoveSafe

LEMMA ForwardPipeSafe ==
  ASSUME TypeOK, SafeInv, NEW k \in Attempt, ForwardPipe(k)
  PROVE  SafeStep(k)
  <1> DEFINE n == Least(Frame - Len(prod[k].frame), Len(prod[k].pipe))
             r == [prod[k] EXCEPT !.pipe = SubSeq(@, n + 1, Len(@))]
             s == SubSeq(prod[k].pipe, 1, n)
             q == Filled(r, s)
  <1>1. /\ prod[k] \in Producers /\ prod[k].pc = "Run" /\ prod[k].send = <<>> /\ n > 0
        /\ prod' = [prod EXCEPT ![k] = q] /\ UNCHANGED <<etag, invalid, chan, mark>>
    BY Typed DEF ForwardPipe, Update, Running
  <1>2. n \in Nat /\ n <= Len(prod[k].pipe) /\ prod[k].pipe \in Seq(Symbol)
    <2>1. Len(prod[k].pipe) \in Nat /\ Frame \in Nat /\ Len(prod[k].frame) \in Nat
          /\ prod[k].pipe \in Seq(Symbol)
      BY <1>1, EntryAssumption DEF Producers
    <2> QED BY <1>1, <2>1 DEF Least
  <1>3. /\ r \in Producers /\ r.pc = "Run" /\ r.send = <<>> /\ s \in Seq(Symbol)
        /\ r.read = prod[k].read /\ r.carry = prod[k].carry /\ r.over = prod[k].over
        /\ r.made = prod[k].made /\ r.claim = prod[k].claim /\ r.out = prod[k].out
    <2> HIDE DEF n
    <2>0. n \in 0 .. Len(prod[k].pipe)
      BY <1>2
    <2>1. PICK o \in Seq(Symbol) : o = SubSeq(prod[k].pipe, n + 1, Len(prod[k].pipe))
      BY <1>2, <2>0, Parts
    <2>2. r = [prod[k] EXCEPT !.pipe = o]
      BY <1>1, <2>1
    <2>3. s \in Seq(Symbol)
      BY <1>2, <2>0, Parts
    <2> HIDE DEF r, s
    <2> QED BY <1>1, <2>2, <2>3 DEF Producers, SameBut
  <1> HIDE DEF r, s
  <1>4. q \in Producers /\ SameBut(r, q)
    BY <1>3, FilledFacts
  <1> HIDE DEF q
  <1>5. ProducerOK(entry, prod[k])
    BY <1>1, Used DEF SafeInv
  <1>6. entry.marker
    BY <1>1, <1>2, <1>5 DEF ProducerOK
  <1>7. ProducerOK(entry, q)
    BY <1>1, <1>3, <1>4, <1>5, <1>6, Reframed DEF SameBut
  <1> QED BY <1>1, <1>4, <1>7, MoveSafe

LEMMA LastFrameSafe ==
  ASSUME TypeOK, SafeInv, NEW k \in Attempt, LastFrame(k)
  PROVE  SafeStep(k)
  <1>1. /\ prod[k] \in Producers /\ prod[k].pc = "Run" /\ prod[k].send = <<>>
        /\ prod' = [prod EXCEPT ![k] = Shift(prod[k])] /\ UNCHANGED <<etag, invalid, chan, mark>>
    BY Typed DEF LastFrame, Update, Running
  <1>2. ProducerOK(entry, prod[k])
    BY <1>1, Used DEF SafeInv
  <1>3. PICK q \in Producers : q = Shift(prod[k]) /\ SameBut(prod[k], q)
    BY <1>1, ShiftFacts
  <1>4. ProducerOK(entry, q)
    BY <1>1, <1>2, <1>3, Reframed DEF SameBut
  <1> QED BY <1>1, <1>3, <1>4, MoveSafe

-----------------------------------------------------------------------------
(* The end of a producer *)

LEMMA ReplaceEndsSafe ==
  ASSUME TypeOK, SafeInv, NEW k \in Attempt, ReplaceEnds(k)
  PROVE  SafeStep(k)
  <1> DEFINE q == [prod[k] EXCEPT !.claim = FALSE]
  <1>1. /\ prod[k] \in Producers /\ prod[k].pc = "Run" /\ prod[k].over /\ prod[k].claim
        /\ prod[k].out = <<>> /\ entry \in Entry
        /\ IF ~Valid(entry) \/ Len(prod[k].made) # length THEN Fail(k, TRUE)
           ELSE prod' = [prod EXCEPT ![k] = q] /\ UNCHANGED <<etag, invalid, chan, mark>>
    BY Typed DEF ReplaceEnds, Update
  <1>2. ProducerOK(entry, prod[k]) /\ entry.marker \in BOOLEAN
    BY <1>1, Used, EntryFacts DEF SafeInv
  <1>3. /\ q \in Producers /\ q.read = prod[k].read /\ q.carry = prod[k].carry /\ q.over
        /\ q.made = prod[k].made /\ q.pc = "Run" /\ ~q.claim /\ q.out = <<>>
        /\ q.pipe = prod[k].pipe
    BY <1>1 DEF Producers
  <1>4. CASE ~Valid(entry)
    BY <1>1, <1>4, FailSafe
  <1>5. CASE Valid(entry) /\ entry.marker
    <2>1. Ready
      BY <1>1, <1>5, Readied
    <2>2. Whole(entry, prod[k].made)
      BY <1>1, <1>2, <1>5 DEF ProducerOK
    <2>3. Len(prod[k].made) = length
      BY <2>1, <2>2, Zenon DEF Ready, Whole
    <2>4. prod' = [prod EXCEPT ![k] = q] /\ UNCHANGED <<etag, invalid>>
      BY <1>1, <1>5, <2>3
    <2> HIDE DEF q
    <2>5. ProducerOK(entry, q)
      BY <1>1, <1>2, <1>3, <2>2 DEF ProducerOK
    <2> QED BY <1>3, <2>4, <2>5, MoveSafe
  <1>6. CASE ~entry.marker
    <2>1. FALSE
      BY <1>1, <1>2, <1>6 DEF ProducerOK
    <2> QED BY <2>1
  <1> QED BY <1>4, <1>5, <1>6

LEMMA FinishSafe ==
  ASSUME TypeOK, SafeInv, NEW k \in Attempt, Finish(k)
  PROVE  SafeStep(k)
  <1> DEFINE q == [prod[k] EXCEPT !.pc = "Last", !.claim = Handshake(prod[k])]
             s == IF entry.marker THEN prod[k].made ELSE entry.stream
             bad == IF entry.marker THEN etag \notin {<<>>, <<s>>} ELSE ~Valid(entry)
  <1>1. /\ prod[k] \in Producers /\ prod[k].pc = "Run" /\ prod[k].send = <<>>
        /\ prod[k].frame = <<>> /\ EndOfOutput(prod[k]) /\ entry \in Entry
    BY Typed DEF Finish, Running
  <1>2. ProducerOK(entry, prod[k]) /\ entry.marker \in BOOLEAN
    BY <1>1, Used, EntryFacts DEF SafeInv
  <1>3. IF bad THEN Fail(k, TRUE)
        ELSE prod' = [prod EXCEPT ![k] = q] /\ RecordEtag(s) /\ UNCHANGED <<invalid, chan>>
    BY DEF Finish, Update
  <1>4. s = ContentOf(entry)
    <2>1. ASSUME entry.marker PROVE prod[k].made = ContentOf(entry)
      <3>1. prod[k].over
        BY <1>1, <2>1 DEF EndOfOutput
      <3> QED BY <1>2, <2>1, <3>1 DEF ProducerOK, Whole
    <2> QED BY <1>2, <2>1 DEF ContentOf
  <1>5. /\ q \in Producers /\ q.read = prod[k].read /\ q.carry = prod[k].carry
        /\ q.over = prod[k].over /\ q.made = prod[k].made /\ q.pc = "Last" /\ ~q.claim
        /\ q.out = prod[k].out /\ q.pipe = prod[k].pipe /\ q.send = <<>> /\ q.frame = <<>>
    BY <1>1 DEF Producers, Handshake
  <1>6. entry.marker => Ready
    BY <1>1, Readied
  <1> HIDE DEF q, s
  <1>7. entry.marker => ~bad
    BY <1>4, <1>6, Zenon DEF SafeInv, EtagOK
  <1>8. ASSUME bad PROVE SafeStep(k)
    <2>1. ~Valid(entry)
      BY <1>7, <1>8
    <2> HIDE DEF bad
    <2> QED BY <1>1, <1>3, <1>8, <2>1, FailSafe
  <1>9. ASSUME ~bad PROVE SafeStep(k)
    <2>1. Valid(entry)
      BY <1>6, <1>9 DEF Ready
    <2> HIDE DEF bad
    <2>2. ProducerOK(entry, q)
      <3>1. /\ entry.marker => prod[k].over /\ prod[k].pipe = <<>> /\ ~prod[k].claim
            /\ ~entry.marker => prod[k].read = Len(entry.stream)
        BY <1>1 DEF EndOfOutput
      <3>2. entry.marker => prod[k].out = <<>>
        BY <1>1, <1>2, <3>1 DEF ProducerOK
      <3> QED BY <1>2, <1>5, <2>1, <3>1, <3>2 DEF ProducerOK
    <2>3. prod' = [prod EXCEPT ![k] = q] /\ RecordEtag(s) /\ UNCHANGED <<invalid, chan>>
      BY <1>3, <1>9
    <2>4. etag' \in {etag, <<ContentOf(entry)>>} /\ (etag # <<>> => etag' = etag)
      BY <1>4, <2>3, Zenon DEF RecordEtag
    <2> QED BY <1>5, <2>2, <2>3, <2>4 DEF SafeStep
  <1> QED BY <1>8, <1>9

\* A step that ends the producer or moves it on from its last frame.
LEMMA EndSafe ==
  ASSUME TypeOK, SafeInv, NEW k \in Attempt, prod[k].pc # "None",
         NEW to \in {"Sent", "Error", "End"}, NEW claim \in BOOLEAN,
         prod' = [prod EXCEPT ![k] = [prod[k] EXCEPT !.pc = to, !.claim = claim]],
         ~claim, UNCHANGED <<etag, invalid>>
  PROVE  SafeStep(k)
  <1>1. prod[k] \in Producers /\ ProducerOK(entry, prod[k])
    BY Typed, Used DEF SafeInv
  <1> DEFINE q == [prod[k] EXCEPT !.pc = to, !.claim = claim]
  <1>2. /\ q \in Producers /\ q.read = prod[k].read /\ q.carry = prod[k].carry
        /\ q.over = prod[k].over /\ q.made = prod[k].made /\ q.pc = to /\ ~q.claim
        /\ q.pipe = prod[k].pipe /\ q.out = prod[k].out
    BY <1>1 DEF Producers
  <1>3. prod' = [prod EXCEPT ![k] = q]
    OBVIOUS
  <1> HIDE DEF q
  <1>4. ProducerOK(entry, q)
    BY <1>1, <1>2, Ended
  <1> QED BY <1>2, <1>3, <1>4, MoveSafe

LEMMA SendFrameSafe ==
  ASSUME TypeOK, SafeInv, NEW k \in Attempt, SendFrame(k)
  PROVE  SafeStep(k)
  <1>1. prod[k] \in Producers /\ prod[k].pc = "Run" /\ ProducerOK(entry, prod[k])
    BY Typed, Used DEF SendFrame, SafeInv
  <1>2. CASE /\ Update(k, [prod[k] EXCEPT !.send = <<>>]) /\ UNCHANGED <<mark, invalid, etag>>
    <2> DEFINE q == [prod[k] EXCEPT !.send = <<>>]
    <2>1. /\ q \in Producers /\ q.read = prod[k].read /\ q.carry = prod[k].carry
          /\ q.over = prod[k].over /\ q.made = prod[k].made /\ q.pc = prod[k].pc
          /\ q.claim = prod[k].claim /\ q.out = prod[k].out /\ q.pipe = prod[k].pipe
      <3>1. <<>> \in Seq(Seq(Symbol) \cup BOOLEAN)
        OBVIOUS
      <3> QED BY <1>1, <3>1 DEF Producers
    <2>2. prod' = [prod EXCEPT ![k] = q] /\ UNCHANGED <<etag, invalid>>
      BY <1>2 DEF Update
    <2> HIDE DEF q
    <2>3. ProducerOK(entry, q)
      BY <1>1, <2>1, Reframed
    <2> QED BY <2>1, <2>2, <2>3, MoveSafe
  <1>3. CASE Fail(k, FALSE)
    BY <1>1, <1>3, FailSafe
  <1>4. CASE /\ Update(k, [prod[k] EXCEPT !.pc = "End", !.claim = FALSE])
             /\ UNCHANGED <<invalid, etag>>
    BY <1>1, <1>4, EndSafe DEF Update
  <1> QED BY <1>2, <1>3, <1>4 DEF SendFrame

LEMMA ProduceSafe ==
  ASSUME TypeOK, SafeInv, NEW k \in Attempt, Produce(k) \/ ProducerBreaks(k)
  PROVE  SafeStep(k)
  <1>0. prod[k] \in Producers /\ SendOK(prod[k]) /\ entry \in Entry
        /\ (prod[k].pc # "None" => ProducerOK(entry, prod[k]))
    BY Typed, Used DEF SafeInv
  <1>1. CASE OpenFails(k)
    BY <1>1, FailSafe DEF OpenFails, Running
  <1>2. CASE ReadFails(k)
    BY <1>2, FailSafe DEF ReadFails, Running
  <1>3. CASE SendLast(k)
    <2>1. /\ prod' = [prod EXCEPT ![k] = [prod[k] EXCEPT !.pc = "Sent"]]
          /\ UNCHANGED <<etag, invalid>> /\ prod[k].pc = "Last"
      BY <1>3 DEF SendLast, Update
    <2>2. [prod[k] EXCEPT !.pc = "Sent"] = [prod[k] EXCEPT !.pc = "Sent", !.claim = FALSE]
      <3>1. prod[k].claim = FALSE
        BY <1>0, <2>1 DEF ProducerOK, Producers
      <3> QED BY <1>0, <3>1 DEF Producers
    <2> QED BY <2>1, <2>2, EndSafe
  <1>4. CASE Return(k)
    BY <1>4, EndSafe DEF Return, Update
  <1>5. CASE SendError(k)
    <2>1. /\ prod' = [prod EXCEPT ![k] = [prod[k] EXCEPT !.pc = "End"]]
          /\ UNCHANGED <<etag, invalid>> /\ prod[k].pc = "Error"
      BY <1>5 DEF SendError, Update
    <2>2. [prod[k] EXCEPT !.pc = "End"] = [prod[k] EXCEPT !.pc = "End", !.claim = FALSE]
      <3>1. prod[k].claim = FALSE
        BY <1>0, <2>1 DEF ProducerOK, Producers
      <3> QED BY <1>0, <3>1 DEF Producers
    <2> QED BY <2>1, <2>2, EndSafe
  <1>6. CASE Aborted(k)
    BY <1>6, EndSafe DEF Aborted, Update
  <1> QED BY <1>1, <1>2, <1>3, <1>4, <1>5, <1>6, ReadFrameSafe, ReplaceSafe, WritePipeSafe,
             ReplaceEndsSafe, ForwardPipeSafe, LastFrameSafe, FinishSafe, SendFrameSafe
          DEF Produce, ProducerBreaks

-----------------------------------------------------------------------------
(* The invariant *)

\* The producers of the bodies polled so far stay what they are to be.
LEMMA Kept ==
  ASSUME TypeOK, SafeInv,
         UNCHANGED <<entry, length, spooled, task, planned, bodies, current>>,
         mark'.attempt = mark.attempt,
         invalid' => invalid \/ ~entry.header \/ ~Valid(entry),
         etag' \in {etag, <<ContentOf(entry)>>}, etag # <<>> => etag' = etag,
         \A j \in Attempt : j <= bodies => ProducerOK(entry, prod'[j])
  PROVE  SafeInv'
  <1>1. Ready => Ready'
    BY DEF Ready, Valid
  <1>2. Order'
    BY <1>1 DEF SafeInv, Order
  <1>3. EtagOK' /\ NoFalseAlarm'
    BY DEF SafeInv, EtagOK, NoFalseAlarm, Valid
  <1> QED BY <1>2, <1>3 DEF SafeInv

LEMMA StepSafe ==
  ASSUME TypeOK, SafeInv, NEW k \in Attempt, Produce(k) \/ ProducerBreaks(k)
  PROVE  SafeInv'
  <1>1. SafeStep(k) /\ Step(k)
    BY ProduceSafe, ProduceType
  <1>2. UNCHANGED <<entry, length, spooled, task, planned, bodies, current>>
    BY DEF Produce, ProducerBreaks, payloadVars, taskVars
  <1>3. PICK q \in Producers : prod' = [prod EXCEPT ![k] = q] /\ ProducerOK(entry, q)
    BY <1>1 DEF SafeStep
  <1>4. \A j \in Attempt : j <= bodies => ProducerOK(entry, prod'[j])
    <2>1. prod \in [Attempt -> Producers]
      BY Typed
    <2> QED BY <1>3, <2>1 DEF SafeInv
  <1> QED BY <1>1, <1>2, <1>4, Kept DEF SafeStep, Step

LEMMA PollSafe ==
  ASSUME TypeOK, SafeInv, NEW k \in Attempt, PollFrame(k) \/ PollClosed(k)
  PROVE  SafeInv'
  <1>1. UNCHANGED <<entry, length, spooled, task, planned, bodies, current, prod, mark, invalid, etag>>
    BY DEF PollFrame, PollClosed, payloadVars, taskVars
  <1>2. \A j \in Attempt : j <= bodies => ProducerOK(entry, prod'[j])
    BY <1>1 DEF SafeInv
  <1> QED BY <1>1, <1>2, Kept

\* Telling producers to abort.
LEMMA AbortSafe ==
  ASSUME TypeOK, SafeInv,
         UNCHANGED <<entry, length, spooled, task, planned, bodies, current, mark, invalid, etag>>,
         \A j \in Attempt : \E abort \in BOOLEAN : prod'[j] = [prod[j] EXCEPT !.abort = abort]
  PROVE  SafeInv'
  <1>1. ASSUME NEW j \in Attempt, j <= bodies
        PROVE  ProducerOK(entry, prod'[j])
    <2>1. PICK abort \in BOOLEAN : prod'[j] = [prod[j] EXCEPT !.abort = abort]
      OBVIOUS
    <2>2. prod[j] \in Producers /\ ProducerOK(entry, prod[j])
      BY <1>1, Typed DEF SafeInv
    <2>3. PICK q : q = prod'[j]
      OBVIOUS
    <2>4. /\ q.read = prod[j].read /\ q.carry = prod[j].carry /\ q.over = prod[j].over
          /\ q.made = prod[j].made /\ q.pc = prod[j].pc /\ q.claim = prod[j].claim
          /\ q.out = prod[j].out /\ q.pipe = prod[j].pipe /\ q.send = prod[j].send
          /\ q.frame = prod[j].frame
      BY <2>1, <2>2, <2>3 DEF Producers
    <2>5. ProducerOK(entry, q)
      BY <2>2, <2>4 DEF ProducerOK
    <2> QED BY <2>3, <2>5
  <1> QED BY <1>1, Kept

LEMMA DropSafe ==
  ASSUME TypeOK, SafeInv, AbortBodies \/ \E k \in Attempt : DropBody(k)
  PROVE  SafeInv'
  <1>0. \A j \in Attempt : prod[j] \in Producers /\ body[j] \in Bodies
    BY Typed
  <1>1. CASE AbortBodies
    <2>1. UNCHANGED <<entry, length, spooled, task, planned, bodies, current, mark, invalid, etag>>
          /\ prod' = [k \in Attempt |-> [prod[k] EXCEPT !.abort = prod[k].abort \/ body[k].open]]
      BY <1>1 DEF AbortBodies, payloadVars, taskVars
    <2>2. ASSUME NEW j \in Attempt
          PROVE  \E abort \in BOOLEAN : prod'[j] = [prod[j] EXCEPT !.abort = abort]
      <3>1. (prod[j].abort \/ body[j].open) \in BOOLEAN
        BY <1>0 DEF Producers, Bodies
      <3> QED BY <2>1, <3>1
    <2> QED BY <2>1, <2>2, AbortSafe
  <1>2. CASE \E k \in Attempt : DropBody(k)
    <2>1. PICK k \in Attempt : DropBody(k)
      BY <1>2
    <2>2. UNCHANGED <<entry, length, spooled, task, planned, bodies, current, mark, invalid, etag>>
          /\ prod' = [prod EXCEPT ![k] = [prod[k] EXCEPT !.abort = prod[k].abort \/ ~body[k].complete]]
      BY <2>1, <1>0, Typed DEF DropBody, payloadVars, taskVars
    <2>3. ASSUME NEW j \in Attempt
          PROVE  \E abort \in BOOLEAN : prod'[j] = [prod[j] EXCEPT !.abort = abort]
      <3>1. (prod[j].abort \/ ~body[j].complete) \in BOOLEAN /\ prod[j].abort \in BOOLEAN
            /\ prod[j] = [prod[j] EXCEPT !.abort = prod[j].abort]
        BY <1>0 DEF Producers, Bodies
      <3>2. prod \in [Attempt -> Producers]
        BY Typed
      <3>3. CASE j = k
        BY <2>2, <3>1, <3>2, <3>3
      <3>4. CASE j # k
        BY <2>2, <3>1, <3>2, <3>4
      <3> QED BY <3>3, <3>4
    <2> QED BY <2>2, <2>3, AbortSafe
  <1> QED BY <1>1, <1>2

-----------------------------------------------------------------------------
(* The task, and the content it has planned *)

\* The first poll of a body: its producer has the whole entry before it.
LEMMA FirstPollSafe ==
  ASSUME TypeOK, SafeInv, FirstPoll
  PROVE  SafeInv'
  <1> DEFINE k == bodies + 1
             q == [NoProducer EXCEPT !.pc = "Run", !.claim = TRUE]
  <1>0. /\ task = "Request" /\ current = 0 /\ bodies < tries /\ bodies \in Nat /\ tries \in Nat
        /\ tries <= MaxAttempts /\ MaxAttempts \in Nat /\ entry \in Entry
    BY EntryFacts DEF TypeOK, FirstPoll
  <1>1. k \in Attempt /\ k > bodies
    BY <1>0 DEF Attempt
  <1>2. /\ bodies' = k /\ current' = k /\ planned' = FALSE
        /\ prod' = [prod EXCEPT ![k].pc = "Run", ![k].claim = TRUE]
        /\ mark' = [attempt |-> k, stage |-> "ReadingSource"]
        /\ UNCHANGED <<entry, length, spooled, task, etag, invalid>>
    BY DEF FirstPoll, payloadVars
  <1>3. prod \in [Attempt -> Producers] /\ prod[k] = NoProducer
    BY <1>1, Typed
  <1>4. prod'[k] = q /\ \A j \in Attempt \ {k} : prod'[j] = prod[j]
    BY <1>1, <1>2, <1>3
  <1>5. ProducerOK(entry, q)
    <2>1. /\ q.read = 0 /\ q.carry = <<>> /\ q.out = <<>> /\ q.pc = "Run" /\ q.over = FALSE
          /\ q.made = <<>> /\ q.claim /\ q.pipe = <<>>
      BY DEF NoProducer
    <2>2. ASSUME entry.marker PROVE Leaves(entry, <<>>, <<>>, 0)
      <3>1. PICK s \in Seq(Symbol) : s = entry.stream
        BY <1>0, EntryFacts
      <3>2. Rest(entry, 0) = s
        BY <3>1, SubSeqFull DEF Rest
      <3>3. <<>> \o s = s
        BY ConcatEmptySeq
      <3>4. PICK r \in Seq(Symbol) : r = Replaced(s)
        BY ReplacedIsSeq
      <3>5. <<>> \o r = r
        BY ConcatEmptySeq
      <3>6. Replaced(<<>> \o Rest(entry, 0)) = r
        BY <3>2, <3>3, <3>4, Zenon
      <3>7. <<>> \o Replaced(<<>> \o Rest(entry, 0)) = r
        BY <3>5, <3>6, Zenon
      <3>8. ContentOf(entry) = r
        BY <3>1, <2>2, <3>4, Zenon DEF ContentOf
      <3> QED BY <3>7, <3>8, Zenon DEF Leaves
    <2> HIDE DEF q
    <2> QED BY <1>0, <2>1, <2>2, EntryFacts DEF ProducerOK
  <1> HIDE DEF q
  <1>6. ASSUME NEW j \in Attempt, j <= k
        PROVE  ProducerOK(entry, prod'[j])
    <2>1. CASE j = k
      BY <1>4, <1>5, <2>1
    <2>2. CASE j # k
      <3>1. j <= bodies
        <4>1. j \in Nat
          BY <1>0, <1>6 DEF Attempt
        <4> QED BY <1>0, <1>6, <2>2, <4>1
      <3> QED BY <1>4, <2>2, <3>1 DEF SafeInv
    <2> QED BY <2>1, <2>2
  <1>7. Ready => Ready'
    BY <1>2 DEF Ready, Valid
  <1>8. Order'
    BY <1>0, <1>2, <1>7 DEF SafeInv, Order
  <1>9. EtagOK' /\ NoFalseAlarm'
    BY <1>2 DEF SafeInv, EtagOK, NoFalseAlarm, Valid
  <1> QED BY <1>2, <1>6, <1>8, <1>9 DEF SafeInv

\* The comparison or planning pass.
LEMMA PreparedSafe ==
  ASSUME TypeOK, SafeInv, Prepared
  PROVE  SafeInv'
  <1>1. /\ task = "Prepare" /\ Valid(entry) /\ Len(Output(entry)) <= OutputLimit /\ bodies = 0
        /\ entry \in Entry /\ Output(entry) = ContentOf(entry) /\ bodies \in Nat
    BY EntryFacts DEF Prepared, SafeInv, Order, TypeOK
  <1>2. UNCHANGED <<entry, invalid, current, bodies, prod, mark>>
    BY DEF Prepared
  <1>3. CASE task' = "Skipped" /\ planned' = FALSE /\ UNCHANGED <<length, spooled, etag>>
    <2>1. Order'
      <3>1. task' = "Skipped" /\ ~planned' /\ bodies' = 0 /\ mark'.attempt = current'
        BY <1>1, <1>2, <1>3 DEF SafeInv, Order
      <3>2. ~(task' \in {"Between", "Request"} \/ bodies' > 0)
        BY <3>1
      <3> QED BY <3>1, <3>2 DEF Order
    <2>2. EtagOK' /\ NoFalseAlarm'
      BY <1>2, <1>3 DEF SafeInv, EtagOK, NoFalseAlarm, Valid
    <2>3. \A k \in Attempt : k <= bodies' => ProducerOK(entry', prod'[k])
      BY <1>2 DEF SafeInv
    <2> QED BY <2>1, <2>2, <2>3 DEF SafeInv
  <1>4. CASE /\ task' = "Between" /\ length' = Len(Output(entry))
             /\ spooled' = (Len(Output(entry)) <= SpoolLimit)
             /\ planned' = Retained(Len(Output(entry)) <= SpoolLimit)
             /\ RecordEtag(Output(entry))
    <2>1. etag' = <<ContentOf(entry)>> \/ (etag # <<>> /\ etag' = etag)
      BY <1>1, <1>4, Zenon DEF RecordEtag
    <2>2. etag' # <<>> /\ EtagOK'
      <3>1. <<ContentOf(entry)>> # <<>>
        OBVIOUS
      <3> QED BY <1>2, <2>1, <3>1, Zenon DEF SafeInv, EtagOK
    <2>3. Ready'
      BY <1>1, <1>2, <1>4, <2>2 DEF Ready, Valid
    <2>4. Order'
      <3>1. spooled' => ~planned'
        BY <1>4, Zenon DEF Retained
      <3>2. task' = "Between" /\ bodies' = 0 /\ mark'.attempt = current'
        BY <1>1, <1>2, <1>4 DEF SafeInv, Order
      <3>3. ~(bodies' > 0 \/ task' = "Skipped")
        BY <3>2
      <3> QED BY <2>3, <3>1, <3>2, <3>3 DEF Order
    <2> QED BY <1>2, <2>2, <2>4 DEF SafeInv, NoFalseAlarm, Valid
  <1> QED BY <1>3, <1>4 DEF Prepared

\* The other steps of the task.
LEMMA TaskSafe ==
  ASSUME TypeOK, SafeInv, Unprepared \/ PrepareFails \/ Begin \/ RequestOk \/ RequestErr \/ Terminated
  PROVE  SafeInv'
  <1> USE DEF payloadVars, taskVars, vars
  <1>0. entry \in Entry /\ entry.marker \in BOOLEAN /\ bodies \in Nat
    BY EntryFacts DEF TypeOK
  <1>1. CASE Unprepared
    <2>1. /\ ~entry.marker /\ task = "Prepare" /\ task' = "Between"
          /\ UNCHANGED <<entry, spooled, planned, etag, invalid, current, bodies, prod, mark>>
      BY <1>1 DEF Unprepared, Compares
    <2>2. Order'
      BY <2>1 DEF SafeInv, Order
    <2> QED BY <2>1, <2>2 DEF SafeInv, EtagOK, NoFalseAlarm, Valid
  <1>2. CASE PrepareFails
    <2>1. /\ task = "Prepare" /\ task' = "Failed" /\ planned' = FALSE
          /\ UNCHANGED <<entry, length, spooled, etag, invalid, current, bodies, prod, mark>>
      BY <1>2 DEF PrepareFails
    <2>2. Order'
      BY <1>0, <2>1 DEF SafeInv, Order
    <2> QED BY <2>1, <2>2 DEF SafeInv, EtagOK, NoFalseAlarm, Valid
  <1>3. CASE Begin
    <2>1. /\ task = "Between" /\ task' = "Request" /\ current' = 0 /\ mark'.attempt = 0
          /\ UNCHANGED <<entry, length, spooled, planned, etag, invalid, bodies, prod>>
      BY <1>3 DEF Begin
    <2>2. Ready => Ready'
      BY <2>1 DEF Ready, Valid
    <2>3. Order'
      BY <2>1, <2>2 DEF SafeInv, Order
    <2> QED BY <2>1, <2>3 DEF SafeInv, EtagOK, NoFalseAlarm, Valid
  <1>4. CASE RequestOk \/ RequestErr
    <2>1. /\ task = "Request" /\ task' \in {"Done", "Failed", "Reconciled", "Between"}
          /\ UNCHANGED <<entry, length, spooled, planned, etag, invalid, bodies, prod, mark, current>>
      BY <1>4 DEF RequestOk, RequestErr
    <2>2. Ready => Ready'
      BY <2>1 DEF Ready, Valid
    <2>3. Order'
      BY <2>1, <2>2 DEF SafeInv, Order
    <2> QED BY <2>1, <2>3 DEF SafeInv, EtagOK, NoFalseAlarm, Valid
  <1>5. CASE Terminated
    <2>1. UNCHANGED vars
      BY <1>5 DEF Terminated
    <2> QED BY <2>1 DEF SafeInv, Order, Ready, EtagOK, NoFalseAlarm, Valid
  <1> QED BY <1>1, <1>2, <1>3, <1>4, <1>5

LEMMA InitSafe == Init => SafeInv
  <1> SUFFICES ASSUME Init PROVE SafeInv
    OBVIOUS
  <1>1. Order
    BY DEF Init, Order
  <1>2. \A k \in Attempt : ~(k <= bodies)
    <2>1. MaxAttempts \in Nat
      BY EntryFacts DEF Init
    <2> QED BY <2>1 DEF Init, Attempt
  <1> QED BY <1>1, <1>2 DEF Init, SafeInv, EtagOK, NoFalseAlarm

LEMMA SafeSteps ==
  ASSUME TypeOK, SafeInv, [Next]_vars
  PROVE  SafeInv'
  <1>1. CASE UNCHANGED vars
    BY <1>1 DEF vars, payloadVars, taskVars, SafeInv, Order, Ready, EtagOK, NoFalseAlarm, Valid
  <1>2. CASE Next
    BY <1>2, StepSafe, PollSafe, DropSafe, FirstPollSafe, PreparedSafe, TaskSafe DEF Next
  <1> QED BY <1>1, <1>2

LEMMA SafeAlways == Spec => [](TypeOK /\ SafeInv)
  <1>1. Init => TypeOK /\ SafeInv
    BY InitType, InitSafe
  <1>2. TypeOK /\ SafeInv /\ [Next]_vars => (TypeOK /\ SafeInv)'
    BY ActionsTyped, StutterTyped, SafeSteps
  <1> QED BY <1>1, <1>2, PTL DEF Spec

\* The digest by which a conflict is reconciled is that of the content.
THEOREM RecordedDigestIsOfTheBody == Spec => []EtagIsBody
  <1>1. SafeInv => EtagIsBody
    BY Zenon DEF SafeInv, EtagOK, EtagIsBody, Intended, ContentOf
  <1> QED BY <1>1, SafeAlways, PTL

\* A validation error is recorded only of an entry that is not what is declared:
\* the two passes of the marker replacement never disagree.
THEOREM AlarmsAreTrue == Spec => []NoFalseAlarm
  <1>1. SafeInv => NoFalseAlarm
    BY DEF SafeInv
  <1> QED BY <1>1, SafeAlways, PTL

-----------------------------------------------------------------------------
(* The claims that wait for a reader *)

\* An upload that has been taken without a body was declared empty.
TakenEmpty == task = "Done" /\ planned => length = 0

LEMMA TakenEmptySteps ==
  ASSUME TypeOK, SafeInv, TakenEmpty, [Next]_vars
  PROVE  TakenEmpty'
  <1> USE DEF payloadVars, taskVars, vars
  <1>1. ASSUME task' = task, length' = length, planned' => planned
        PROVE  TakenEmpty'
    BY <1>1 DEF TakenEmpty
  <1>2. ASSUME NEW k \in Attempt,
               Produce(k) \/ ProducerBreaks(k) \/ PollFrame(k) \/ PollClosed(k) \/ DropBody(k)
        PROVE  TakenEmpty'
    <2>1. UNCHANGED <<task, length, planned>>
      BY <1>2 DEF Produce, ProducerBreaks, PollFrame, PollClosed, DropBody
    <2> QED BY <1>1, <2>1
  <1>3. CASE Unprepared \/ Prepared \/ PrepareFails \/ Begin \/ RequestErr
    <2>1. task' # "Done"
      BY <1>3 DEF Unprepared, Prepared, PrepareFails, Begin, RequestErr
    <2> QED BY <2>1 DEF TakenEmpty
  <1>4. CASE RequestOk
    <2>1. /\ spooled \/ (current = 0 /\ length = 0) \/ current # 0
          /\ planned' = planned /\ length' = length
      BY <1>4 DEF RequestOk, Taken
    <2>2. current # 0 => bodies > 0
      BY DEF TypeOK
    <2>3. spooled \/ bodies > 0 => ~planned
      BY DEF SafeInv, Order
    <2> QED BY <2>1, <2>2, <2>3 DEF TakenEmpty
  <1>5. CASE FirstPoll \/ AbortBodies \/ Terminated \/ UNCHANGED vars
    BY <1>1, <1>5 DEF FirstPoll, AbortBodies, Terminated
  <1> QED BY <1>2, <1>3, <1>4, <1>5 DEF Next

\* An entry that has been uploaded or skipped leaves no claim waiting, unless no
\* body of it was ever polled, because it was declared empty or S3 had the object.
THEOREM NoClaimIsForgotten == Spec => []ClaimsReleased
  <1>1. Init => TakenEmpty
    BY DEF Init, TakenEmpty
  <1>2. TypeOK /\ SafeInv /\ TakenEmpty /\ [Next]_vars => TakenEmpty'
    BY TakenEmptySteps
  <1>3. TypeOK /\ SafeInv /\ TakenEmpty => ClaimsReleased
    <2> SUFFICES ASSUME TypeOK, SafeInv, TakenEmpty, task \in Over \ {"Failed"}, planned
                 PROVE  bodies = 0 /\ (length = 0 \/ task = "Reconciled")
      BY DEF ClaimsReleased
    <2>1. bodies \in Nat
      BY DEF TypeOK
    <2>2. ~(bodies > 0) /\ task # "Skipped"
      BY DEF SafeInv, Order
    <2> QED BY <2>1, <2>2 DEF TakenEmpty, Over
  <1> QED BY <1>1, <1>2, <1>3, SafeAlways, PTL DEF Spec

-----------------------------------------------------------------------------
(* Every symbol of the content is somewhere *)

Going(p) == p.pc \in {"Run", "Last"}

\* What the client has, what the channel holds and what the producer still has are
\* the content, in this order and without a gap.
FlowOf(e, got, q, p) ==
  \E a, b \in Places(ContentOf(e)) :
    /\ Piece(ContentOf(e), 0, got, a) /\ Queued(ContentOf(e), q, a, b)
    /\ Going(p) => Pending(e, p, b)

FlowInv ==
  \A k \in Attempt :
    k <= bodies /\ body[k].error = "None" => FlowOf(entry, body[k].got, chan[k], prod[k])

\* A step of a producer that sends nothing.
Advances(e, p, q) ==
  Going(q) => Going(p) /\ \A b \in Places(ContentOf(e)) : Pending(e, p, b) => Pending(e, q, b)

\* A step that sends an item.
Sends(e, p, q, item) ==
  \/ item.data = <<>> /\ ~Ends(item) /\ ~Going(q)
  \/ /\ Going(p)
     /\ \A b \in Places(ContentOf(e)) : Pending(e, p, b) =>
          \E c \in Places(ContentOf(e)) :
            /\ Piece(ContentOf(e), b, item.data, c) /\ (Ends(item) => c = Len(ContentOf(e)))
            /\ Going(q) => Pending(e, q, c)

\* What a producer does to its own buffers loses nothing and repeats nothing.
LEMMA FlowAdvances ==
  ASSUME NEW e \in Entry, NEW got, NEW chn, NEW p, NEW q, FlowOf(e, got, chn, p), Advances(e, p, q)
  PROVE  FlowOf(e, got, chn, q)
  BY DEF FlowOf, Advances

\* Nor does sending the frame that comes next.
LEMMA FlowSends ==
  ASSUME NEW e \in Entry, NEW got, NEW chn \in Seq(Frames), NEW p, NEW q, NEW item \in Frames,
         FlowOf(e, got, chn, p), Sends(e, p, q, item)
  PROVE  FlowOf(e, got, Append(chn, item), q)
  <1>1. PICK a, b \in Places(ContentOf(e)) :
          /\ Piece(ContentOf(e), 0, got, a) /\ Queued(ContentOf(e), chn, a, b)
          /\ Going(p) => Pending(e, p, b)
    BY DEF FlowOf
  <1>2. PICK c \in Places(ContentOf(e)) :
          /\ Piece(ContentOf(e), b, item.data, c) /\ (Ends(item) => c = Len(ContentOf(e)))
          /\ Going(q) => Pending(e, q, c)
    <2>1. CASE item.data = <<>> /\ ~Ends(item) /\ ~Going(q)
      <3>1. Piece(ContentOf(e), b, <<>>, b)
        BY EntryFacts, PieceEmpty
      <3> QED BY <2>1, <3>1
    <2> QED BY <1>1, <2>1 DEF Sends
  <1>3. Queued(ContentOf(e), Append(chn, item), a, c)
    BY <1>1, <1>2, QueuedAppend, EntryFacts
  <1> QED BY <1>1, <1>2, <1>3 DEF FlowOf

\* The frames alone decide what is in front, and the pipe what is behind.
LEMMA FrontSame ==
  ASSUME NEW I, NEW p, NEW q, NEW a, NEW d, Front(I, p, a, d),
         q.send = p.send, q.held = p.held, q.frame = p.frame
  PROVE  Front(I, q, a, d)
  BY DEF Front

LEMMA BackSame ==
  ASSUME NEW I, NEW p, NEW q, NEW d, Back(I, p, d),
         q.pipe = p.pipe, q.out = p.out, q.made = p.made
  PROVE  Back(I, q, d)
  BY DEF Back

LEMMA PendingSame ==
  ASSUME NEW e, NEW p, NEW q, NEW b, Pending(e, p, b),
         q.send = p.send, q.held = p.held, q.frame = p.frame,
         q.pipe = p.pipe, q.out = p.out, q.made = p.made, q.read = p.read
  PROVE  Pending(e, q, b)
  <1>1. PICK d \in Places(ContentOf(e)) :
          /\ Front(ContentOf(e), p, b, d)
          /\ IF e.marker THEN Back(ContentOf(e), p, d) ELSE d = p.read
    BY DEF Pending
  <1>2. Front(ContentOf(e), q, b, d)
    BY <1>1, FrontSame
  <1>3. IF e.marker THEN Back(ContentOf(e), q, d) ELSE d = q.read
    BY <1>1, BackSame
  <1> QED BY <1>2, <1>3 DEF Pending

LEMMA AdvancesSame ==
  ASSUME NEW e, NEW p, NEW q,
         Going(q) => Going(p) /\ q.send = p.send /\ q.held = p.held /\ q.frame = p.frame
                     /\ q.pipe = p.pipe /\ q.out = p.out /\ q.made = p.made /\ q.read = p.read
  PROVE  Advances(e, p, q)
  BY PendingSame DEF Advances

LEMMA ReadPending ==
  ASSUME NEW e \in Entry, ~e.marker, NEW p \in Producers, p.pc = "Run", p.send = <<>>,
         NEW n \in Nat, p.read + n <= Len(e.stream),
         NEW s, s = SubSeq(e.stream, p.read + 1, p.read + n),
         NEW r \in Producers, r = [p EXCEPT !.read = p.read + n]
  PROVE  Advances(e, p, Filled(r, s))
  <1> SUFFICES ASSUME NEW b \in Places(ContentOf(e)), Pending(e, p, b)
               PROVE  Pending(e, Filled(r, s), b)
    BY DEF Advances, Going
  <1> DEFINE I == ContentOf(e)
  <1>1. I = e.stream /\ I \in Seq(Symbol) /\ p.read \in Nat
    BY EntryFacts DEF ContentOf, Producers
  <1>2. PICK d \in Places(I) : Front(I, p, b, d) /\ d = p.read
    BY DEF Pending
  <1>3. Piece(I, d, s, d + n) /\ s \in Seq(Symbol)
    BY <1>1, <1>2, FetchedFacts
  <1>4. r.pc = "Run" /\ r.send = <<>> /\ r.send = p.send /\ r.held = p.held /\ r.frame = p.frame
        /\ r.read = d + n
    BY <1>2 DEF Producers
  <1> HIDE DEF I
  <1>5. Front(I, r, b, d)
    BY <1>2, <1>4, FrontSame
  <1>6. Front(I, Filled(r, s), b, d + n)
    BY <1>1, <1>3, <1>4, <1>5, FilledFront DEF I
  <1>7. Filled(r, s).read = d + n
    BY <1>3, <1>4, FilledFacts DEF SameBut
  <1>8. d + n \in Places(I)
    BY <1>1, <1>3, PieceFacts
  <1> QED BY <1>6, <1>7, <1>8 DEF Pending, I

LEMMA ChunkPending ==
  ASSUME NEW e \in Entry, NEW p \in Producers, NEW n \in Nat, NEW eof \in BOOLEAN, NEW fetched,
         NEW input, NEW written, Takes(e, p, n, eof, fetched, input, written), p.out = <<>>,
         p.pc = "Run",
         NEW q, q.out = written, q.made = p.made \o written,
         q.send = p.send, q.held = p.held, q.frame = p.frame, q.pipe = p.pipe
  PROVE  Advances(e, p, q)
  <1> SUFFICES ASSUME NEW b \in Places(ContentOf(e)), Pending(e, p, b)
               PROVE  Pending(e, q, b)
    BY DEF Advances, Going
  <1>0. e.marker /\ ContentOf(e) \in Seq(Symbol)
    BY EntryFacts DEF Takes
  <1>1. PICK d \in Places(ContentOf(e)) : Front(ContentOf(e), p, b, d) /\ Back(ContentOf(e), p, d)
    BY <1>0 DEF Pending
  <1>2. PICK m \in Places(ContentOf(e)) :
          Piece(ContentOf(e), d, p.pipe, m) /\ Piece(ContentOf(e), m, p.out, Len(p.made))
    BY <1>1 DEF Back
  <1>3. m = Len(p.made)
    BY <1>0, <1>2, PieceEmpty
  <1>4. Piece(ContentOf(e), Len(p.made), written, Len(p.made \o written))
    BY Chunk
  <1>5. Piece(ContentOf(e), m, q.out, Len(q.made))
    BY <1>3, <1>4
  <1>6. Back(ContentOf(e), q, d)
    BY <1>2, <1>5 DEF Back
  <1>7. Front(ContentOf(e), q, b, d)
    BY <1>1, FrontSame
  <1> QED BY <1>0, <1>6, <1>7 DEF Pending

LEMMA PipePending ==
  ASSUME NEW e \in Entry, NEW p \in Producers, p.pc = "Run", e.marker,
         NEW n \in 0 .. Len(p.out),
         NEW q, q.out = SubSeq(p.out, n + 1, Len(p.out)), q.pipe = p.pipe \o SubSeq(p.out, 1, n),
         q.made = p.made, q.send = p.send, q.held = p.held, q.frame = p.frame
  PROVE  Advances(e, p, q)
  <1> SUFFICES ASSUME NEW b \in Places(ContentOf(e)), Pending(e, p, b)
               PROVE  Pending(e, q, b)
    BY DEF Advances, Going
  <1>0. ContentOf(e) \in Seq(Symbol)
    BY EntryFacts
  <1>1. PICK d \in Places(ContentOf(e)) : Front(ContentOf(e), p, b, d) /\ Back(ContentOf(e), p, d)
    BY DEF Pending
  <1>2. PICK m \in Places(ContentOf(e)) :
          Piece(ContentOf(e), d, p.pipe, m) /\ Piece(ContentOf(e), m, p.out, Len(p.made))
    BY <1>1 DEF Back
  <1>3. /\ Piece(ContentOf(e), m, SubSeq(p.out, 1, n), m + n)
        /\ Piece(ContentOf(e), m + n, SubSeq(p.out, n + 1, Len(p.out)), Len(p.made))
    BY <1>0, <1>2, PieceSplit
  <1>4. Piece(ContentOf(e), d, p.pipe \o SubSeq(p.out, 1, n), m + n) /\ m + n \in Places(ContentOf(e))
    <2>1. PICK s : s = SubSeq(p.out, 1, n)
      OBVIOUS
    <2>2. Piece(ContentOf(e), m, s, m + n)
      BY <1>3, <2>1, Zenon
    <2>3. Piece(ContentOf(e), d, p.pipe \o s, m + n) /\ m + n \in Places(ContentOf(e))
      BY <1>0, <1>2, <2>2, PieceJoin, PieceFacts
    <2> QED BY <2>1, <2>3, Zenon
  <1>5. Back(ContentOf(e), q, d)
    BY <1>3, <1>4 DEF Back
  <1>6. Front(ContentOf(e), q, b, d)
    BY <1>1, FrontSame
  <1> QED BY <1>5, <1>6 DEF Pending

LEMMA ForwardPending ==
  ASSUME NEW e \in Entry, e.marker, NEW p \in Producers, p.pc = "Run", p.send = <<>>,
         NEW n \in 0 .. Len(p.pipe), NEW s, s = SubSeq(p.pipe, 1, n),
         NEW r \in Producers, r.pc = "Run", r.send = <<>>, r.held = p.held, r.frame = p.frame,
         r.out = p.out, r.made = p.made, r.pipe = SubSeq(p.pipe, n + 1, Len(p.pipe))
  PROVE  Advances(e, p, Filled(r, s))
  <1> SUFFICES ASSUME NEW b \in Places(ContentOf(e)), Pending(e, p, b)
               PROVE  Pending(e, Filled(r, s), b)
    BY DEF Advances, Going
  <1>0. ContentOf(e) \in Seq(Symbol)
    BY EntryFacts
  <1>1. PICK d \in Places(ContentOf(e)) : Front(ContentOf(e), p, b, d) /\ Back(ContentOf(e), p, d)
    BY DEF Pending
  <1>2. PICK m \in Places(ContentOf(e)) :
          Piece(ContentOf(e), d, p.pipe, m) /\ Piece(ContentOf(e), m, p.out, Len(p.made))
    BY <1>1 DEF Back
  <1>3. /\ Piece(ContentOf(e), d, s, d + n) /\ s \in Seq(Symbol) /\ d + n \in Places(ContentOf(e))
        /\ Piece(ContentOf(e), d + n, r.pipe, m)
    <2>1. /\ Piece(ContentOf(e), d, SubSeq(p.pipe, 1, n), d + n)
          /\ Piece(ContentOf(e), d + n, SubSeq(p.pipe, n + 1, Len(p.pipe)), m)
      BY <1>0, <1>2, PieceSplit
    <2>2. Piece(ContentOf(e), d, s, d + n) /\ Piece(ContentOf(e), d + n, r.pipe, m)
      BY <2>1, Zenon
    <2> QED BY <1>0, <2>2, PieceFacts
  <1>4. Front(ContentOf(e), r, b, d)
    BY <1>1, FrontSame
  <1>5. Front(ContentOf(e), Filled(r, s), b, d + n)
    BY <1>0, <1>3, <1>4, FilledFront
  <1>6. Back(ContentOf(e), r, d + n)
    BY <1>2, <1>3 DEF Back
  <1>7. PICK q : q = Filled(r, s) /\ SameBut(r, q)
    BY <1>3, FilledFacts
  <1>8. Back(ContentOf(e), q, d + n)
    BY <1>6, <1>7, BackSame DEF SameBut
  <1> QED BY <1>3, <1>5, <1>7, <1>8 DEF Pending

LEMMA ShiftPending ==
  ASSUME NEW e \in Entry, NEW p \in Producers, p.pc = "Run", p.send = <<>>
  PROVE  Advances(e, p, Shift(p))
  <1> SUFFICES ASSUME NEW b \in Places(ContentOf(e)), Pending(e, p, b)
               PROVE  Pending(e, Shift(p), b)
    BY DEF Advances, Going
  <1>0. ContentOf(e) \in Seq(Symbol)
    BY EntryFacts
  <1>1. PICK d \in Places(ContentOf(e)) :
          /\ Front(ContentOf(e), p, b, d)
          /\ IF e.marker THEN Back(ContentOf(e), p, d) ELSE d = p.read
    BY DEF Pending
  <1>2. PICK q : q = Shift(p) /\ SameBut(p, q)
    BY ShiftFacts
  <1>3. Front(ContentOf(e), q, b, d)
    BY <1>0, <1>1, <1>2, ShiftFront
  <1>4. IF e.marker THEN Back(ContentOf(e), q, d) ELSE d = q.read
    BY <1>1, <1>2, BackSame DEF SameBut
  <1> QED BY <1>2, <1>3, <1>4 DEF Pending

LEMMA FramePending ==
  ASSUME NEW e \in Entry, NEW p \in Producers, p.pc = "Run", p.send # <<>>, NEW item,
         item.data = p.send[1], ~Ends(item),
         NEW q, q.send = <<>>, q.held = p.held, q.frame = p.frame,
         q.pipe = p.pipe, q.out = p.out, q.made = p.made, q.read = p.read
  PROVE  Sends(e, p, q, item)
  <1> SUFFICES ASSUME NEW b \in Places(ContentOf(e)), Pending(e, p, b)
               PROVE  \E c \in Places(ContentOf(e)) :
                        Piece(ContentOf(e), b, item.data, c) /\ Pending(e, q, c)
    BY DEF Sends, Going
  <1>1. PICK d \in Places(ContentOf(e)) :
          /\ Front(ContentOf(e), p, b, d)
          /\ IF e.marker THEN Back(ContentOf(e), p, d) ELSE d = p.read
    BY DEF Pending
  <1>2. PICK c \in Places(ContentOf(e)) :
          /\ Piece(ContentOf(e), b, p.send[1], c)
          /\ \E m \in Places(ContentOf(e)) :
               Piece(ContentOf(e), c, p.held, m) /\ Piece(ContentOf(e), m, p.frame, d)
    BY <1>1 DEF Front
  <1>3. Front(ContentOf(e), q, c, d)
    BY <1>2 DEF Front
  <1>4. IF e.marker THEN Back(ContentOf(e), q, d) ELSE d = q.read
    BY <1>1, BackSame
  <1> QED BY <1>2, <1>3, <1>4 DEF Pending

\* The frame sent last ends the content.
LEMMA LastPending ==
  ASSUME NEW e \in Entry, NEW p \in Producers, p.pc = "Last", ProducerOK(e, p), NEW item,
         item.data = p.held, NEW q, ~Going(q)
  PROVE  Sends(e, p, q, item)
  <1> SUFFICES ASSUME NEW b \in Places(ContentOf(e)), Pending(e, p, b)
               PROVE  \E c \in Places(ContentOf(e)) :
                        Piece(ContentOf(e), b, p.held, c) /\ c = Len(ContentOf(e))
    BY DEF Sends, Going
  <1>0. ContentOf(e) \in Seq(Symbol) /\ Len(ContentOf(e)) \in Nat /\ e.marker \in BOOLEAN
    BY EntryFacts
  <1>1. PICK d \in Places(ContentOf(e)) :
          /\ Front(ContentOf(e), p, b, d)
          /\ IF e.marker THEN Back(ContentOf(e), p, d) ELSE d = p.read
    BY DEF Pending
  <1>2. p.send = <<>> /\ p.frame = <<>>
    BY DEF ProducerOK
  <1>3. PICK c \in Places(ContentOf(e)) :
          Piece(ContentOf(e), b, p.held, c) /\ Piece(ContentOf(e), c, p.frame, d)
    BY <1>1, <1>2 DEF Front
  <1>4. d = c
    BY <1>0, <1>2, <1>3, PieceEmpty
  <1>5. CASE e.marker
    <2>1. p.pipe = <<>> /\ p.out = <<>> /\ Whole(e, p.made)
      BY <1>5 DEF ProducerOK
    <2>2. PICK m \in Places(ContentOf(e)) :
            Piece(ContentOf(e), d, p.pipe, m) /\ Piece(ContentOf(e), m, p.out, Len(p.made))
      BY <1>1, <1>5 DEF Back
    <2>3. m = d
      BY <1>0, <2>1, <2>2, PieceEmpty
    <2>4. Len(p.made) = m
      BY <1>0, <2>1, <2>2, PieceEmpty
    <2>5. Len(p.made) = Len(ContentOf(e))
      BY <2>1, Zenon DEF Whole
    <2> QED BY <1>3, <1>4, <2>3, <2>4, <2>5
  <1>6. CASE ~e.marker
    <2>1. d = p.read /\ p.read = Len(e.stream) /\ ContentOf(e) = e.stream
      BY <1>1, <1>6 DEF ProducerOK, ContentOf
    <2> QED BY <1>3, <1>4, <2>1
  <1> QED BY <1>0, <1>5, <1>6

-----------------------------------------------------------------------------
(* What a body gives its client *)

\* The producer has sent its last frame.
Gone(p) == p.pc \in {"Sent", "End"}

\* A last frame is only sent of a valid entry, and a validation error is recorded
\* before it is sent.
ItemSound(e, item, p, bad) ==
  /\ Ends(item) => Valid(e) /\ Gone(p)
  /\ item.kind = "Invalid" => bad

AlarmOK(p, bad) == p.pc = "Error" /\ p.send = <<TRUE>> => bad

\* A body that is delivered is the content, and the others never reach the length.
ResultOK(e, b, p, n, bad) ==
  /\ b.complete /\ b.error = "None" => Valid(e) /\ Whole(e, b.got) /\ Gone(p)
  /\ (b.complete /\ b.error = "None") \/ n = 0 \/ Len(b.got) < n
  /\ b.error = "Invalid" => bad

BodyOK(e, b, q, p, n, bad) ==
  /\ b.error = "None" => FlowOf(e, b.got, q, p)
  /\ \A i \in 1 .. Len(q) : ItemSound(e, q[i], p, bad)
  /\ ResultOK(e, b, p, n, bad) /\ AlarmOK(p, bad)

BodyInv ==
  \A k \in Attempt : k <= bodies => BodyOK(entry, body[k], chan[k], prod[k], length, invalid)

\* A step of a producer, seen from its body.
BodyStep(k) ==
  \E q \in Producers :
    /\ prod' = [prod EXCEPT ![k] = q]
    /\ (invalid => invalid') /\ AlarmOK(q, invalid') /\ (Gone(prod[k]) => Gone(q))
    /\ \/ chan' = chan /\ Advances(entry, prod[k], q)
       \/ \E item \in Frames :
            /\ chan' = [chan EXCEPT ![k] = Append(chan[k], item)]
            /\ Sends(entry, prod[k], q, item) /\ ItemSound(entry, item, q, invalid')

LEMMA FailBody ==
  ASSUME TypeOK, NEW k \in Attempt, NEW bad \in BOOLEAN, Fail(k, bad), prod[k].pc = "Run"
  PROVE  BodyStep(k)
  <1> DEFINE q == [prod[k] EXCEPT !.pc = "Error", !.claim = FALSE, !.send = <<bad>>]
  <1>1. prod' = [prod EXCEPT ![k] = q] /\ chan' = chan /\ invalid' = (invalid \/ bad)
    BY DEF Fail, Update, InvalidAt
  <1>2. q \in Producers /\ q.pc = "Error" /\ q.send = <<bad>>
    <2>1. <<bad>> \in Seq(Seq(Symbol) \cup BOOLEAN) /\ prod[k] \in Producers
      BY Typed
    <2> QED BY <2>1 DEF Producers
  <1> HIDE DEF q
  <1>3. AlarmOK(q, invalid')
    <2>1. q.send = <<TRUE>> => bad
      <3>1. bad # TRUE => <<bad>> # <<TRUE>>
        OBVIOUS
      <3> QED BY <1>2, <3>1
    <2> QED BY <1>1, <2>1 DEF AlarmOK
  <1>4. Advances(entry, prod[k], q) /\ ~Gone(prod[k])
    BY <1>2 DEF Advances, Going, Gone
  <1> QED BY <1>1, <1>2, <1>3, <1>4 DEF BodyStep

\* A step that neither sends anything nor fails.
LEMMA MoveBody ==
  ASSUME NEW k \in Attempt, NEW q \in Producers, prod' = [prod EXCEPT ![k] = q],
         chan' = chan, invalid' = invalid, q.pc # "Error", Gone(prod[k]) => Gone(q),
         Advances(entry, prod[k], q)
  PROVE  BodyStep(k)
  BY DEF BodyStep, AlarmOK

\* A step that sends an item.
LEMMA SendBody ==
  ASSUME NEW k \in Attempt, NEW q \in Producers, prod' = [prod EXCEPT ![k] = q],
         NEW item \in Frames, chan' = [chan EXCEPT ![k] = Append(chan[k], item)],
         invalid' = invalid, q.pc # "Error", Gone(prod[k]) => Gone(q),
         Sends(entry, prod[k], q, item), ItemSound(entry, item, q, invalid)
  PROVE  BodyStep(k)
  <1>1. ItemSound(entry, item, q, invalid')
    BY DEF ItemSound
  <1> QED BY <1>1 DEF BodyStep, AlarmOK

LEMMA ReadFrameBody ==
  ASSUME TypeOK, NEW k \in Attempt, ReadFrame(k)
  PROVE  BodyStep(k)
  <1>1. prod[k] \in Producers /\ prod[k].pc = "Run" /\ prod[k].send = <<>> /\ ~entry.marker
        /\ entry \in Entry
    BY Typed DEF ReadFrame, Running
  <1>2. PICK n \in 1 .. Least(Frame - Len(prod[k].frame), Len(entry.stream) - prod[k].read) :
          IF TooLong(prod[k].read + n) THEN Fail(k, TRUE)
          ELSE /\ Update(k, Filled([prod[k] EXCEPT !.read = @ + n], Fetched(prod[k], n)))
               /\ UNCHANGED <<etag, invalid, chan, mark>>
    BY DEF ReadFrame
  <1>3. n \in Nat /\ n <= Len(entry.stream) - prod[k].read
    <2>1. prod[k].read \in Nat /\ Len(entry.stream) \in Nat /\ Len(prod[k].frame) \in Nat /\ Frame \in Nat
      BY <1>1, ProducerParts, EntryFacts, FrameIsNat
    <2> QED BY <2>1 DEF Least
  <1>4. CASE TooLong(prod[k].read + n)
    BY <1>1, <1>2, <1>4, FailBody
  <1>5. CASE ~TooLong(prod[k].read + n)
    <2> DEFINE r == [prod[k] EXCEPT !.read = @ + n]
               s == Fetched(prod[k], n)
               q == Filled(r, s)
    <2>1. s \in Seq(Symbol) /\ prod[k].read + n \in Nat /\ prod[k].read + n <= Len(entry.stream)
          /\ s = SubSeq(entry.stream, prod[k].read + 1, prod[k].read + n)
      BY <1>3, Reading DEF Fetched
    <2>2. r \in Producers /\ r.pc = "Run" /\ r.send = <<>> /\ r = [prod[k] EXCEPT !.read = prod[k].read + n]
      BY <1>1, <2>1 DEF Producers
    <2>3. prod' = [prod EXCEPT ![k] = q] /\ UNCHANGED <<invalid, chan>>
      BY <1>2, <1>5 DEF Update
    <2> HIDE DEF r, s
    <2>4. Advances(entry, prod[k], q)
      BY <1>1, <1>3, <2>1, <2>2, ReadPending
    <2>5. q \in Producers /\ q.pc = "Run"
      BY <2>1, <2>2, FilledFacts DEF SameBut
    <2> HIDE DEF q
    <2> QED BY <1>1, <2>3, <2>4, <2>5, MoveBody DEF Gone
  <1> QED BY <1>4, <1>5

LEMMA ReplaceBody ==
  ASSUME TypeOK, SafeInv, NEW k \in Attempt, Replace(k)
  PROVE  BodyStep(k)
  <1>1. /\ prod[k] \in Producers /\ prod[k].pc = "Run" /\ prod[k].send = <<>> /\ entry.marker
        /\ ~prod[k].over /\ prod[k].out = <<>> /\ entry \in Entry
    BY Typed DEF Replace, Running
  <1>2. ProducerOK(entry, prod[k])
    BY <1>1, Used DEF SafeInv
  <1>3. PICK n \in 0 .. Len(entry.stream) - prod[k].read :
          LET eof     == n = 0
              input   == prod[k].carry \o Fetched(prod[k], n)
              written == Emitted(input, eof).out
          IN /\ eof <=> prod[k].read = Len(entry.stream)
             /\ IF TooLong(prod[k].read + n) \/ Len(prod[k].made \o written) > OutputLimit THEN Fail(k, TRUE)
                ELSE /\ Update(k, [prod[k] EXCEPT !.read = @ + n, !.carry = Carry(input, eof),
                                                  !.out = written, !.made = @ \o written, !.over = eof])
                     /\ UNCHANGED <<etag, invalid, chan, mark>>
    BY DEF Replace
  <1>4. /\ n \in Nat /\ n <= Len(entry.stream) - prod[k].read /\ prod[k].read \in Nat
        /\ Len(entry.stream) \in Nat
    <2>1. prod[k].read \in Nat /\ Len(entry.stream) \in Nat
      BY <1>1, EntryFacts DEF Producers
    <2> QED BY <2>1
  <1>e. PICK eof \in BOOLEAN : eof = (n = 0)
    OBVIOUS
  <1> DEFINE fetched == SubSeq(entry.stream, prod[k].read + 1, prod[k].read + n)
             input   == prod[k].carry \o fetched
             written == Emitted(input, eof).out
             q == [prod[k] EXCEPT !.read = @ + n, !.carry = Carry(input, eof),
                                  !.out = written, !.made = @ \o written, !.over = eof]
  <1>5. Fetched(prod[k], n) = fetched
    BY DEF Fetched
  <1>6. n = 0 <=> prod[k].read = Len(entry.stream)
    BY <1>3
  <1>7. Fail(k, TRUE) \/ (prod' = [prod EXCEPT ![k] = q] /\ UNCHANGED <<invalid, chan>>)
    BY <1>3, <1>5, <1>e DEF Update
  <1>8. CASE Fail(k, TRUE)
    BY <1>1, <1>8, FailBody
  <1>9. CASE prod' = [prod EXCEPT ![k] = q] /\ UNCHANGED <<invalid, chan>>
    <2>0. prod[k].read + n <= Len(entry.stream) /\ prod[k].read + n \in Nat
      BY <1>4
    <2>1. Takes(entry, prod[k], n, eof, fetched, input, written)
      BY <1>1, <1>2, <1>4, <1>6, <1>e, <2>0 DEF Takes
    <2>2. PICK p \in Producers : p = prod[k]
      BY <1>1
    <2> HIDE DEF fetched, input, written
    <2>3. p.made \o written \in Seq(Symbol)
      BY <1>1, <1>4, <2>1, <2>2, Chunk
    <2>4. PICK new \in Seq(Symbol) : new = p.made \o written
      BY <2>3
    <2>5. input \in Seq(Symbol) /\ written \in Seq(Symbol) /\ Carry(input, eof) \in Seq(Symbol)
      <3>1. fetched \in Seq(Symbol) /\ prod[k].carry \in Seq(Symbol)
        BY <1>1, <1>4, <1>5, Reading DEF Producers
      <3>2. input \in Seq(Symbol)
        BY <3>1, ConcatProperties DEF input
      <3> QED BY <3>2, EmittedFacts DEF written
    <2>6. PICK c \in Seq(Symbol) : c = Carry(input, eof)
      BY <2>5
    <2>7. q = [p EXCEPT !.read = p.read + n, !.carry = c, !.out = written, !.made = new, !.over = eof]
      BY <2>2, <2>4, <2>6
    <2> HIDE DEF q
    <2>8. /\ q \in Producers /\ q.out = written /\ q.made = new /\ q.send = p.send /\ q.held = p.held
          /\ q.frame = p.frame /\ q.pipe = p.pipe /\ q.pc = p.pc
      BY <2>0, <2>2, <2>5, <2>7 DEF Producers
    <2>9. q.made = p.made \o written
      BY <2>4, <2>8, Zenon
    <2>10. Takes(entry, p, n, eof, fetched, input, written) /\ p.pc = "Run" /\ p.out = <<>>
      BY <1>1, <2>1, <2>2
    <2>11. Advances(entry, p, q)
      BY <1>1, <1>4, <2>8, <2>9, <2>10, ChunkPending
    <2> QED BY <1>9, <2>2, <2>8, <2>10, <2>11, MoveBody DEF Gone
  <1> QED BY <1>7, <1>8, <1>9

-----------------------------------------------------------------------------
(* The steps of a producer, as its body sees them *)

LEMMA WritePipeBody ==
  ASSUME TypeOK, SafeInv, NEW k \in Attempt, WritePipe(k)
  PROVE  BodyStep(k)
  <1> DEFINE n == Least(Len(prod[k].out), 2 * Frame - Len(prod[k].pipe))
             q == [prod[k] EXCEPT !.out = SubSeq(@, n + 1, Len(@)),
                                  !.pipe = @ \o SubSeq(prod[k].out, 1, n)]
  <1>1. /\ prod[k] \in Producers /\ prod[k].pc = "Run" /\ n > 0 /\ entry \in Entry
        /\ prod' = [prod EXCEPT ![k] = q] /\ UNCHANGED <<etag, invalid, chan, mark>>
    BY Typed DEF WritePipe, Update
  <1>2. n \in 0 .. Len(prod[k].out) /\ Len(prod[k].out) \in Nat /\ prod[k].out \in Seq(Symbol)
        /\ prod[k].pipe \in Seq(Symbol)
    <2>1. Len(prod[k].pipe) \in Nat /\ Frame \in Nat /\ Len(prod[k].out) \in Nat
          /\ prod[k].out \in Seq(Symbol) /\ prod[k].pipe \in Seq(Symbol)
      <3>1. Frame \in Nat
        BY EntryAssumption
      <3>2. prod[k].out \in Seq(Symbol) /\ prod[k].pipe \in Seq(Symbol)
        BY <1>1 DEF Producers
      <3> QED BY <3>1, <3>2
    <2>2. PICK a \in Nat : a = Len(prod[k].out)
      BY <2>1
    <2>3. PICK b \in Int : b = 2 * Frame - Len(prod[k].pipe)
      <3>1. \A f, l \in Nat : 2 * f - l \in Int
        OBVIOUS
      <3> QED BY <2>1, <3>1, Zenon
    <2>4. n = Least(a, b)
      BY <2>2, <2>3
    <2>5. n > 0
      BY <1>1
    <2> HIDE DEF n
    <2>6. n \in 0 .. a
      BY <2>4, <2>5 DEF Least
    <2> QED BY <2>1, <2>2, <2>6
  <1>3. prod[k].out # <<>>
    BY <1>1, <1>2
  <1> HIDE DEF n
  <1>4. PICK o \in Seq(Symbol) : o = SubSeq(prod[k].out, n + 1, Len(prod[k].out))
    BY <1>2, Parts
  <1>5. PICK x \in Seq(Symbol) : x = prod[k].pipe \o SubSeq(prod[k].out, 1, n)
    <2>1. SubSeq(prod[k].out, 1, n) \in Seq(Symbol)
      BY <1>2, Parts
    <2> QED BY <1>2, <2>1, ConcatProperties
  <1>6. q = [prod[k] EXCEPT !.out = o, !.pipe = x]
    BY <1>1, <1>4, <1>5
  <1> HIDE DEF q
  <1>7. /\ q \in Producers /\ q.out = o /\ q.pipe = x /\ q.made = prod[k].made /\ q.send = prod[k].send
        /\ q.held = prod[k].held /\ q.frame = prod[k].frame /\ q.read = prod[k].read /\ q.pc = "Run"
    BY <1>1, <1>6 DEF Producers
  <1>8. ProducerOK(entry, prod[k])
    BY <1>1, Used DEF SafeInv
  <1>9. entry.marker
    BY <1>3, <1>8 DEF ProducerOK
  <1>10. Advances(entry, prod[k], q)
    <2>1. q.out = SubSeq(prod[k].out, n + 1, Len(prod[k].out))
      BY <1>4, <1>7, Zenon
    <2>2. q.pipe = prod[k].pipe \o SubSeq(prod[k].out, 1, n)
      BY <1>5, <1>7, Zenon
    <2>3. PICK p \in Producers : p = prod[k]
      BY <1>1
    <2>4. /\ p.pc = "Run" /\ p.out # <<>> /\ n \in 0 .. Len(p.out) /\ q.made = p.made
          /\ q.send = p.send /\ q.held = p.held /\ q.frame = p.frame
      BY <1>1, <1>2, <1>3, <1>7, <2>3
    <2>5. q.out = SubSeq(p.out, n + 1, Len(p.out))
      BY <2>1, <2>3, Zenon
    <2>6. q.pipe = p.pipe \o SubSeq(p.out, 1, n)
      BY <2>2, <2>3, Zenon
    <2>7. Advances(entry, p, q)
      BY <1>1, <1>9, <2>4, <2>5, <2>6, PipePending
    <2> QED BY <2>3, <2>7
  <1> QED BY <1>1, <1>7, <1>10, MoveBody DEF Gone

LEMMA ReplaceEndsBody ==
  ASSUME TypeOK, NEW k \in Attempt, ReplaceEnds(k)
  PROVE  BodyStep(k)
  <1> DEFINE q == [prod[k] EXCEPT !.claim = FALSE]
  <1>1. /\ prod[k] \in Producers /\ prod[k].pc = "Run"
        /\ Fail(k, TRUE) \/ (prod' = [prod EXCEPT ![k] = q] /\ UNCHANGED <<etag, invalid, chan, mark>>)
    BY Typed DEF ReplaceEnds, Update
  <1>2. CASE Fail(k, TRUE)
    BY <1>1, <1>2, FailBody
  <1>3. CASE prod' = [prod EXCEPT ![k] = q] /\ UNCHANGED <<etag, invalid, chan, mark>>
    <2>1. /\ q \in Producers /\ q.pc = "Run" /\ q.send = prod[k].send /\ q.held = prod[k].held
          /\ q.frame = prod[k].frame /\ q.pipe = prod[k].pipe /\ q.out = prod[k].out
          /\ q.made = prod[k].made /\ q.read = prod[k].read
      BY <1>1 DEF Producers
    <2> HIDE DEF q
    <2>2. Advances(entry, prod[k], q)
      BY <1>1, <2>1, AdvancesSame DEF Going
    <2> QED BY <1>1, <1>3, <2>1, <2>2, MoveBody DEF Gone
  <1> QED BY <1>1, <1>2, <1>3

LEMMA ForwardPipeBody ==
  ASSUME TypeOK, SafeInv, NEW k \in Attempt, ForwardPipe(k)
  PROVE  BodyStep(k)
  <1> DEFINE n == Least(Frame - Len(prod[k].frame), Len(prod[k].pipe))
             r == [prod[k] EXCEPT !.pipe = SubSeq(@, n + 1, Len(@))]
             s == SubSeq(prod[k].pipe, 1, n)
             q == Filled(r, s)
  <1>1. /\ prod[k] \in Producers /\ prod[k].pc = "Run" /\ prod[k].send = <<>> /\ n > 0
        /\ prod' = [prod EXCEPT ![k] = q] /\ UNCHANGED <<etag, invalid, chan, mark>>
        /\ entry \in Entry
    BY Typed DEF ForwardPipe, Update, Running
  <1>2. n \in 0 .. Len(prod[k].pipe) /\ prod[k].pipe \in Seq(Symbol)
    <2>1. prod[k].pipe \in Seq(Symbol) /\ prod[k].frame \in Seq(Symbol)
      BY <1>1 DEF Producers
    <2>2. Len(prod[k].pipe) \in Nat /\ Len(prod[k].frame) \in Nat /\ Frame \in Nat
      BY <2>1, EntryAssumption
    <2> QED BY <1>1, <2>1, <2>2 DEF Least
  <1>n. prod[k].pipe # <<>>
    BY <1>1, <1>2
  <1> HIDE DEF n
  <1>3. PICK o \in Seq(Symbol) : o = SubSeq(prod[k].pipe, n + 1, Len(prod[k].pipe))
    BY <1>2, Parts
  <1>4. r = [prod[k] EXCEPT !.pipe = o]
    BY <1>1, <1>3
  <1>5. s \in Seq(Symbol)
    BY <1>2, Parts
  <1> HIDE DEF r
  <1>6. /\ r \in Producers /\ r.pc = "Run" /\ r.send = <<>> /\ r.held = prod[k].held
        /\ r.frame = prod[k].frame /\ r.out = prod[k].out /\ r.made = prod[k].made /\ r.pipe = o
        /\ r.read = prod[k].read
    BY <1>1, <1>4 DEF Producers
  <1>7. PICK p \in Producers : p = prod[k]
    BY <1>1
  <1>8. s = SubSeq(p.pipe, 1, n) /\ n \in 0 .. Len(p.pipe)
    BY <1>2, <1>7
  <1> HIDE DEF s
  <1>9. /\ p.pc = "Run" /\ p.send = <<>> /\ r.held = p.held /\ r.frame = p.frame /\ r.out = p.out
        /\ r.made = p.made /\ r.read = p.read
    BY <1>1, <1>6, <1>7
  <1>10. r.pipe = SubSeq(p.pipe, n + 1, Len(p.pipe))
    BY <1>3, <1>6, <1>7, Zenon
  <1>11. ASSUME entry.marker PROVE Advances(entry, p, q)
    BY <1>1, <1>6, <1>8, <1>9, <1>10, <1>11, ForwardPending
  <1>12. entry.marker
    <2>1. ProducerOK(entry, prod[k]) /\ prod[k].pipe # <<>>
      BY <1>1, <1>2, <1>n, Used DEF SafeInv
    <2> QED BY <2>1 DEF ProducerOK
  <1>13. q \in Producers /\ q.pc = "Run"
    BY <1>5, <1>6, FilledFacts DEF SameBut
  <1> HIDE DEF q
  <1> QED BY <1>1, <1>7, <1>11, <1>12, <1>13, MoveBody DEF Gone

LEMMA LastFrameBody ==
  ASSUME TypeOK, NEW k \in Attempt, LastFrame(k)
  PROVE  BodyStep(k)
  <1>1. /\ prod[k] \in Producers /\ prod[k].pc = "Run" /\ prod[k].send = <<>> /\ entry \in Entry
        /\ prod' = [prod EXCEPT ![k] = Shift(prod[k])] /\ UNCHANGED <<etag, invalid, chan, mark>>
    BY Typed DEF LastFrame, Update, Running
  <1>2. PICK q \in Producers : q = Shift(prod[k]) /\ SameBut(prod[k], q)
    BY <1>1, ShiftFacts
  <1>3. Advances(entry, prod[k], q)
    BY <1>1, <1>2, ShiftPending
  <1>4. q.pc = "Run"
    BY <1>1, <1>2 DEF SameBut
  <1> QED BY <1>1, <1>2, <1>3, <1>4, MoveBody DEF Gone

LEMMA FinishBody ==
  ASSUME TypeOK, NEW k \in Attempt, Finish(k)
  PROVE  BodyStep(k)
  <1> DEFINE q == [prod[k] EXCEPT !.pc = "Last", !.claim = Handshake(prod[k])]
  <1>1. /\ prod[k] \in Producers /\ prod[k].pc = "Run"
        /\ Fail(k, TRUE) \/ (prod' = [prod EXCEPT ![k] = q] /\ UNCHANGED <<invalid, chan>>)
    BY Typed DEF Finish, Running, Update
  <1>2. CASE Fail(k, TRUE)
    BY <1>1, <1>2, FailBody
  <1>3. CASE prod' = [prod EXCEPT ![k] = q] /\ UNCHANGED <<invalid, chan>>
    <2>1. /\ q \in Producers /\ q.pc = "Last" /\ q.send = prod[k].send /\ q.held = prod[k].held
          /\ q.frame = prod[k].frame /\ q.pipe = prod[k].pipe /\ q.out = prod[k].out
          /\ q.made = prod[k].made /\ q.read = prod[k].read
      BY <1>1 DEF Producers, Handshake
    <2> HIDE DEF q
    <2>2. Advances(entry, prod[k], q)
      BY <1>1, <2>1, AdvancesSame DEF Going
    <2> QED BY <1>1, <1>3, <2>1, <2>2, MoveBody DEF Gone
  <1> QED BY <1>1, <1>2, <1>3

\* A producer that goes on to its end without sending.
LEMMA EndBody ==
  ASSUME TypeOK, NEW k \in Attempt, NEW q \in Producers, prod' = [prod EXCEPT ![k] = q],
         chan' = chan, invalid' = invalid, Gone(q)
  PROVE  BodyStep(k)
  <1>1. Advances(entry, prod[k], q) /\ q.pc # "Error"
    BY DEF Advances, Going, Gone
  <1> QED BY <1>1, MoveBody

LEMMA SendFrameBody ==
  ASSUME TypeOK, NEW k \in Attempt, SendFrame(k)
  PROVE  BodyStep(k)
  <1>1. /\ prod[k] \in Producers /\ prod[k].pc = "Run" /\ prod[k].send # <<>> /\ SendOK(prod[k])
        /\ entry \in Entry
    BY Typed DEF SendFrame
  <1>2. CASE /\ Sent(k, "Data", prod[k].send[1]) /\ Update(k, [prod[k] EXCEPT !.send = <<>>])
             /\ UNCHANGED <<mark, invalid, etag>>
    <2> DEFINE q == [prod[k] EXCEPT !.send = <<>>]
               item == [kind |-> "Data", data |-> prod[k].send[1]]
    <2>1. prod[k].send[1] \in Seq(Symbol)
      BY <1>1 DEF SendOK
    <2>2. item \in Frames /\ item.data = prod[k].send[1] /\ item.kind = "Data"
      BY <2>1 DEF Frames
    <2>3. chan' = [chan EXCEPT ![k] = Append(chan[k], item)] /\ prod' = [prod EXCEPT ![k] = q]
          /\ invalid' = invalid
      BY <1>2, Typed DEF Sent, Update
    <2>4. /\ q \in Producers /\ q.pc = "Run" /\ q.send = <<>> /\ q.held = prod[k].held
          /\ q.frame = prod[k].frame /\ q.pipe = prod[k].pipe /\ q.out = prod[k].out
          /\ q.made = prod[k].made /\ q.read = prod[k].read
      <3>1. <<>> \in Seq(Seq(Symbol) \cup BOOLEAN)
        OBVIOUS
      <3> QED BY <1>1, <3>1 DEF Producers
    <2> HIDE DEF q, item
    <2>5. ~Ends(item) /\ ItemSound(entry, item, q, invalid)
      BY <2>2 DEF Ends, ItemSound
    <2>6. Sends(entry, prod[k], q, item)
      BY <1>1, <2>2, <2>4, <2>5, FramePending
    <2> QED BY <1>1, <2>2, <2>3, <2>4, <2>5, <2>6, SendBody DEF Gone
  <1>3. CASE Fail(k, FALSE)
    BY <1>1, <1>3, FailBody
  <1>4. CASE /\ Update(k, [prod[k] EXCEPT !.pc = "End", !.claim = FALSE])
             /\ UNCHANGED <<chan, invalid, etag>>
    <2> DEFINE q == [prod[k] EXCEPT !.pc = "End", !.claim = FALSE]
    <2>1. q \in Producers /\ q.pc = "End" /\ prod' = [prod EXCEPT ![k] = q]
      BY <1>1, <1>4 DEF Producers, Update
    <2> HIDE DEF q
    <2> QED BY <1>4, <2>1, EndBody DEF Gone
  <1> QED BY <1>2, <1>3, <1>4 DEF SendFrame

LEMMA SendLastBody ==
  ASSUME TypeOK, SafeInv, NEW k \in Attempt, SendLast(k)
  PROVE  BodyStep(k)
  <1> DEFINE q == [prod[k] EXCEPT !.pc = "Sent"]
             kind == IF prod[k].held = <<>> THEN "Complete" ELSE "Final"
             item == [kind |-> kind, data |-> prod[k].held]
  <1>1. /\ prod[k] \in Producers /\ prod[k].pc = "Last" /\ ProducerOK(entry, prod[k])
        /\ entry \in Entry
    BY Typed, Used DEF SendLast, SafeInv
  <1>2. /\ prod' = [prod EXCEPT ![k] = q] /\ invalid' = invalid
        /\ chan' = chan \/ chan' = [chan EXCEPT ![k] = Append(chan[k], item)]
    BY Typed DEF SendLast, Update, Sent
  <1>3. q \in Producers /\ q.pc = "Sent"
    BY <1>1 DEF Producers
  <1>4. kind \in {"Complete", "Final"} /\ prod[k].held \in Seq(Symbol)
    BY <1>1 DEF Producers
  <1> HIDE DEF kind, q
  <1>5. item \in Frames /\ item.data = prod[k].held /\ item.kind = kind
    BY <1>4 DEF Frames
  <1> HIDE DEF item
  <1>6. CASE chan' = chan
    BY <1>2, <1>3, <1>6, EndBody DEF Gone
  <1>7. CASE chan' = [chan EXCEPT ![k] = Append(chan[k], item)]
    <2>1. ItemSound(entry, item, q, invalid)
      <3>1. Valid(entry)
        BY <1>1 DEF ProducerOK
      <3> QED BY <1>3, <1>4, <1>5, <3>1 DEF ItemSound, Gone
    <2>2. Sends(entry, prod[k], q, item)
      <3>1. ~Going(q)
        BY <1>3 DEF Going
      <3> QED BY <1>1, <1>5, <3>1, LastPending
    <2> QED BY <1>1, <1>2, <1>3, <1>5, <1>7, <2>1, <2>2, SendBody DEF Gone
  <1> QED BY <1>2, <1>6, <1>7

LEMMA SendErrorBody ==
  ASSUME TypeOK, NEW k \in Attempt, AlarmOK(prod[k], invalid), SendError(k)
  PROVE  BodyStep(k)
  <1> DEFINE q == [prod[k] EXCEPT !.pc = "End"]
             kind == IF prod[k].send[1] THEN "Invalid" ELSE "Other"
             item == [kind |-> kind, data |-> <<>>]
  <1>1. /\ prod[k] \in Producers /\ prod[k].pc = "Error" /\ SendOK(prod[k])
        /\ entry \in Entry
    BY Typed DEF SendError
  <1>2. /\ prod' = [prod EXCEPT ![k] = q] /\ invalid' = invalid
        /\ chan' = chan \/ chan' = [chan EXCEPT ![k] = Append(chan[k], item)]
    BY Typed DEF SendError, Update, Sent
  <1>3. q \in Producers /\ q.pc = "End"
    BY <1>1 DEF Producers
  <1>4. kind \in {"Invalid", "Other"} /\ (kind = "Invalid" => invalid)
    <2>1. CASE prod[k].send = <<TRUE>>
      BY <1>1, <2>1 DEF AlarmOK
    <2>2. CASE prod[k].send = <<FALSE>>
      BY <2>2
    <2> QED BY <1>1, <2>1, <2>2 DEF SendOK
  <1> HIDE DEF kind, q
  <1>5. item \in Frames /\ item.data = <<>> /\ item.kind = kind
    <2>1. <<>> \in Seq(Symbol)
      OBVIOUS
    <2> QED BY <1>4, <2>1 DEF Frames
  <1> HIDE DEF item
  <1>6. CASE chan' = chan
    BY <1>2, <1>3, <1>6, EndBody DEF Gone
  <1>7. CASE chan' = [chan EXCEPT ![k] = Append(chan[k], item)]
    <2>1. ~Ends(item) /\ ~Going(q)
      BY <1>3, <1>4, <1>5 DEF Ends, Going
    <2>2. Sends(entry, prod[k], q, item) /\ ItemSound(entry, item, q, invalid)
      BY <1>4, <1>5, <2>1 DEF Sends, ItemSound
    <2> QED BY <1>1, <1>2, <1>3, <1>5, <1>7, <2>2, SendBody DEF Gone
  <1> QED BY <1>2, <1>6, <1>7

LEMMA ProduceBody ==
  ASSUME TypeOK, SafeInv, NEW k \in Attempt, AlarmOK(prod[k], invalid),
         Produce(k) \/ ProducerBreaks(k)
  PROVE  BodyStep(k)
  <1>0. prod[k] \in Producers
    BY Typed
  <1>1. CASE OpenFails(k)
    BY <1>1, FailBody DEF OpenFails, Running
  <1>2. CASE ReadFails(k)
    BY <1>2, FailBody DEF ReadFails, Running
  <1>3. CASE Return(k) \/ Aborted(k)
    <2> DEFINE q == [prod[k] EXCEPT !.pc = "End", !.claim = FALSE]
    <2>1. prod' = [prod EXCEPT ![k] = q] /\ UNCHANGED <<invalid, chan>>
      BY <1>3 DEF Return, Aborted, Update
    <2>2. q \in Producers /\ q.pc = "End"
      BY <1>0 DEF Producers
    <2> HIDE DEF q
    <2> QED BY <2>1, <2>2, EndBody DEF Gone
  <1> QED BY <1>1, <1>2, <1>3, ReadFrameBody, ReplaceBody, WritePipeBody, ReplaceEndsBody,
             ForwardPipeBody, LastFrameBody, FinishBody, SendFrameBody, SendLastBody, SendErrorBody
          DEF Produce, ProducerBreaks

-----------------------------------------------------------------------------
(* The whole body, step by step *)

\* A producer that goes on, or an error that is recorded, leaves a body what it is.
LEMMA BodyStays ==
  ASSUME NEW e \in Entry, NEW b, NEW chn, NEW p, NEW q, NEW n, NEW bad, NEW worse, bad => worse,
         BodyOK(e, b, chn, p, n, bad), Advances(e, p, q), Gone(p) => Gone(q), AlarmOK(q, worse)
  PROVE  BodyOK(e, b, chn, q, n, worse)
  <1>1. b.error = "None" => FlowOf(e, b.got, chn, q)
    BY FlowAdvances DEF BodyOK
  <1>2. \A i \in 1 .. Len(chn) : ItemSound(e, chn[i], q, worse)
    BY DEF BodyOK, ItemSound
  <1>3. ResultOK(e, b, q, n, worse)
    BY DEF BodyOK, ResultOK
  <1> QED BY <1>1, <1>2, <1>3 DEF BodyOK

LEMMA BodySends ==
  ASSUME NEW e \in Entry, NEW b, NEW chn \in Seq(Frames), NEW p, NEW q, NEW n, NEW bad, NEW worse,
         bad => worse, BodyOK(e, b, chn, p, n, bad), NEW item \in Frames, Sends(e, p, q, item),
         ItemSound(e, item, q, worse), Gone(p) => Gone(q), AlarmOK(q, worse)
  PROVE  BodyOK(e, b, Append(chn, item), q, n, worse)
  <1>1. b.error = "None" => FlowOf(e, b.got, Append(chn, item), q)
    BY FlowSends DEF BodyOK
  <1>2. ASSUME NEW i \in 1 .. Len(Append(chn, item))
        PROVE  ItemSound(e, Append(chn, item)[i], q, worse)
    <2>1. PICK r : r = Append(chn, item)
      OBVIOUS
    <2>2. /\ Len(r) = Len(chn) + 1 /\ Len(chn) \in Nat /\ r[Len(chn) + 1] = item
          /\ \A j \in 1 .. Len(chn) : r[j] = chn[j]
      BY <2>1, AppendProperties
    <2>3. CASE i = Len(chn) + 1
      BY <2>1, <2>2, <2>3
    <2>4. CASE i \in 1 .. Len(chn)
      <3>1. ItemSound(e, chn[i], p, bad)
        BY <2>4 DEF BodyOK
      <3>2. ItemSound(e, chn[i], q, worse)
        BY <3>1 DEF ItemSound
      <3> QED BY <2>1, <2>2, <2>4, <3>2
    <2> QED BY <2>1, <2>2, <2>3, <2>4
  <1>3. ResultOK(e, b, q, n, worse)
    BY DEF BodyOK, ResultOK
  <1> QED BY <1>1, <1>2, <1>3 DEF BodyOK

\* What the client and the task do to a body does not depend on what it is like.
LEMMA BodySame ==
  ASSUME NEW e \in Entry, NEW b, NEW c, NEW chn, NEW p, NEW q, NEW n, NEW bad,
         BodyOK(e, b, chn, p, n, bad),
         c.got = b.got, c.complete = b.complete, c.error = b.error,
         q.pc = p.pc, q.send = p.send, q.held = p.held, q.frame = p.frame,
         q.pipe = p.pipe, q.out = p.out, q.made = p.made, q.read = p.read
  PROVE  BodyOK(e, c, chn, q, n, bad)
  <1>1. Advances(e, p, q)
    BY AdvancesSame DEF Going
  <1>2. BodyOK(e, b, chn, q, n, bad)
    <2>1. AlarmOK(p, bad)
      BY DEF BodyOK
    <2>2. AlarmOK(q, bad) /\ (Gone(p) => Gone(q))
      BY <2>1 DEF AlarmOK, Gone
    <2> QED BY <1>1, <2>2, BodyStays
  <1> QED BY <1>2 DEF BodyOK, ResultOK

LEMMA StepBodies ==
  ASSUME TypeOK, SafeInv, BodyInv, NEW k \in Attempt, Produce(k) \/ ProducerBreaks(k)
  PROVE  BodyInv'
  <1>0. UNCHANGED <<entry, length, bodies, body>> /\ entry \in Entry /\ prod \in [Attempt -> Producers]
        /\ chan \in [Attempt -> Seq(Frames)]
    BY Typed DEF Produce, ProducerBreaks, payloadVars
  <1>1. k <= bodies
    BY ProduceType DEF Step
  <1>2. BodyOK(entry, body[k], chan[k], prod[k], length, invalid)
    BY <1>1 DEF BodyInv
  <1>3. BodyStep(k)
    BY <1>2, ProduceBody DEF BodyOK
  <1>4. PICK q \in Producers :
          /\ prod' = [prod EXCEPT ![k] = q]
          /\ (invalid => invalid') /\ AlarmOK(q, invalid') /\ (Gone(prod[k]) => Gone(q))
          /\ \/ chan' = chan /\ Advances(entry, prod[k], q)
             \/ \E item \in Frames :
                  /\ chan' = [chan EXCEPT ![k] = Append(chan[k], item)]
                  /\ Sends(entry, prod[k], q, item) /\ ItemSound(entry, item, q, invalid')
    BY <1>3 DEF BodyStep
  <1>5. prod'[k] = q /\ \A j \in Attempt \ {k} : prod'[j] = prod[j] /\ chan'[j] = chan[j]
    BY <1>0, <1>4
  <1>6. BodyOK(entry, body[k], chan'[k], q, length, invalid')
    <2>1. CASE chan' = chan /\ Advances(entry, prod[k], q)
      <3>1. BodyOK(entry, body[k], chan[k], q, length, invalid')
        BY <1>0, <1>2, <1>4, <2>1, BodyStays
      <3> QED BY <2>1, <3>1
    <2>2. ASSUME NEW item \in Frames, chan' = [chan EXCEPT ![k] = Append(chan[k], item)],
                 Sends(entry, prod[k], q, item), ItemSound(entry, item, q, invalid')
          PROVE  BodyOK(entry, body[k], chan'[k], q, length, invalid')
      <3>1. chan[k] \in Seq(Frames) /\ chan'[k] = Append(chan[k], item)
        BY <1>0, <2>2
      <3>2. BodyOK(entry, body[k], Append(chan[k], item), q, length, invalid')
        BY <1>0, <1>2, <1>4, <2>2, <3>1, BodySends
      <3> QED BY <3>1, <3>2
    <2> QED BY <1>4, <2>1, <2>2
  <1>7. ASSUME NEW j \in Attempt, j <= bodies, j # k
        PROVE  BodyOK(entry, body[j], chan'[j], prod'[j], length, invalid')
    <2>1. BodyOK(entry, body[j], chan[j], prod[j], length, invalid)
      BY <1>7 DEF BodyInv
    <2>2. Advances(entry, prod[j], prod[j]) /\ AlarmOK(prod[j], invalid')
      BY <1>4, <2>1 DEF Advances, BodyOK, AlarmOK
    <2>3. BodyOK(entry, body[j], chan[j], prod[j], length, invalid')
      BY <1>0, <1>4, <2>1, <2>2, BodyStays
    <2> QED BY <1>5, <1>7, <2>3
  <1> QED BY <1>0, <1>5, <1>6, <1>7 DEF BodyInv

\* What the client gets with one frame.
LEMMA FlowPolled ==
  ASSUME NEW e \in Entry, NEW got, NEW chn \in Seq(Frames), NEW p, chn # <<>>, FlowOf(e, got, chn, p)
  PROVE  /\ FlowOf(e, got \o Head(chn).data, Tail(chn), p)
         /\ Ends(Head(chn)) => Whole(e, got \o Head(chn).data)
  <1>0. ContentOf(e) \in Seq(Symbol)
    BY EntryFacts
  <1>1. PICK a, b \in Places(ContentOf(e)) :
          /\ Piece(ContentOf(e), 0, got, a) /\ Queued(ContentOf(e), chn, a, b)
          /\ Going(p) => Pending(e, p, b)
    BY DEF FlowOf
  <1>2. PICK m \in Places(ContentOf(e)) :
          /\ Piece(ContentOf(e), a, Head(chn).data, m) /\ Queued(ContentOf(e), Tail(chn), m, b)
          /\ Ends(Head(chn)) => m = Len(ContentOf(e))
    BY <1>0, <1>1, QueuedTail
  <1>3. PICK s : s = got \o Head(chn).data
    OBVIOUS
  <1>4. Piece(ContentOf(e), 0, s, m)
    <2>1. Piece(ContentOf(e), 0, got \o Head(chn).data, m)
      BY <1>0, <1>1, <1>2, PieceJoin
    <2> QED BY <1>3, <2>1, Zenon
  <1>5. FlowOf(e, s, Tail(chn), p)
    BY <1>1, <1>2, <1>4 DEF FlowOf
  <1>6. Ends(Head(chn)) => Whole(e, s)
    BY <1>0, <1>2, <1>4, PieceWhole DEF Whole
  <1> QED BY <1>3, <1>5, <1>6, Zenon

\* Receiving a frame extends what a body has given by what comes next.
LEMMA PollBody ==
  ASSUME TypeOK, NEW k \in Attempt, BodyOK(entry, body[k], chan[k], prod[k], length, invalid),
         PollFrame(k)
  PROVE  BodyOK(entry, body'[k], chan'[k], prod[k], length, invalid)
  <1>0. /\ body[k] \in Bodies /\ chan[k] \in Seq(Frames) /\ body \in [Attempt -> Bodies]
        /\ chan \in [Attempt -> Seq(Frames)] /\ entry \in Entry /\ length \in Nat
        /\ body[k].got \in Seq(Symbol)
    BY Typed DEF Bodies, TypeOK
  <1>1. /\ chan[k] # <<>> /\ chan'[k] = Tail(chan[k]) /\ ~body[k].complete /\ body[k].error = "None"
    BY <1>0, PollFrameCases DEF PollGuard
  <1>2. /\ Head(chan[k]) \in Frames /\ Tail(chan[k]) \in Seq(Frames)
        /\ Head(chan[k]) = chan[k][1] /\ Len(Tail(chan[k])) = Len(chan[k]) - 1
        /\ Len(chan[k]) \in Nat /\ Len(chan[k]) >= 1
        /\ \A i \in 1 .. Len(Tail(chan[k])) : Tail(chan[k])[i] = chan[k][i + 1]
    BY <1>0, <1>1, HeadTailProperties
  <1>3. ASSUME NEW i \in 1 .. Len(Tail(chan[k]))
        PROVE  ItemSound(entry, Tail(chan[k])[i], prod[k], invalid)
    <2>1. i + 1 \in 1 .. Len(chan[k])
      BY <1>2
    <2> QED BY <1>2, <2>1 DEF BodyOK
  <1>4. ItemSound(entry, Head(chan[k]), prod[k], invalid)
    <2>1. 1 \in 1 .. Len(chan[k])
      BY <1>2
    <2> QED BY <1>2, <2>1 DEF BodyOK
  <1>5. PICK s \in Seq(Symbol) : s = body[k].got \o Head(chan[k]).data
    <2>1. Head(chan[k]).data \in Seq(Symbol)
      BY <1>2 DEF Frames
    <2> QED BY <1>0, <2>1, ConcatProperties
  <1>6. /\ FlowOf(entry, s, Tail(chan[k]), prod[k])
        /\ Ends(Head(chan[k])) => Whole(entry, s)
    <2>1. FlowOf(entry, body[k].got, chan[k], prod[k])
      BY <1>1 DEF BodyOK
    <2>2. /\ FlowOf(entry, body[k].got \o Head(chan[k]).data, Tail(chan[k]), prod[k])
          /\ Ends(Head(chan[k])) => Whole(entry, body[k].got \o Head(chan[k]).data)
      BY <1>0, <1>1, <2>1, FlowPolled
    <2> QED BY <1>5, <2>2, Zenon
  <1>7. AlarmOK(prod[k], invalid)
    BY DEF BodyOK
  <1>8. CASE PollData(k)
    <2>1. body'[k] = [body[k] EXCEPT !.got = s] /\ Len(Head(chan[k]).data) < length - Len(body[k].got)
      <3>1. body' = [body EXCEPT ![k] = [body[k] EXCEPT !.got = s]]
        BY <1>5, <1>8, Zenon DEF PollData
      <3>2. Len(Head(chan[k]).data) < length - Len(body[k].got)
        BY <1>8 DEF PollData
      <3> QED BY <1>0, <3>1, <3>2
    <2>2. body'[k].got = s /\ body'[k].error = "None" /\ ~body'[k].complete
      BY <1>0, <1>1, <2>1 DEF Bodies
    <2>3. Len(s) < length
      <3>1. Len(s) = Len(body[k].got) + Len(Head(chan[k]).data) /\ Head(chan[k]).data \in Seq(Symbol)
        BY <1>0, <1>2, <1>5, ConcatProperties DEF Frames
      <3>2. Len(Head(chan[k]).data) \in Nat /\ Len(body[k].got) \in Nat
        BY <1>0, <3>1
      <3>3. \A x, y, z \in Nat : y < z - x => x + y < z
        OBVIOUS
      <3>4. Len(body[k].got) + Len(Head(chan[k]).data) < length
        BY <1>0, <2>1, <3>2, <3>3, Zenon
      <3> QED BY <3>1, <3>4, Zenon
    <2>4. ResultOK(entry, body'[k], prod[k], length, invalid)
      BY <2>2, <2>3 DEF ResultOK
    <2> QED BY <1>1, <1>3, <1>6, <1>7, <2>2, <2>4 DEF BodyOK
  <1>9. CASE PollEnd(k)
    <2>1. body'[k] = [body[k] EXCEPT !.got = s, !.complete = TRUE] /\ Ends(Head(chan[k]))
      <3>1. body' = [body EXCEPT ![k] = [body[k] EXCEPT !.got = s, !.complete = TRUE]]
        BY <1>5, <1>9, Zenon DEF PollEnd
      <3>2. Ends(Head(chan[k]))
        BY <1>9 DEF PollEnd
      <3> QED BY <1>0, <3>1, <3>2
    <2>2. body'[k].got = s /\ body'[k].error = "None" /\ body'[k].complete
      BY <1>0, <1>1, <2>1 DEF Bodies
    <2>3. ResultOK(entry, body'[k], prod[k], length, invalid)
      BY <1>4, <1>6, <2>1, <2>2 DEF ResultOK, ItemSound
    <2> QED BY <1>1, <1>3, <1>6, <1>7, <2>2, <2>3 DEF BodyOK
  <1>10. CASE PollError(k)
    <2>1. PICK why \in {"Invalid", "Other"}, complete \in BOOLEAN :
            /\ why = "Invalid" => Head(chan[k]).kind = "Invalid"
            /\ body' = [body EXCEPT ![k] = [body[k] EXCEPT !.error = why, !.complete = complete]]
      BY <1>10 DEF PollError
    <2>2. body'[k].got = body[k].got /\ body'[k].error = why
      BY <1>0, <2>1 DEF Bodies
    <2>3. length = 0 \/ Len(body[k].got) < length
      BY <1>1 DEF BodyOK, ResultOK
    <2>4. ResultOK(entry, body'[k], prod[k], length, invalid)
      BY <1>4, <2>1, <2>2, <2>3 DEF ResultOK, ItemSound
    <2> QED BY <1>1, <1>3, <1>7, <2>1, <2>2, <2>4 DEF BodyOK
  <1> QED BY <1>8, <1>9, <1>10, PollFrameCases

LEMMA PollBodies ==
  ASSUME TypeOK, BodyInv, NEW k \in Attempt, PollFrame(k)
  PROVE  BodyInv'
  <1>1. UNCHANGED <<entry, length, bodies, prod, invalid>>
    BY DEF PollFrame, payloadVars
  <1>2. \A j \in Attempt \ {k} : body'[j] = body[j] /\ chan'[j] = chan[j]
    <2>1. body \in [Attempt -> Bodies] /\ chan \in [Attempt -> Seq(Frames)]
      BY Typed
    <2>2. chan' = [chan EXCEPT ![k] = Tail(chan[k])] /\ \E c : body' = [body EXCEPT ![k] = c]
      BY PollFrameCases DEF PollGuard, PollData, PollEnd, PollError
    <2> QED BY <2>1, <2>2
  <1>3. ASSUME NEW j \in Attempt, j <= bodies
        PROVE  BodyOK(entry, body'[j], chan'[j], prod[j], length, invalid)
    <2>1. BodyOK(entry, body[j], chan[j], prod[j], length, invalid)
      BY <1>3 DEF BodyInv
    <2>2. CASE j = k
      BY <2>1, <2>2, PollBody
    <2>3. CASE j # k
      BY <1>2, <2>1, <2>3
    <2> QED BY <2>2, <2>3
  <1> QED BY <1>1, <1>3 DEF BodyInv

LEMMA PollClosedBodies ==
  ASSUME TypeOK, BodyInv, NEW k \in Attempt, PollClosed(k)
  PROVE  BodyInv'
  <1>1. UNCHANGED <<entry, length, bodies, prod, chan, invalid>>
        /\ body' = [body EXCEPT ![k] = [body[k] EXCEPT !.complete = TRUE, !.error = "Other"]]
    BY Typed DEF PollClosed, payloadVars
  <1>2. body \in [Attempt -> Bodies] /\ body[k] \in Bodies
    BY Typed
  <1>3. ASSUME NEW j \in Attempt, j <= bodies
        PROVE  BodyOK(entry, body'[j], chan[j], prod[j], length, invalid)
    <2>1. BodyOK(entry, body[j], chan[j], prod[j], length, invalid)
      BY <1>3 DEF BodyInv
    <2>2. CASE j = k
      <3>1. body'[k].got = body[k].got /\ body'[k].error = "Other"
        BY <1>1, <1>2 DEF Bodies
      <3>2. ~body[k].complete
        BY DEF PollClosed
      <3>3. ResultOK(entry, body'[k], prod[k], length, invalid)
        BY <2>1, <2>2, <3>1, <3>2 DEF BodyOK, ResultOK
      <3> QED BY <2>1, <2>2, <3>1, <3>3 DEF BodyOK
    <2>3. CASE j # k
      BY <1>1, <1>2, <2>1, <2>3
    <2> QED BY <2>2, <2>3
  <1> QED BY <1>1, <1>3 DEF BodyInv

\* Bodies that lose their clients, and producers that are told to abort.
LEMMA LetGo ==
  ASSUME TypeOK, BodyInv, UNCHANGED <<entry, length, bodies, chan, invalid>>,
         \A j \in Attempt : \E open \in BOOLEAN : body'[j] = [body[j] EXCEPT !.open = open],
         \A j \in Attempt : \E abort \in BOOLEAN : prod'[j] = [prod[j] EXCEPT !.abort = abort]
  PROVE  BodyInv'
  <1>1. ASSUME NEW j \in Attempt, j <= bodies
        PROVE  BodyOK(entry, body'[j], chan[j], prod'[j], length, invalid)
    <2>1. BodyOK(entry, body[j], chan[j], prod[j], length, invalid)
      BY <1>1 DEF BodyInv
    <2>2. body[j] \in Bodies /\ prod[j] \in Producers /\ entry \in Entry
      BY Typed
    <2>3. PICK open \in BOOLEAN, abort \in BOOLEAN :
            body'[j] = [body[j] EXCEPT !.open = open] /\ prod'[j] = [prod[j] EXCEPT !.abort = abort]
      OBVIOUS
    <2>4. PICK c, q : c = body'[j] /\ q = prod'[j]
      OBVIOUS
    <2>5. c.got = body[j].got /\ c.complete = body[j].complete /\ c.error = body[j].error
      BY <2>2, <2>3, <2>4 DEF Bodies
    <2>6. /\ q.pc = prod[j].pc /\ q.send = prod[j].send /\ q.held = prod[j].held
          /\ q.frame = prod[j].frame /\ q.pipe = prod[j].pipe /\ q.out = prod[j].out
          /\ q.made = prod[j].made /\ q.read = prod[j].read
      BY <2>2, <2>3, <2>4 DEF Producers
    <2>7. BodyOK(entry, c, chan[j], q, length, invalid)
      BY <2>1, <2>2, <2>5, <2>6, BodySame
    <2> QED BY <2>4, <2>7
  <1> QED BY <1>1 DEF BodyInv

LEMMA DropBodies ==
  ASSUME TypeOK, BodyInv, AbortBodies \/ \E k \in Attempt : DropBody(k)
  PROVE  BodyInv'
  <1>0. /\ \A j \in Attempt : prod[j] \in Producers /\ body[j] \in Bodies
        /\ body \in [Attempt -> Bodies] /\ prod \in [Attempt -> Producers]
    BY DEF TypeOK
  <1>1. \A j \in Attempt : \E open \in BOOLEAN : body[j] = [body[j] EXCEPT !.open = open]
    <2>1. \A j \in Attempt : body[j].open \in BOOLEAN /\ body[j] = [body[j] EXCEPT !.open = body[j].open]
      BY <1>0 DEF Bodies
    <2> QED BY <2>1
  <1>2. \A j \in Attempt : \E abort \in BOOLEAN : prod[j] = [prod[j] EXCEPT !.abort = abort]
    <2>1. \A j \in Attempt :
            prod[j].abort \in BOOLEAN /\ prod[j] = [prod[j] EXCEPT !.abort = prod[j].abort]
      BY <1>0 DEF Producers
    <2> QED BY <2>1
  <1>3. CASE AbortBodies
    <2>1. UNCHANGED <<entry, length, bodies, body, chan, invalid>>
          /\ prod' = [k \in Attempt |-> [prod[k] EXCEPT !.abort = prod[k].abort \/ body[k].open]]
      BY <1>3 DEF AbortBodies, payloadVars, taskVars
    <2>2. ASSUME NEW j \in Attempt
          PROVE  \E abort \in BOOLEAN : prod'[j] = [prod[j] EXCEPT !.abort = abort]
      <3>1. (prod[j].abort \/ body[j].open) \in BOOLEAN
        BY <1>0 DEF Producers, Bodies
      <3> QED BY <2>1, <3>1
    <2> QED BY <1>1, <2>1, <2>2, LetGo
  <1>4. CASE \E k \in Attempt : DropBody(k)
    <2>1. PICK k \in Attempt : DropBody(k)
      BY <1>4
    <2>2. /\ UNCHANGED <<entry, length, bodies, chan, invalid>>
          /\ body' = [body EXCEPT ![k] = [body[k] EXCEPT !.open = FALSE]]
          /\ prod' = [prod EXCEPT ![k] = [prod[k] EXCEPT !.abort = prod[k].abort \/ ~body[k].complete]]
      BY <2>1, <1>0 DEF DropBody, payloadVars, taskVars
    <2>3. ASSUME NEW j \in Attempt
          PROVE  /\ \E abort \in BOOLEAN : prod'[j] = [prod[j] EXCEPT !.abort = abort]
                 /\ \E open \in BOOLEAN : body'[j] = [body[j] EXCEPT !.open = open]
      <3>1. (prod[k].abort \/ ~body[k].complete) \in BOOLEAN
        BY <1>0 DEF Producers, Bodies
      <3>2. CASE j = k
        BY <1>0, <2>2, <3>1, <3>2
      <3>3. CASE j # k
        <4>1. prod'[j] = prod[j] /\ body'[j] = body[j]
          BY <1>0, <2>2, <3>3
        <4> QED BY <1>1, <1>2, <4>1
      <3> QED BY <3>2, <3>3
    <2> QED BY <2>2, <2>3, LetGo
  <1> QED BY <1>3, <1>4

LEMMA FirstPollBodies ==
  ASSUME TypeOK, BodyInv, FirstPoll
  PROVE  BodyInv'
  <1> DEFINE k == bodies + 1
             q == [NoProducer EXCEPT !.pc = "Run", !.claim = TRUE]
             c == [NoBody EXCEPT !.open = TRUE]
  <1>0. /\ bodies < tries /\ bodies \in Nat /\ tries \in Nat
        /\ tries <= MaxAttempts /\ MaxAttempts \in Nat /\ entry \in Entry /\ length \in Nat
    BY EntryFacts DEF TypeOK, FirstPoll
  <1>1. k \in Attempt /\ k > bodies
    BY <1>0 DEF Attempt
  <1>2. /\ bodies' = k
        /\ prod' = [prod EXCEPT ![k].pc = "Run", ![k].claim = TRUE]
        /\ body' = [body EXCEPT ![k].open = TRUE]
        /\ UNCHANGED <<entry, length, invalid, chan>>
    BY DEF FirstPoll, payloadVars
  <1>3. /\ prod \in [Attempt -> Producers] /\ prod[k] = NoProducer
        /\ body \in [Attempt -> Bodies] /\ body[k] = NoBody /\ chan[k] = <<>>
    BY <1>1, Typed
  <1>4. /\ prod'[k] = q /\ \A j \in Attempt \ {k} : prod'[j] = prod[j]
        /\ body'[k] = c /\ \A j \in Attempt \ {k} : body'[j] = body[j]
    BY <1>1, <1>2, <1>3
  <1>5. BodyOK(entry, c, <<>>, q, length, invalid)
    <2>1. /\ q.pc = "Run" /\ q.send = <<>> /\ q.held = <<>> /\ q.frame = <<>> /\ q.pipe = <<>>
          /\ q.out = <<>> /\ q.made = <<>> /\ q.read = 0
      BY DEF NoProducer
    <2>2. c.got = <<>> /\ ~c.complete /\ c.error = "None"
      BY DEF NoBody
    <2> HIDE DEF q, c
    <2> DEFINE I == ContentOf(entry)
    <2>3. I \in Seq(Symbol) /\ 0 \in Places(I) /\ Len(<<>>) = 0
      BY <1>0, EntryFacts DEF Places
    <2> HIDE DEF I
    <2>4. Piece(I, 0, <<>>, 0) /\ Queued(I, <<>>, 0, 0)
      BY <2>3, PieceEmpty, QueuedEmpty
    <2>5. Front(I, q, 0, 0)
      BY <2>1, <2>3, <2>4 DEF Front
    <2>6. Back(I, q, 0)
      BY <2>1, <2>3, <2>4 DEF Back
    <2>7. Pending(entry, q, 0)
      BY <2>1, <2>3, <2>5, <2>6 DEF Pending, I
    <2>8. FlowOf(entry, <<>>, <<>>, q)
      BY <2>3, <2>4, <2>7 DEF FlowOf, I
    <2>9. ResultOK(entry, c, q, length, invalid)
      BY <1>0, <2>2, <2>3 DEF ResultOK
    <2> QED BY <2>1, <2>2, <2>8, <2>9 DEF BodyOK, AlarmOK
  <1> HIDE DEF q, c
  <1>6. ASSUME NEW j \in Attempt, j <= k
        PROVE  BodyOK(entry, body'[j], chan[j], prod'[j], length, invalid)
    <2>1. CASE j = k
      BY <1>3, <1>4, <1>5, <2>1
    <2>2. CASE j # k
      <3>1. j <= bodies
        <4>1. j \in Nat
          BY <1>0, <1>6 DEF Attempt
        <4> QED BY <1>0, <1>6, <2>2, <4>1
      <3> QED BY <1>4, <2>2, <3>1 DEF BodyInv
    <2> QED BY <2>1, <2>2
  <1> QED BY <1>2, <1>6 DEF BodyInv

LEMMA TaskBodies ==
  ASSUME TypeOK, SafeInv, BodyInv,
         Unprepared \/ Prepared \/ PrepareFails \/ Begin \/ RequestOk \/ RequestErr \/ Terminated
         \/ UNCHANGED vars
  PROVE  BodyInv'
  <1> USE DEF payloadVars, taskVars, vars
  <1>1. CASE Unprepared \/ Prepared
    <2>1. task = "Prepare" /\ bodies' = bodies
      BY <1>1 DEF Unprepared, Prepared
    <2>2. bodies' = 0
      BY <2>1 DEF SafeInv, Order
    <2>3. \A k \in Attempt : ~(k <= bodies')
      <3>1. MaxAttempts \in Nat
        BY EntryFacts DEF TypeOK
      <3> QED BY <2>2, <3>1 DEF Attempt
    <2> QED BY <2>3 DEF BodyInv
  <1>2. CASE PrepareFails \/ Begin \/ RequestOk \/ RequestErr \/ Terminated \/ UNCHANGED vars
    <2>1. UNCHANGED <<entry, length, bodies, body, chan, prod, invalid>>
      BY <1>2 DEF PrepareFails, Begin, RequestOk, RequestErr, Terminated
    <2> QED BY <2>1 DEF BodyInv
  <1> QED BY <1>1, <1>2

LEMMA BodySteps ==
  ASSUME TypeOK, SafeInv, BodyInv, [Next]_vars
  PROVE  BodyInv'
  BY StepBodies, PollBodies, PollClosedBodies, DropBodies, FirstPollBodies, TaskBodies DEF Next

Inv == TypeOK /\ SafeInv /\ BodyInv

\* The invariant behind the theorems below.
THEOREM InvAlways == Spec => []Inv
  <1>1. Init => Inv
    <2>1. ASSUME Init PROVE BodyInv
      <3>1. \A k \in Attempt : ~(k <= bodies)
        <4>1. MaxAttempts \in Nat
          BY <2>1, EntryFacts DEF Init
        <4> QED BY <2>1, <4>1 DEF Init, Attempt
      <3> QED BY <3>1 DEF BodyInv
    <2> QED BY <2>1, InitType, InitSafe DEF Inv
  <1>2. Inv /\ [Next]_vars => Inv'
    BY ActionsTyped, StutterTyped, SafeSteps, BodySteps DEF Inv
  <1> QED BY <1>1, <1>2, PTL DEF Spec

\* S3 sees the declared length of a body only when the whole entry has been read
\* and validated, and then it is the content, wherever the chunks were cut.
THEOREM BodiesAreProven == Spec => []ProvenBody
  <1>1. Inv => ProvenBody
    <2> SUFFICES ASSUME Inv, NEW k \in Attempt,
                        (bodies >= k /\ length > 0 /\ Len(body[k].got) = length) \/ Delivered(k)
                 PROVE  /\ Valid(entry) /\ entry.trusted => entry.stream = entry.declared
                        /\ body[k].got = Intended
      BY DEF ProvenBody
    <2>1. k <= bodies
      <3>1. bodies \in Nat /\ k \in Nat /\ (k > bodies => body[k] = NoBody)
        BY Typed DEF Inv
      <3>2. ~NoBody.complete
        BY DEF NoBody
      <3> QED BY <3>1, <3>2 DEF Delivered
    <2>2. ResultOK(entry, body[k], prod[k], length, invalid)
      BY <2>1 DEF Inv, BodyInv, BodyOK
    <2>3. length \in Nat
      BY DEF Inv, TypeOK
    <2>4. Valid(entry) /\ Whole(entry, body[k].got)
      BY <2>2, <2>3 DEF ResultOK, Delivered
    <2>5. body[k].got = Intended
      BY <2>4, Zenon DEF Whole, Intended, ContentOf
    <2> QED BY <2>4, <2>5 DEF Valid
  <1> QED BY <1>1, InvAlways, PTL

\* A client that has the end of a body holds no claim of a source block.
THEOREM EndReleasesClaims == Spec => []HandshakeReleases
  <1>1. Inv => HandshakeReleases
    <2> SUFFICES ASSUME Inv, NEW k \in Attempt, Delivered(k)
                 PROVE  ~prod[k].claim
      BY DEF HandshakeReleases
    <2>1. k <= bodies
      <3>1. bodies \in Nat /\ k \in Nat /\ (k > bodies => body[k] = NoBody)
        BY Typed DEF Inv
      <3>2. ~NoBody.complete
        BY DEF NoBody
      <3> QED BY <3>1, <3>2 DEF Delivered
    <2>2. ResultOK(entry, body[k], prod[k], length, invalid) /\ ProducerOK(entry, prod[k])
      BY <2>1 DEF Inv, BodyInv, BodyOK, SafeInv
    <2> QED BY <2>2 DEF ResultOK, Delivered, Gone, ProducerOK
  <1> QED BY <1>1, InvAlways, PTL

\* A PUT whose body gave its client a validation error is not tried again.
THEOREM ValidationErrorsEnd == Spec => InvalidEnds
  <1>1. Inv /\ [Next]_vars =>
          [task = "Request" /\ task' = "Between" => current = 0 \/ body[current].error # "Invalid"]_vars
    <2> SUFFICES ASSUME Inv, Next, task = "Request", task' = "Between", current # 0
                 PROVE  body[current].error # "Invalid"
      OBVIOUS
    <2>1. ~invalid
      <3> USE DEF payloadVars, taskVars, vars
      <3>1. RequestErr
        BY DEF Next, Unprepared, Prepared, PrepareFails, Produce, ProducerBreaks, PollFrame,
               PollClosed, DropBody, FirstPoll, AbortBodies, Begin, RequestOk, Terminated
      <3> QED BY <3>1 DEF RequestErr
    <2>2. current \in Attempt /\ current <= bodies
      <3>1. /\ bodies \in Nat /\ current \in Nat /\ tries \in Nat /\ entry.attempts \in Nat
            /\ MaxAttempts \in Nat /\ current <= bodies /\ bodies <= tries
            /\ tries <= entry.attempts /\ entry.attempts <= MaxAttempts
        BY EntryFacts DEF Inv, TypeOK
      <3> QED BY <3>1 DEF Attempt
    <2>3. ResultOK(entry, body[current], prod[current], length, invalid)
      BY <2>2 DEF Inv, BodyInv, BodyOK
    <2> QED BY <2>1, <2>3 DEF ResultOK
  <1> QED BY <1>1, InvAlways, PTL DEF Spec, InvalidEnds

-----------------------------------------------------------------------------
(* Snapshots *)

\* A body that gives nothing more.
Quiet(c) == c.complete \/ c.error # "None" \/ ~c.open

\* A snapshot of the request's body says how much it has given, and it gives
\* nothing more.
SnapOK ==
  /\ snap.attempt <= bodies
  /\ snap.attempt # 0 /\ snap.attempt = current =>
       snap.emitted = Len(body[current].got) /\ Quiet(body[current])

\* A step that leaves the snapshot and what bodies have given and closed.
LEMMA SnapStays ==
  ASSUME TypeOK, SnapOK, UNCHANGED <<current, snap>>, bodies' >= bodies, bodies' \in Nat,
         \A j \in Attempt : body'[j].got = body[j].got /\ (Quiet(body[j]) => Quiet(body'[j]))
  PROVE  SnapOK'
  <1>1. /\ bodies \in Nat /\ current \in Nat /\ snap.attempt \in Nat /\ MaxAttempts \in Nat
        /\ current <= bodies /\ bodies <= MaxAttempts
    BY EntryFacts DEF TypeOK
  <1>2. current # 0 => current \in Attempt
    BY <1>1 DEF Attempt
  <1> QED BY <1>1, <1>2 DEF SnapOK

\* A step that closes a body and publishes what it has given.
LEMMA SnapTaken ==
  ASSUME TypeOK, SnapOK, mark.attempt = current, UNCHANGED <<current, bodies>>,
         NEW k \in Attempt, k <= bodies, NEW c \in Bodies, Quiet(c),
         body' = [body EXCEPT ![k] = c], NEW dropped \in BOOLEAN,
         snap' = Published(k, c.got, dropped)
  PROVE  SnapOK'
  <1>1. CASE k = current
    <2>1. snap'.attempt = k /\ snap'.emitted = Len(c.got)
      BY <1>1 DEF Published
    <2>2. body'[k] = c
      BY Typed
    <2> QED BY <1>1, <2>1, <2>2 DEF SnapOK
  <1>2. CASE k # current
    <2>1. snap' = snap
      BY <1>2 DEF Published
    <2>2. \A j \in Attempt \ {k} : body'[j] = body[j]
      BY Typed
    <2>3. current # 0 => current \in Attempt \ {k}
      <3>1. /\ bodies \in Nat /\ current \in Nat /\ MaxAttempts \in Nat
            /\ current <= bodies /\ bodies <= MaxAttempts
        BY EntryFacts DEF TypeOK
      <3> QED BY <1>2, <3>1 DEF Attempt
    <2> QED BY <2>1, <2>2, <2>3 DEF SnapOK
  <1> QED BY <1>1, <1>2

LEMMA PollSnap ==
  ASSUME TypeOK, SafeInv, SnapOK, NEW k \in Attempt, PollFrame(k)
  PROVE  SnapOK'
  <1>1. PollGuard(k) /\ UNCHANGED <<current, bodies>>
    BY PollFrameCases DEF PollFrame
  <1>2. k <= bodies /\ body[k] \in Bodies /\ chan[k] \in Seq(Frames) /\ chan[k] # <<>>
        /\ mark.attempt = current /\ ~Quiet(body[k]) /\ body \in [Attempt -> Bodies]
    BY <1>1, Opened, Typed DEF PollGuard, SafeInv, Order, Quiet
  <1>3. body[k].got \in Seq(Symbol) /\ Head(chan[k]) \in Frames
        /\ body[k].got \o Head(chan[k]).data \in Seq(Symbol)
    <2>1. Head(chan[k]) \in Frames
      BY <1>2
    <2>2. body[k].got \in Seq(Symbol) /\ Head(chan[k]).data \in Seq(Symbol)
      BY <1>2, <2>1 DEF Bodies, Frames
    <2> QED BY <2>1, <2>2
  <1>4. CASE PollData(k)
    <2>1. snap' = snap /\ \A j \in Attempt \ {k} : body'[j] = body[j]
      BY <1>2, <1>4 DEF PollData
    <2>2. ~(snap.attempt # 0 /\ snap.attempt = current) \/ current # k
      BY <1>2 DEF SnapOK
    <2>3. current # 0 /\ current # k => current \in Attempt \ {k}
      <3>1. /\ bodies \in Nat /\ current \in Nat /\ MaxAttempts \in Nat
            /\ current <= bodies /\ bodies <= MaxAttempts
        BY EntryFacts DEF TypeOK
      <3> QED BY <3>1 DEF Attempt
    <2> QED BY <1>1, <2>1, <2>2, <2>3 DEF SnapOK
  <1>5. CASE PollEnd(k)
    <2> DEFINE c == [body[k] EXCEPT !.got = body[k].got \o Head(chan[k]).data, !.complete = TRUE]
    <2>1. c \in Bodies /\ c.complete /\ c.got = body[k].got \o Head(chan[k]).data
      BY <1>2, <1>3 DEF Bodies
    <2>2. body' = [body EXCEPT ![k] = c]
          /\ snap' = Published(k, body[k].got \o Head(chan[k]).data, FALSE)
      BY <1>5 DEF PollEnd
    <2> HIDE DEF c
    <2>3. Quiet(c)
      BY <2>1 DEF Quiet
    <2> QED BY <1>1, <1>2, <2>1, <2>2, <2>3, SnapTaken
  <1>6. CASE PollError(k)
    <2>1. PICK c : /\ c \in Bodies /\ c.got = body[k].got /\ Quiet(c)
                   /\ body' = [body EXCEPT ![k] = c] /\ snap' = Published(k, body[k].got, FALSE)
      BY <1>2, <1>6 DEF PollError, Bodies, Quiet
    <2> QED BY <1>1, <1>2, <2>1, SnapTaken
  <1> QED BY <1>4, <1>5, <1>6, PollFrameCases

LEMMA CloseSnap ==
  ASSUME TypeOK, SafeInv, SnapOK, NEW k \in Attempt, PollClosed(k) \/ DropBody(k)
  PROVE  SnapOK'
  <1>1. k <= bodies /\ body[k] \in Bodies /\ body \in [Attempt -> Bodies]
        /\ mark.attempt = current /\ bodies \in Nat
    BY Opened, Typed DEF PollClosed, DropBody, SafeInv, Order
  <1>2. UNCHANGED <<current, bodies>>
    BY DEF PollClosed, DropBody
  <1>3. CASE PollClosed(k)
    <2> DEFINE c == [body[k] EXCEPT !.complete = TRUE, !.error = "Other"]
    <2>1. c \in Bodies /\ c.complete /\ c.got = body[k].got
      BY <1>1 DEF Bodies
    <2>2. body' = [body EXCEPT ![k] = c] /\ snap' = Published(k, body[k].got, FALSE)
      BY <1>1, <1>3 DEF PollClosed
    <2> HIDE DEF c
    <2>3. Quiet(c)
      BY <2>1 DEF Quiet
    <2> QED BY <1>1, <1>2, <2>1, <2>2, <2>3, SnapTaken
  <1>4. CASE DropBody(k)
    <2> DEFINE c == [body[k] EXCEPT !.open = FALSE]
    <2>1. c \in Bodies /\ ~c.open /\ c.got = body[k].got
      BY <1>1 DEF Bodies
    <2>2. body' = [body EXCEPT ![k] = c]
          /\ snap' = IF body[k].complete THEN snap ELSE Published(k, body[k].got, TRUE)
      BY <1>1, <1>4 DEF DropBody
    <2> HIDE DEF c
    <2>3. Quiet(c)
      BY <2>1 DEF Quiet
    <2>4. CASE body[k].complete
      <3>1. \A j \in Attempt : body'[j].got = body[j].got /\ (Quiet(body[j]) => Quiet(body'[j]))
        BY <1>1, <2>1, <2>2, <2>3
      <3> QED BY <1>1, <1>2, <2>2, <2>4, <3>1, SnapStays
    <2>5. CASE ~body[k].complete
      BY <1>1, <1>2, <2>1, <2>2, <2>3, <2>5, SnapTaken
    <2> QED BY <2>4, <2>5
  <1> QED BY <1>3, <1>4

LEMMA SnapSteps ==
  ASSUME TypeOK, SafeInv, SnapOK, [Next]_vars
  PROVE  SnapOK'
  <1> USE DEF payloadVars, taskVars, vars
  <1>0. bodies \in Nat /\ snap.attempt \in Nat /\ body \in [Attempt -> Bodies]
    <2>1. entry.attempts \in Nat /\ MaxAttempts \in Nat
      BY EntryFacts DEF TypeOK
    <2> QED BY <2>1 DEF TypeOK
  <1>1. ASSUME UNCHANGED <<body, bodies, current, snap>> PROVE SnapOK'
    BY <1>1 DEF SnapOK
  <1>2. ASSUME NEW k \in Attempt,
               Produce(k) \/ ProducerBreaks(k) \/ PollFrame(k) \/ PollClosed(k) \/ DropBody(k)
        PROVE  SnapOK'
    <2>1. Produce(k) \/ ProducerBreaks(k) => UNCHANGED <<body, bodies, current, snap>>
      BY DEF Produce, ProducerBreaks
    <2> QED BY <1>1, <1>2, <2>1, PollSnap, CloseSnap
  <1>3. CASE Begin
    <2>1. current' = 0 /\ UNCHANGED <<bodies, snap>>
      BY <1>3 DEF Begin
    <2> QED BY <2>1 DEF SnapOK
  <1>4. CASE FirstPoll
    <2>1. current' = bodies + 1 /\ bodies' = bodies + 1 /\ snap' = snap
      BY <1>4 DEF FirstPoll
    <2>2. snap.attempt <= bodies
      BY DEF SnapOK
    <2>3. snap.attempt <= bodies' /\ snap.attempt # current'
      BY <1>0, <2>1, <2>2
    <2> QED BY <2>1, <2>3 DEF SnapOK
  <1>5. CASE Unprepared \/ Prepared \/ PrepareFails \/ AbortBodies \/ RequestOk \/ RequestErr
             \/ Terminated \/ UNCHANGED vars
    <2>1. UNCHANGED <<body, bodies, current, snap>>
      BY <1>5 DEF Unprepared, Prepared, PrepareFails, AbortBodies, RequestOk, RequestErr, Terminated
    <2> QED BY <1>1, <2>1
  <1> QED BY <1>2, <1>3, <1>4, <1>5 DEF Next

\* A failure record shows a snapshot of the body of its own attempt or none.
THEOREM SnapshotsAreCurrent == Spec => []SnapshotIsCurrent
  <1>1. Init => SnapOK
    BY DEF Init, SnapOK
  <1>2. TypeOK /\ SafeInv /\ SnapOK /\ [Next]_vars => SnapOK'
    BY SnapSteps
  <1>3. TypeOK /\ SafeInv /\ SnapOK => SnapshotIsCurrent
    BY DEF SafeInv, Order, SnapOK, SnapshotIsCurrent
  <1> QED BY <1>1, <1>2, <1>3, SafeAlways, PTL DEF Spec

=============================================================================
