--------------------------- MODULE TileOrderingProofs ---------------------------
(***************************************************************************)
(* The Hilbert ordering of TileOrdering, for grids of any size: it visits  *)
(* every tile once (the assertion at tilejobfactory.cpp:66), and in a      *)
(* square whose side is a power of two it only ever goes on to a           *)
(* neighbour.  Induction is over the least counterexample (LeastOf).       *)
(***************************************************************************)
EXTENDS TileOrdering, SequenceTheorems, FiniteSetTheorems, WellFoundedInduction, TLAPS

\* A set of natural numbers has a least element, unless it is empty.
LEMMA LeastOf ==
    ASSUME NEW T \in SUBSET Nat, T # {}
    PROVE  \E m \in T : \A k \in T : m <= k
<1>. DEFINE R == OpToRel(<, Nat)
<1>1. IsWellFoundedOn(R, Nat)
  BY NatLessThanWellFounded
<1>2. \A x, y \in Nat : <<x, y>> \in R <=> x < y
  BY DEF OpToRel
<1>. HIDE DEF R
<1>3. PICK m \in T : \A y \in T : ~ (<<y, m>> \in R)
  BY <1>1, WFMin
<1>4. ASSUME NEW k \in T PROVE m <= k
  <2>1. k \in Nat /\ m \in Nat
    OBVIOUS
  <2>2. ~ (k < m)
    BY <1>2, <1>3, <2>1
  <2>. QED  BY <2>1, <2>2
<1>. QED  BY <1>3, <1>4

-----------------------------------------------------------------------------
(* hilbert() terminates: the recursive definition has a solution. *)

\* What a call returns, when its own calls are answered by f.
Level(X, Y, f, n) ==
    IF n > 1 THEN Quadrants(n \div 2, f[n \div 2]) ELSE SingleTile(X, Y)

\* A solution for squares of up to n tiles a side.
Solves(X, Y, n, f) == \A k \in 0 .. n : f[k] = Level(X, Y, f, k)

LEMMA HalfIsSmaller ==
    ASSUME NEW n \in Nat, n > 1
    PROVE  n \div 2 \in Nat /\ n \div 2 < n /\ n \div 2 > 0
OBVIOUS

\* A solution exists for each size.
LEMMA SolutionUpTo ==
    ASSUME NEW X, NEW Y
    PROVE  \A n \in Nat : \E f : Solves(X, Y, n, f)
<1>. DEFINE Unsolved == {n \in Nat : ~ \E f : Solves(X, Y, n, f)}
<1>. SUFFICES ASSUME Unsolved # {} PROVE FALSE
  OBVIOUS
<1>1. PICK n \in Unsolved : \A k \in Unsolved : n <= k
  BY LeastOf
<1>2. n # 0
  <2>. DEFINE f == [k \in {0} |-> SingleTile(X, Y)]
  <2>1. Solves(X, Y, 0, f)
    BY DEF Solves, Level
  <2>. QED  BY <1>1, <2>1
<1>3. n - 1 \in Nat /\ n - 1 \notin Unsolved
  BY <1>1, <1>2
<1>4. PICK f : Solves(X, Y, n - 1, f)
  BY <1>3
<1>. DEFINE g == [k \in 0 .. n |-> IF k = n THEN Level(X, Y, f, n) ELSE f[k]]
<1>5. ASSUME NEW k \in 0 .. n PROVE g[k] = Level(X, Y, g, k)
  <2>1. k > 1 => k \div 2 \in 0 .. n - 1 /\ k \div 2 \in 0 .. n /\ k \div 2 # n
    BY <1>1, HalfIsSmaller
  <2>2. k > 1 => g[k \div 2] = f[k \div 2]
    BY <2>1
  <2>3. Level(X, Y, g, k) = Level(X, Y, f, k)
    <3>. HIDE DEF g
    <3>. QED  BY <2>2 DEF Level
  <2>4. CASE k = n
    BY <2>3, <2>4
  <2>5. CASE k # n
    <3>1. f[k] = Level(X, Y, f, k)
      BY <1>1, <1>4, <2>5 DEF Solves
    <3>. QED  BY <2>3, <2>5, <3>1
  <2>. QED  BY <2>4, <2>5
<1>6. Solves(X, Y, n, g)
  BY <1>5 DEF Solves
<1>. QED  BY <1>1, <1>6

\* Two solutions agree.
LEMMA SolutionsAgree ==
    ASSUME NEW X, NEW Y, NEW m \in Nat, NEW n \in Nat, NEW f, NEW g,
           Solves(X, Y, m, f), Solves(X, Y, n, g)
    PROVE  \A k \in 0 .. Smaller(m, n) : f[k] = g[k]
<1>. DEFINE s == Smaller(m, n)
            Differ == {k \in 0 .. s : f[k] # g[k]}
<1>0. s \in Nat /\ s <= m /\ s <= n
  BY DEF Smaller
<1>. HIDE DEF s
<1>. SUFFICES ASSUME Differ # {} PROVE FALSE
  BY DEF s
<1>1. Differ \subseteq Nat
  BY <1>0
<1>2. PICK k \in Differ : \A j \in Differ : k <= j
  BY <1>1, LeastOf
<1>3. k \in 0 .. s /\ k \in 0 .. m /\ k \in 0 .. n
  BY <1>0, <1>2
<1>4. k > 1 => f[k \div 2] = g[k \div 2]
  <2>. SUFFICES ASSUME k > 1 PROVE f[k \div 2] = g[k \div 2]
    OBVIOUS
  <2>1. k \div 2 \in 0 .. s /\ k \div 2 < k
    BY <1>0, <1>3, HalfIsSmaller
  <2>. QED  BY <1>0, <1>2, <1>3, <2>1
<1>5. Level(X, Y, f, k) = Level(X, Y, g, k)
  BY <1>4 DEF Level
<1>6. f[k] = g[k]
  BY <1>3, <1>5 DEF Solves
<1>. QED  BY <1>2, <1>6

\* The tours are those of the recursive definition.
LEMMA HilbertRecursion ==
    ASSUME NEW X, NEW Y, NEW n \in Nat
    PROVE  Hilbert(X, Y)[n] = Level(X, Y, Hilbert(X, Y), n)
<1>. DEFINE Solution(k) == CHOOSE f : Solves(X, Y, k, f)
            all == [k \in Nat |-> Solution(k)[k]]
            IsSolution(f) == f = [k \in Nat |-> Level(X, Y, f, k)]
<1>1. \A k \in Nat : Solves(X, Y, k, Solution(k))
  <2>. TAKE k \in Nat
  <2>1. \E f : Solves(X, Y, k, f)
    BY SolutionUpTo
  <2>. QED  BY <2>1
<1>. HIDE DEF Solution
<1>2. ASSUME NEW k \in Nat PROVE all[k] = Level(X, Y, all, k)
  <2>1. all[k] = Level(X, Y, Solution(k), k)
    BY <1>1 DEF Solves
  <2>2. ASSUME k > 1 PROVE all[k \div 2] = Solution(k)[k \div 2]
    <3>. DEFINE h == k \div 2
    <3>1. h \in Nat /\ h <= k
      BY <2>2, HalfIsSmaller
    <3>. HIDE DEF h
    <3>2. Smaller(h, k) = h /\ h \in 0 .. h
      BY <3>1 DEF Smaller
    <3>3. Solution(h)[h] = Solution(k)[h]
      BY <1>1, <3>1, <3>2, SolutionsAgree
    <3>4. all[h] = Solution(h)[h]
      BY <3>1
    <3>. QED  BY <3>3, <3>4 DEF h
  <2>3. Level(X, Y, all, k) = Level(X, Y, Solution(k), k)
    <3>. HIDE DEF all
    <3>. QED  BY <2>2 DEF Level
  <2>. QED  BY <2>1, <2>3
<1>3. IsSolution(all)
  BY <1>2
<1>4. Hilbert(X, Y) = CHOOSE f : IsSolution(f)
  BY DEF Hilbert, Level
<1>5. IsSolution(Hilbert(X, Y))
  <2>. HIDE DEF IsSolution, all
  <2>. QED  BY <1>3, <1>4
<1>. QED  BY <1>5

-----------------------------------------------------------------------------
(* Powers of two. *)

LEMMA ProductsOfOdds ==
    ASSUME NEW d \in Nat, NEW q \in Nat, d % 2 = 1, q % 2 = 1
    PROVE  (d * q) % 2 = 1
<1>. DEFINE k == d \div 2
            j == q \div 2
<1>1. k \in Nat /\ j \in Nat /\ d = 2 * k + 1 /\ q = 2 * j + 1
  OBVIOUS
<1>. HIDE DEF k, j
<1>2. k * j \in Nat
  BY <1>1
<1>3. d * q = 2 * (2 * (k * j) + k + j) + 1
  BY <1>1
<1>. QED  BY <1>1, <1>2, <1>3

LEMMA HalfOfPower ==
    ASSUME NEW n \in Nat, n > 1, IsPowerOfTwo(n)
    PROVE  n = 2 * (n \div 2) /\ IsPowerOfTwo(n \div 2)
<1>. DEFINE h == n \div 2
<1>1. n % n = 0 /\ n \in 2 .. n
  OBVIOUS
<1>2. n % 2 = 0
  BY <1>1 DEF IsPowerOfTwo
<1>3. h \in Nat /\ n = 2 * h
  BY <1>2
<1>. HIDE DEF h
<1>4. ASSUME NEW d \in 2 .. h, h % d = 0 PROVE d % 2 = 0
  <2>. DEFINE q == h \div d
  <2>1. q \in Nat /\ h = d * q
    BY <1>3, <1>4
  <2>. HIDE DEF q
  <2>2. n = d * (2 * q)
    BY <1>3, <2>1
  <2>3. n % d = 0
    BY <2>1, <2>2
  <2>. QED  BY <1>3, <2>3 DEF IsPowerOfTwo
<1>5. IsPowerOfTwo(h)
  BY <1>4 DEF IsPowerOfTwo
<1>. QED  BY <1>3, <1>5 DEF h

LEMMA DoubleOfPower ==
    ASSUME NEW h \in Nat \ {0}, IsPowerOfTwo(h)
    PROVE  IsPowerOfTwo(2 * h)
<1>1. ASSUME NEW d \in 2 .. 2 * h, (2 * h) % d = 0, d % 2 # 0 PROVE FALSE
  <2>. DEFINE q == (2 * h) \div d
              r == q \div 2
  <2>1. q \in Nat /\ d * q = 2 * h
    BY <1>1
  <2>2. d \in Nat /\ d % 2 = 1
    BY <1>1
  <2>3. (d * q) % 2 = 0
    BY <2>1
  <2>4. q % 2 = 0
    <3>. HIDE DEF q
    <3>1. q % 2 = 0 \/ q % 2 = 1
      BY <2>1
    <3>. QED  BY <2>1, <2>2, <2>3, <3>1, ProductsOfOdds
  <2>5. r \in Nat /\ q = 2 * r
    BY <2>1, <2>4
  <2>. HIDE DEF q, r
  <2>6. d * r = h
    BY <2>1, <2>2, <2>5
  <2>7. r # 0
    BY <2>2, <2>6
  <2>8. h % d = 0 /\ d <= h
    <3>1. d > 0 /\ r >= 1 /\ r \in Nat
      BY <1>1, <2>5, <2>7
    <3>2. d * r = d + d * (r - 1) /\ d * (r - 1) >= 0
      BY <2>2, <3>1
    <3>3. d <= h
      BY <2>2, <2>6, <3>1, <3>2
    <3>4. (d * r) % d = 0
      BY <2>2, <3>1
    <3>. QED  BY <2>6, <3>3, <3>4
  <2>. QED  BY <1>1, <2>2, <2>8 DEF IsPowerOfTwo
<1>. QED  BY <1>1 DEF IsPowerOfTwo

\* There is a power of two for next_pow2() to find.
LEMMA PowerAbove ==
    \A n \in Nat \ {0} : \E p \in n .. 2 * n : IsPowerOfTwo(p)
<1>. DEFINE Missing == {n \in Nat \ {0} : ~ \E p \in n .. 2 * n : IsPowerOfTwo(p)}
<1>. SUFFICES ASSUME Missing # {} PROVE FALSE
  OBVIOUS
<1>1. PICK n \in Missing : \A k \in Missing : n <= k
  BY LeastOf
<1>2. IsPowerOfTwo(1)
  BY DEF IsPowerOfTwo
<1>3. n # 1
  BY <1>1, <1>2
<1>4. n - 1 \in Nat \ {0} /\ n - 1 \notin Missing
  BY <1>1, <1>3
<1>5. PICK p \in n - 1 .. 2 * (n - 1) : IsPowerOfTwo(p)
  BY <1>4
<1>6. CASE p >= n
  BY <1>1, <1>5, <1>6
<1>7. CASE p = n - 1
  <2>1. 2 * p \in n .. 2 * n
    BY <1>4, <1>7
  <2>2. IsPowerOfTwo(2 * p)
    BY <1>4, <1>5, <1>7, DoubleOfPower
  <2>. QED  BY <1>1, <2>1, <2>2
<1>. QED  BY <1>1, <1>5, <1>6, <1>7

LEMMA NextPowerFound ==
    ASSUME NEW n \in Nat \ {0}
    PROVE  NextPowerOfTwo(n) \in n .. 2 * n /\ IsPowerOfTwo(NextPowerOfTwo(n))
<1>. DEFINE T == {p \in n .. 2 * n : IsPowerOfTwo(p)}
<1>1. T \in SUBSET Nat /\ T # {}
  BY PowerAbove
<1>2. PICK m \in T : \A k \in T : m <= k
  BY <1>1, LeastOf
<1>3. m \in n .. 2 * n /\ IsPowerOfTwo(m) /\ \A q \in n .. m - 1 : ~IsPowerOfTwo(q)
  BY <1>2
<1>. QED  BY <1>3 DEF NextPowerOfTwo

\* The first power of two is the number itself, if it is one.
LEMMA NextPowerOfPower ==
    ASSUME NEW n \in Nat \ {0}, IsPowerOfTwo(n)
    PROVE  NextPowerOfTwo(n) = n
<1>1. \E p \in n .. 2 * n : IsPowerOfTwo(p) /\ \A q \in n .. p - 1 : ~IsPowerOfTwo(q)
  <2>1. n \in n .. 2 * n /\ \A q \in n .. n - 1 : FALSE
    OBVIOUS
  <2>. QED  BY <2>1
<1>2. NextPowerOfTwo(n) \in n .. 2 * n
      /\ \A q \in n .. NextPowerOfTwo(n) - 1 : ~IsPowerOfTwo(q)
  BY <1>1 DEF NextPowerOfTwo
<1>3. n \in n .. NextPowerOfTwo(n) - 1 \/ n = NextPowerOfTwo(n)
  BY <1>2
<1>. QED  BY <1>2, <1>3

-----------------------------------------------------------------------------
(* The squares that the quadrants of a square are. *)

Horizontal == {<<1, 0>>, <<-1, 0>>}
Vertical == {<<0, 1>>, <<0, -1>>}

\* The two directions of a square are perpendicular unit vectors.
Directions == (Horizontal \X Vertical) \cup (Vertical \X Horizontal)

\* How far q is from p in direction d.
Along(q, p, d) == (q[1] - p[1]) * d[1] + (q[2] - p[2]) * d[2]

Square(n, p, dx, dy) ==
    {q \in Vector : Along(q, p, dx) \in 0 .. n - 1 /\ Along(q, p, dy) \in 0 .. n - 1}

Grid(X, Y) == {q \in Vector : q[1] < X /\ q[2] < Y}

\* Where the third and fourth calls of hilbert() begin.
Third(p, h, dx, dy) == Moved(Moved(p, h, dy), h, dx)
Fourth(p, h, dx, dy) == Moved(Moved(Third(p, h, dx, dy), h - 1, dx), -1, dy)

LEMMA DirectionsTurned ==
    ASSUME NEW dx, NEW dy, <<dx, dy>> \in Directions
    PROVE  /\ dx \in Vector /\ dy \in Vector
           /\ <<dy, dx>> \in Directions
           /\ <<Opposite(dy), Opposite(dx)>> \in Directions
           /\ Opposite(dx) \in Vector /\ Opposite(dy) \in Vector
BY DEF Directions, Horizontal, Vertical, Vector, Opposite

LEMMA MovedInPlane ==
    ASSUME NEW p \in Vector, NEW k \in Int, NEW d \in Vector
    PROVE  Moved(p, k, d) \in Vector
<1>1. p[1] \in Int /\ p[2] \in Int /\ d[1] \in Int /\ d[2] \in Int
  BY DEF Vector
<1>2. p[1] + k * d[1] \in Int /\ p[2] + k * d[2] \in Int
  BY <1>1
<1>. QED  BY <1>2 DEF Moved, Vector

\* The distances of a point from the corners of the quadrants.
LEMMA AlongQuadrants ==
    ASSUME NEW p \in Vector, NEW q \in Vector, NEW h \in Nat,
           NEW dx, NEW dy, <<dx, dy>> \in Directions
    PROVE  /\ Along(q, Moved(p, h, dy), dx) = Along(q, p, dx)
           /\ Along(q, Moved(p, h, dy), dy) = Along(q, p, dy) - h
           /\ Along(q, Third(p, h, dx, dy), dx) = Along(q, p, dx) - h
           /\ Along(q, Third(p, h, dx, dy), dy) = Along(q, p, dy) - h
           /\ Along(q, Fourth(p, h, dx, dy), Opposite(dy)) = h - 1 - Along(q, p, dy)
           /\ Along(q, Fourth(p, h, dx, dy), Opposite(dx)) = 2 * h - 1 - Along(q, p, dx)
           /\ Along(q, p, dx) \in Int /\ Along(q, p, dy) \in Int
<1>1. p[1] \in Int /\ p[2] \in Int /\ q[1] \in Int /\ q[2] \in Int
  BY DEF Vector
<1>2. CASE dx \in Horizontal /\ dy \in Vertical
  BY <1>1, <1>2 DEF Horizontal, Vertical, Along, Moved, Third, Fourth, Opposite
<1>3. CASE dx \in Vertical /\ dy \in Horizontal
  BY <1>1, <1>3 DEF Horizontal, Vertical, Along, Moved, Third, Fourth, Opposite
<1>. QED  BY <1>2, <1>3 DEF Directions

\* A point no step away in either direction is the same.
LEMMA NoDistance ==
    ASSUME NEW p \in Vector, NEW q \in Vector, NEW dx, NEW dy, <<dx, dy>> \in Directions
    PROVE  Along(q, p, dx) = 0 /\ Along(q, p, dy) = 0 <=> q[1] = p[1] /\ q[2] = p[2]
<1>. DEFINE a == q[1] - p[1]
            b == q[2] - p[2]
<1>1. p[1] \in Int /\ p[2] \in Int /\ q[1] \in Int /\ q[2] \in Int
  BY DEF Vector
<1>2. a \in Int /\ b \in Int /\ (q[1] = p[1] /\ q[2] = p[2] <=> a = 0 /\ b = 0)
  BY <1>1
<1>. HIDE DEF a, b
<1>3. Along(q, p, <<1, 0>>) = a /\ Along(q, p, <<-1, 0>>) = -a
      /\ Along(q, p, <<0, 1>>) = b /\ Along(q, p, <<0, -1>>) = -b
  BY <1>1 DEF Along, a, b
<1>4. CASE dx \in Horizontal /\ dy \in Vertical
  BY <1>2, <1>3, <1>4 DEF Horizontal, Vertical
<1>5. CASE dx \in Vertical /\ dy \in Horizontal
  BY <1>2, <1>3, <1>5 DEF Horizontal, Vertical
<1>. QED  BY <1>4, <1>5 DEF Directions

\* The quadrants are squares of their own, which cover the square and do not overlap.
LEMMA QuadrantsCover ==
    ASSUME NEW p \in Vector, NEW h \in Nat \ {0},
           NEW dx, NEW dy, <<dx, dy>> \in Directions
    PROVE  LET Q1 == Square(h, p, dy, dx)
               Q2 == Square(h, Moved(p, h, dy), dx, dy)
               Q3 == Square(h, Third(p, h, dx, dy), dx, dy)
               Q4 == Square(h, Fourth(p, h, dx, dy), Opposite(dy), Opposite(dx))
           IN  /\ Square(2 * h, p, dx, dy) = ((Q1 \cup Q2) \cup Q3) \cup Q4
               /\ Q1 \cap Q2 = {} /\ (Q1 \cup Q2) \cap Q3 = {}
               /\ ((Q1 \cup Q2) \cup Q3) \cap Q4 = {}
<1>. DEFINE Q1 == Square(h, p, dy, dx)
            Q2 == Square(h, Moved(p, h, dy), dx, dy)
            Q3 == Square(h, Third(p, h, dx, dy), dx, dy)
            Q4 == Square(h, Fourth(p, h, dx, dy), Opposite(dy), Opposite(dx))
            S == Square(2 * h, p, dx, dy)
            Low == 0 .. h - 1
            High == h .. 2 * h - 1
            In(q, A, B) == Along(q, p, dx) \in A /\ Along(q, p, dy) \in B
<1>1. ASSUME NEW q \in Vector
      PROVE  /\ q \in Q1 <=> In(q, Low, Low)
             /\ q \in Q2 <=> In(q, Low, High)
             /\ q \in Q3 <=> In(q, High, High)
             /\ q \in Q4 <=> In(q, High, Low)
             /\ q \in S <=> In(q, 0 .. 2 * h - 1, 0 .. 2 * h - 1)
  <2>. DEFINE a == Along(q, p, dx)
              b == Along(q, p, dy)
  <2>1. a \in Int /\ b \in Int
    BY AlongQuadrants
  <2>2. q \in Q1 <=> a \in Low /\ b \in Low
    BY DEF Square
  <2>3. q \in Q2 <=> a \in Low /\ (b - h) \in Low
    <3>1. Along(q, Moved(p, h, dy), dx) = a /\ Along(q, Moved(p, h, dy), dy) = b - h
      BY AlongQuadrants
    <3>. QED  BY <3>1 DEF Square
  <2>4. q \in Q3 <=> (a - h) \in Low /\ (b - h) \in Low
    <3>1. /\ Along(q, Third(p, h, dx, dy), dx) = a - h
          /\ Along(q, Third(p, h, dx, dy), dy) = b - h
      BY AlongQuadrants
    <3>. QED  BY <3>1 DEF Square
  <2>5. q \in Q4 <=> (2 * h - 1 - a) \in Low /\ (h - 1 - b) \in Low
    <3>1. /\ Along(q, Fourth(p, h, dx, dy), Opposite(dy)) = h - 1 - b
          /\ Along(q, Fourth(p, h, dx, dy), Opposite(dx)) = 2 * h - 1 - a
      BY AlongQuadrants
    <3>. QED  BY <3>1 DEF Square
  <2>6. q \in S <=> a \in 0 .. 2 * h - 1 /\ b \in 0 .. 2 * h - 1
    BY DEF Square
  <2>. HIDE DEF a, b, Q1, Q2, Q3, Q4, S
  <2>7. /\ (b - h) \in Low <=> b \in High
        /\ (a - h) \in Low <=> a \in High
        /\ (2 * h - 1 - a) \in Low <=> a \in High
        /\ (h - 1 - b) \in Low <=> b \in Low
    BY <2>1
  <2>. QED  BY <2>2, <2>3, <2>4, <2>5, <2>6, <2>7 DEF a, b
<1>2. \A k : k \in 0 .. 2 * h - 1 <=> k \in Low \/ k \in High
  OBVIOUS
<1>3. \A k : ~ (k \in Low /\ k \in High)
  OBVIOUS
<1>4. Q1 \subseteq Vector /\ Q2 \subseteq Vector /\ Q3 \subseteq Vector /\ Q4 \subseteq Vector
      /\ S \subseteq Vector
  BY DEF Square
<1>. HIDE DEF Q1, Q2, Q3, Q4, S, Low, High
<1>5. S = ((Q1 \cup Q2) \cup Q3) \cup Q4
  BY <1>1, <1>2, <1>4
<1>6. Q1 \cap Q2 = {} /\ (Q1 \cup Q2) \cap Q3 = {} /\ ((Q1 \cup Q2) \cup Q3) \cap Q4 = {}
  BY <1>1, <1>3, <1>4
<1>. QED  BY <1>5, <1>6 DEF Q1, Q2, Q3, Q4, S

-----------------------------------------------------------------------------
(* Tours: every point once, and each next to the one before. *)

Tour(v, S) ==
    /\ v \in Seq(S)
    /\ \A q \in S : \E i \in 1 .. Len(v) : v[i] = q
    /\ \A i, j \in 1 .. Len(v) : v[i] = v[j] => i = j

Near(p, q) == Abs(p[1] - q[1]) + Abs(p[2] - q[2]) = 1

Connected(v) == \A i \in 1 .. Len(v) - 1 : Near(v[i], v[i + 1])

LEMMA ToursJoined ==
    ASSUME NEW S, NEW T, S \cap T = {}, NEW u, NEW v, Tour(u, S), Tour(v, T)
    PROVE  Tour(u \o v, S \cup T)
<1>. DEFINE m == Len(u)
            n == Len(v)
            w == u \o v
<1>1. u \in Seq(S) /\ v \in Seq(T) /\ m \in Nat /\ n \in Nat
  BY DEF Tour
<1>2. u \in Seq(S \cup T) /\ v \in Seq(S \cup T)
  BY <1>1
<1>3. w \in Seq(S \cup T) /\ Len(w) = m + n
  BY <1>2
<1>4. \A i \in 1 .. m : w[i] = u[i] /\ u[i] \in S
  BY <1>1, <1>2
<1>5. \A i \in 1 .. n : w[m + i] = v[i] /\ v[i] \in T
  BY <1>1, <1>2
<1>6. ASSUME NEW i \in m + 1 .. m + n
      PROVE  i - m \in 1 .. n /\ w[i] = v[i - m] /\ w[i] \in T
  <2>1. i - m \in 1 .. n /\ m + (i - m) = i
    BY <1>1
  <2>. HIDE DEF m, n, w
  <2>. QED  BY <1>5, <2>1
<1>. HIDE DEF m, n, w
<1>7. ASSUME NEW q \in S \cup T PROVE \E i \in 1 .. Len(w) : w[i] = q
  <2>1. CASE q \in S
    <3>1. PICK i \in 1 .. m : u[i] = q
      BY <2>1 DEF Tour, m
    <3>2. i \in 1 .. m + n /\ w[i] = q
      BY <1>1, <1>4, <3>1
    <3>. QED  BY <1>3, <3>2
  <2>2. CASE q \in T
    <3>1. PICK i \in 1 .. n : v[i] = q
      BY <2>2 DEF Tour, n
    <3>2. m + i \in 1 .. m + n /\ w[m + i] = q
      BY <1>1, <1>5, <3>1
    <3>. QED  BY <1>3, <3>2
  <2>. QED  BY <2>1, <2>2
<1>8. ASSUME NEW i \in 1 .. m + n, NEW j \in 1 .. m + n, w[i] = w[j] PROVE i = j
  <2>1. CASE i \in 1 .. m /\ j \in 1 .. m
    <3>1. u[i] = u[j]
      BY <1>4, <1>8, <2>1
    <3>. QED  BY <2>1, <3>1 DEF Tour, m
  <2>2. CASE i \in m + 1 .. m + n /\ j \in m + 1 .. m + n
    <3>1. i - m \in 1 .. n /\ j - m \in 1 .. n /\ v[i - m] = v[j - m]
      BY <1>6, <1>8, <2>2
    <3>2. i - m = j - m
      BY <3>1 DEF Tour, n
    <3>. QED  BY <1>1, <3>2
  <2>3. CASE i \in 1 .. m /\ j \in m + 1 .. m + n
    BY <1>4, <1>6, <1>8, <2>3
  <2>4. CASE i \in m + 1 .. m + n /\ j \in 1 .. m
    BY <1>4, <1>6, <1>8, <2>4
  <2>5. \A k \in 1 .. m + n : k \in 1 .. m \/ k \in m + 1 .. m + n
    BY <1>1
  <2>. QED  BY <2>1, <2>2, <2>3, <2>4, <2>5
<1>9. Tour(w, S \cup T)
  BY <1>3, <1>7, <1>8 DEF Tour
<1>. QED  BY <1>9 DEF w

LEMMA PathsJoined ==
    ASSUME NEW u \in Seq(Vector), NEW v \in Seq(Vector), Len(u) > 0, Len(v) > 0,
           Connected(u), Connected(v), Near(u[Len(u)], v[1])
    PROVE  /\ u \o v \in Seq(Vector) /\ Len(u \o v) > 0 /\ Connected(u \o v)
           /\ (u \o v)[1] = u[1] /\ (u \o v)[Len(u \o v)] = v[Len(v)]
<1>. DEFINE m == Len(u)
            n == Len(v)
            w == u \o v
<1>1. m \in Nat \ {0} /\ n \in Nat \ {0}
  OBVIOUS
<1>2. w \in Seq(Vector) /\ Len(w) = m + n
  OBVIOUS
<1>3. \A i \in 1 .. m : w[i] = u[i]
  OBVIOUS
<1>4. \A i \in 1 .. n : w[m + i] = v[i]
  OBVIOUS
<1>. HIDE DEF m, n, w
<1>5. ASSUME NEW i \in 1 .. m + n - 1 PROVE Near(w[i], w[i + 1])
  <2>1. CASE i < m
    <3>1. i \in 1 .. m - 1 /\ i \in 1 .. m /\ i + 1 \in 1 .. m
      BY <1>1, <2>1
    <3>. QED  BY <1>3, <3>1 DEF Connected, m
  <2>2. CASE i = m
    <3>1. w[i] = u[m] /\ w[i + 1] = v[1]
      BY <1>1, <1>3, <1>4, <2>2
    <3>. QED  BY <3>1 DEF m
  <2>3. CASE i > m
    <3>1. i - m \in 1 .. n - 1 /\ i - m \in 1 .. n /\ (i - m) + 1 \in 1 .. n
          /\ m + (i - m) = i /\ m + ((i - m) + 1) = i + 1
      BY <1>1, <2>3
    <3>2. w[i] = v[i - m] /\ w[i + 1] = v[(i - m) + 1]
      BY <1>4, <3>1
    <3>. QED  BY <3>1, <3>2 DEF Connected, n
  <2>. QED  BY <1>1, <2>1, <2>2, <2>3
<1>6. Connected(w)
  <2>1. 1 .. Len(w) - 1 = 1 .. m + n - 1
    BY <1>1, <1>2
  <2>. QED  BY <1>5, <2>1, Zenon DEF Connected
<1>7. w[1] = u[1] /\ w[m + n] = v[n]
  BY <1>1, <1>3, <1>4
<1>8. Len(w) > 0
  BY <1>1, <1>2
<1>. QED  BY <1>2, <1>6, <1>7, <1>8 DEF w, n

\* Each quadrant ends next to where the following one begins, and the square ends where
\* its last quadrant does.
LEMMA QuadrantsMeet ==
    ASSUME NEW p \in Vector, NEW h \in Nat, NEW dx, NEW dy, <<dx, dy>> \in Directions
    PROVE  LET second == Moved(p, h, dy)
               third == Third(p, h, dx, dy)
               fourth == Fourth(p, h, dx, dy)
           IN  /\ Near(Moved(p, h - 1, dy), second)
               /\ Near(Moved(second, h - 1, dx), third)
               /\ Near(Moved(third, h - 1, dx), fourth)
               /\ Moved(fourth, h - 1, Opposite(dy)) = Moved(p, 2 * h - 1, dx)
<1>1. p[1] \in Int /\ p[2] \in Int
  BY DEF Vector
<1>2. CASE dx \in Horizontal /\ dy \in Vertical
  BY <1>1, <1>2 DEF Horizontal, Vertical, Moved, Third, Fourth, Opposite, Near, Abs
<1>3. CASE dx \in Vertical /\ dy \in Horizontal
  BY <1>1, <1>3 DEF Horizontal, Vertical, Moved, Third, Fourth, Opposite, Near, Abs
<1>. QED  BY <1>2, <1>3 DEF Directions

-----------------------------------------------------------------------------
(* The Hilbert curve. *)

\* What v has to be for the square at p, of n tiles a side.
Toured(v, X, Y, n, p, dx, dy) ==
    /\ Tour(v, Square(n, p, dx, dy) \cap Grid(X, Y))
    /\ Square(n, p, dx, dy) \subseteq Grid(X, Y) =>
          /\ Len(v) > 0 /\ Connected(v)
          /\ v[1] = p /\ v[Len(v)] = Moved(p, n - 1, dx)

\* What hilbert() does in the squares of n tiles a side.
Touring(X, Y, n) ==
    \A p, dx, dy \in Vector :
        <<dx, dy>> \in Directions => Toured(Hilbert(X, Y)[n][<<p, dx, dy>>], X, Y, n, p, dx, dy)

LEMMA SingleTileToured ==
    ASSUME NEW X \in Nat, NEW Y \in Nat
    PROVE  Touring(X, Y, 1)
<1>. SUFFICES ASSUME NEW p \in Vector, NEW dx \in Vector, NEW dy \in Vector,
                     <<dx, dy>> \in Directions
              PROVE  Toured(Hilbert(X, Y)[1][<<p, dx, dy>>], X, Y, 1, p, dx, dy)
  BY DEF Touring
<1>. DEFINE v == Hilbert(X, Y)[1][<<p, dx, dy>>]
<1>1. v = IF p \in Grid(X, Y) THEN <<p>> ELSE <<>>
  <2>1. Hilbert(X, Y)[1] = SingleTile(X, Y)
    BY HilbertRecursion DEF Level
  <2>. QED  BY <2>1 DEF SingleTile, Grid, Placement
<1>2. \A q \in Vector : q \in Square(1, p, dx, dy) <=> q = p
  <2>. TAKE q \in Vector
  <2>1. p[1] \in Int /\ p[2] \in Int /\ q[1] \in Int /\ q[2] \in Int
    BY DEF Vector
  <2>2. q = p <=> q[1] = p[1] /\ q[2] = p[2]
    BY DEF Vector
  <2>3. Along(q, p, dx) = 0 /\ Along(q, p, dy) = 0 <=> q[1] = p[1] /\ q[2] = p[2]
    BY <2>1, NoDistance
  <2>4. \A k : k \in 0 .. 1 - 1 <=> k = 0
    OBVIOUS
  <2>. QED  BY <2>2, <2>3, <2>4 DEF Square
<1>3. Square(1, p, dx, dy) = {p}
  BY <1>2 DEF Square
<1>4. p = Moved(p, 1 - 1, dx)
  <2>1. p[1] \in Int /\ p[2] \in Int /\ dx[1] \in Int /\ dx[2] \in Int
        /\ p = <<p[1], p[2]>>
    BY DEF Vector
  <2>. QED  BY <2>1 DEF Moved
<1>. HIDE DEF v
<1>5. CASE p \in Grid(X, Y)
  <2>1. v = <<p>> /\ Len(v) = 1 /\ v[1] = p
    BY <1>1, <1>5
  <2>2. Tour(v, {p})
    BY <2>1 DEF Tour
  <2>3. Connected(v)
    BY <2>1 DEF Connected
  <2>4. {p} \cap Grid(X, Y) = {p}
    BY <1>5
  <2>. QED  BY <1>3, <1>4, <2>1, <2>2, <2>3, <2>4 DEF v, Toured
<1>6. CASE p \notin Grid(X, Y)
  <2>1. v = <<>> /\ Len(v) = 0
    BY <1>1, <1>6
  <2>2. Tour(v, {})
    BY <2>1 DEF Tour
  <2>3. {p} \cap Grid(X, Y) = {} /\ ~ ({p} \subseteq Grid(X, Y))
    BY <1>6
  <2>. QED  BY <1>3, <2>2, <2>3 DEF v, Toured
<1>. QED  BY <1>5, <1>6

LEMMA SquareToured ==
    ASSUME NEW X \in Nat, NEW Y \in Nat, NEW n \in Nat, n > 1,
           n = 2 * (n \div 2), Touring(X, Y, n \div 2)
    PROVE  Touring(X, Y, n)
<1>. DEFINE h == n \div 2
<1>1. h \in Nat \ {0} /\ n = 2 * h
  BY HalfIsSmaller
<1>. SUFFICES ASSUME NEW p \in Vector, NEW dx \in Vector, NEW dy \in Vector,
                     <<dx, dy>> \in Directions
              PROVE  Toured(Hilbert(X, Y)[n][<<p, dx, dy>>], X, Y, n, p, dx, dy)
  BY DEF Touring
<1>. DEFINE tour == Hilbert(X, Y)[h]
            second == Moved(p, h, dy)
            third == Third(p, h, dx, dy)
            fourth == Fourth(p, h, dx, dy)
            v1 == tour[<<p, dy, dx>>]
            v2 == tour[<<second, dx, dy>>]
            v3 == tour[<<third, dx, dy>>]
            v4 == tour[<<fourth, Opposite(dy), Opposite(dx)>>]
            v == Hilbert(X, Y)[n][<<p, dx, dy>>]
            Q1 == Square(h, p, dy, dx)
            Q2 == Square(h, second, dx, dy)
            Q3 == Square(h, third, dx, dy)
            Q4 == Square(h, fourth, Opposite(dy), Opposite(dx))
            S == Square(n, p, dx, dy)
            G == Grid(X, Y)
<1>2. second \in Vector /\ third \in Vector /\ fourth \in Vector
  BY <1>1, MovedInPlane DEF Third, Fourth
<1>3. v = ((v1 \o v2) \o v3) \o v4
  <2>1. Hilbert(X, Y)[n] = Quadrants(h, tour)
    BY HilbertRecursion DEF Level
  <2>. HIDE DEF tour, h
  <2>2. v = v1 \o v2 \o v3 \o v4
    BY <2>1 DEF Quadrants, Placement, Third, Fourth
  <2>. QED  BY <2>2
<1>4. /\ Tour(v1, Q1 \cap G) /\ Tour(v2, Q2 \cap G) /\ Tour(v3, Q3 \cap G) /\ Tour(v4, Q4 \cap G)
      /\ Q1 \subseteq G =>
            Len(v1) > 0 /\ Connected(v1) /\ v1[1] = p /\ v1[Len(v1)] = Moved(p, h - 1, dy)
      /\ Q2 \subseteq G =>
            Len(v2) > 0 /\ Connected(v2) /\ v2[1] = second
            /\ v2[Len(v2)] = Moved(second, h - 1, dx)
      /\ Q3 \subseteq G =>
            Len(v3) > 0 /\ Connected(v3) /\ v3[1] = third
            /\ v3[Len(v3)] = Moved(third, h - 1, dx)
      /\ Q4 \subseteq G =>
            Len(v4) > 0 /\ Connected(v4) /\ v4[1] = fourth
            /\ v4[Len(v4)] = Moved(fourth, h - 1, Opposite(dy))
  <2>. HIDE DEF second, third, fourth, h
  <2>1. Touring(X, Y, h)
    BY DEF h
  <2>2. /\ <<dy, dx>> \in Directions /\ <<Opposite(dy), Opposite(dx)>> \in Directions
        /\ Opposite(dx) \in Vector /\ Opposite(dy) \in Vector
    BY DirectionsTurned
  <2>3. /\ Toured(v1, X, Y, h, p, dy, dx)
        /\ Toured(v2, X, Y, h, second, dx, dy)
        /\ Toured(v3, X, Y, h, third, dx, dy)
        /\ Toured(v4, X, Y, h, fourth, Opposite(dy), Opposite(dx))
    BY <1>2, <2>1, <2>2 DEF Touring
  <2>. HIDE DEF v1, v2, v3, v4
  <2>. QED  BY <2>3 DEF Toured
<1>5. /\ S = ((Q1 \cup Q2) \cup Q3) \cup Q4
      /\ Q1 \cap Q2 = {} /\ (Q1 \cup Q2) \cap Q3 = {}
      /\ ((Q1 \cup Q2) \cup Q3) \cap Q4 = {}
  <2>. HIDE DEF h
  <2>. QED  BY <1>1, QuadrantsCover
<1>6. /\ Near(Moved(p, h - 1, dy), second)
      /\ Near(Moved(second, h - 1, dx), third)
      /\ Near(Moved(third, h - 1, dx), fourth)
      /\ Moved(fourth, h - 1, Opposite(dy)) = Moved(p, n - 1, dx)
  <2>. HIDE DEF h
  <2>. QED  BY <1>1, QuadrantsMeet
<1>7. v1 \in Seq(Vector) /\ v2 \in Seq(Vector) /\ v3 \in Seq(Vector) /\ v4 \in Seq(Vector)
  <2>1. G \subseteq Vector
    BY DEF Grid
  <2>. HIDE DEF v1, v2, v3, v4, Q1, Q2, Q3, Q4, G
  <2>. QED  BY <1>4, <2>1 DEF Tour
<1>. HIDE DEF v1, v2, v3, v4, v, Q1, Q2, Q3, Q4, S, G, second, third, fourth, h
<1>8. Tour(v, S \cap G)
  <2>1. Tour(v1 \o v2, (Q1 \cup Q2) \cap G)
    <3>1. (Q1 \cap G) \cap (Q2 \cap G) = {}
      BY <1>5
    <3>2. Tour(v1 \o v2, (Q1 \cap G) \cup (Q2 \cap G))
      BY <1>4, <3>1, ToursJoined
    <3>3. (Q1 \cup Q2) \cap G = (Q1 \cap G) \cup (Q2 \cap G)
      OBVIOUS
    <3>. QED  BY <3>2, <3>3
  <2>2. Tour((v1 \o v2) \o v3, ((Q1 \cup Q2) \cup Q3) \cap G)
    <3>1. ((Q1 \cup Q2) \cap G) \cap (Q3 \cap G) = {}
      BY <1>5
    <3>2. Tour((v1 \o v2) \o v3, ((Q1 \cup Q2) \cap G) \cup (Q3 \cap G))
      BY <1>4, <2>1, <3>1, ToursJoined
    <3>3. ((Q1 \cup Q2) \cup Q3) \cap G = ((Q1 \cup Q2) \cap G) \cup (Q3 \cap G)
      OBVIOUS
    <3>. QED  BY <3>2, <3>3
  <2>3. Tour(((v1 \o v2) \o v3) \o v4, (((Q1 \cup Q2) \cup Q3) \cup Q4) \cap G)
    <3>1. (((Q1 \cup Q2) \cup Q3) \cap G) \cap (Q4 \cap G) = {}
      BY <1>5
    <3>2. Tour(((v1 \o v2) \o v3) \o v4, (((Q1 \cup Q2) \cup Q3) \cap G) \cup (Q4 \cap G))
      BY <1>4, <2>2, <3>1, ToursJoined
    <3>3. (((Q1 \cup Q2) \cup Q3) \cup Q4) \cap G
             = (((Q1 \cup Q2) \cup Q3) \cap G) \cup (Q4 \cap G)
      OBVIOUS
    <3>. QED  BY <3>2, <3>3
  <2>. QED  BY <1>3, <1>5, <2>3
<1>9. ASSUME S \subseteq G
      PROVE  Len(v) > 0 /\ Connected(v) /\ v[1] = p /\ v[Len(v)] = Moved(p, n - 1, dx)
  <2>1. Q1 \subseteq G /\ Q2 \subseteq G /\ Q3 \subseteq G /\ Q4 \subseteq G
    BY <1>5, <1>9
  <2>2. /\ Len(v1) > 0 /\ Connected(v1) /\ v1[1] = p
        /\ Len(v2) > 0 /\ Connected(v2) /\ Near(v1[Len(v1)], v2[1])
        /\ Len(v3) > 0 /\ Connected(v3) /\ Near(v2[Len(v2)], v3[1])
        /\ Len(v4) > 0 /\ Connected(v4) /\ Near(v3[Len(v3)], v4[1])
        /\ v4[Len(v4)] = Moved(p, n - 1, dx)
    BY <1>4, <1>6, <2>1
  <2>. DEFINE u == v1 \o v2
              w == u \o v3
  <2>3. u \in Seq(Vector) /\ Len(u) > 0 /\ Connected(u) /\ u[1] = p /\ u[Len(u)] = v2[Len(v2)]
    BY <1>7, <2>2, PathsJoined
  <2>. HIDE DEF u
  <2>4. w \in Seq(Vector) /\ Len(w) > 0 /\ Connected(w) /\ w[1] = p /\ w[Len(w)] = v3[Len(v3)]
    <3>1. Near(u[Len(u)], v3[1])
      BY <2>2, <2>3
    <3>. QED  BY <1>7, <2>2, <2>3, <3>1, PathsJoined
  <2>. HIDE DEF w
  <2>5. v = w \o v4
    BY <1>3 DEF u, w
  <2>6. Near(w[Len(w)], v4[1])
    BY <2>2, <2>4
  <2>7. Len(v) > 0 /\ Connected(v) /\ v[1] = w[1] /\ v[Len(v)] = v4[Len(v4)]
    BY <1>7, <2>2, <2>4, <2>5, <2>6, PathsJoined
  <2>. QED  BY <2>2, <2>4, <2>7
<1>. QED  BY <1>8, <1>9 DEF v, S, G, Toured

\* A square whose side is a power of two is toured.
LEMMA PowersToured ==
    ASSUME NEW X \in Nat, NEW Y \in Nat
    PROVE  \A n \in Nat \ {0} : IsPowerOfTwo(n) => Touring(X, Y, n)
<1>. DEFINE Untoured == {n \in Nat \ {0} : IsPowerOfTwo(n) /\ ~Touring(X, Y, n)}
<1>. SUFFICES ASSUME Untoured # {} PROVE FALSE
  OBVIOUS
<1>1. PICK n \in Untoured : \A k \in Untoured : n <= k
  BY LeastOf
<1>2. n # 1
  BY <1>1, SingleTileToured
<1>3. n \in Nat /\ n > 1
  BY <1>1, <1>2
<1>4. n = 2 * (n \div 2) /\ IsPowerOfTwo(n \div 2)
  BY <1>1, <1>3, HalfOfPower
<1>5. n \div 2 \in Nat \ {0} /\ n \div 2 < n
  BY <1>3, HalfIsSmaller
<1>6. Touring(X, Y, n \div 2)
  <2>. DEFINE h == n \div 2
  <2>. HIDE DEF h
  <2>1. h \in Nat \ {0} /\ ~(n <= h) /\ IsPowerOfTwo(h)
    BY <1>3, <1>4, <1>5 DEF h
  <2>2. Touring(X, Y, h)
    BY <1>1, <2>1
  <2>. QED  BY <2>2 DEF h
<1>7. Touring(X, Y, n)
  BY <1>3, <1>4, <1>6, SquareToured
<1>. QED  BY <1>1, <1>7

-----------------------------------------------------------------------------
(* Tiles and their indices. *)

Tiles(m, n) == (0 .. m - 1) \X (0 .. n - 1)

IndexOf(q, m) == q[2] * m + q[1]

LEMMA IndexDivided ==
    ASSUME NEW m \in Nat \ {0}, NEW a \in 0 .. m - 1, NEW b \in Nat
    PROVE  (b * m + a) % m = a /\ (b * m + a) \div m = b
<1>1. b * m \in Nat /\ b * m + a \in Nat
  OBVIOUS
<1>2. b * m + a = m * b + a
  OBVIOUS
<1>. QED  BY <1>1, <1>2

LEMMA IndexBounded ==
    ASSUME NEW m \in Nat \ {0}, NEW n \in Nat \ {0}, NEW q \in Tiles(m, n)
    PROVE  /\ IndexOf(q, m) \in 0 .. m * n - 1
           /\ IndexOf(q, m) % m = q[1] /\ IndexOf(q, m) \div m = q[2]
<1>1. q[1] \in 0 .. m - 1 /\ q[2] \in 0 .. n - 1
  BY DEF Tiles
<1>. DEFINE b == q[2]
            k == n - 1 - b
<1>2. b \in Nat /\ k \in Nat /\ n = b + 1 + k
  BY <1>1
<1>. HIDE DEF b, k
<1>3. b * m \in Nat /\ k * m \in Nat /\ m * n = b * m + m + k * m
  BY <1>2
<1>4. b * m + q[1] \in 0 .. m * n - 1
  <2>1. m * n \in Int
    OBVIOUS
  <2>. QED  BY <1>1, <1>3, <2>1
<1>. QED  BY <1>1, <1>2, <1>4, IndexDivided DEF IndexOf, b

LEMMA EveryIndex ==
    ASSUME NEW m \in Nat \ {0}, NEW n \in Nat \ {0}, NEW t \in 0 .. m * n - 1
    PROVE  <<t % m, t \div m>> \in Tiles(m, n) /\ IndexOf(<<t % m, t \div m>>, m) = t
<1>. DEFINE a == t % m
            b == t \div m
<1>1. m * n \in Nat /\ t \in Nat /\ t < m * n
  OBVIOUS
<1>2. a \in 0 .. m - 1 /\ b \in Nat /\ t = m * b + a
  BY <1>1
<1>. HIDE DEF a, b
<1>3. b < n
  <2>. SUFFICES ASSUME b >= n PROVE FALSE
    BY <1>2
  <2>. DEFINE k == b - n
  <2>1. k \in Nat /\ b = n + k
    BY <1>2
  <2>. HIDE DEF k
  <2>2. m * b = m * n + m * k /\ m * k \in Nat
    BY <2>1
  <2>. QED  BY <1>1, <1>2, <2>2
<1>4. b * m + a = t
  BY <1>2
<1>. QED  BY <1>2, <1>3, <1>4 DEF Tiles, IndexOf, a, b

-----------------------------------------------------------------------------
(* What hilbert_ordering() promises. *)

\* The tiles that the root square covers are those of the grid.
LEMMA RootSquare ==
    ASSUME NEW m \in Nat \ {0}, NEW n \in Nat \ {0}, NEW r \in Nat, m <= r, n <= r
    PROVE  LET S == Square(r, <<0, 0>>, <<1, 0>>, <<0, 1>>)
           IN  /\ S \cap Grid(m, n) = Tiles(m, n)
               /\ m = r /\ n = r => S \subseteq Grid(m, n)
<1>. DEFINE S == Square(r, <<0, 0>>, <<1, 0>>, <<0, 1>>)
<1>1. ASSUME NEW q \in Vector
      PROVE  /\ q \in S <=> q[1] \in 0 .. r - 1 /\ q[2] \in 0 .. r - 1
             /\ q \in Grid(m, n) <=> q[1] < m /\ q[2] < n
             /\ q \in Tiles(m, n) <=> q[1] \in 0 .. m - 1 /\ q[2] \in 0 .. n - 1
             /\ q[1] \in Int /\ q[2] \in Int
  <2>1. q[1] \in Int /\ q[2] \in Int
    BY DEF Vector
  <2>2. Along(q, <<0, 0>>, <<1, 0>>) = q[1] /\ Along(q, <<0, 0>>, <<0, 1>>) = q[2]
    BY <2>1 DEF Along
  <2>3. q \in S <=> q[1] \in 0 .. r - 1 /\ q[2] \in 0 .. r - 1
    BY <2>2 DEF Square
  <2>4. q \in Tiles(m, n) <=> q[1] \in 0 .. m - 1 /\ q[2] \in 0 .. n - 1
    BY DEF Tiles, Vector
  <2>. QED  BY <2>1, <2>3, <2>4 DEF Grid
<1>2. S \subseteq Vector /\ Grid(m, n) \subseteq Vector /\ Tiles(m, n) \subseteq Vector
  BY DEF Square, Grid, Tiles, Vector
<1>. HIDE DEF S
<1>3. \A k \in Int : (k \in 0 .. r - 1 /\ k < m <=> k \in 0 .. m - 1)
                     /\ (k \in 0 .. r - 1 /\ k < n <=> k \in 0 .. n - 1)
  OBVIOUS
<1>4. S \cap Grid(m, n) = Tiles(m, n)
  BY <1>1, <1>2, <1>3
<1>5. ASSUME m = r, n = r PROVE S \subseteq Grid(m, n)
  BY <1>1, <1>2, <1>5
<1>. QED  BY <1>4, <1>5 DEF S

\* hilbert_ordering() visits every tile of a grid once, whatever its sides, and goes from
\* neighbour to neighbour in a square whose side is a power of two.
THEOREM HilbertOrderingVisits ==
    ASSUME NEW m \in Nat \ {0}, NEW n \in Nat \ {0}
    PROVE  LET tour == HilbertOrdering(m, n)
               Distance(i, j) == Abs((i % m) - (j % m)) + Abs((i \div m) - (j \div m))
           IN  /\ tour \in [1 .. m * n -> 0 .. m * n - 1]
               /\ \A t \in 0 .. m * n - 1 : \E i \in 1 .. m * n : tour[i] = t
               /\ \A i, j \in 1 .. m * n : tour[i] = tour[j] => i = j
               /\ m = n /\ IsPowerOfTwo(m) =>
                     \A i \in 1 .. m * n - 1 : Distance(tour[i], tour[i + 1]) = 1
<1>. DEFINE r == NextPowerOfTwo(Larger(m, n))
            v == Hilbert(m, n)[r][<<<<0, 0>>, <<1, 0>>, <<0, 1>>>>]
            tour == HilbertOrdering(m, n)
            Distance(i, j) == Abs((i % m) - (j % m)) + Abs((i \div m) - (j \div m))
            S == Square(r, <<0, 0>>, <<1, 0>>, <<0, 1>>)
<1>1. r \in Nat \ {0} /\ m <= r /\ n <= r /\ IsPowerOfTwo(r)
  <2>. DEFINE l == Larger(m, n)
  <2>1. l \in Nat \ {0} /\ m <= l /\ n <= l
    BY DEF Larger
  <2>. HIDE DEF l
  <2>2. r \in l .. 2 * l /\ IsPowerOfTwo(r)
    BY <2>1, NextPowerFound DEF l
  <2>. HIDE DEF r
  <2>. QED  BY <2>1, <2>2
<1>2. tour = [i \in 1 .. Len(v) |-> IndexOf(v[i], m)]
  BY DEF HilbertOrdering, IndexOf
<1>. HIDE DEF r
<1>3. Toured(v, m, n, r, <<0, 0>>, <<1, 0>>, <<0, 1>>)
  <2>1. <<0, 0>> \in Vector /\ <<1, 0>> \in Vector /\ <<0, 1>> \in Vector
    BY DEF Vector
  <2>2. <<<<1, 0>>, <<0, 1>>>> \in Directions
    BY DEF Directions, Horizontal, Vertical
  <2>3. Touring(m, n, r)
    BY <1>1, PowersToured
  <2>. QED  BY <2>1, <2>2, <2>3 DEF Touring
<1>4. Tour(v, Tiles(m, n))
  BY <1>1, <1>3, RootSquare DEF Toured
<1>. HIDE DEF v, tour
<1>. DEFINE l == Len(v)
<1>5. l \in Nat /\ \A i \in 1 .. l : v[i] \in Tiles(m, n)
  BY <1>4 DEF Tour
<1>. HIDE DEF l
<1>6. ASSUME NEW i \in 1 .. l
      PROVE  /\ tour[i] = IndexOf(v[i], m) /\ tour[i] \in 0 .. m * n - 1
             /\ tour[i] % m = v[i][1] /\ tour[i] \div m = v[i][2]
  <2>1. tour[i] = IndexOf(v[i], m)
    BY <1>2 DEF l
  <2>. QED  BY <1>5, <2>1, IndexBounded
<1>7. \A t \in 0 .. m * n - 1 : \E i \in 1 .. l : tour[i] = t
  <2>. TAKE t \in 0 .. m * n - 1
  <2>. DEFINE q == <<t % m, t \div m>>
  <2>1. q \in Tiles(m, n) /\ IndexOf(q, m) = t
    BY EveryIndex
  <2>. HIDE DEF q
  <2>2. PICK i \in 1 .. l : v[i] = q
    BY <1>4, <2>1 DEF Tour, l
  <2>. QED  BY <1>6, <2>1, <2>2
<1>8. \A i, j \in 1 .. l : tour[i] = tour[j] => i = j
  <2>. TAKE i \in 1 .. l, j \in 1 .. l
  <2>. HAVE tour[i] = tour[j]
  <2>1. v[i][1] = v[j][1] /\ v[i][2] = v[j][2]
    BY <1>6
  <2>2. v[i] = v[j]
    BY <1>5, <2>1 DEF Tiles
  <2>. QED  BY <1>4, <2>2 DEF Tour, l
<1>9. tour \in [1 .. l -> 0 .. m * n - 1]
  BY <1>2, <1>6 DEF l
<1>10. l = m * n
  <2>. DEFINE k == m * n
  <2>1. k \in Nat
    OBVIOUS
  <2>. HIDE DEF k
  <2>2. tour \in Bijection(1 .. l, 0 .. k - 1)
    BY <1>7, <1>8, <1>9 DEF k, Bijection, Injection, Surjection, IsInjective
  <2>3. IsFiniteSet(1 .. l) /\ Cardinality(1 .. l) = l
    <3>1. 1 \in Int /\ l \in Int
      BY <1>5
    <3>. QED  BY <1>5, <3>1, FS_Interval
  <2>4. Cardinality(0 .. k - 1) = k
    <3>1. 0 \in Int /\ k - 1 \in Int
      BY <2>1
    <3>. QED  BY <2>1, <3>1, FS_Interval
  <2>5. Cardinality(1 .. l) = Cardinality(0 .. k - 1)
    BY <2>2, <2>3, FS_Bijection DEF ExistsBijection
  <2>. QED  BY <2>3, <2>4, <2>5 DEF k
<1>11. ASSUME m = n, IsPowerOfTwo(m), NEW i \in 1 .. l - 1
       PROVE  Distance(tour[i], tour[i + 1]) = 1
  <2>1. r = m
    <3>1. Larger(m, n) = m
      BY <1>11 DEF Larger
    <3>. QED  BY <1>11, <3>1, NextPowerOfPower DEF r
  <2>2. Connected(v)
    BY <1>1, <1>3, <1>11, <2>1, RootSquare DEF Toured
  <2>3. Near(v[i], v[i + 1])
    BY <2>2 DEF Connected, l
  <2>4. i \in 1 .. l /\ i + 1 \in 1 .. l
    BY <1>5
  <2>. QED  BY <1>6, <2>3, <2>4 DEF Near
<1>. QED  BY <1>7, <1>8, <1>9, <1>10, <1>11 DEF tour

-----------------------------------------------------------------------------
(* The entries of a sequence that lie in a set. *)

\* The sequence of the first n entries, when that of the first n - 1 is given by f.
NextEntries(s, S, f, n) ==
    IF n = 0 THEN <<>>
    ELSE IF s[n] \in S THEN Append(f[n - 1], s[n]) ELSE f[n - 1]

EntriesUpTo(s, S, n, f) == \A i \in 0 .. n : f[i] = NextEntries(s, S, f, i)

LEMMA EntriesExist ==
    ASSUME NEW s, NEW S
    PROVE  \A n \in Nat : \E f : f = [i \in 0 .. n |-> NextEntries(s, S, f, i)]
<1>. DEFINE Missing == {n \in Nat : ~ \E f : EntriesUpTo(s, S, n, f)}
<1>1. ASSUME Missing # {} PROVE FALSE
  <2>1. PICK n \in Missing : \A k \in Missing : n <= k
    BY <1>1, LeastOf
  <2>2. n # 0
    <3>. DEFINE f == [i \in {0} |-> <<>>]
    <3>1. EntriesUpTo(s, S, 0, f)
      BY DEF EntriesUpTo, NextEntries
    <3>. QED  BY <2>1, <3>1
  <2>3. n - 1 \in Nat /\ n - 1 \notin Missing
    BY <2>1, <2>2
  <2>4. PICK f : EntriesUpTo(s, S, n - 1, f)
    BY <2>3
  <2>. DEFINE g == [i \in 0 .. n |-> IF i = n THEN NextEntries(s, S, f, n) ELSE f[i]]
  <2>5. ASSUME NEW i \in 0 .. n PROVE g[i] = NextEntries(s, S, g, i)
    <3>1. i # 0 => i - 1 \in 0 .. n - 1 /\ i - 1 \in 0 .. n /\ i - 1 # n
      BY <2>1
    <3>2. i # 0 => g[i - 1] = f[i - 1]
      BY <3>1
    <3>3. NextEntries(s, S, g, i) = NextEntries(s, S, f, i)
      <4>. HIDE DEF g
      <4>. QED  BY <3>2 DEF NextEntries
    <3>4. CASE i = n
      BY <3>3, <3>4
    <3>5. CASE i # n
      <4>1. f[i] = NextEntries(s, S, f, i)
        BY <2>1, <2>4, <3>5 DEF EntriesUpTo
      <4>. QED  BY <3>3, <3>5, <4>1
    <3>. QED  BY <3>4, <3>5
  <2>6. EntriesUpTo(s, S, n, g)
    BY <2>5 DEF EntriesUpTo
  <2>. QED  BY <2>1, <2>6
<1>2. ASSUME NEW n \in Nat PROVE \E f : f = [i \in 0 .. n |-> NextEntries(s, S, f, i)]
  <2>1. PICK f : EntriesUpTo(s, S, n, f)
    BY <1>1
  <2>. DEFINE g == [i \in 0 .. n |-> f[i]]
  <2>2. \A i \in 0 .. n : NextEntries(s, S, g, i) = NextEntries(s, S, f, i)
    <3>. TAKE i \in 0 .. n
    <3>1. i # 0 => i - 1 \in 0 .. n
      OBVIOUS
    <3>2. i # 0 => g[i - 1] = f[i - 1]
      BY <3>1
    <3>. HIDE DEF g
    <3>. QED  BY <3>2 DEF NextEntries
  <2>3. g = [i \in 0 .. n |-> NextEntries(s, S, g, i)]
    <3>1. \A i \in 0 .. n : f[i] = NextEntries(s, S, g, i)
      BY <2>1, <2>2 DEF EntriesUpTo
    <3>. QED  BY <3>1
  <2>. QED  BY <2>3
<1>. QED  BY <1>2

\* e holds the entries of the first n of s that lie in S.
Picks(e, s, n, S, T) ==
    /\ e \in Seq(S \cap T)
    /\ \A j \in 1 .. n : s[j] \in S => \E k \in 1 .. Len(e) : e[k] = s[j]
    /\ \A k \in 1 .. Len(e) : \E j \in 1 .. n : e[k] = s[j]
    /\ (\A i, j \in 1 .. n : s[i] = s[j] => i = j) =>
          \A k, l \in 1 .. Len(e) : e[k] = e[l] => k = l

\* One more entry.
LEMMA OneMoreEntry ==
    ASSUME NEW T, NEW s \in Seq(T), NEW S, NEW n \in 1 .. Len(s), NEW e,
           Picks(e, s, n - 1, S, T)
    PROVE  Picks(IF s[n] \in S THEN Append(e, s[n]) ELSE e, s, n, S, T)
<1>. DEFINE m == Len(e)
            g == Append(e, s[n])
<1>1. e \in Seq(S \cap T) /\ m \in Nat /\ n \in Nat \ {0} /\ s[n] \in T
  BY DEF Picks
<1>2. \A j \in 1 .. n : j = n \/ j \in 1 .. n - 1
  BY <1>1
<1>3. \A j \in 1 .. n - 1 : j \in 1 .. n /\ j # n
  BY <1>1
<1>4. CASE s[n] \notin S
  <2>1. \A j \in 1 .. n : s[j] \in S => \E k \in 1 .. Len(e) : e[k] = s[j]
    BY <1>2, <1>4 DEF Picks
  <2>2. \A k \in 1 .. Len(e) : \E j \in 1 .. n : e[k] = s[j]
    BY <1>3 DEF Picks
  <2>3. (\A i, j \in 1 .. n : s[i] = s[j] => i = j) =>
            \A k, l \in 1 .. Len(e) : e[k] = e[l] => k = l
    BY <1>3 DEF Picks
  <2>. QED  BY <1>1, <1>4, <2>1, <2>2, <2>3 DEF Picks
<1>5. CASE s[n] \in S
  <2>1. g \in Seq(S \cap T) /\ Len(g) = m + 1 /\ g[m + 1] = s[n]
    BY <1>1, <1>5
  <2>2. \A k \in 1 .. m : g[k] = e[k]
    BY <1>1, <1>5
  <2>3. \A k : k \in 1 .. m + 1 <=> k \in 1 .. m \/ k = m + 1
    BY <1>1
  <2>. HIDE DEF m, g
  <2>4. \A j \in 1 .. n : s[j] \in S => \E k \in 1 .. Len(g) : g[k] = s[j]
    <3>. TAKE j \in 1 .. n
    <3>. HAVE s[j] \in S
    <3>1. CASE j = n
      BY <2>1, <2>3, <3>1
    <3>2. CASE j \in 1 .. n - 1
      <4>1. PICK k \in 1 .. m : e[k] = s[j]
        BY <3>2 DEF Picks, m
      <4>. QED  BY <2>1, <2>2, <2>3, <4>1
    <3>. QED  BY <1>2, <3>1, <3>2
  <2>5. ASSUME NEW k \in 1 .. m PROVE \E j \in 1 .. n - 1 : g[k] = s[j]
    BY <2>2 DEF Picks, m
  <2>6. \A k \in 1 .. Len(g) : \E j \in 1 .. n : g[k] = s[j]
    <3>. TAKE k \in 1 .. Len(g)
    <3>1. CASE k = m + 1
      BY <1>1, <2>1, <3>1
    <3>2. CASE k \in 1 .. m
      BY <1>3, <2>5, <3>2
    <3>. QED  BY <2>1, <2>3, <3>1, <3>2
  <2>7. ASSUME \A i, j \in 1 .. n : s[i] = s[j] => i = j,
               NEW k \in 1 .. Len(g), NEW l \in 1 .. Len(g), g[k] = g[l]
        PROVE  k = l
    <3>1. ASSUME NEW i \in 1 .. m PROVE g[i] # s[n]
      <4>1. PICK j \in 1 .. n - 1 : g[i] = s[j]
        BY <2>5
      <4>2. j \in 1 .. n /\ n \in 1 .. n /\ j # n
        BY <1>1, <1>3
      <4>. QED  BY <2>7, <4>1, <4>2
    <3>2. CASE k \in 1 .. m /\ l \in 1 .. m
      <4>1. e[k] = e[l]
        BY <2>2, <2>7, <3>2
      <4>2. \A i, j \in 1 .. n - 1 : s[i] = s[j] => i = j
        BY <1>3, <2>7
      <4>. QED  BY <3>2, <4>1, <4>2 DEF Picks, m
    <3>3. CASE k = m + 1
      BY <2>1, <2>3, <2>7, <3>1, <3>3
    <3>4. CASE l = m + 1
      BY <2>1, <2>3, <2>7, <3>1, <3>4
    <3>. QED  BY <2>1, <2>3, <3>2, <3>3, <3>4
  <2>8. Picks(g, s, n, S, T)
    BY <2>1, <2>4, <2>6, <2>7 DEF Picks
  <2>. QED  BY <1>5, <2>8 DEF g
<1>. QED  BY <1>4, <1>5

\* The loop over a sequence picks its entries in a set.
LEMMA EntriesPicked ==
    ASSUME NEW T, NEW s \in Seq(T), NEW S
    PROVE  Picks(EntriesIn(s, S), s, Len(s), S, T)
<1>. DEFINE n == Len(s)
            IsLoop(f) == f = [i \in 0 .. n |-> NextEntries(s, S, f, i)]
            loop == CHOOSE f : IsLoop(f)
<1>1. n \in Nat
  OBVIOUS
<1>2. EntriesIn(s, S) = loop[n]
  BY DEF EntriesIn, NextEntries
<1>. HIDE DEF n
<1>3. IsLoop(loop)
  <2>1. \E f : IsLoop(f)
    BY <1>1, EntriesExist
  <2>. HIDE DEF IsLoop
  <2>. QED  BY <2>1
<1>. HIDE DEF loop
<1>4. ASSUME NEW i \in 0 .. n PROVE loop[i] = NextEntries(s, S, loop, i)
  BY <1>3
<1>. HIDE DEF IsLoop
<1>. DEFINE Wrong == {i \in 0 .. n : ~Picks(loop[i], s, i, S, T)}
<1>5. ASSUME Wrong # {} PROVE FALSE
  <2>1. Wrong \in SUBSET Nat
    BY <1>1
  <2>2. PICK i \in Wrong : \A k \in Wrong : i <= k
    BY <1>5, <2>1, LeastOf
  <2>3. i \in 0 .. n /\ loop[i] = NextEntries(s, S, loop, i)
    BY <1>4, <2>2
  <2>4. CASE i = 0
    <3>1. loop[0] = <<>>
      BY <2>3, <2>4 DEF NextEntries
    <3>2. Picks(<<>>, s, 0, S, T)
      BY DEF Picks
    <3>. QED  BY <2>2, <2>4, <3>1, <3>2
  <2>5. CASE i # 0
    <3>1. i - 1 \in 0 .. n /\ ~ (i <= i - 1) /\ i \in 1 .. n
      BY <1>1, <2>3, <2>5
    <3>2. Picks(loop[i - 1], s, i - 1, S, T)
      BY <2>2, <3>1
    <3>3. loop[i] = IF s[i] \in S THEN Append(loop[i - 1], s[i]) ELSE loop[i - 1]
      BY <2>3, <2>5 DEF NextEntries
    <3>4. Picks(loop[i], s, i, S, T)
      BY <3>1, <3>2, <3>3, OneMoreEntry DEF n
    <3>. QED  BY <2>2, <3>4
  <2>. QED  BY <2>4, <2>5
<1>6. n \in 0 .. n
  BY <1>1
<1>7. Picks(loop[n], s, n, S, T)
  BY <1>5, <1>6
<1>. QED  BY <1>2, <1>7 DEF n

-----------------------------------------------------------------------------
(* Tiles cut a canvas into pieces. *)

LEMMA RoundedUpBounds ==
    ASSUME NEW a \in Nat \ {0}, NEW b \in Nat \ {0}
    PROVE  /\ RoundedUp(a, b) \in Nat \ {0}
           /\ b * (RoundedUp(a, b) - 1) < a /\ a <= b * RoundedUp(a, b)
<1>. DEFINE q == RoundedUp(a, b)
            r == (a + b - 1) % b
<1>1. q \in Nat /\ r \in 0 .. b - 1 /\ a + b - 1 = b * q + r
  BY DEF RoundedUp
<1>. HIDE DEF q, r
<1>2. b * q \in Int /\ b * (q - 1) = b * q - b
  BY <1>1
<1>3. b * (q - 1) < a /\ a <= b * q
  BY <1>1, <1>2
<1>4. q # 0
  BY <1>1, <1>3
<1>. QED  BY <1>1, <1>3, <1>4 DEF q

\* The piece x, of length d, of a side of length a that is cut into pieces of length b.
Piece(a, b, x, d) ==
    /\ d \in 1 .. b
    /\ \A k \in 0 .. d - 1 : /\ b * x + k \in 0 .. a - 1
                             /\ (b * x + k) \div b = x /\ (b * x + k) % b = k

LEMMA PieceCovers ==
    ASSUME NEW a \in Nat \ {0}, NEW b \in Nat \ {0}, NEW x \in 0 .. RoundedUp(a, b) - 1
    PROVE  Piece(a, b, x, Smaller(a - x * b, b))
<1>. DEFINE n == RoundedUp(a, b)
            d == Smaller(a - x * b, b)
<1>1. n \in Nat /\ b * (n - 1) < a
  BY RoundedUpBounds
<1>. HIDE DEF n
<1>2. x \in Nat /\ (n - 1) - x \in Nat
  BY <1>1 DEF n
<1>3. b * ((n - 1) - x) \in Nat /\ b * (n - 1) = b * x + b * ((n - 1) - x) /\ b * x \in Nat
  BY <1>1, <1>2
<1>4. b * x < a /\ x * b = b * x
  BY <1>1, <1>2, <1>3
<1>5. d \in 1 .. b /\ d <= a - b * x
  BY <1>3, <1>4 DEF Smaller
<1>. HIDE DEF d
<1>6. ASSUME NEW k \in 0 .. d - 1
      PROVE  b * x + k \in 0 .. a - 1 /\ (b * x + k) \div b = x /\ (b * x + k) % b = k
  <2>1. k \in 0 .. b - 1 /\ b * x + k \in 0 .. a - 1
    BY <1>3, <1>5
  <2>2. (x * b + k) % b = k /\ (x * b + k) \div b = x
    BY <1>2, <2>1, IndexDivided
  <2>. QED  BY <1>4, <2>1, <2>2
<1>. QED  BY <1>5, <1>6 DEF d, Piece

\* Every position of the side lies in a piece.
LEMMA PieceFound ==
    ASSUME NEW a \in Nat \ {0}, NEW b \in Nat \ {0}, NEW k \in 0 .. a - 1
    PROVE  LET x == k \div b
           IN  /\ x \in 0 .. RoundedUp(a, b) - 1
               /\ k % b \in 0 .. Smaller(a - x * b, b) - 1 /\ k = b * x + (k % b)
<1>. DEFINE n == RoundedUp(a, b)
            x == k \div b
            r == k % b
<1>1. n \in Nat /\ a <= b * n
  BY RoundedUpBounds
<1>2. x \in Nat /\ r \in 0 .. b - 1 /\ k = b * x + r
  OBVIOUS
<1>. HIDE DEF n, x, r
<1>3. x < n
  <2>. SUFFICES ASSUME x >= n PROVE FALSE
    BY <1>1, <1>2
  <2>. DEFINE j == x - n
  <2>1. j \in Nat /\ x = n + j
    BY <1>1, <1>2
  <2>. HIDE DEF j
  <2>2. b * x = b * n + b * j /\ b * j \in Nat /\ b * n \in Nat
    BY <1>1, <2>1
  <2>. QED  BY <1>1, <1>2, <2>2
<1>4. x * b = b * x /\ b * x \in Nat
  BY <1>2
<1>5. r \in 0 .. Smaller(a - x * b, b) - 1
  BY <1>2, <1>4 DEF Smaller
<1>. QED  BY <1>1, <1>2, <1>3, <1>5 DEF n, x, r

CanvasShapes == [width : Nat \ {0}, height : Nat \ {0},
                 tileWidth : Nat \ {0}, tileHeight : Nat \ {0}]

PixelsOfCanvas(c) == (0 .. c.width - 1) \X (0 .. c.height - 1)

\* The position of a tile in its row and column.
LEMMA TilePosition ==
    ASSUME NEW c \in CanvasShapes
    PROVE  /\ TileCountX(c) \in Nat \ {0} /\ TileCountY(c) \in Nat \ {0}
           /\ TileCount(c) \in Nat \ {0}
           /\ \A t \in 0 .. TileCount(c) - 1 :
                 /\ t % TileCountX(c) \in 0 .. TileCountX(c) - 1
                 /\ t \div TileCountX(c) \in 0 .. TileCountY(c) - 1
                 /\ t = (t \div TileCountX(c)) * TileCountX(c) + (t % TileCountX(c))
           /\ \A x \in 0 .. TileCountX(c) - 1, y \in 0 .. TileCountY(c) - 1 :
                 LET t == y * TileCountX(c) + x
                 IN  /\ t \in 0 .. TileCount(c) - 1
                     /\ t % TileCountX(c) = x /\ t \div TileCountX(c) = y
<1>. DEFINE m == TileCountX(c)
            n == TileCountY(c)
<1>1. m \in Nat \ {0} /\ n \in Nat \ {0}
  BY RoundedUpBounds DEF CanvasShapes, TileCountX, TileCountY
<1>2. TileCount(c) = m * n
  BY DEF TileCount
<1>. HIDE DEF m, n
<1>3. m * n \in Nat \ {0}
  BY <1>1
<1>4. ASSUME NEW t \in 0 .. m * n - 1
      PROVE  t % m \in 0 .. m - 1 /\ t \div m \in 0 .. n - 1 /\ t = (t \div m) * m + (t % m)
  BY <1>1, EveryIndex DEF Tiles, IndexOf
<1>5. ASSUME NEW x \in 0 .. m - 1, NEW y \in 0 .. n - 1
      PROVE  y * m + x \in 0 .. m * n - 1 /\ (y * m + x) % m = x /\ (y * m + x) \div m = y
  <2>1. <<x, y>> \in Tiles(m, n)
    BY DEF Tiles
  <2>. QED  BY <1>1, <2>1, IndexBounded DEF IndexOf
<1>. QED  BY <1>1, <1>2, <1>3, <1>4, <1>5 DEF m, n

\* The pixels of a tile are those of the canvas whose coordinates say so, each once.
LEMMA PixelsOfOneTile ==
    ASSUME NEW c \in CanvasShapes, NEW t \in 0 .. TileCount(c) - 1
    PROVE  LET x == t % TileCountX(c)
               y == t \div TileCountX(c)
               pixels == PixelsOfTile(c, t)
           IN  /\ pixels \in Seq(PixelsOfCanvas(c))
               /\ \A k \in 1 .. Len(pixels) : /\ pixels[k][1] \div c.tileWidth = x
                                              /\ pixels[k][2] \div c.tileHeight = y
               /\ \A k, l \in 1 .. Len(pixels) : pixels[k] = pixels[l] => k = l
               /\ \A p \in PixelsOfCanvas(c) :
                     p[1] \div c.tileWidth = x /\ p[2] \div c.tileHeight = y =>
                        \E k \in 1 .. Len(pixels) : pixels[k] = p
<1>. DEFINE m == c.tileWidth
            n == c.tileHeight
            x == t % TileCountX(c)
            y == t \div TileCountX(c)
            w == WidthOfTile(c, x)
            h == HeightOfTile(c, y)
            T == 0 .. m * n - 1
            inside == {i \in T : i % m < w /\ i \div m < h}
            all == HilbertOrdering(m, n)
            e == EntriesIn(all, inside)
            At(i) == <<m * x + (i % m), n * y + (i \div m)>>
            pixels == PixelsOfTile(c, t)
<1>1. m \in Nat \ {0} /\ n \in Nat \ {0} /\ c.width \in Nat \ {0} /\ c.height \in Nat \ {0}
  BY DEF CanvasShapes
<1>2. x \in 0 .. RoundedUp(c.width, m) - 1 /\ y \in 0 .. RoundedUp(c.height, n) - 1
  BY TilePosition DEF TileCountX, TileCountY
<1>3. pixels = [k \in 1 .. Len(e) |-> At(e[k])]
  BY DEF PixelsOfTile
<1>. HIDE DEF m, n, x, y, pixels
<1>4. /\ w \in 1 .. m
      /\ \A k \in 0 .. w - 1 : /\ m * x + k \in 0 .. c.width - 1
                               /\ (m * x + k) \div m = x /\ (m * x + k) % m = k
  <2>1. w = Smaller(c.width - x * m, m)
    BY DEF WidthOfTile, m
  <2>. HIDE DEF w
  <2>2. Piece(c.width, m, x, w)
    BY <1>1, <1>2, <2>1, PieceCovers
  <2>. QED  BY <2>2 DEF Piece
<1>5. /\ h \in 1 .. n
      /\ \A k \in 0 .. h - 1 : /\ n * y + k \in 0 .. c.height - 1
                               /\ (n * y + k) \div n = y /\ (n * y + k) % n = k
  <2>1. h = Smaller(c.height - y * n, n)
    BY DEF HeightOfTile, n
  <2>. HIDE DEF h
  <2>2. Piece(c.height, n, y, h)
    BY <1>1, <1>2, <2>1, PieceCovers
  <2>. QED  BY <2>2 DEF Piece
<1>. HIDE DEF w, h
<1>6. ASSUME NEW i \in inside
      PROVE  /\ i \in T /\ i % m \in 0 .. w - 1 /\ i \div m \in 0 .. h - 1
             /\ At(i) \in PixelsOfCanvas(c)
             /\ At(i)[1] \div m = x /\ At(i)[2] \div n = y
             /\ At(i)[1] % m = i % m /\ At(i)[2] % n = i \div m
             /\ i = (i \div m) * m + (i % m)
  <2>1. i \in T /\ i % m < w /\ i \div m < h
    OBVIOUS
  <2>2. <<i % m, i \div m>> \in Tiles(m, n) /\ IndexOf(<<i % m, i \div m>>, m) = i
    BY <1>1, <2>1, EveryIndex
  <2>3. i % m \in 0 .. m - 1 /\ i \div m \in 0 .. n - 1 /\ i = (i \div m) * m + (i % m)
    BY <2>2 DEF Tiles, IndexOf
  <2>4. i % m \in 0 .. w - 1 /\ i \div m \in 0 .. h - 1
    BY <1>4, <1>5, <2>1, <2>3
  <2>. DEFINE a == i % m
              b == i \div m
  <2>. HIDE DEF a, b, inside, T
  <2>5. /\ m * x + a \in 0 .. c.width - 1 /\ (m * x + a) \div m = x /\ (m * x + a) % m = a
        /\ n * y + b \in 0 .. c.height - 1 /\ (n * y + b) \div n = y /\ (n * y + b) % n = b
    BY <1>4, <1>5, <2>4 DEF a, b
  <2>6. At(i) = <<m * x + a, n * y + b>>
    BY DEF a, b
  <2>. HIDE DEF At
  <2>7. At(i)[1] = m * x + a /\ At(i)[2] = n * y + b /\ At(i) \in PixelsOfCanvas(c)
    BY <2>5, <2>6 DEF PixelsOfCanvas
  <2>8. At(i)[1] \div m = x /\ At(i)[2] \div n = y /\ At(i)[1] % m = a /\ At(i)[2] % n = b
    BY <2>5, <2>7, Zenon
  <2>. QED  BY <2>1, <2>3, <2>4, <2>7, <2>8 DEF a, b
<1>7. /\ all \in [1 .. m * n -> T]
      /\ \A i \in T : \E k \in 1 .. m * n : all[k] = i
      /\ \A i, j \in 1 .. m * n : all[i] = all[j] => i = j
  BY <1>1, HilbertOrderingVisits
<1>8. m * n \in Nat
  BY <1>1
<1>. HIDE DEF all, T
<1>9. all \in Seq(T) /\ Len(all) = m * n
  BY <1>7, <1>8
<1>10. Picks(e, all, m * n, inside, T)
  BY <1>9, EntriesPicked
<1>. HIDE DEF e
<1>11. e \in Seq(inside) /\ \A k \in 1 .. Len(e) : e[k] \in inside
  <2>1. e \in Seq(inside \cap T)
    BY <1>10 DEF Picks
  <2>2. inside \cap T = inside
    OBVIOUS
  <2>. HIDE DEF inside
  <2>3. e \in Seq(inside)
    BY <2>1, <2>2
  <2>. QED  BY <2>3
<1>12. \A k, l \in 1 .. Len(e) : e[k] = e[l] => k = l
  BY <1>7, <1>10 DEF Picks
<1>13. ASSUME NEW i \in inside PROVE \E k \in 1 .. Len(e) : e[k] = i
  <2>1. PICK j \in 1 .. m * n : all[j] = i
    BY <1>6, <1>7
  <2>. QED  BY <1>10, <2>1 DEF Picks
<1>. HIDE DEF inside
<1>14. Len(e) \in Nat
  BY <1>11
<1>. DEFINE l == Len(e)
<1>. HIDE DEF l
<1>15. \A k \in 1 .. l : e[k] \in inside /\ pixels[k] = At(e[k])
  BY <1>3, <1>11 DEF l
<1>16. pixels \in Seq(PixelsOfCanvas(c)) /\ Len(pixels) = l
  <2>1. pixels \in [1 .. l -> PixelsOfCanvas(c)]
    <3>. HIDE DEF At
    <3>. QED  BY <1>3, <1>6, <1>15 DEF l
  <2>2. l \in Nat
    BY <1>14 DEF l
  <2>. QED  BY <2>1, <2>2
<1>17. \A k \in 1 .. l : pixels[k][1] \div m = x /\ pixels[k][2] \div n = y
  <2>. HIDE DEF At
  <2>. QED  BY <1>6, <1>15
<1>18. \A j, k \in 1 .. l : pixels[j] = pixels[k] => j = k
  <2>. HIDE DEF At
  <2>. TAKE j \in 1 .. l, k \in 1 .. l
  <2>. HAVE pixels[j] = pixels[k]
  <2>1. At(e[j]) = At(e[k]) /\ e[j] \in inside /\ e[k] \in inside
    BY <1>15
  <2>2. e[j] % m = e[k] % m /\ e[j] \div m = e[k] \div m
    BY <1>6, <2>1, Zenon
  <2>3. e[j] = e[k]
    BY <1>6, <2>1, <2>2, Zenon
  <2>. QED  BY <1>12, <2>3 DEF l
<1>19. ASSUME NEW p \in PixelsOfCanvas(c), p[1] \div m = x, p[2] \div n = y
       PROVE  \E k \in 1 .. l : pixels[k] = p
  <2>. DEFINE a == p[1] % m
              b == p[2] % n
              i == b * m + a
  <2>1. p[1] \in 0 .. c.width - 1 /\ p[2] \in 0 .. c.height - 1 /\ p = <<p[1], p[2]>>
    BY DEF PixelsOfCanvas
  <2>2. a \in 0 .. w - 1 /\ p[1] = m * x + a
    BY <1>1, <1>19, <2>1, PieceFound DEF w, WidthOfTile, m
  <2>3. b \in 0 .. h - 1 /\ p[2] = n * y + b
    BY <1>1, <1>19, <2>1, PieceFound DEF h, HeightOfTile, n
  <2>. HIDE DEF a, b
  <2>4. a \in 0 .. m - 1 /\ b \in 0 .. n - 1
    <3>1. w \in 1 .. m /\ h \in 1 .. n
      BY <1>4, <1>5
    <3>2. a \in 0 .. w - 1 /\ b \in 0 .. h - 1
      BY <2>2, <2>3
    <3>. QED  BY <1>1, <3>1, <3>2
  <2>5. <<a, b>> \in Tiles(m, n) /\ i = IndexOf(<<a, b>>, m)
    BY <2>4 DEF Tiles, IndexOf
  <2>. HIDE DEF i
  <2>6. i \in 0 .. m * n - 1 /\ i % m = a /\ i \div m = b
    BY <1>1, <2>5, IndexBounded
  <2>7. i \in inside
    BY <1>4, <1>5, <2>2, <2>3, <2>6 DEF inside, T
  <2>8. At(i) = p
    BY <2>1, <2>2, <2>3, <2>6
  <2>. HIDE DEF At
  <2>9. PICK k \in 1 .. l : e[k] = i
    BY <1>13, <2>7 DEF l
  <2>. QED  BY <1>15, <2>8, <2>9
<1>. HIDE DEF At
<1>. QED  BY <1>16, <1>17, <1>18, <1>19 DEF pixels, x, y, m, n

\* The tiles of a canvas, of any size and cut in any way, are not empty, do not overlap and
\* leave no pixel out: render_tile() reaches each pixel of a frame in one tile, once.
THEOREM TilesPartitionCanvas ==
    ASSUME NEW c \in CanvasShapes
    PROVE  /\ \A t \in 0 .. TileCount(c) - 1 :
                 PixelsOfTile(c, t) \in Seq(PixelsOfCanvas(c)) /\ Len(PixelsOfTile(c, t)) > 0
           /\ \A s, t \in 0 .. TileCount(c) - 1 :
                 \A k \in 1 .. Len(PixelsOfTile(c, s)), l \in 1 .. Len(PixelsOfTile(c, t)) :
                    PixelsOfTile(c, s)[k] = PixelsOfTile(c, t)[l] => s = t /\ k = l
           /\ \A p \in PixelsOfCanvas(c) : \E t \in 0 .. TileCount(c) - 1 :
                 \E k \in 1 .. Len(PixelsOfTile(c, t)) : PixelsOfTile(c, t)[k] = p
<1>. DEFINE m == c.tileWidth
            n == c.tileHeight
            X == TileCountX(c)
            Y == TileCountY(c)
            T == 0 .. TileCount(c) - 1
            F == PixelsOfCanvas(c)
            P(t) == PixelsOfTile(c, t)
            Of(p, t) == p[1] \div m = t % X /\ p[2] \div n = t \div X
<1>1. m \in Nat \ {0} /\ n \in Nat \ {0} /\ c.width \in Nat \ {0} /\ c.height \in Nat \ {0}
  BY DEF CanvasShapes
<1>2. /\ X \in Nat \ {0} /\ Y \in Nat \ {0}
      /\ \A t \in T : /\ t % X \in 0 .. X - 1 /\ t \div X \in 0 .. Y - 1
                      /\ t = (t \div X) * X + (t % X)
      /\ \A x \in 0 .. X - 1, y \in 0 .. Y - 1 :
            /\ y * X + x \in T /\ (y * X + x) % X = x /\ (y * X + x) \div X = y
  BY TilePosition
<1>3. \A t \in T : /\ P(t) \in Seq(F)
                   /\ \A k \in 1 .. Len(P(t)) : Of(P(t)[k], t)
                   /\ \A k, l \in 1 .. Len(P(t)) : P(t)[k] = P(t)[l] => k = l
                   /\ \A p \in F : Of(p, t) => \E k \in 1 .. Len(P(t)) : P(t)[k] = p
  BY PixelsOfOneTile
<1>4. \A p \in F : p[1] \in 0 .. c.width - 1 /\ p[2] \in 0 .. c.height - 1
  BY DEF PixelsOfCanvas
<1>5. X = RoundedUp(c.width, m) /\ Y = RoundedUp(c.height, n)
  BY DEF TileCountX, TileCountY
<1>6. \A a, b : a \in 0 .. c.width - 1 /\ b \in 0 .. c.height - 1 => <<a, b>> \in F
  BY DEF PixelsOfCanvas
<1>. HIDE DEF m, n, X, Y, T, F, P
<1>7. ASSUME NEW t \in T PROVE Len(P(t)) > 0
  <2>. DEFINE x == t % X
              y == t \div X
              p == <<m * x, n * y>>
  <2>1. x \in 0 .. X - 1 /\ y \in 0 .. Y - 1
    BY <1>2
  <2>. HIDE DEF x, y
  <2>2. m * x \in 0 .. c.width - 1 /\ (m * x) \div m = x
    <3>1. Piece(c.width, m, x, Smaller(c.width - x * m, m))
      BY <1>1, <1>5, <2>1, PieceCovers
    <3>2. m * x + 0 \in 0 .. c.width - 1 /\ (m * x + 0) \div m = x
      BY <3>1 DEF Piece
    <3>3. m * x + 0 = m * x
      BY <1>1, <1>2, <2>1
    <3>. QED  BY <3>2, <3>3
  <2>3. n * y \in 0 .. c.height - 1 /\ (n * y) \div n = y
    <3>1. Piece(c.height, n, y, Smaller(c.height - y * n, n))
      BY <1>1, <1>5, <2>1, PieceCovers
    <3>2. n * y + 0 \in 0 .. c.height - 1 /\ (n * y + 0) \div n = y
      BY <3>1 DEF Piece
    <3>3. n * y + 0 = n * y
      BY <1>1, <1>2, <2>1
    <3>. QED  BY <3>2, <3>3
  <2>4. p \in F /\ Of(p, t)
    BY <1>6, <2>2, <2>3 DEF x, y
  <2>. HIDE DEF p, Of
  <2>5. PICK k \in 1 .. Len(P(t)) : P(t)[k] = p
    BY <1>3, <2>4
  <2>6. Len(P(t)) \in Nat
    BY <1>3
  <2>. QED  BY <2>5, <2>6
<1>8. ASSUME NEW s \in T, NEW t \in T, NEW k \in 1 .. Len(P(s)), NEW l \in 1 .. Len(P(t)),
             P(s)[k] = P(t)[l]
      PROVE  s = t /\ k = l
  <2>1. Of(P(s)[k], s) /\ Of(P(s)[k], t)
    BY <1>3, <1>8
  <2>2. s % X = t % X /\ s \div X = t \div X
    BY <2>1
  <2>3. s = t
    BY <1>2, <2>2, Zenon
  <2>. QED  BY <1>3, <1>8, <2>3
<1>9. ASSUME NEW p \in F PROVE \E t \in T : \E k \in 1 .. Len(P(t)) : P(t)[k] = p
  <2>. DEFINE x == p[1] \div m
              y == p[2] \div n
              t == y * X + x
  <2>1. x \in 0 .. X - 1 /\ y \in 0 .. Y - 1
    BY <1>1, <1>4, <1>5, PieceFound
  <2>2. t \in T /\ t % X = x /\ t \div X = y
    BY <1>2, <2>1
  <2>. HIDE DEF t
  <2>3. Of(p, t)
    BY <2>2
  <2>. QED  BY <1>3, <2>2, <2>3
<1>. QED  BY <1>3, <1>7, <1>8, <1>9 DEF T, F, P

=============================================================================
