---------------------------- MODULE TileOrdering ----------------------------
(***************************************************************************)
(* foundation/math/ordering.cpp and foundation/image/canvasproperties.h:   *)
(* how a canvas is cut into tiles, and the orders in which the tiles of a  *)
(* frame and the pixels of a tile are visited.  An ordering is a sequence  *)
(* of indices into a grid, row by row from 0.                              *)
(***************************************************************************)
EXTENDS Integers, Sequences, FiniteSets

\* A canvas is [width, height, tileWidth, tileHeight], in pixels.
RoundedUp(a, b) == (a + b - 1) \div b
Smaller(a, b) == IF a <= b THEN a ELSE b
Abs(a) == IF a < 0 THEN -a ELSE a

TileCountX(c) == RoundedUp(c.width, c.tileWidth)
TileCountY(c) == RoundedUp(c.height, c.tileHeight)
TileCount(c) == TileCountX(c) * TileCountY(c)

\* The tiles of the last column and row may be smaller.
WidthOfTile(c, x) == Smaller(c.width - x * c.tileWidth, c.tileWidth)
HeightOfTile(c, y) == Smaller(c.height - y * c.tileHeight, c.tileHeight)

LinearOrdering(size) == [i \in 1 .. size |-> i - 1]

\* The outcomes of the shuffle of random_permutation().
RandomOrderings(size) ==
    {p \in [1 .. size -> 0 .. size - 1] : \A i, j \in 1 .. size : p[i] = p[j] => i = j}

Vector == Int \X Int
Moved(point, k, d) == <<point[1] + k * d[1], point[2] + k * d[2]>>
Opposite(d) == <<-d[1], -d[2]>>

\* A square, by the corner it is visited from and the directions of its sides.
Placement == Vector \X Vector \X Vector

\* hilbert(), given the tours of the squares half as large: the four quadrants, turned so
\* that each ends next to where the following one begins.
Quadrants(half, tour) ==
    [square \in Placement |->
        LET point  == square[1]
            dx     == square[2]
            dy     == square[3]
            second == Moved(point, half, dy)
            third  == Moved(second, half, dx)
            fourth == Moved(Moved(third, half - 1, dx), -1, dy)
        IN  tour[<<point, dy, dx>>]
            \o tour[<<second, dx, dy>>]
            \o tour[<<third, dx, dy>>]
            \o tour[<<fourth, Opposite(dy), Opposite(dx)>>]]

\* hilbert(), of a single tile, which may lie outside of the grid.
SingleTile(sizeX, sizeY) ==
    [square \in Placement |->
        LET point == square[1]
        IN  IF point[1] < sizeX /\ point[2] < sizeY THEN <<point>> ELSE <<>>]

\* hilbert(): the points visited in a square, by its side.
Hilbert(sizeX, sizeY) ==
    LET visit[size \in Nat] ==
            IF size > 1 THEN Quadrants(size \div 2, visit[size \div 2])
                        ELSE SingleTile(sizeX, sizeY)
    IN  visit

\* No odd number but one divides a power of two.
IsPowerOfTwo(n) == \A d \in 2 .. n : n % d = 0 => d % 2 = 0

\* Mutant: the side is rounded down.
PreviousPowerOfTwo(n) ==
    CHOOSE p \in 1 .. n : IsPowerOfTwo(p) /\ \A q \in p + 1 .. n : ~IsPowerOfTwo(q)

\* next_pow2()
NextPowerOfTwo(n) ==
    CHOOSE p \in n .. 2 * n : IsPowerOfTwo(p) /\ \A q \in n .. p - 1 : ~IsPowerOfTwo(q)

Larger(a, b) == IF a >= b THEN a ELSE b

\* hilbert_ordering(), of the root square.
HilbertOrdering(sizeX, sizeY) ==
    LET root == NextPowerOfTwo(Larger(sizeX, sizeY))
        visited == Hilbert(sizeX, sizeY)[root][<<<<0, 0>>, <<1, 0>>, <<0, 1>>>>]
    IN  [i \in 1 .. Len(visited) |-> visited[i][2] * sizeX + visited[i][1]]

\* The loop of render_tile() over m_pixel_ordering skips what an incomplete tile lacks.
EntriesIn(order, S) ==
    LET entries[i \in 0 .. Len(order)] ==
            IF i = 0 THEN <<>>
            ELSE IF order[i] \in S THEN Append(entries[i - 1], order[i])
                                   ELSE entries[i - 1]
    IN  entries[Len(order)]

\* The pixels of a tile in their order, as coordinates in the frame.
PixelsOfTile(c, t) ==
    LET x == t % TileCountX(c)
        y == t \div TileCountX(c)
        inside == {i \in 0 .. c.tileWidth * c.tileHeight - 1 :
                      /\ i % c.tileWidth < WidthOfTile(c, x)
                      /\ i \div c.tileWidth < HeightOfTile(c, y)}
        order == EntriesIn(HilbertOrdering(c.tileWidth, c.tileHeight), inside)
    IN  [k \in 1 .. Len(order) |-> <<c.tileWidth * x + (order[k] % c.tileWidth),
                                     c.tileHeight * y + (order[k] \div c.tileWidth)>>]

=============================================================================
