------------------------------ MODULE CubeLayout ------------------------------
(***************************************************************************)
(* Where the LEDs are (layout3d.rs, vec3.rs): CubeFaces::points() yields   *)
(* one point per LED, face after face, and rainbow_frame pairs the n-th    *)
(* point with the n-th LED of the strip.                                   *)
(*                                                                         *)
(* Coordinates are integers: every step of a cube face is a whole number   *)
(* (28 / 4), which the f32 arithmetic of the code computes exactly.        *)
(***************************************************************************)
EXTENDS Integers, Sequences

CONSTANT NumLeds             \* NUM_LEDS in led_control.rs, 150

VARIABLES face,              \* index of the grid being iterated; 7 is past the last
          row, col,          \* row_index and col_index of its GridIterator
          points             \* what the iterator has yielded

layoutVars == <<face, row, col, points>>

Vec(x, y, z) == [x |-> x, y |-> y, z |-> z]
Plus(u, v)   == Vec(u.x + v.x, u.y + v.y, u.z + v.z)
Minus(u, v)  == Vec(u.x - v.x, u.y - v.y, u.z - v.z)
Times(u, k)  == Vec(u.x * k, u.y * k, u.z * k)
Over(u, k)   == Vec(u.x \div k, u.y \div k, u.z \div k)

Sides == 6
PixelPerSide == 25
PixelCount == Sides * PixelPerSide

Grid(start, horizontalEnd, verticalEnd) ==
  [start |-> start, horizontalEnd |-> horizontalEnd, verticalEnd |-> verticalEnd,
   horizontalCount |-> 5, verticalCount |-> 5]

\* CubeFaces::new.
Faces == <<
  Grid(Vec(-14,  14,  19), Vec( 14,  14,  19), Vec(-14, -14,  19)),
  Grid(Vec( 19,  14,  14), Vec( 19,  14, -14), Vec( 19, -14,  14)),
  Grid(Vec( 14, -19,  14), Vec( 14, -19, -14), Vec(-14, -19,  14)),
  Grid(Vec( 14, -14, -19), Vec( 14,  14, -19), Vec(-14, -14, -19)),
  Grid(Vec(-19, -14, -14), Vec(-19,  14, -14), Vec(-19, -14,  14)),
  Grid(Vec(-14,  19, -14), Vec( 14,  19, -14), Vec(-14,  19,  14)) >>

\* Grid::points: the iterator's rows are counted by horizontal_count.

HorizontalStep(grid) == Over(Minus(grid.horizontalEnd, grid.start), grid.horizontalCount - 1)
VerticalStep(grid) == Over(Minus(grid.verticalEnd, grid.start), grid.verticalCount - 1)
RowCount(grid) == grid.horizontalCount
ColCount(grid) == grid.verticalCount

\* points() is called afresh for each frame.
LayoutInit ==
  /\ face = 1
  /\ row = 0 /\ col = 0
  /\ points = << >>
-------------------------------------------------------------------------------
PointAt(grid, r, c) ==
  Plus(Plus(grid.start, Times(VerticalStep(grid), r)), Times(HorizontalStep(grid), c))

\* Mutant: a row is one point too long.
MutRowEnds(grid) == col + 1 > ColCount(grid)

RowEnds(grid) == col + 1 >= ColCount(grid)

\* GridIterator::next with a point left.
NextPoint ==
  /\ face <= Sides
  /\ LET grid == Faces[face] IN
       /\ row < RowCount(grid)
       /\ points' = Append(points, PointAt(grid, row, col))
       /\ IF RowEnds(grid) THEN row' = row + 1 /\ col' = 0
          ELSE col' = col + 1 /\ UNCHANGED row
  /\ UNCHANGED face

\* It returns None: flat_map goes on with the next face.
NextFace ==
  /\ face <= Sides
  /\ row >= RowCount(Faces[face])
  /\ face' = face + 1
  /\ row' = 0 /\ col' = 0
  /\ UNCHANGED points

LayoutNext == NextPoint \/ NextFace
-------------------------------------------------------------------------------
Abs(n) == IF n < 0 THEN -n ELSE n

Coordinates(p) == <<p.x, p.y, p.z>>

\* A point in the middle of a face's side: one coordinate at 19, the others within 14.
OnSurface(p) ==
  \E i \in 1..3 :
    /\ Abs(Coordinates(p)[i]) = 19
    /\ \A j \in (1..3) \ {i} : Coordinates(p)[j] \in -14..14

\* No two LEDs are given the same place, and every place is on the cube's surface.
PlacesAreDistinct ==
  points # << >> =>
    LET n == Len(points) IN
      OnSurface(points[n]) /\ \A i \in 1..(n - 1) : points[i] # points[n]

\* The iterator ends, every time it is used, with one point for each LED: no LED goes
\* without a place, and no place is computed for an LED the strip does not have
\* (layout3d.rs:197-202, 219-222).
OnePointPerLed ==
  points # << >> ~> face = Sides + 1 /\ Len(points) = PixelCount /\ PixelCount = NumLeds
===============================================================================
