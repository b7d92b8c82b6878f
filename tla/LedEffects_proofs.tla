--------------------------- MODULE LedEffects_proofs ---------------------------
(***************************************************************************)
(* The scanner's dot walks the strip one LED at a time, the palette        *)
(* scrolls without a seam, and no two LEDs are given the same place: for   *)
(* every length of the strip and every number of columns.                  *)
(***************************************************************************)
EXTENDS LedEffects, TLAPS

\* Division with remainder, by a number of columns that is a parameter.
LEMMA DivMod ==
  ASSUME NEW n \in Nat, NEW d \in Nat \ {0}
  PROVE  n \div d \in Nat /\ n % d \in 0..(d - 1) /\ n = (n \div d) * d + (n % d)
<1>1. n = d * (n \div d) + (n % d)
  OBVIOUS
<1> QED
  BY <1>1

\* A row ends before the next one begins.
LEMMA RowsApart ==
  ASSUME NEW d \in Nat \ {0}, NEW q \in Nat, NEW r \in Nat, q < r
  PROVE  q * d + d <= r * d
<1>1. r - q - 1 \in Nat /\ r = q + 1 + (r - q - 1)
  OBVIOUS
<1>2. r * d = q * d + d + (r - q - 1) * d /\ (r - q - 1) * d >= 0
  BY <1>1
<1> QED
  BY <1>2

LEMMA RowsDisjoint ==
  ASSUME NEW d \in Nat \ {0}, NEW q \in Nat, NEW r \in Nat,
         NEW a \in 0..(d - 1), NEW b \in 0..(d - 1), q * d + a = r * d + b
  PROVE  q = r /\ a = b
<1>1. q * d \in Nat /\ r * d \in Nat
  OBVIOUS
<1>2. ~(q < r) /\ ~(r < q)
  BY <1>1, RowsApart
<1> QED
  BY <1>2

\* Where the meander has the LED of a row and a column.
Reversed(r, c) == IF r % 2 = 0 THEN c ELSE Cols - 1 - c

LEMMA MeanderRow ==
  ASSUME NEW n \in Led
  PROVE  /\ n \div Cols \in Nat /\ n % Cols \in 0..(Cols - 1)
         /\ n = (n \div Cols) * Cols + (n % Cols)
         /\ Reversed(n \div Cols, n % Cols) \in 0..(Cols - 1)
         /\ MeanderIndex(n) = (n \div Cols) * Cols + Reversed(n \div Cols, n % Cols)
<1>0. n \in Nat /\ Cols \in Nat \ {0}
  BY StripAssumption DEF Led
<1>1. /\ n \div Cols \in Nat /\ n % Cols \in 0..(Cols - 1)
      /\ n = (n \div Cols) * Cols + (n % Cols)
  BY <1>0, DivMod
<1>2. MeanderIndex(n) = IF (n \div Cols) % 2 = 0 THEN n
                        ELSE (n \div Cols) * Cols + (Cols - 1 - (n % Cols))
  BY DEF MeanderIndex
<1> DEFINE q == n \div Cols
           a == n % Cols
<1> HIDE DEF q, a
<1>3. Reversed(q, a) \in 0..(Cols - 1)
  BY <1>1, StripAssumption DEF Reversed, q, a
<1>4. MeanderIndex(n) = q * Cols + Reversed(q, a)
  BY <1>1, <1>2 DEF Reversed, q, a
<1> QED
  BY <1>1, <1>3, <1>4 DEF q, a

\* The meander leads to every LED of the strip once: it is its own inverse.
LEMMA MeanderStays ==
  ASSUME NEW n \in Led
  PROVE  MeanderIndex(n) \in Led
<1> DEFINE q == n \div Cols
           rows == NumLeds \div Cols
<1>1. NumLeds = rows * Cols /\ rows \in Nat
  BY DivMod, StripAssumption
<1>2. /\ q \in Nat /\ n % Cols \in 0..(Cols - 1) /\ n = q * Cols + (n % Cols)
      /\ Reversed(q, n % Cols) \in 0..(Cols - 1)
      /\ MeanderIndex(n) = q * Cols + Reversed(q, n % Cols)
  BY MeanderRow
<1>3. n \in Nat /\ n < NumLeds /\ Cols \in Nat \ {0} /\ NumLeds \in Nat
  BY StripAssumption DEF Led
<1> HIDE DEF q, rows
<1>4. q * Cols \in Nat /\ rows * Cols \in Nat
  BY <1>1, <1>2, <1>3
<1>5. q < rows
  <2> SUFFICES ASSUME rows <= q PROVE FALSE
    BY <1>1, <1>2
  <2>1. rows * Cols <= q * Cols
    BY <1>1, <1>2, <1>3, <1>4, RowsApart
  <2> QED
    BY <1>1, <1>2, <1>3, <1>4, <2>1
<1>6. q * Cols + Cols <= rows * Cols
  BY <1>1, <1>2, <1>3, <1>5, RowsApart
<1> QED
  BY <1>1, <1>2, <1>3, <1>4, <1>6 DEF Led

LEMMA MeanderInvolution ==
  ASSUME NEW n \in Led
  PROVE  MeanderIndex(MeanderIndex(n)) = n
<1> DEFINE m == MeanderIndex(n)
           q == n \div Cols
           a == n % Cols
           r == m \div Cols
           b == m % Cols
<1>1. /\ q \in Nat /\ a \in 0..(Cols - 1) /\ n = q * Cols + a
      /\ Reversed(q, a) \in 0..(Cols - 1) /\ m = q * Cols + Reversed(q, a)
  BY MeanderRow
<1>2. m \in Led
  BY MeanderStays
<1> HIDE DEF m
<1>3. /\ r \in Nat /\ b \in 0..(Cols - 1) /\ m = r * Cols + b
      /\ Reversed(r, b) \in 0..(Cols - 1) /\ MeanderIndex(m) = r * Cols + Reversed(r, b)
  BY <1>2, MeanderRow
<1> HIDE DEF q, a, r, b
<1>4. r = q /\ b = Reversed(q, a)
  BY <1>1, <1>3, RowsDisjoint, StripAssumption
<1>5. Reversed(r, b) = a
  BY <1>1, <1>4, StripAssumption DEF Reversed
<1>6. MeanderIndex(m) = n
  BY <1>1, <1>3, <1>4, <1>5
<1> QED
  BY <1>6 DEF m

LEMMA MeanderOnce ==
  ASSUME NEW m \in Led, NEW n \in Led, MeanderIndex(m) = MeanderIndex(n)
  PROVE  m = n
BY MeanderInvolution
-------------------------------------------------------------------------------
\* Every grid of the cube is five by five.
LEMMA GridSize ==
  ASSUME NEW f \in 1..Sides
  PROVE  RowCount(Faces[f]) = 5 /\ ColCount(Faces[f]) = 5
BY DEF Sides, Faces, Grid, RowCount, ColCount

LEMMA InitTypeOK == Init => TypeOK
<1>1. 0 \in Led
  BY StripAssumption DEF Led
<1> QED
  BY <1>1 DEF Init, TypeOK, LayoutInit, Sides

Byte == 0..255

LEMMA StepTypeOK == TypeOK /\ [Next]_vars => TypeOK'
<1> SUFFICES ASSUME TypeOK, [Next]_vars PROVE TypeOK'
  OBVIOUS
<1> USE DEF TypeOK, larsonVars, paletteVars, layoutVars
<1>1. CASE LarsonFrame
  <2>1. scannerPos' \in Led /\ scannerForward' \in BOOLEAN
    BY <1>1, StripAssumption DEF LarsonFrame, NextPos, AtTurn, Led
  <2>2. (\A v \in Byte : Fade(v) \in Byte) /\ 255 \in Byte
    BY DEF Fade, Byte
  <2>3. scannerTrail \in [Led -> Byte]
    BY DEF Byte
  <2>4. scannerTrail' \in [Led -> Byte]
    BY <1>1, <2>2, <2>3 DEF LarsonFrame
  <2> QED
    BY <1>1, <2>1, <2>4 DEF LarsonFrame, Byte
<1>2. CASE PaletteFrame
  <2>1. \A n \in Nat : WrappingU8(n) \in Byte
    BY DEF WrappingU8, Byte
  <2>2. paletteTimeIndex + 1 \in Nat /\ \A n \in Led : paletteTimeIndex + n \in Nat
    BY StripAssumption DEF Led
  <2>3. indices' \in [Led -> Byte] /\ paletteTimeIndex' \in Byte
    BY <1>2, <2>1, <2>2 DEF PaletteFrame
  <2> QED
    BY <1>2, <2>3 DEF PaletteFrame, Byte
<1>3. CASE RainbowFrame
  <2>1. CASE NextPoint
    <3>1. face \in 1..Sides
      BY <2>1 DEF NextPoint, Sides
    <3>2. RowCount(Faces[face]) = 5 /\ ColCount(Faces[face]) = 5
      BY <3>1, GridSize
    <3>3. /\ face' = face /\ row \in 0..4
          /\ \/ row' = row + 1 /\ col' = 0
             \/ row' = row /\ col' = col + 1 /\ col + 1 < 5
      BY <2>1, <3>2 DEF NextPoint, RowEnds
    <3> QED
      BY <1>3, <3>3 DEF RainbowFrame
  <2>2. CASE NextFace
    BY <1>3, <2>2 DEF RainbowFrame, NextFace, Sides
  <2>3. CASE face' = 1 /\ row' = 0 /\ col' = 0
    <3>1. face' \in 1..(Sides + 1) /\ row' \in 0..5 /\ col' \in 0..4
      BY <2>3 DEF Sides
    <3> QED
      BY <1>3, <3>1 DEF RainbowFrame
  <2> QED
    BY <1>3, <2>1, <2>2, <2>3 DEF RainbowFrame, LayoutNext
<1>4. CASE UNCHANGED vars
  BY <1>4 DEF vars
<1> QED
  BY <1>1, <1>2, <1>3, <1>4 DEF Next

\* THEOREM: the dot stays on the strip, the palette index in its u8 and the iterator in
\* its grid.
THEOREM TypeCorrect == Spec => []TypeOK
BY InitTypeOK, StepTypeOK, PTL DEF Spec
-------------------------------------------------------------------------------
\* The position of the dot of the last frame; outside the strip before the first one.
LastPos == IF scannerForward THEN scannerPos - 1 ELSE scannerPos + 1

\* The trail is at full brightness at the dot and nowhere else.
DotIsLast ==
  /\ ~scannerForward => LastPos \in Led
  /\ \A n \in Led : IsDot(n) <=> LastPos \in Led /\ n = MeanderIndex(LastPos)
  /\ shown # "LarsonScanner" => LastPos \notin Led

ScannerInv == TypeOK /\ DotIsLast

LEMMA InitScanner == Init => ScannerInv
BY InitTypeOK, StripAssumption
   DEF Init, ScannerInv, DotIsLast, LastPos, Led, IsDot, LayoutInit

\* A frame fades every LED but the one at the scanner's position.
LEMMA FrameLights ==
  ASSUME TypeOK, LarsonFrame
  PROVE  \A n \in Led : IsDot(n)' <=> n = MeanderIndex(scannerPos)
<1>1. MeanderIndex(scannerPos) \in Led
  BY MeanderStays DEF TypeOK
<1>2. scannerTrail \in [Led -> Byte]
  BY DEF TypeOK, Byte
<1>3. \A v \in Byte : Fade(v) # 255
  BY DEF Fade, Byte
<1> QED
  BY <1>1, <1>2, <1>3 DEF LarsonFrame, IsDot

\* The next position is next to this one, on the strip; the last position is this one.
LEMMA FrameMoves ==
  ASSUME ScannerInv, LarsonFrame
  PROVE  /\ scannerPos \in Led
         /\ scannerPos \in {LastPos - 1, LastPos + 1}
         /\ LastPos' = scannerPos
<1>1. /\ scannerPos \in Led /\ scannerPos \in Int /\ scannerForward \in BOOLEAN
      /\ scannerPos' = NextPos /\ scannerForward' = (scannerForward # AtTurn)
  BY DEF ScannerInv, TypeOK, LarsonFrame, Led
<1>2. LastPos \in {scannerPos - 1, scannerPos + 1}
  BY DEF LastPos
<1>3. \/ scannerForward' /\ scannerPos' = scannerPos + 1
      \/ ~scannerForward' /\ scannerPos' = scannerPos - 1
  BY <1>1 DEF NextPos
<1>4. LastPos' = scannerPos
  BY <1>1, <1>3 DEF LastPos
<1> QED
  BY <1>1, <1>2, <1>4

LEMMA StepScanner == ScannerInv /\ [Next]_vars => ScannerInv'
<1> SUFFICES ASSUME ScannerInv, [Next]_vars PROVE DotIsLast'
  BY StepTypeOK DEF ScannerInv
<1>1. CASE LarsonFrame
  BY <1>1, FrameLights, FrameMoves DEF ScannerInv, DotIsLast, LarsonFrame
<1>2. CASE UNCHANGED <<larsonVars, shown>>
  BY <1>2 DEF larsonVars, ScannerInv, DotIsLast, LastPos, IsDot
<1> QED
  BY <1>1, <1>2 DEF Next, PaletteFrame, RainbowFrame, vars

\* THEOREM: whatever the length of the strip and the number of columns, each frame moves the
\* dot to the next LED of the meander (led_control.rs:155-185).
THEOREM DotWalks == Spec => DotMovesByOne
<1> DEFINE Moves == \A p \in Led : IsDot(MeanderIndex(p)) =>
             /\ ~IsDot(MeanderIndex(p))'
             /\ \E q \in {p - 1, p + 1} \cap Led : IsDot(MeanderIndex(q))'
             /\ \A n \in Led : IsDot(n)' => n \in {MeanderIndex(p - 1), MeanderIndex(p + 1)}
<1>1. ScannerInv /\ [Next]_vars => [Moves]_vars
  <2> SUFFICES ASSUME ScannerInv, Next, NEW p \in Led, IsDot(MeanderIndex(p))
               PROVE  /\ vars' = vars
                         \/ /\ ~IsDot(MeanderIndex(p))'
                            /\ \E q \in {p - 1, p + 1} \cap Led : IsDot(MeanderIndex(q))'
                            /\ \A n \in Led :
                                 IsDot(n)' => n \in {MeanderIndex(p - 1), MeanderIndex(p + 1)}
    OBVIOUS
  <2>1. LastPos \in Led /\ MeanderIndex(p) = MeanderIndex(LastPos)
    BY MeanderStays DEF ScannerInv, DotIsLast
  <2>2. p = LastPos
    BY <2>1, MeanderOnce
  <2>3. LarsonFrame
    BY <2>1 DEF Next, ScannerInv, DotIsLast, PaletteFrame, RainbowFrame
  <2>4. scannerPos \in {p - 1, p + 1} \cap Led /\ scannerPos # p
    BY <2>2, <2>3, FrameMoves DEF Led
  <2>5. \A n \in Led : IsDot(n)' <=> n = MeanderIndex(scannerPos)
    BY <2>3, FrameLights DEF ScannerInv
  <2>6. MeanderIndex(p) \in Led /\ MeanderIndex(scannerPos) \in Led
    BY <2>4, MeanderStays
  <2>7. MeanderIndex(p) # MeanderIndex(scannerPos)
    BY <2>4, MeanderOnce
  <2> QED
    BY <2>4, <2>5, <2>6, <2>7
<1> QED
  BY <1>1, InitScanner, StepScanner, PTL DEF Spec, DotMovesByOne
-------------------------------------------------------------------------------
\* The indices run along the palette from the previous time index, once a frame was shown.
IndicesRun ==
  \/ \A n \in Led : indices[n] = 0
  \/ \A n \in Led : indices[n] = WrappingU8(paletteTimeIndex + 255 + n)

PaletteInv == TypeOK /\ IndicesRun

LEMMA StepPalette == PaletteInv /\ [Next]_vars => PaletteInv'
<1> SUFFICES ASSUME PaletteInv, [Next]_vars PROVE IndicesRun'
  BY StepTypeOK DEF PaletteInv
<1>1. CASE PaletteFrame
  <2>1. paletteTimeIndex \in 0..255
    BY DEF PaletteInv, TypeOK
  <2>2. ASSUME NEW n \in Led
        PROVE  indices'[n] = WrappingU8(paletteTimeIndex' + 255 + n)
    <3>1. n \in Nat
      BY StripAssumption DEF Led
    <3>2. indices'[n] = (paletteTimeIndex + n) % 256
      BY <1>1, <2>2 DEF PaletteFrame, WrappingU8
    <3>3. paletteTimeIndex' = (paletteTimeIndex + 1) % 256
      BY <1>1 DEF PaletteFrame, WrappingU8
    <3> QED
      BY <2>1, <3>1, <3>2, <3>3 DEF WrappingU8
  <2> QED
    BY <2>2 DEF IndicesRun
<1>2. CASE UNCHANGED paletteVars
  BY <1>2 DEF paletteVars, PaletteInv, IndicesRun
<1> QED
  BY <1>1, <1>2 DEF Next, LarsonFrame, RainbowFrame, vars

\* THEOREM: the palette scrolls by one LED, across both wraps at 256, on a strip of any
\* length (led_control.rs:187-209).
THEOREM PaletteRuns == Spec => PaletteScrolls
<1> DEFINE Scrolls == shown = "Palette" /\ indices[1] # indices[0] =>
             /\ \A n \in 0..(NumLeds - 2) : indices'[n] = indices[n + 1]
             /\ \A n \in Led : indices'[n] # indices[n]
<1>1. PaletteInv /\ [Next]_vars => [Scrolls]_vars
  <2> SUFFICES ASSUME PaletteInv, Next, shown = "Palette", indices[1] # indices[0]
               PROVE  /\ \A n \in 0..(NumLeds - 2) : indices'[n] = indices[n + 1]
                      /\ \A n \in Led : indices'[n] # indices[n]
    OBVIOUS
  <2>1. PaletteFrame
    BY DEF Next, LarsonFrame, RainbowFrame
  <2>2. paletteTimeIndex \in 0..255 /\ 0 \in Led /\ 1 \in Led
    BY StripAssumption DEF PaletteInv, TypeOK, Led
  <2>3. \A n \in Led : n \in Nat /\ indices[n] = (paletteTimeIndex + 255 + n) % 256
    BY <2>2, StripAssumption DEF PaletteInv, IndicesRun, WrappingU8, Led
  <2>4. \A n \in Led : indices'[n] = (paletteTimeIndex + n) % 256
    BY <2>1 DEF PaletteFrame, WrappingU8
  <2>5. ASSUME NEW n \in 0..(NumLeds - 2) PROVE indices'[n] = indices[n + 1]
    <3>1. n \in Led /\ n + 1 \in Led /\ n \in Nat
      BY StripAssumption DEF Led
    <3>2. /\ indices'[n] = (paletteTimeIndex + n) % 256
          /\ indices[n + 1] = (paletteTimeIndex + 255 + (n + 1)) % 256
      BY <2>3, <2>4, <3>1
    <3> QED
      BY <2>2, <3>1, <3>2
  <2>6. ASSUME NEW n \in Led PROVE indices'[n] # indices[n]
    <3>1. /\ n \in Nat
          /\ indices'[n] = (paletteTimeIndex + n) % 256
          /\ indices[n] = (paletteTimeIndex + 255 + n) % 256
      BY <2>3, <2>4
    <3> QED
      BY <2>2, <3>1
  <2> QED
    BY <2>5, <2>6
<1>2. Init => PaletteInv
  BY InitTypeOK DEF Init, PaletteInv, IndicesRun
<1> QED
  BY <1>1, <1>2, StepPalette, PTL DEF Spec, PaletteScrolls
-------------------------------------------------------------------------------
Place(f, r, c) == PointAt(Faces[f], r, c)

\* The steps of the six grids are sevens.
LEMMA Places ==
  ASSUME NEW r \in 0..4, NEW c \in 0..4
  PROVE  /\ Place(1, r, c) = Vec(7 * c - 14, 14 - 7 * r, 19)
         /\ Place(2, r, c) = Vec(19, 14 - 7 * r, 14 - 7 * c)
         /\ Place(3, r, c) = Vec(14 - 7 * r, -19, 14 - 7 * c)
         /\ Place(4, r, c) = Vec(14 - 7 * r, 7 * c - 14, -19)
         /\ Place(5, r, c) = Vec(-19, 7 * c - 14, 7 * r - 14)
         /\ Place(6, r, c) = Vec(7 * c - 14, 19, 7 * r - 14)
<1>1. 28 \div 4 = 7 /\ (-28) \div 4 = -7 /\ 0 \div 4 = 0
  OBVIOUS
<1> USE DEF HorizontalStep, VerticalStep, Faces, Grid, Over, Minus, Vec
<1>2. HorizontalStep(Faces[1]) = Vec(7, 0, 0) /\ VerticalStep(Faces[1]) = Vec(0, -7, 0)
  BY <1>1
<1>3. HorizontalStep(Faces[2]) = Vec(0, 0, -7) /\ VerticalStep(Faces[2]) = Vec(0, -7, 0)
  BY <1>1
<1>4. HorizontalStep(Faces[3]) = Vec(0, 0, -7) /\ VerticalStep(Faces[3]) = Vec(-7, 0, 0)
  BY <1>1
<1>5. HorizontalStep(Faces[4]) = Vec(0, 7, 0) /\ VerticalStep(Faces[4]) = Vec(-7, 0, 0)
  BY <1>1
<1>6. HorizontalStep(Faces[5]) = Vec(0, 7, 0) /\ VerticalStep(Faces[5]) = Vec(0, 0, 7)
  BY <1>1
<1>7. HorizontalStep(Faces[6]) = Vec(7, 0, 0) /\ VerticalStep(Faces[6]) = Vec(0, 0, 7)
  BY <1>1
<1>8. /\ Faces[1].start = Vec(-14, 14, 19) /\ Faces[2].start = Vec(19, 14, 14)
      /\ Faces[3].start = Vec(14, -19, 14) /\ Faces[4].start = Vec(14, -14, -19)
      /\ Faces[5].start = Vec(-19, -14, -14) /\ Faces[6].start = Vec(-14, 19, -14)
  OBVIOUS
<1> HIDE DEF HorizontalStep, VerticalStep, Faces, Grid, Over, Minus
<1> QED
  BY <1>2, <1>3, <1>4, <1>5, <1>6, <1>7, <1>8 DEF Place, PointAt, Plus, Times, Vec

\* The iterator has passed the n-th pixel of a face.
Passed(f, r, c) == f < face \/ (f = face /\ (r < row \/ (r = row /\ c < col)))

Point == [x : Int, y : Int, z : Int]

\* Every point is the place of a pixel that was passed, and no two are the same.
PointsPassed ==
  /\ points \in Seq(Point)
  /\ col # 0 => row <= 4
  /\ \A i \in 1..Len(points) :
       \E f \in 1..Sides, r \in 0..4, c \in 0..4 : points[i] = Place(f, r, c) /\ Passed(f, r, c)
  /\ \A i, j \in 1..Len(points) : points[i] = points[j] => i = j

LEMMA PlaceIsPoint ==
  ASSUME NEW f \in 1..Sides, NEW r \in 0..4, NEW c \in 0..4
  PROVE  Place(f, r, c) \in Point /\ OnSurface(Place(f, r, c))
<1>1. f \in {1, 2, 3, 4, 5, 6}
  BY DEF Sides
<1>2. Place(f, r, c) \in Point
  BY <1>1, Places DEF Point, Vec
<1>3. ASSUME NEW x \in -14..14, NEW y \in -14..14, NEW z \in {-19, 19}
      PROVE  /\ OnSurface(Vec(z, x, y)) /\ OnSurface(Vec(x, z, y)) /\ OnSurface(Vec(x, y, z))
  <2>1. Abs(z) = 19
    BY DEF Abs
  <2>2. OnSurface(Vec(z, x, y))
    BY <2>1 DEF OnSurface, Coordinates, Vec
  <2>3. OnSurface(Vec(x, z, y))
    BY <2>1 DEF OnSurface, Coordinates, Vec
  <2>4. OnSurface(Vec(x, y, z))
    BY <2>1 DEF OnSurface, Coordinates, Vec
  <2> QED
    BY <2>2, <2>3, <2>4
<1>4. /\ 7 * r - 14 \in -14..14 /\ 14 - 7 * r \in -14..14
      /\ 7 * c - 14 \in -14..14 /\ 14 - 7 * c \in -14..14
  OBVIOUS
<1>5. OnSurface(Place(f, r, c))
  <2>1. CASE f = 1
    <3>1. Place(f, r, c) = Vec(7 * c - 14, 14 - 7 * r, 19)
      BY <2>1, Places
    <3> QED
      BY <1>3, <1>4, <3>1
  <2>2. CASE f = 2
    <3>1. Place(f, r, c) = Vec(19, 14 - 7 * r, 14 - 7 * c)
      BY <2>2, Places
    <3> QED
      BY <1>3, <1>4, <3>1
  <2>3. CASE f = 3
    <3>1. Place(f, r, c) = Vec(14 - 7 * r, -19, 14 - 7 * c)
      BY <2>3, Places
    <3> QED
      BY <1>3, <1>4, <3>1
  <2>4. CASE f = 4
    <3>1. Place(f, r, c) = Vec(14 - 7 * r, 7 * c - 14, -19)
      BY <2>4, Places
    <3> QED
      BY <1>3, <1>4, <3>1
  <2>5. CASE f = 5
    <3>1. Place(f, r, c) = Vec(-19, 7 * c - 14, 7 * r - 14)
      BY <2>5, Places
    <3> QED
      BY <1>3, <1>4, <3>1
  <2>6. CASE f = 6
    <3>1. Place(f, r, c) = Vec(7 * c - 14, 19, 7 * r - 14)
      BY <2>6, Places
    <3> QED
      BY <1>3, <1>4, <3>1
  <2> QED
    BY <1>1, <2>1, <2>2, <2>3, <2>4, <2>5, <2>6
<1> QED
  BY <1>2, <1>5

\* The coordinates of a pixel, face by face.
OnFace(f, r, c, x, y, z) ==
  /\ f = 1 => x = 7 * c - 14 /\ y = 14 - 7 * r /\ z = 19
  /\ f = 2 => x = 19 /\ y = 14 - 7 * r /\ z = 14 - 7 * c
  /\ f = 3 => x = 14 - 7 * r /\ y = -19 /\ z = 14 - 7 * c
  /\ f = 4 => x = 14 - 7 * r /\ y = 7 * c - 14 /\ z = -19
  /\ f = 5 => x = -19 /\ y = 7 * c - 14 /\ z = 7 * r - 14
  /\ f = 6 => x = 7 * c - 14 /\ y = 19 /\ z = 7 * r - 14

LEMMA PlaceOnFace ==
  ASSUME NEW f \in 1..Sides, NEW r \in 0..4, NEW c \in 0..4
  PROVE  OnFace(f, r, c, Place(f, r, c).x, Place(f, r, c).y, Place(f, r, c).z)
BY Places DEF OnFace, Vec

\* The faces do not meet, and the pixels of a face are apart.
LEMMA PlacesDiffer ==
  ASSUME NEW f \in 1..Sides, NEW r \in 0..4, NEW c \in 0..4,
         NEW g \in 1..Sides, NEW s \in 0..4, NEW d \in 0..4,
         Place(f, r, c) = Place(g, s, d)
  PROVE  f = g /\ r = s /\ c = d
<1> DEFINE x == Place(f, r, c).x
           y == Place(f, r, c).y
           z == Place(f, r, c).z
<1>1. f \in {1, 2, 3, 4, 5, 6} /\ g \in {1, 2, 3, 4, 5, 6}
  BY DEF Sides
<1>2. OnFace(f, r, c, x, y, z)
  BY PlaceOnFace
<1>3. OnFace(g, s, d, x, y, z)
  BY PlaceOnFace
<1> HIDE DEF x, y, z
<1>4. f = g
  BY <1>1, <1>2, <1>3 DEF OnFace
<1> QED
  BY <1>1, <1>2, <1>3, <1>4 DEF OnFace

LayoutInv == TypeOK /\ PointsPassed

\* One point is yielded, and one pixel is passed.
LEMMA PointYielded ==
  ASSUME TypeOK, NextPoint
  PROVE  /\ face \in 1..Sides /\ row \in 0..4
         /\ points' = Append(points, Place(face, row, col))
         /\ face' = face
         /\ \/ row' = row + 1 /\ col' = 0 /\ col = 4
            \/ row' = row /\ col' = col + 1 /\ col # 4
<1>1. face \in 1..(Sides + 1) /\ row \in 0..5 /\ col \in 0..4
  BY DEF TypeOK
<1> QED
  BY <1>1, GridSize DEF NextPoint, Place, RowEnds, Sides

\* Every point the iterator yields is the place of a pixel it had not passed.
LEMMA StepLayout == LayoutInv /\ [Next]_vars => LayoutInv'
<1> SUFFICES ASSUME LayoutInv, [Next]_vars PROVE PointsPassed'
  BY StepTypeOK DEF LayoutInv
<1> USE DEF LayoutInv
<1>t. face \in 1..(Sides + 1) /\ row \in 0..5 /\ col \in 0..4 /\ points \in Seq(Point)
  BY DEF TypeOK, PointsPassed
<1>1. CASE NextPoint
  <2> DEFINE new == Place(face, row, col)
  <2>1. /\ face \in 1..Sides /\ row \in 0..4 /\ points' = Append(points, new)
        /\ face' = face
        /\ \/ row' = row + 1 /\ col' = 0 /\ col = 4
           \/ row' = row /\ col' = col + 1 /\ col # 4
    BY <1>1, PointYielded DEF LayoutInv
  <2>2. new \in Point
    BY <1>t, <2>1, PlaceIsPoint
  <2>3. ASSUME NEW f \in 1..Sides, NEW r \in 0..4, NEW c \in 0..4, Passed(f, r, c)
        PROVE  Place(f, r, c) # new /\ Passed(f, r, c)'
    <3>1. ~(f = face /\ r = row /\ c = col)
      BY <1>t, <2>3 DEF Passed
    <3>2. Place(f, r, c) = new => f = face /\ r = row /\ c = col
      <4>1. face \in 1..Sides /\ row \in 0..4 /\ col \in 0..4
        BY <1>t, <2>1
      <4> QED
        BY <4>1, PlacesDiffer
    <3> QED
      BY <1>t, <2>1, <2>3, <3>1, <3>2 DEF Passed
  <2>4. \E f \in 1..Sides, r \in 0..4, c \in 0..4 : new = Place(f, r, c) /\ Passed(f, r, c)'
    <3>1. \A f \in 1..Sides, r \in 0..4, c \in 0..4 :
            f = face /\ r = row /\ c = col => Passed(f, r, c)'
      BY <1>t, <2>1 DEF Passed
    <3> QED
      BY <1>t, <2>1, <3>1
  <2> HIDE DEF new
  <2>5. /\ Len(points) \in Nat /\ Len(points') = Len(points) + 1
        /\ points'[Len(points) + 1] = new
        /\ \A i \in 1..Len(points) : points'[i] = points[i]
    BY <1>t, <2>1, <2>2
  <2>6. \A i \in 1..Len(points) :
          /\ points[i] # new
          /\ \E f \in 1..Sides, r \in 0..4, c \in 0..4 :
               points[i] = Place(f, r, c) /\ Passed(f, r, c)'
    BY <2>3 DEF PointsPassed
  <2>7. points' \in Seq(Point) /\ (col' # 0 => row' <= 4)
    BY <1>t, <2>1, <2>2
  <2>8. ASSUME NEW i \in 1..Len(points')
        PROVE  \E f \in 1..Sides, r \in 0..4, c \in 0..4 :
                 points'[i] = Place(f, r, c) /\ Passed(f, r, c)'
    <3>1. i = Len(points) + 1 \/ i \in 1..Len(points)
      BY <2>5
    <3>2. CASE i = Len(points) + 1
      BY <2>4, <2>5, <3>2
    <3>3. CASE i \in 1..Len(points)
      BY <2>5, <2>6, <3>3
    <3> QED
      BY <3>1, <3>2, <3>3
  <2>9. ASSUME NEW i \in 1..Len(points'), NEW j \in 1..Len(points'), points'[i] = points'[j]
        PROVE  i = j
    BY <2>5, <2>6, <2>9 DEF PointsPassed
  <2> QED
    BY <2>7, <2>8, <2>9 DEF PointsPassed
<1>2. CASE NextFace
  BY <1>2, <1>t DEF NextFace, PointsPassed, Passed
<1>3. CASE points' = << >> /\ col' = 0
  BY <1>3 DEF PointsPassed
<1>4. CASE UNCHANGED layoutVars
  BY <1>4 DEF layoutVars, PointsPassed, Passed
<1> QED
  BY <1>1, <1>2, <1>3, <1>4 DEF Next, LarsonFrame, PaletteFrame, RainbowFrame, LayoutNext, vars

\* THEOREM: no two LEDs are given the same place, and every place is on the cube
\* (layout3d.rs, vec3.rs): a fact of the six grids alone, whatever the strip.
THEOREM PlacesApart == Spec => []PlacesAreDistinct
<1>1. Init => LayoutInv
  BY InitTypeOK DEF Init, LayoutInit, LayoutInv, PointsPassed
<1>2. LayoutInv => PlacesAreDistinct
  <2> SUFFICES ASSUME LayoutInv, points # << >>
               PROVE  /\ OnSurface(points[Len(points)])
                      /\ \A i \in 1..(Len(points) - 1) : points[i] # points[Len(points)]
    BY DEF PlacesAreDistinct
  <2>1. points \in Seq(Point) /\ Len(points) \in 1..Len(points)
    BY DEF LayoutInv, PointsPassed
  <2>2. OnSurface(points[Len(points)])
    BY <2>1, PlaceIsPoint DEF LayoutInv, PointsPassed
  <2> QED
    BY <2>1, <2>2 DEF LayoutInv, PointsPassed
<1> QED
  BY <1>1, <1>2, StepLayout, PTL DEF Spec

\* Points are counted face by face and row by row.
PointsCounted ==
  /\ Len(points) = 25 * (face - 1) + 5 * row + col
  /\ row = 5 => col = 0
  /\ face = Sides + 1 => row = 0 /\ col = 0

LEMMA StepCounted == LayoutInv /\ PointsCounted /\ [Next]_vars => PointsCounted'
<1> SUFFICES ASSUME LayoutInv, PointsCounted, [Next]_vars PROVE PointsCounted'
  OBVIOUS
<1>t. face \in 1..(Sides + 1) /\ row \in 0..5 /\ col \in 0..4 /\ points \in Seq(Point)
  BY DEF LayoutInv, TypeOK, PointsPassed
<1>1. CASE NextPoint
  <2>1. /\ face \in 1..Sides /\ row \in 0..4 /\ face' = face
        /\ \/ row' = row + 1 /\ col' = 0 /\ col = 4
           \/ row' = row /\ col' = col + 1 /\ col # 4
    BY <1>1, PointYielded DEF LayoutInv
  <2>2. Len(points') = Len(points) + 1
    BY <1>1, <1>t DEF NextPoint
  <2> QED
    BY <1>t, <2>1, <2>2 DEF PointsCounted, Sides
<1>2. CASE NextFace
  BY <1>2, <1>t, GridSize DEF NextFace, PointsCounted, Sides
<1>3. CASE points' = << >> /\ face' = 1 /\ row' = 0 /\ col' = 0
  BY <1>3 DEF PointsCounted, Sides
<1>4. CASE UNCHANGED layoutVars
  BY <1>4 DEF layoutVars, PointsCounted
<1> QED
  BY <1>1, <1>2, <1>3, <1>4 DEF Next, LarsonFrame, PaletteFrame, RainbowFrame, LayoutNext, vars

\* THEOREM: when the iterator has passed the last face it has yielded exactly PIXEL_COUNT
\* points, in every frame (layout3d.rs:197-202, 219-222).
THEOREM EveryPixelOnce == Spec => [](face = Sides + 1 => Len(points) = PixelCount)
<1>1. Init => LayoutInv /\ PointsCounted
  BY InitTypeOK DEF Init, LayoutInit, LayoutInv, PointsPassed, PointsCounted, Sides
<1>2. TypeOK /\ PointsCounted => (face = Sides + 1 => Len(points) = PixelCount)
  BY DEF TypeOK, PointsCounted, Sides, PixelCount, PixelPerSide
<1>3. LayoutInv => TypeOK
  BY DEF LayoutInv
<1> QED
  BY <1>1, <1>2, <1>3, StepLayout, StepCounted, PTL DEF Spec
===============================================================================
