------------------------------ MODULE LedEffects ------------------------------
(***************************************************************************)
(* The effects of LedControl (led_control.rs): the Larson scanner and the  *)
(* palette cycle, which carry state from frame to frame, and the rainbow   *)
(* frame's walk over the layout, one point for each LED of the strip.      *)
(* Each keeps its own state, and an effect resumes where it stopped        *)
(* whatever was rendered in between: a behaviour shows one effect, `shown`,*)
(* frame after frame.                                                      *)
(*                                                                         *)
(* A colour of the scanner is its red channel; a colour of the palette is  *)
(* its index in the palette.                                               *)
(***************************************************************************)
EXTENDS CubeLayout

CONSTANT Cols                \* COLS, 5

\* A single LED would have nowhere to bounce to: scanner_pos -= 1 underflows.
ASSUME StripAssumption ==
  /\ NumLeds \in Nat /\ NumLeds >= 2
  /\ Cols \in Nat \ {0}
  /\ NumLeds % Cols = 0

VARIABLES scannerPos,        \* the LED lit by the next frame, logically
          scannerForward,    \* the direction of the sweep
          scannerTrail,      \* the brightness of each LED
          paletteTimeIndex,  \* an u8
          indices,           \* the palette index each LED shows
          shown              \* the effect whose frames are rendered

larsonVars == <<scannerPos, scannerForward, scannerTrail>>
paletteVars == <<paletteTimeIndex, indices>>
vars == <<larsonVars, paletteVars, layoutVars, shown>>

Led == 0..(NumLeds - 1)

TypeOK ==
  /\ scannerPos \in Led
  /\ scannerForward \in BOOLEAN
  /\ scannerTrail \in [Led -> 0..255]
  /\ paletteTimeIndex \in 0..255
  /\ indices \in [Led -> 0..255]
  /\ face \in 1..(Sides + 1) /\ row \in 0..5 /\ col \in 0..4
  /\ shown \in {"LarsonScanner", "Palette", "Rainbow"}

Init ==
  /\ scannerPos = 0
  /\ scannerForward = TRUE
  /\ scannerTrail = [n \in Led |-> 0]
  /\ paletteTimeIndex = 0
  /\ indices = [n \in Led |-> 0]
  /\ LayoutInit
  /\ shown \in {"LarsonScanner", "Palette", "Rainbow"}
-------------------------------------------------------------------------------
\* Mutant: the columns of odd rows are not reversed exactly.
MutMeanderIndex(logical) ==
  LET r == logical \div Cols
      c == logical % Cols
  IN IF r % 2 = 0 THEN logical ELSE r * Cols + (Cols - 1 - c) \div 2

\* meander_index: every other row of the strip runs backwards.
MeanderIndex(logical) ==
  LET r == logical \div Cols
      c == logical % Cols
  IN IF r % 2 = 0 THEN logical ELSE r * Cols + (Cols - 1 - c)

\* fade_to_black_by(SCANNER_FADE_BY): a quarter of the brightness goes.
Fade(v) == (v * 192) \div 256

AtTurn == (scannerForward /\ scannerPos = NumLeds - 1) \/ (~scannerForward /\ scannerPos = 0)

\* Mutants: the dot rests a frame at the end of the strip, or runs off it.
MutRestsAtEnd == IF scannerPos = NumLeds - 1 /\ scannerForward THEN scannerPos
                 ELSE IF scannerForward THEN scannerPos + 1 ELSE scannerPos - 1
MutRunsOff == IF scannerForward THEN scannerPos + 1 ELSE scannerPos - 1

NextPos ==
  IF scannerForward # AtTurn THEN scannerPos + 1 ELSE scannerPos - 1

\* larson_scanner_frame.
LarsonFrame ==
  /\ shown = "LarsonScanner"
  /\ scannerTrail' = [[n \in Led |-> Fade(scannerTrail[n])]
                        EXCEPT ![MeanderIndex(scannerPos)] = 255]
  /\ scannerPos' = NextPos
  /\ scannerForward' = (scannerForward # AtTurn)
  /\ UNCHANGED <<paletteVars, layoutVars, shown>>

\* Mutant: saturating_add.
MutSaturating(n) == IF n > 255 THEN 255 ELSE n

WrappingU8(n) == n % 256

\* palette_frame.
PaletteFrame ==
  /\ shown = "Palette"
  /\ indices' = [n \in Led |-> WrappingU8(paletteTimeIndex + n)]
  /\ paletteTimeIndex' = WrappingU8(paletteTimeIndex + 1)
  /\ UNCHANGED <<larsonVars, layoutVars, shown>>

\* rainbow_frame writes one colour for each point; the next frame starts over.
RainbowFrame ==
  /\ shown = "Rainbow"
  /\ \/ LayoutNext
     \/ /\ face > Sides
        /\ face' = 1 /\ row' = 0 /\ col' = 0
        /\ points' = << >>
  /\ UNCHANGED <<larsonVars, paletteVars, shown>>

Next == LarsonFrame \/ PaletteFrame \/ RainbowFrame

\* The ticker calls for a frame again and again, and a frame runs to its end.
Spec == Init /\ [][Next]_vars /\ WF_vars(Next)
-------------------------------------------------------------------------------
\* The LED the last frame lit.
IsDot(n) == scannerTrail[n] = 255

\* The dot is one LED, and each frame moves it to the next one of the meander, at the ends
\* back to the one it came from: it never rests, jumps, or leaves the strip
\* (led_control.rs:168-170).
DotMovesByOne ==
  [][\A p \in Led : IsDot(MeanderIndex(p)) =>
       /\ ~IsDot(MeanderIndex(p))'
       /\ \E q \in {p - 1, p + 1} \cap Led : IsDot(MeanderIndex(q))'
       /\ \A n \in Led : IsDot(n)' => n \in {MeanderIndex(p - 1), MeanderIndex(p + 1)}]_vars

\* The sweep reaches every LED again and again, so the meander skips none.
EveryLedIsSwept == shown = "LarsonScanner" => \A n \in Led : []<>IsDot(n)

\* The palette scrolls by one LED per frame without a seam or a rest, also where the
\* time index and the index along the strip wrap at 256 (led_control.rs:201-203).
PaletteScrolls ==
  [][shown = "Palette" /\ indices[1] # indices[0] =>
       /\ \A n \in 0..(NumLeds - 2) : indices'[n] = indices[n + 1]
       /\ \A n \in Led : indices'[n] # indices[n]]_vars
===============================================================================
