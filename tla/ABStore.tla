-------------------------------- MODULE ABStore --------------------------------
(***************************************************************************)
(* What an over-the-air update promises (ota_update.md:27-30), without     *)
(* slots, chunks and otadata: the device runs one image, has one selected  *)
(* for the next start, and replaces the selection in a single step.  Until *)
(* an installed image is kept, a restart may bring back the one before it; *)
(* nothing else ever changes what is selected or runs.                     *)
(***************************************************************************)
CONSTANTS Image,             \* images that can be installed
          Factory            \* the image flashed over USB

VARIABLES running,           \* the image that runs
          selected,          \* the image selected for the next start
          spare              \* what a restart may bring back; `selected` if nothing

vars == <<running, selected, spare>>

TypeOK == {running, selected, spare} \subseteq Image \cup {Factory}

Init == running = Factory /\ selected = Factory /\ spare = Factory
-------------------------------------------------------------------------------
Install(img) ==
  /\ running = selected
  /\ selected' = img
  /\ spare' = selected
  /\ UNCHANGED running

Keep == spare' = selected /\ UNCHANGED <<running, selected>>

Restart ==
  /\ selected' \in {selected, spare}
  /\ running' = selected'
  /\ spare' \in {spare, selected'}

Next == (\E img \in Image : Install(img)) \/ Keep \/ Restart

Spec == Init /\ [][Next]_vars
===============================================================================
