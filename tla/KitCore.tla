------------------------------ MODULE KitCore ------------------------------
(***************************************************************************)
(* What the models of the web component kit share.  An event changes       *)
(* React's state; the components are rendered some time after, and their   *)
(* effects run some time after that.  Buttons act on the values of the     *)
(* last render, listeners on those of the last effect.  React does all     *)
(* this at once for some events; here each is a step of its own.           *)
(***************************************************************************)
EXTENDS Integers, FiniteSets, Sequences

CONSTANT
  Absent        \* a value that is not there

\* JavaScript's x || y for a text.
Or(x, y) == IF x # Absent THEN x ELSE y
=============================================================================
