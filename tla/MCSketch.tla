------------------------------ MODULE MCSketch ------------------------------
(* A small instance of the sketch for TLC: lanes of two bits, two to a      *)
(* word, one hash counted in both words and one next to it in the first.    *)
EXTENDS Sketch, TLC

CONSTANTS h1, h2, t1, t2

MCIndices == (h1 :> <<0, 2>>) @@ (h2 :> <<1>>)
=============================================================================
