----------------------------- MODULE MCNumbering -----------------------------
(* Small instances of Numbering: two prefixes, one or two kinds of         *)
(* document, interchangeable requests.                                     *)
EXTENDS Numbering, TLC

CONSTANTS p1, p2

MCDefaultPrefix == [t \in DocTypes |-> p1]

RequestSymmetry == Permutations(Requests)
=============================================================================
