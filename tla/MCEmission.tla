----------------------------- MODULE MCEmission -----------------------------
(* Instances of Emission for TLC. *)
EXTENDS Emission

\* One code of a mark, one with a pause, and one whose closing gap, three
\* times its only mark, does not fit into five bits
MCCaptures == {<<3>>, <<2, 3, 1>>, <<6>>}

\* An empty key value, one number, and one timing more than the array holds
MCOthers == {<<>>, <<4>>, <<1, 0, 2, 1, 1>>}

\* Key values as text: decimal numbers and the commas between them
Digits(n) == IF n < 10 THEN 1 ELSE 2

SumOver(f(_), n) == MapThenSumSet(f, 1 .. n)

MCChars(v) ==
    LET Piece(i) == Digits(v[i]) + (IF i < Len(v) THEN 1 ELSE 0)
    IN  SumOver(Piece, Len(v))

MCCut(v, n) ==
    LET Piece(i) == Block(Digits(v[i]) + 1)
    IN  SumOver(Piece, n)
=============================================================================
