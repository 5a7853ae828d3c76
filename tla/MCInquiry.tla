----------------------------- MODULE MCInquiry -----------------------------
(* Two questions at once, a chunk of the case and one made of raw material,*)
(* and one edit of the methodology.                                        *)
EXTENDS Inquiry, TLC

CONSTANTS q1, q2

MCAsks == {q1, q2}

(* Nobody orders the questions.                                            *)
AskSymmetry == Permutations(MCAsks)

=============================================================================
