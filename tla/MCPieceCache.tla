---------------------------- MODULE MCPieceCache ----------------------------
(* Small instances of PieceCache for TLC. *)
EXTENDS PieceCache, FiniteSetsExt, TLC

CONSTANTS d1, d2, e1, e2, e3, c1, c2

\* Two dense pieces fit the whole budget but not what the split leaves of it;
\* the third expert is twice the size of the others.
MCSize == [p \in Piece |-> IF p = e3 THEN 2 ELSE IF p \in Expert THEN 1 ELSE 2]

MCBytes == [S \in SUBSET Piece |-> MapThenSumSet(LAMBDA p : MCSize[p], S)]

\* The threads do not differ, nor do the two dense pieces.
Symmetry == Permutations(Client) \cup Permutations({d1, d2})
=============================================================================
