--------------------------- MODULE MCSourceChunks ---------------------------
(***************************************************************************)
(* A page that becomes shorter, then longer.                               *)
(***************************************************************************)
EXTENDS SourceChunks, TLC

CONSTANTS r1, r2, p1

MCRun == {r1, r2}
MCPage == {p1}
MCLength == <<2, 1, 3>>
=============================================================================
