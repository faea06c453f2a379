--------------------------- MODULE MCSourceSearch ---------------------------
(***************************************************************************)
(* Two searches of one event loop that share the slots.                    *)
(***************************************************************************)
EXTENDS SourceSearch

CONSTANTS u1, u2

\* A question about code, and one whose routing fails
MCRoute == [u \in {u1, u2} |-> IF u = u1 THEN {{"web", "official_docs", "github"}} ELSE {{"web"}}]
=============================================================================
