---------------------------- MODULE PageArchive ----------------------------
(***************************************************************************)
(* What the source chunks promise, without saying how: a run sees pages as *)
(* they are on the web, and pieces as they are archived; the archive holds *)
(* pieces of texts some run has seen whole, each in its place, and never   *)
(* loses one.                                                              *)
(***************************************************************************)
EXTENDS Integers, Sequences

CONSTANTS Run, Page,
          Length  \* Length[v]: the number of pieces of a page's text in version v

VARIABLES
  live,     \* the version of each page on the web
  archive,  \* archive[c]: what is kept in cell c, a pair of a page and a number
  seen      \* seen[r]: the texts and pieces run r has seen

vars == <<live, archive, seen>>

Version == DOMAIN Length
Numbers == {Length[v] : v \in Version}
Cell    == Page \X UNION {1..n : n \in Numbers}
Nothing == [ver |-> 0, piece |-> 0]

\* Piece 0 is the whole text.
Text(p, v, i) == [page |-> p, ver |-> v, piece |-> i]

Init ==
  /\ live = [p \in Page |-> 1]
  /\ archive = [c \in Cell |-> Nothing]
  /\ seen = [r \in Run |-> {}]

Publish(p) ==
  /\ live[p] + 1 \in Version
  /\ live' = [live EXCEPT ![p] = @ + 1]
  /\ UNCHANGED <<archive, seen>>

Kept == {Text(c[1], archive[c].ver, c[2]) : c \in {d \in Cell : archive[d] # Nothing}}

Recall(r) ==
  /\ UNCHANGED <<live, archive>>
  /\ \E E \in SUBSET Kept : seen' = [seen EXCEPT ![r] = @ \cup E]

Fetch(r, p) ==
  /\ UNCHANGED <<live, archive>>
  /\ seen' = [seen EXCEPT ![r] = @ \cup {Text(p, live[p], 0)}]

\* Any cells are filled anew with pieces of what r has seen.
Keep(r) ==
  /\ UNCHANGED <<live, seen>>
  /\ archive' = [c \in Cell |-> archive'[c]]
  /\ \A c \in Cell :
       \/ archive'[c] = archive[c]
       \/ \E v \in Version : /\ Text(c[1], v, 0) \in seen[r] /\ c[2] <= Length[v]
                             /\ archive'[c] = [ver |-> v, piece |-> c[2]]

Next ==
  \/ \E r \in Run : Recall(r) \/ Keep(r) \/ \E p \in Page : Fetch(r, p)
  \/ \E p \in Page : Publish(p)

Spec == Init /\ [][Next]_vars
=============================================================================
