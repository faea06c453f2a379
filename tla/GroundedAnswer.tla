--------------------------- MODULE GroundedAnswer ---------------------------
(***************************************************************************)
(* What a research run promises, without saying how: it gathers evidence,  *)
(* never forgets any of it, and ends with one answer that cites nothing    *)
(* but evidence, or with a failure before there is any answer.  An answer  *)
(* that was judged bad is never sold as more than low confidence.          *)
(***************************************************************************)
CONSTANT Page

VARIABLES phase,      \* "gathering", "answered" or "failed"
          evidence,   \* the pages gathered so far
          citations,  \* the pages the answer cites
          judged,     \* the verdict on the answer
          confidence

vars == <<phase, evidence, citations, judged, confidence>>

Confidence == {"low", "medium", "high"}
Verdict    == {"good", "needs_improvement", "bad", "unavailable", "cached"}

Init ==
  /\ phase = "gathering"
  /\ evidence = {} /\ citations = {}
  /\ judged = "unavailable" /\ confidence = "low"

Gather(P) ==
  /\ phase = "gathering"
  /\ evidence' = evidence \cup P
  /\ UNCHANGED <<phase, citations, judged, confidence>>

Answer(C, v, c) ==
  /\ phase = "gathering"
  /\ C \subseteq evidence \/ v = "cached"
  /\ v = "bad" => c = "low"
  /\ v = "needs_improvement" => c # "high"
  /\ phase' = "answered"
  /\ citations' = C /\ judged' = v /\ confidence' = c
  /\ UNCHANGED evidence

Fail ==
  /\ phase = "gathering"
  /\ phase' = "failed"
  /\ UNCHANGED <<evidence, citations, judged, confidence>>

Next ==
  \/ \E P \in SUBSET Page : Gather(P)
  \/ \E C \in SUBSET Page, v \in Verdict, c \in Confidence : Answer(C, v, c)
  \/ Fail

Spec == Init /\ [][Next]_vars
=============================================================================
