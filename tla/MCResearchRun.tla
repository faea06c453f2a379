--------------------------- MODULE MCResearchRun ---------------------------
(* A small instance of ResearchRun: two sub-questions, three pages. *)
EXTENDS ResearchRun, TLC

CONSTANTS t1, t2, docs, reddit, blog, q1, q2, k2, c2

\* Documentation answers the question, a blog the other sub-question, Reddit both.
MCSite     == (docs :> "a" @@ reddit :> "b" @@ blog :> "b")
MCRelevant == [t \in Task |-> Page \cap (t1 :> {docs, reddit} @@ t2 :> {reddit, blog})[t]]

\* The question is its own key terms.  Those of the other sub-question, q2, are c2, and k2
\* with its technology, which Sent cuts to the same query.
MCOwnQuery      == (t1 :> q1 @@ t2 :> q2)
MCTextQuery     == MCOwnQuery
MCFollowUpQuery == (t1 :> q1 @@ t2 :> k2)
MCMissedQuery   == (t1 :> q1 @@ t2 :> c2)
MCSent          == (c2 :> k2) @@ [q \in Query |-> q]
=============================================================================
