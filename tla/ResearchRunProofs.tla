------------------------- MODULE ResearchRunProofs -------------------------
(***************************************************************************)
(* Proofs about ResearchRun, for any sub-questions, pages, queries and     *)
(* settings.                                                               *)
(*                                                                         *)
(* The layers: types; what the pool holds at each node (EvidenceStands);   *)
(* what an attempt owes to the pool it was written from (Fits), and what   *)
(* of it survives the searches of a retry (Keeps), with the cause of a     *)
(* retry (AttemptStands).  The properties follow from these.               *)
(***************************************************************************)
EXTENDS ResearchRun, FiniteSetTheorems, TLAPS

Early == {"semantic_cache_node", "classify_node", "source_rag_node", "simple_search_node",
          "planner_node", "search_node"}
Retrying == {"retry_node", "retry_synthesis", "retry_critic"}

-----------------------------------------------------------------------------
(* Operators *)

\* PagesOf stays within the pages.
LEMMA PagesType ==
  ASSUME NEW pairs \in SUBSET (Task \X Page)
  PROVE  PagesOf(pairs) \in SUBSET Page
  BY DEF PagesOf

\* PagesOf is monotone, and empty only for no pairs.
LEMMA PagesMonotone ==
  ASSUME NEW small, NEW large, small \subseteq large
  PROVE  PagesOf(small) \subseteq PagesOf(large)
  BY DEF PagesOf

\* There are pages exactly if there are pairs.
LEMMA PagesEmpty ==
  ASSUME NEW pairs
  PROVE  PagesOf(pairs) = {} <=> pairs = {}
  BY DEF PagesOf

\* assess_confidence returns one of the three levels; "high" has three sources and no gap.
LEMMA ConfidenceType ==
  ASSUME NEW cites, NEW missed, NEW P, NEW fallback
  PROVE  /\ ConfidenceOf(cites, missed, P, fallback) \in Confidence
         /\ ConfidenceOf(cites, missed, P, fallback) = "high" => Cardinality(cites) >= 3 /\ missed = {}
  BY DEF ConfidenceOf, Confidence

\* _verdict returns one of its three verdicts.
LEMMA VerdictType ==
  ASSUME NEW highs, NEW medium, NEW d, NEW P
  PROVE  VerdictOf(highs, medium, d, P) \in Verdict
  BY DEF VerdictOf, Verdict

\* A list cut short holds nothing else.
LEMMA FirstOfSubset ==
  ASSUME NEW S, NEW n, NEW U \in FirstOf(S, n)
  PROVE  U \subseteq S
  BY DEF FirstOf

\* A text cites sources; without any it cites none and names none.
LEMMA TextType ==
  ASSUME NEW P, NEW text \in Texts(P)
  PROVE  /\ text.cites \subseteq P /\ text.orphans \in BOOLEAN
         /\ P = {} => text = NoSourceText
  <1>1. CASE P = {}
    <2>1. text = NoSourceText
      BY <1>1 DEF Texts
    <2>2. NoSourceText.cites = {} /\ NoSourceText.orphans = FALSE
      BY DEF NoSourceText
    <2> QED BY <2>1, <2>2, <1>1
  <1>2. CASE P # {}
    <2>1. text.cites \subseteq P /\ text.orphans \in BOOLEAN
      BY <1>2, FirstOfSubset DEF Texts
    <2> QED BY <1>2, <2>1
  <1> QED BY <1>1, <1>2

\* What run_synthesis returns is an attempt.
LEMMA DraftType ==
  ASSUME NEW pl, pl.tasks \in SUBSET Task, pl.pairs \in SUBSET (Task \X Page),
         NEW text \in Texts(PagesOf(pl.pairs))
  PROVE  Draft(pl, text) \in Attempt
  <1>1. PagesOf(pl.pairs) \in SUBSET Page
    BY PagesType
  <1>2. text.cites \in SUBSET Page /\ text.orphans \in BOOLEAN
    BY <1>1, TextType
  <1>3. Missing(pl) \in SUBSET Task
    BY DEF Missing
  <1>4. ConfidenceOf(text.cites, Missing(pl), PagesOf(pl.pairs), text.fallback) \in Confidence
    BY ConfidenceType
  <1> QED BY <1>2, <1>3, <1>4 DEF Draft, Attempt

\* The placeholder before any synthesis is an attempt as well.
LEMMA NoDraftType == NoDraft \in Attempt
  <1>1. NoSourceText \in Texts(PagesOf(EmptyPool.pairs))
    BY PagesEmpty DEF Texts, EmptyPool, PoolOf
  <1> QED BY <1>1, DraftType DEF NoDraft, EmptyPool, PoolOf

\* What run_critic returns is a review, also when it breaks down.
LEMMA ReviewType ==
  /\ Unavailable \in Review
  /\ \A d, pl, report : ReviewOf(d, pl, report) \in Review
  <1>1. Unavailable \in Review
    BY DEF Unavailable, Review, Verdict
  <1>2. ASSUME NEW d, NEW pl, NEW report
        PROVE  ReviewOf(d, pl, report) \in Review
    BY VerdictType DEF ReviewOf, Review
  <1> QED BY <1>1, <1>2

\* format_response leaves one of the three levels of confidence.
LEMMA SettledType ==
  ASSUME NEW d \in Attempt, NEW rv \in Review
  PROVE  Settled(d, rv) \in Confidence
  BY DEF Settled, Attempt, Confidence

\* What a round of targeted searches does.
LEMMA TargetedGrows ==
  ASSUME NEW stage \in Stage, NEW S \in SUBSET (Task \X Query), Targeted(stage, S),
         found \in SUBSET (Task \X Page),
         searched \in SUBSET [stage : Stage, task : Task, query : Query, sent : Query]
  PROVE  /\ found \subseteq found' /\ found' \in SUBSET (Task \X Page)
         /\ searched' \in SUBSET [stage : Stage, task : Task, query : Query, sent : Query]
  <1>1. found \subseteq found' /\ found' \in SUBSET (Task \X Page)
    BY DEF Targeted
  <1>2. Searches(stage, S) \in SUBSET [stage : Stage, task : Task, query : Query, sent : Query]
    BY TaskAssumption DEF Searches
  <1> QED BY <1>1, <1>2 DEF Targeted

-----------------------------------------------------------------------------
(* Types *)

\* The queries of a gap round and of a retry go with sub-questions.
LEMMA FollowUpPairs ==
  ASSUME NEW F \in SUBSET Task
  PROVE  {<<t, FollowUpQuery[t]>> : t \in F} \in SUBSET (Task \X Query)
  BY TaskAssumption

\* A run starts in the types of its variables.
LEMMA TypeInit == Init => TypeOK
  <1> SUFFICES ASSUME Init PROVE TypeOK
    OBVIOUS
  <1>1. EmptyPool \in [tasks : SUBSET Task, pairs : SUBSET (Task \X Page)]
    BY DEF EmptyPool, PoolOf
  <1>2. NoAnswer \in Answer
    BY DEF NoAnswer, Answer, Confidence, Verdict
  <1>3. node \in Nodes
    BY DEF Init, Nodes
  <1>4. empty \in BOOLEAN /\ technical \in BOOLEAN /\ retried \in BOOLEAN
    BY DEF Init
  <1> QED BY <1>1, <1>2, <1>3, <1>4, NoDraftType, ReviewType DEF Init, TypeOK

\* Every step keeps every variable in its type.
LEMMA TypeStep == TypeOK /\ [Next]_vars => TypeOK'
  <1> SUFFICES ASSUME TypeOK, [Next]_vars PROVE TypeOK'
    OBVIOUS
  <1> USE DEF TypeOK
  <1>1. CASE CacheHit
    <2>1. answer' \in Answer
      BY <1>1 DEF CacheHit, Answer, Response, Confidence
    <2> QED BY <1>1, <2>1 DEF CacheHit, Nodes, evidenceVars, reviewVars, Response
  <1>2. CASE CacheMiss
    BY <1>2 DEF CacheMiss, Nodes, evidenceVars, reviewVars
  <1>3. CASE Classify
    BY <1>3 DEF Classify, Nodes, ResearchRoute, evidenceVars, reviewVars
  <1>4. CASE SourceRagHit
    BY <1>4, TaskAssumption DEF SourceRagHit, Nodes, reviewVars
  <1>5. CASE SourceRagMiss
    BY <1>5 DEF SourceRagMiss, Nodes, ResearchRoute, evidenceVars, reviewVars
  <1>6. CASE SimpleSearch
    <2>1. Searches("search", {<<Question, OwnQuery[Question]>>})
            \in SUBSET [stage : Stage, task : Task, query : Query, sent : Query]
      BY TaskAssumption DEF Searches, Stage
    <2> QED BY <1>6, <2>1, TaskAssumption DEF SimpleSearch, Nodes, reviewVars
  <1>7. CASE Plan
    <2>1. technical' \in BOOLEAN
      BY <1>7 DEF Plan
    <2>2. tasks' \in SUBSET Task
      BY <1>7 DEF Plan
    <2> QED BY <1>7, <2>1, <2>2 DEF Plan, Nodes, reviewVars
  <1>8. CASE SearchAll
    <2>1. Searches("search", {<<t, OwnQuery[t]>> : t \in tasks})
            \in SUBSET [stage : Stage, task : Task, query : Query, sent : Query]
      BY TaskAssumption DEF Searches, Stage
    <2>2. found' \in SUBSET (Task \X Page)
      BY <1>8 DEF SearchAll
    <2> QED BY <1>8, <2>1, <2>2 DEF SearchAll, Nodes, reviewVars
  <1>9. CASE CollectEvidence
    BY <1>9 DEF CollectEvidence, EmptyPool, Nodes, reviewVars, PoolOf
  <1>10. CASE DetectGaps
    BY <1>10 DEF DetectGaps, NewQueriesFor, Missing, Nodes, reviewVars
  <1>11. CASE TargetedSearch
    <2>1. Targeted("gap_search", {<<t, FollowUpQuery[t]>> : t \in followUps}) /\ "gap_search" \in Stage
      BY <1>11 DEF TargetedSearch, Stage, PoolOf
    <2>2. /\ found' \in SUBSET (Task \X Page)
          /\ searched' \in SUBSET [stage : Stage, task : Task, query : Query, sent : Query]
      BY <2>1, FollowUpPairs, TargetedGrows
    <2> QED BY <1>11, <2>2 DEF TargetedSearch, Nodes, reviewVars, PoolOf
  <1>12. CASE Synthesize
    <2>1. draft' \in Attempt
      BY <1>12, DraftType DEF Synthesize
    <2> QED BY <1>12, <2>1 DEF Synthesize, Nodes, evidenceVars
  <1>13. CASE Criticize
    <2>1. review' \in Review
      BY <1>13, ReviewType DEF Criticize
    <2>2. wanted' \in SUBSET Query
      <3>1. ASSUME NEW queries \in QueriesOf(draft), NEW S \in Suggestions(draft, queries)
            PROVE  NewSuggestions(S) \in SUBSET Query
        <4>1. queries \in SUBSET Query
          BY DEF QueriesOf
        <4>2. {MissedQuery[t] : t \in draft.missed} \in SUBSET Query
          BY TaskAssumption DEF Attempt
        <4>3. S \in SUBSET Query
          BY <4>1, <4>2, FirstOfSubset DEF Suggestions
        <4> QED BY <4>3 DEF NewSuggestions
      <3> QED BY <1>13, <3>1 DEF Criticize
    <2> QED BY <1>13, <2>1, <2>2 DEF Criticize, Nodes, evidenceVars
  <1>14. CASE RetrySearch
    <2>1. /\ found' \in SUBSET (Task \X Page)
          /\ searched' \in SUBSET [stage : Stage, task : Task, query : Query, sent : Query]
      <3>1. PICK Q \in FirstOf(wanted, MaxTargeted) :
              \/ UNCHANGED <<found, pool, searched>>
              \/ LET open == Missing(pool) \cap tasks IN
                 \E homes \in IF open # {} THEN {open} ELSE FirstOf(tasks, 1) :
                 \E home \in [Q -> homes] : Targeted("retry", {<<home[q], q>> : q \in Q})
        BY <1>14 DEF RetrySearch, PoolOf
      <3>2. CASE UNCHANGED <<found, pool, searched>>
        BY <3>2
      <3>3. ASSUME NEW homes \in SUBSET tasks, NEW home \in [Q -> homes],
                   Targeted("retry", {<<home[q], q>> : q \in Q})
            PROVE  <2>1!1 /\ <2>1!2
        <4>1. Q \subseteq Query
          BY FirstOfSubset
        <4>2. {<<home[q], q>> : q \in Q} \in SUBSET (Task \X Query) /\ "retry" \in Stage
          BY <4>1, <3>3 DEF Stage
        <4> QED BY <3>3, <4>2, TargetedGrows
      <3>4. \A homes \in IF Missing(pool) \cap tasks # {} THEN {Missing(pool) \cap tasks}
                                                        ELSE FirstOf(tasks, 1) : homes \subseteq tasks
        BY FirstOfSubset
      <3> QED BY <3>1, <3>2, <3>3, <3>4
    <2>2. pool' = pool \/ pool' = [tasks |-> tasks, pairs |-> found']
      BY <1>14 DEF RetrySearch, PoolOf
    <2> QED BY <1>14, <2>1, <2>2 DEF RetrySearch, Nodes, PoolOf
  <1>15. CASE RetrySynthesis
    <2>1. redraft' \in Attempt
      BY <1>15, DraftType DEF RetrySynthesis
    <2> QED BY <1>15, <2>1 DEF RetrySynthesis, Nodes, evidenceVars
  <1>16. CASE RetryReview
    <2>1. draft' \in Attempt /\ redraft' \in Attempt /\ review' \in Review
      BY <1>16, ReviewType, NoDraftType DEF RetryReview, SecondReviews
    <2> QED BY <1>16, <2>1 DEF RetryReview, Nodes, evidenceVars
  <1>17. CASE FormatResponse
    <2>1. answer' \in Answer
      <3>1. draft.cites \in SUBSET Page /\ review.verdict \in Verdict
        BY DEF Attempt, Review
      <3> QED BY <1>17, <3>1, SettledType DEF FormatResponse, Answer, Response
    <2> QED BY <1>17, <2>1 DEF FormatResponse, Nodes, evidenceVars, reviewVars, Response
  <1>18. CASE UNCHANGED vars
    BY <1>18 DEF vars, evidenceVars, reviewVars
  <1> QED
    BY <1>1, <1>2, <1>3, <1>4, <1>5, <1>6, <1>7, <1>8, <1>9, <1>10, <1>11, <1>12, <1>13, <1>14,
       <1>15, <1>16, <1>17, <1>18 DEF Next

\* Every variable of a run keeps its type, for any number of sub-questions, pages and queries.
THEOREM TypeCorrect == Spec => []TypeOK
  BY TypeInit, TypeStep, PTL DEF Spec

-----------------------------------------------------------------------------
(* The pool *)

Whole == [tasks |-> tasks, pairs |-> found]

\* The pool holds all that was found, unless collecting it failed; before the searches there is
\* nothing to hold, and nothing is followed up before the gaps are known.
EvidenceStands ==
  /\ found \subseteq tasks \X Page
  /\ followUps \subseteq tasks
  /\ pool = Whole \/ pool = EmptyPool
  /\ node \in Early => found = {} /\ searched = {}
  /\ node \in Early \cup {"evidence_collection"} => pool = EmptyPool
  /\ node \in Early \cup {"evidence_collection", "gap_detection"} => followUps = {}

\* Targeted searches for some sub-questions find pages for those only.
LEMMA TargetedFiled ==
  ASSUME NEW T \in SUBSET Task, found \subseteq T \X Page,
         NEW stage, NEW S \in SUBSET (T \X Query), Targeted(stage, S)
  PROVE  found' \subseteq T \X Page
  <1>1. PICK raised \in SUBSET S : \E hits \in [S \ raised -> SUBSET Page] :
          found' = found \cup {e \in Task \X Page :
                                 \E s \in S \ raised : s[1] = e[1] /\ e[2] \in hits[s]}
    BY DEF Targeted
  <1> QED BY <1>1

\* The searches of a retry are filed under sub-questions of the run.
LEMMA RetrySearchFiled ==
  ASSUME TypeOK, found \subseteq tasks \X Page, RetrySearch
  PROVE  \/ node' = "failed" /\ UNCHANGED <<found, pool, searched>> /\ tasks = {} /\ wanted # {}
         \/ /\ node' = "retry_synthesis"
            /\ pool' = [tasks |-> tasks, pairs |-> found']
            /\ found' \subseteq tasks \X Page
            /\ \E Q \in SUBSET wanted : \E home \in [Q -> tasks] :
                 Targeted("retry", {<<home[q], q>> : q \in Q})
  <1>1. PICK Q \in FirstOf(wanted, MaxTargeted) :
          \/ /\ Q # {} /\ tasks = {}
             /\ node' = "failed"
             /\ UNCHANGED <<found, pool, searched>>
          \/ /\ Q = {} \/ tasks # {}
             /\ LET open == Missing(pool) \cap tasks IN
                \E homes \in IF open # {} THEN {open} ELSE FirstOf(tasks, 1) :
                \E home \in [Q -> homes] : Targeted("retry", {<<home[q], q>> : q \in Q})
             /\ pool' = [tasks |-> tasks, pairs |-> found']
             /\ node' = "retry_synthesis"
    BY DEF RetrySearch, PoolOf
  <1>2. Q \subseteq wanted /\ Q \subseteq Query
    BY FirstOfSubset DEF TypeOK
  <1>3. CASE Q # {} /\ tasks = {} /\ node' = "failed" /\ UNCHANGED <<found, pool, searched>>
    BY <1>2, <1>3
  <1>4. ASSUME NEW homes \in SUBSET tasks, NEW home \in [Q -> homes],
               Targeted("retry", {<<home[q], q>> : q \in Q})
        PROVE  /\ found' \subseteq tasks \X Page
               /\ \E R \in SUBSET wanted : \E h \in [R -> tasks] :
                    Targeted("retry", {<<h[q], q>> : q \in R})
    <2>1. {<<home[q], q>> : q \in Q} \in SUBSET (tasks \X Query)
      BY <1>2
    <2>2. found' \subseteq tasks \X Page
      BY <1>4, <2>1, TargetedFiled DEF TypeOK
    <2>3. home \in [Q -> tasks]
      OBVIOUS
    <2> QED BY <1>2, <1>4, <2>2, <2>3
  <1>5. \A homes \in IF Missing(pool) \cap tasks # {} THEN {Missing(pool) \cap tasks}
                                                    ELSE FirstOf(tasks, 1) : homes \subseteq tasks
    BY FirstOfSubset
  <1> QED BY <1>1, <1>3, <1>4, <1>5

\* A run starts with nothing found.
LEMMA EvidenceInit == Init => EvidenceStands
  BY DEF Init, EvidenceStands, EmptyPool, PoolOf

\* Every step keeps the pool whole or empty.
LEMMA EvidenceStep == TypeOK /\ EvidenceStands /\ [Next]_vars => EvidenceStands'
  <1> SUFFICES ASSUME TypeOK, EvidenceStands, [Next]_vars PROVE EvidenceStands'
    OBVIOUS
  <1> USE DEF EvidenceStands, Early, Whole
  <1>1. CASE CacheHit
    BY <1>1 DEF CacheHit, evidenceVars, Response
  <1>2. CASE CacheMiss
    BY <1>2 DEF CacheMiss, evidenceVars
  <1>3. CASE Classify
    BY <1>3 DEF Classify, ResearchRoute, evidenceVars
  <1>4. CASE SourceRagHit
    BY <1>4 DEF SourceRagHit
  <1>5. CASE SourceRagMiss
    BY <1>5 DEF SourceRagMiss, ResearchRoute, evidenceVars
  <1>6. CASE SimpleSearch
    BY <1>6 DEF SimpleSearch
  <1>7. CASE Plan
    BY <1>7 DEF Plan
  <1>8. CASE SearchAll
    BY <1>8 DEF SearchAll
  <1>9. CASE CollectEvidence
    BY <1>9 DEF CollectEvidence, PoolOf
  <1>10. CASE DetectGaps
    <2>1. followUps' \subseteq tasks
      BY <1>10 DEF DetectGaps, NewQueriesFor, Missing, EmptyPool, PoolOf
    <2> QED BY <1>10, <2>1 DEF DetectGaps
  <1>11. CASE TargetedSearch
    <2>1. {<<t, FollowUpQuery[t]>> : t \in followUps} \in SUBSET (tasks \X Query)
      BY TaskAssumption DEF TypeOK
    <2>2. found' \subseteq tasks \X Page
      BY <1>11, <2>1, TargetedFiled DEF TypeOK, TargetedSearch, PoolOf
    <2> QED BY <1>11, <2>2 DEF TargetedSearch, PoolOf
  <1>12. CASE Synthesize
    BY <1>12 DEF Synthesize, evidenceVars
  <1>13. CASE Criticize
    BY <1>13 DEF Criticize, evidenceVars
  <1>14. CASE RetrySearch
    BY <1>14, RetrySearchFiled DEF RetrySearch, PoolOf
  <1>15. CASE RetrySynthesis
    BY <1>15 DEF RetrySynthesis, evidenceVars
  <1>16. CASE RetryReview
    BY <1>16 DEF RetryReview, evidenceVars
  <1>17. CASE FormatResponse
    BY <1>17 DEF FormatResponse, evidenceVars, Response
  <1>18. CASE UNCHANGED vars
    BY <1>18 DEF vars, evidenceVars
  <1> QED
    BY <1>1, <1>2, <1>3, <1>4, <1>5, <1>6, <1>7, <1>8, <1>9, <1>10, <1>11, <1>12, <1>13, <1>14,
       <1>15, <1>16, <1>17, <1>18 DEF Next

-----------------------------------------------------------------------------
(* Attempts and their reviews *)

\* What a fresh attempt owes to the pool it was written from
Fits(d, pl) ==
  /\ d.cites \subseteq PagesOf(pl.pairs)
  /\ d.missed = Missing(pl)
  /\ d.sourced <=> pl.pairs # {}
  /\ pl.pairs = {} => d.cites = {} /\ ~d.orphans
  /\ d.conf = "high" => Cardinality(d.cites) >= 3 /\ d.missed = {}

\* What of it a larger pool leaves true
Keeps(d, pl, docs) ==
  /\ d.cites \subseteq PagesOf(pl.pairs)
  /\ \A t \in pl.tasks : (\A p \in Relevant[t] : <<t, p>> \notin docs) => t \in d.missed
  /\ d.conf = "high" => Cardinality(d.cites) >= 3 /\ d.missed = {}

\* What a review says of the attempt it is a review of
ReviewFits(rv, d) ==
  /\ rv.verdict = "good" => ~d.orphans /\ d.missed = {}
  /\ d.cites = {} /\ d.sourced => rv.verdict \in {"bad", "unavailable"}

Settles == answer = [cites |-> draft.cites, conf |-> Settled(draft, review), verdict |-> review.verdict]

\* The attempt that is kept fits its review and the pool; a retry has a cause, sub-questions to
\* file its queries under, and a pool that was not lost.
AttemptStands ==
  /\ node = "critic_node" => Fits(draft, pool)
  /\ node = "retry_critic" => Fits(redraft, pool)
  /\ Reviewed \/ Answered => Keeps(draft, pool, found) /\ ReviewFits(review, draft)
  /\ node \in Retrying => WorthRetrying(review) /\ tasks # {} /\ pool = Whole
  /\ Answered => Settles

\* run_synthesis: an attempt fits the pool it was written from.
LEMMA DraftFits ==
  ASSUME NEW pl, NEW text \in Texts(PagesOf(pl.pairs))
  PROVE  Fits(Draft(pl, text), pl)
  <1> DEFINE P == PagesOf(pl.pairs)
             d == Draft(pl, text)
  <1>1. /\ d.cites = text.cites /\ d.orphans = text.orphans /\ d.missed = Missing(pl)
        /\ d.conf = ConfidenceOf(text.cites, Missing(pl), P, text.fallback)
    BY DEF Draft
  <1>2. d.sourced = (P # {})
    BY Zenon DEF Draft
  <1>3. d.conf = "high" => Cardinality(d.cites) >= 3 /\ d.missed = {}
    BY <1>1, ConfidenceType
  <1>4. d.cites \subseteq P
    BY <1>1, TextType
  <1>5. ASSUME pl.pairs = {}
        PROVE  d.cites = {} /\ ~d.orphans
    <2>1. text = NoSourceText
      BY <1>5, PagesEmpty, TextType
    <2>2. NoSourceText.cites = {} /\ ~NoSourceText.orphans
      BY DEF NoSourceText
    <2> QED BY <1>1, <2>1, <2>2
  <1>6. d.sourced <=> pl.pairs # {}
    BY <1>2, PagesEmpty
  <1> HIDE DEF d, P
  <1>7. d.cites \subseteq PagesOf(pl.pairs) /\ d.missed = Missing(pl)
    BY <1>1, <1>4 DEF P
  <1> QED BY <1>3, <1>5, <1>6, <1>7 DEF Fits, d

\* An attempt that fits its pool reports what was not found at all.
LEMMA FitsKeeps ==
  ASSUME NEW d, NEW pl, NEW docs, Fits(d, pl), pl.pairs \subseteq docs
  PROVE  Keeps(d, pl, docs)
  BY DEF Fits, Keeps, Missing, Evidence

\* More evidence for the same sub-questions takes nothing away from an attempt.
LEMMA KeepsLonger ==
  ASSUME NEW d, NEW pl, NEW docs, NEW pl2, NEW docs2, Keeps(d, pl, docs),
         pl2.tasks = pl.tasks, pl.pairs \subseteq pl2.pairs, docs \subseteq docs2
  PROVE  Keeps(d, pl2, docs2)
  BY PagesMonotone DEF Keeps

\* run_critic: the deterministic checks leave no gap and no orphan in a "good" answer.
LEMMA ReviewOfFits ==
  ASSUME NEW d \in Attempt, NEW pl, NEW report, Fits(d, pl)
  PROVE  ReviewFits(ReviewOf(d, pl, report), d)
  <1> DEFINE P     == PagesOf(pl.pairs)
             highs == HighIssues(d, pl, report)
             rv    == ReviewOf(d, pl, report)
  <1>1. rv.verdict = VerdictOf(highs, MediumIssue(d, pl, report), d, P)
    BY DEF ReviewOf
  <1>2. ASSUME rv.verdict = "good"
        PROVE  ~d.orphans /\ d.missed = {}
    <2>1. highs = {} /\ ~MediumIssue(d, pl, report)
      BY <1>1, <1>2 DEF VerdictOf
    <2>2. ~d.orphans
      BY <2>1 DEF HighIssues
    <2>3. d.missed = {}
      BY <2>1 DEF HighIssues, MediumIssue
    <2> QED BY <2>2, <2>3
  <1>3. ASSUME d.cites = {}, d.sourced
        PROVE  rv.verdict = "bad"
    <2>1. P # {}
      BY <1>3, PagesEmpty DEF Fits
    <2> QED BY <1>1, <1>3, <2>1 DEF VerdictOf
  <1> HIDE DEF rv
  <1> QED BY <1>2, <1>3 DEF ReviewFits, rv

\* Without sub-questions and without evidence there is nothing to object to.
LEMMA NothingToRetry ==
  ASSUME NEW d, NEW pl, NEW report \in Reports(d), Fits(d, pl), pl.tasks = {}, pl.pairs = {}
  PROVE  ~WorthRetrying(ReviewOf(d, pl, report))
  <1> DEFINE P == PagesOf(pl.pairs)
  <1>1. P = {} /\ d.cites = {} /\ ~d.orphans
    BY PagesEmpty DEF Fits
  <1>2. d.missed = {}
    BY DEF Fits, Missing
  <1>3. report = Silent
    BY <1>1 DEF Reports, Asked
  <1>4. ~report.misses
    BY <1>3 DEF Silent
  <1>5. HighIssues(d, pl, report) = {}
    BY <1>1, <1>2, <1>4 DEF HighIssues
  <1>6. ReviewOf(d, pl, report).high = FALSE
    BY <1>5, Zenon DEF ReviewOf
  <1>7. ~(Cardinality({}) >= 2)
    BY FS_EmptySet
  <1>8. ReviewOf(d, pl, report).verdict # "bad"
    <2>1. ReviewOf(d, pl, report).verdict
            = VerdictOf({}, MediumIssue(d, pl, report), d, P)
      BY <1>5 DEF ReviewOf
    <2> HIDE DEF P
    <2> QED BY <2>1, <1>1, <1>7 DEF VerdictOf
  <1> QED BY <1>6, <1>8 DEF WorthRetrying

\* A run starts without attempts.
LEMMA AttemptInit == Init => AttemptStands
  BY DEF Init, AttemptStands, Reviewed, Answered, Retrying

\* Every step keeps what the attempts owe.
LEMMA AttemptStep == TypeOK /\ EvidenceStands /\ AttemptStands /\ [Next]_vars => AttemptStands'
  <1> SUFFICES ASSUME TypeOK, EvidenceStands, AttemptStands, [Next]_vars PROVE AttemptStands'
    OBVIOUS
  <1> USE DEF AttemptStands, Reviewed, Answered, Retrying
  <1>0. pool.pairs \subseteq found
    BY DEF EvidenceStands, Whole, EmptyPool, PoolOf
  <1>1. CASE CacheHit
    BY <1>1 DEF CacheHit, Response
  <1>2. CASE CacheMiss
    BY <1>2 DEF CacheMiss
  <1>3. CASE Classify
    BY <1>3 DEF Classify, ResearchRoute
  <1>4. CASE SourceRagHit
    BY <1>4 DEF SourceRagHit
  <1>5. CASE SourceRagMiss
    BY <1>5 DEF SourceRagMiss, ResearchRoute
  <1>6. CASE SimpleSearch
    BY <1>6 DEF SimpleSearch
  <1>7. CASE Plan
    BY <1>7 DEF Plan
  <1>8. CASE SearchAll
    BY <1>8 DEF SearchAll
  <1>9. CASE CollectEvidence
    BY <1>9 DEF CollectEvidence, PoolOf
  <1>10. CASE DetectGaps
    BY <1>10 DEF DetectGaps
  <1>11. CASE TargetedSearch
    BY <1>11 DEF TargetedSearch, PoolOf
  <1>12. CASE Synthesize
    <2>1. Fits(draft', pool) /\ pool' = pool /\ node' = "critic_node"
      BY <1>12, DraftFits DEF Synthesize, evidenceVars
    <2>2. Fits(draft, pool)'
      BY <2>1 DEF Fits, Missing, Evidence
    <2> QED BY <2>1, <2>2
  <1>13. CASE Criticize
    <2>1. /\ draft' = draft /\ pool' = pool /\ found' = found /\ tasks' = tasks
          /\ node = "critic_node" /\ node' \in {"retry_node", "format_response"}
      BY <1>13 DEF Criticize, evidenceVars
    <2>2. Fits(draft, pool) /\ draft \in Attempt
      BY <2>1 DEF TypeOK
    <2>3. Keeps(draft, pool, found)
      BY <1>0, <2>2, FitsKeeps
    <2>4. CASE review' = Unavailable /\ node' = "format_response"
      <3>1. ReviewFits(review', draft)
        BY <2>4 DEF ReviewFits, Unavailable
      <3> QED BY <2>1, <2>3, <2>4, <3>1 DEF Keeps, ReviewFits
    <2>5. ASSUME NEW report \in Reports(draft), review' = ReviewOf(draft, pool, report),
                 node' = "retry_node" => WorthRetrying(review')
          PROVE  AttemptStands'
      <3>1. ReviewFits(review', draft)
        BY <2>2, <2>5, ReviewOfFits
      <3>2. ASSUME node' = "retry_node"
            PROVE  tasks # {} /\ pool = Whole
        <4>1. ~(pool.tasks = {} /\ pool.pairs = {})
          BY <2>2, <2>5, <3>2, NothingToRetry
        <4>2. pool = Whole
          BY <4>1 DEF EvidenceStands, EmptyPool, PoolOf
        <4>3. pool.tasks = tasks /\ pool.pairs = found
          BY <4>2 DEF Whole
        <4> QED BY <4>1, <4>2, <4>3 DEF EvidenceStands
      <3> QED BY <2>1, <2>3, <2>5, <3>1, <3>2 DEF Keeps, ReviewFits, Whole, WorthRetrying
    <2> QED BY <1>13, <2>4, <2>5 DEF Criticize
  <1>14. CASE RetrySearch
    <2>1. /\ node = "retry_node" /\ draft' = draft /\ review' = review /\ tasks' = tasks
          /\ pool = Whole /\ tasks # {} /\ Keeps(draft, pool, found) /\ ReviewFits(review, draft)
          /\ WorthRetrying(review)
      BY <1>14 DEF RetrySearch, PoolOf
    <2>2. \/ node' = "failed"
          \/ /\ node' = "retry_synthesis" /\ pool' = [tasks |-> tasks, pairs |-> found']
             /\ found \subseteq found'
      BY <1>14, RetrySearchFiled DEF EvidenceStands, Targeted
    <2>3. CASE node' = "failed"
      BY <2>3
    <2>4. CASE /\ node' = "retry_synthesis" /\ pool' = [tasks |-> tasks, pairs |-> found']
               /\ found \subseteq found'
      <3>1. Keeps(draft, pool', found')
        <4>1. pool'.tasks = pool.tasks /\ pool.pairs \subseteq pool'.pairs
          BY <2>1, <2>4 DEF Whole
        <4> QED BY <2>1, <2>4, <4>1, KeepsLonger
      <3> QED BY <2>1, <2>4, <3>1 DEF Keeps, ReviewFits, Whole, WorthRetrying
    <2> QED BY <2>2, <2>3, <2>4
  <1>15. CASE RetrySynthesis
    <2>1. /\ Fits(redraft', pool) /\ node = "retry_synthesis" /\ node' = "retry_critic"
          /\ draft' = draft /\ review' = review /\ tasks' = tasks /\ pool' = pool /\ found' = found
      BY <1>15, DraftFits DEF RetrySynthesis, evidenceVars
    <2>2. Fits(redraft, pool)'
      BY <2>1 DEF Fits, Missing, Evidence
    <2> QED BY <2>1, <2>2 DEF Keeps, ReviewFits, Whole, WorthRetrying
  <1>16. CASE RetryReview
    <2>1. /\ node = "retry_critic" /\ node' = "format_response"
          /\ pool' = pool /\ found' = found
          /\ Fits(redraft, pool) /\ redraft \in Attempt
          /\ Keeps(draft, pool, found) /\ ReviewFits(review, draft)
      BY <1>16 DEF RetryReview, evidenceVars, TypeOK
    <2>2. \/ draft' = draft /\ review' = review
          \/ draft' = redraft /\ review' \in SecondReviews
      BY <1>16 DEF RetryReview
    <2>3. Keeps(redraft, pool, found)
      BY <1>0, <2>1, FitsKeeps
    <2>4. \A second \in SecondReviews : ReviewFits(second, redraft)
      <3>1. ReviewFits(Unavailable, redraft)
        BY DEF ReviewFits, Unavailable
      <3> QED BY <2>1, <3>1, ReviewOfFits DEF SecondReviews
    <2>5. Keeps(draft', pool', found') /\ ReviewFits(review', draft')
      BY <2>1, <2>2, <2>3, <2>4
    <2> QED BY <2>1, <2>5 DEF Keeps, ReviewFits
  <1>17. CASE FormatResponse
    <2>1. /\ draft' = draft /\ review' = review /\ pool' = pool /\ found' = found
          /\ node' = "END" /\ Keeps(draft, pool, found) /\ ReviewFits(review, draft) /\ Settles'
      BY <1>17 DEF FormatResponse, evidenceVars, reviewVars, Settles, Settled, Response
    <2> QED BY <2>1 DEF Keeps, ReviewFits
  <1>18. CASE UNCHANGED vars
    BY <1>18 DEF vars, evidenceVars, reviewVars, Keeps, ReviewFits, Fits, Missing, Evidence,
                 Whole, WorthRetrying, Settles, Settled
  <1> QED
    BY <1>1, <1>2, <1>3, <1>4, <1>5, <1>6, <1>7, <1>8, <1>9, <1>10, <1>11, <1>12, <1>13, <1>14,
       <1>15, <1>16, <1>17, <1>18 DEF Next

\* The inductive invariant
IInv == TypeOK /\ EvidenceStands /\ AttemptStands

\* The strengthened invariant holds in every state of every run.
THEOREM RunInvariance == Spec => []IInv
  <1>1. Init => IInv
    BY TypeInit, EvidenceInit, AttemptInit DEF IInv
  <1>2. IInv /\ [Next]_vars => IInv'
    BY TypeStep, EvidenceStep, AttemptStep DEF IInv
  <1> QED BY <1>1, <1>2, PTL DEF Spec

-----------------------------------------------------------------------------
(* What follows from the invariant *)

\* An answer that is kept lists every sub-question that nothing relevant was found for.
THEOREM GapsReported == Spec => []GapsAreReported
  <1>1. IInv => GapsAreReported
    BY DEF IInv, AttemptStands, Keeps, GapsAreReported
  <1> QED BY <1>1, RunInvariance, PTL

\* The review that is kept is a review of the answer that is kept.
THEOREM ReviewIsOfAnswer == Spec => []ReviewFitsDraft
  <1>1. IInv => ReviewFitsDraft
    BY DEF IInv, AttemptStands, ReviewFits, ReviewFitsDraft
  <1> QED BY <1>1, RunInvariance, PTL

\* High confidence needs three sources, evidence for everything, and a critic without objections.
THEOREM HighConfidenceEarned == Spec => []HighConfidenceIsEarned
  <1>1. ASSUME IInv, Answered, answer.conf = "high"
        PROVE  /\ Cardinality(answer.cites) >= 3
               /\ \A t \in pool.tasks : \E p \in Relevant[t] : <<t, p>> \in found
               /\ answer.verdict \in {"good", "unavailable"}
    <2>1. /\ answer.cites = draft.cites /\ answer.verdict = review.verdict
          /\ answer.conf = Settled(draft, review) /\ Keeps(draft, pool, found)
      BY <1>1 DEF IInv, AttemptStands, Settles
    <2>2. review.verdict \in Verdict
      BY <1>1 DEF IInv, TypeOK, Review
    <2>3. /\ draft.conf = "high"
          /\ review.verdict \notin {"bad", "needs_improvement"}
      BY <1>1, <2>1 DEF Settled
    <2>4. Cardinality(draft.cites) >= 3 /\ draft.missed = {}
      BY <2>1, <2>3 DEF Keeps
    <2>5. \A t \in pool.tasks : \E p \in Relevant[t] : <<t, p>> \in found
      BY <2>1, <2>4 DEF Keeps
    <2> QED BY <2>1, <2>2, <2>3, <2>4, <2>5 DEF Verdict
  <1>2. IInv => HighConfidenceIsEarned
    BY <1>1 DEF HighConfidenceIsEarned
  <1> QED BY <1>2, RunInvariance, PTL

\* VERDICT_RANK is a number for every verdict.
LEMMA RankType == \A v : Rank(v) \in Int
  BY DEF Rank

\* No step after the review puts a worse answer in the place of the one reviewed.
THEOREM RetryKeepsTheBetter == Spec => RetryNeverWorse
  <1>1. ASSUME IInv, [Next]_vars, Reviewed
        PROVE  /\ Rank(review'.verdict) >= Rank(review.verdict)
               /\ draft' # draft => WorthRetrying(review)
    <2>1. CASE RetryReview
      <3>1. WorthRetrying(review)
        BY <1>1, <2>1 DEF IInv, AttemptStands, Retrying, RetryReview
      <3>2. Rank(review'.verdict) >= Rank(review.verdict)
        BY <2>1, RankType DEF RetryReview, Better
      <3> QED BY <3>1, <3>2
    <2>2. CASE review' = review /\ draft' = draft
      BY <2>2, RankType
    <2>3. RetryReview \/ (review' = review /\ draft' = draft)
      BY <1>1 DEF Next, vars, evidenceVars, reviewVars, Reviewed, CacheHit, CacheMiss, Classify,
                  SourceRagHit, SourceRagMiss, SimpleSearch, Plan, SearchAll, CollectEvidence,
                  DetectGaps, TargetedSearch, Synthesize, Criticize, RetrySearch, RetrySynthesis,
                  FormatResponse, PoolOf, Response
    <2> QED BY <2>1, <2>2, <2>3
  <1>2. IInv /\ [Next]_vars
          => [Reviewed => /\ Rank(review'.verdict) >= Rank(review.verdict)
                          /\ draft' # draft => WorthRetrying(review)]_vars
    BY <1>1
  <1> QED BY <1>2, RunInvariance, PTL DEF Spec, RetryNeverWorse

\* Once the first searches are done a run cannot fail.
THEOREM NoLateFailure == Spec => FailsOnlyInFirstSearch
  <1>1. ASSUME IInv, Next, node' = "failed"
        PROVE  node \in {"simple_search_node", "search_node"}
    <2>1. CASE RetrySearch
      <3>1. found \subseteq tasks \X Page /\ TypeOK /\ tasks # {}
        BY <1>1, <2>1 DEF IInv, EvidenceStands, AttemptStands, Retrying, RetrySearch, PoolOf
      <3> QED BY <1>1, <2>1, <3>1, RetrySearchFiled
    <2>2. CASE ~RetrySearch
      BY <1>1, <2>2 DEF Next, CacheHit, CacheMiss, Classify, ResearchRoute, SourceRagHit,
                        SourceRagMiss, SimpleSearch, Plan, SearchAll, CollectEvidence, DetectGaps,
                        TargetedSearch, Synthesize, Criticize, RetrySynthesis, RetryReview,
                        FormatResponse, PoolOf, Response
    <2> QED BY <2>1, <2>2
  <1>2. IInv /\ [Next]_vars
          => [node' = "failed" => node \in {"simple_search_node", "search_node"}]_vars
    BY <1>1
  <1> QED BY <1>2, RunInvariance, PTL DEF Spec, FailsOnlyInFirstSearch

\* No edge leads back to an earlier node: each superstep of a run moves on, whatever it
\* decides, so that a run has no more of them than the graph has places (graph.py).
THEOREM StepsMoveOn == Spec => NoEdgeLeadsBack
  <1>1. ASSUME Next PROVE Place(node') > Place(node)
    <2>1. CASE CacheHit \/ CacheMiss \/ Classify
      <3>1. \/ node = "semantic_cache_node" /\ node' \in {"END", "classify_node"}
            \/ node = "classify_node"
               /\ node' \in {"source_rag_node", "simple_search_node", "planner_node"}
        BY <2>1 DEF CacheHit, CacheMiss, Classify, ResearchRoute
      <3> QED BY <3>1 DEF Place
    <2> USE DEF Place
    <2>2. CASE SourceRagHit \/ SourceRagMiss \/ SimpleSearch \/ Plan \/ SearchAll
      BY <2>2 DEF SourceRagHit, SourceRagMiss, ResearchRoute, SimpleSearch, Plan, SearchAll
    <2>3. CASE CollectEvidence \/ DetectGaps \/ TargetedSearch \/ Synthesize \/ Criticize
      BY <2>3 DEF CollectEvidence, DetectGaps, TargetedSearch, Synthesize, Criticize
    <2>4. CASE RetrySearch
      <3>1. node = "retry_node" /\ node' \in {"retry_synthesis", "failed"}
        BY <2>4 DEF RetrySearch
      <3> QED BY <3>1
    <2>5. CASE RetrySynthesis \/ RetryReview \/ FormatResponse
      <3>1. <<node, node'>> \in {<<"retry_synthesis", "retry_critic">>,
                                 <<"retry_critic", "format_response">>,
                                 <<"format_response", "END">>}
        BY <2>5 DEF RetrySynthesis, RetryReview, FormatResponse
      <3> QED BY <3>1
    <2> QED BY <1>1, <2>1, <2>2, <2>3, <2>4, <2>5 DEF Next
  <1>2. [Next]_vars => [Place(node') > Place(node)]_vars
    BY <1>1
  <1> QED BY <1>2, PTL DEF Spec, NoEdgeLeadsBack

-----------------------------------------------------------------------------
(* Queries *)

OwnQueries == {OwnQuery[t] : t \in tasks} \cup {TextQuery[t] : t \in tasks}

\* Up to the retry, all that was searched counts as executed; a round only holds new queries.
QueriesStand ==
  /\ \A s \in searched : s.sent = Sent[s.query]
  /\ node \in {"evidence_collection", "gap_detection", "targeted_search"} =>
       \A s \in searched : s.query \in OwnQueries
  /\ node \in {"synthesis_node", "critic_node", "retry_node"} =>
       \A s \in searched : s.query \in Executed
  /\ node = "targeted_search" =>
       /\ \A t \in followUps : FollowUpQuery[t] \notin OwnQueries
       /\ \A t, u \in followUps : FollowUpQuery[t] = FollowUpQuery[u] => t = u
  /\ node = "retry_node" => wanted \cap Executed = {}

\* Every step keeps the account of the queries.
LEMMA QueriesStep ==
  TypeOK /\ EvidenceStands /\ QueriesStand /\ [Next]_vars => QueriesStand'
  <1> SUFFICES ASSUME TypeOK, EvidenceStands, QueriesStand, [Next]_vars PROVE QueriesStand'
    OBVIOUS
  <1> USE DEF QueriesStand, OwnQueries
  <1>1. CASE CacheHit \/ CacheMiss \/ Classify \/ SourceRagMiss
    BY <1>1 DEF CacheHit, CacheMiss, Classify, SourceRagMiss, ResearchRoute, Response, evidenceVars
  <1>2. CASE SourceRagHit
    BY <1>2 DEF SourceRagHit, EvidenceStands, Early
  <1>3. CASE SimpleSearch
    BY <1>3 DEF SimpleSearch, Searches
  <1>4. CASE Plan
    BY <1>4 DEF Plan
  <1>5. CASE SearchAll
    BY <1>5 DEF SearchAll, Searches
  <1>6. CASE CollectEvidence
    BY <1>6 DEF CollectEvidence, PoolOf
  <1>7. CASE DetectGaps
    <2>1. /\ searched' = searched /\ tasks' = tasks /\ node = "gap_detection"
          /\ node' \in {"targeted_search", "synthesis_node"}
          /\ followUps' \in NewQueriesFor(Missing(pool)) \cup {{}}
      BY <1>7 DEF DetectGaps
    <2>2. Executed = OwnQueries
      BY <2>1 DEF Executed, EvidenceStands
    <2>3. \A t \in followUps' : FollowUpQuery[t] \notin
            Executed \cup {FollowUpQuery[f] : f \in followUps' \ {t}}
      BY <2>1 DEF NewQueriesFor
    <2>4. OwnQueries \subseteq Executed'
      BY <2>1 DEF Executed
    <2> QED BY <2>1, <2>2, <2>3, <2>4
  <1>8. CASE TargetedSearch
    <2>1. /\ tasks' = tasks /\ followUps' = followUps /\ node = "targeted_search"
          /\ node' = "synthesis_node"
          /\ searched' = searched \cup Searches("gap_search", {<<t, FollowUpQuery[t]>> : t \in followUps})
      BY <1>8 DEF TargetedSearch, Targeted, PoolOf
    <2>2. Executed' = OwnQueries \cup {FollowUpQuery[t] : t \in followUps}
      BY <2>1 DEF Executed
    <2>3. ASSUME NEW s \in Searches("gap_search", {<<t, FollowUpQuery[t]>> : t \in followUps})
          PROVE  s.query \in {FollowUpQuery[t] : t \in followUps} /\ s.sent = Sent[s.query]
      BY DEF Searches
    <2> QED BY <2>1, <2>2, <2>3
  <1>9. CASE Synthesize
    BY <1>9 DEF Synthesize, evidenceVars, Executed
  <1>10. CASE Criticize
    <2>1. /\ tasks' = tasks /\ followUps' = followUps /\ searched' = searched
          /\ node = "critic_node" /\ node' \in {"retry_node", "format_response"}
      BY <1>10 DEF Criticize, evidenceVars
    <2>2. node' = "retry_node" => wanted' \cap Executed = {}
      BY <1>10 DEF Criticize, NewSuggestions
    <2>3. Executed' = Executed
      BY <2>1 DEF Executed
    <2> QED BY <2>1, <2>2, <2>3
  <1>11. CASE RetrySearch
    <2>1. node' \in {"retry_synthesis", "failed"}
      BY <1>11 DEF RetrySearch, PoolOf
    <2>2. \/ searched' = searched
          \/ \E S : searched' = searched \cup Searches("retry", S)
      BY <1>11 DEF RetrySearch, Targeted, PoolOf
    <2>3. \A s \in searched' : s.sent = Sent[s.query]
      BY <2>2 DEF Searches
    <2> QED BY <2>1, <2>3
  <1>12. CASE RetrySynthesis \/ RetryReview \/ FormatResponse
    BY <1>12 DEF RetrySynthesis, RetryReview, FormatResponse, Response, evidenceVars
  <1>13. CASE UNCHANGED vars
    BY <1>13 DEF vars, evidenceVars, reviewVars, Executed
  <1> QED
    BY <1>1, <1>2, <1>3, <1>4, <1>5, <1>6, <1>7, <1>8, <1>9, <1>10, <1>11, <1>12, <1>13 DEF Next

\* The account of the queries is right in every state of every run.
LEMMA QueriesInvariance == Spec => []QueriesStand
  <1>1. Init => QueriesStand
    BY DEF Init, QueriesStand
  <1>2. IInv /\ QueriesStand /\ [Next]_vars => QueriesStand'
    BY QueriesStep DEF IInv
  <1> QED BY <1>1, <1>2, RunInvariance, PTL DEF Spec

\* Two queries that were written differently and are sent alike
RewrittenAlike(p, q) == p # q /\ Sent[p] = Sent[q]

\* What a gap round or a retry sends was not sent before, nor is it sent twice, but for queries that
\* were rewritten alike.
RepeatsAreRewritten ==
  [][\A s \in searched' \ searched :
       s.stage # "search" =>
         \A x \in searched' : x.sent = s.sent => x = s \/ RewrittenAlike(x.query, s.query)]_vars

\* The gap round and the retry repeat a search only if it was written in another way, and cutting it
\* to length or refreshing its years made it the same (_fit_query and refresh_stale_years come after
\* the comparison in detect_gaps and _retry_queries).
THEOREM RepeatsOnlyByRewriting == Spec => RepeatsAreRewritten
  <1> DEFINE Fresh ==
        \A s \in searched' \ searched :
          s.stage # "search" =>
            /\ \A x \in searched : x.query # s.query
            /\ \A x \in searched' \ searched : x.query = s.query => x = s
             New ==
        \A s \in searched' \ searched :
          s.stage # "search" =>
            \A x \in searched' : x.sent = s.sent => x = s \/ RewrittenAlike(x.query, s.query)
  <1>1. ASSUME IInv, QueriesStand, Next PROVE Fresh
    <2>1. CASE TargetedSearch
      <3>1. /\ searched' = searched
                   \cup Searches("gap_search", {<<t, FollowUpQuery[t]>> : t \in followUps})
            /\ \A s \in searched : s.query \in OwnQueries
            /\ \A t \in followUps : FollowUpQuery[t] \notin OwnQueries
            /\ \A t, u \in followUps : FollowUpQuery[t] = FollowUpQuery[u] => t = u
        BY <1>1, <2>1 DEF TargetedSearch, Targeted, QueriesStand, PoolOf
      <3>2. ASSUME NEW s \in searched' \ searched
            PROVE  \E t \in followUps :
                     s = [stage |-> "gap_search", task |-> t, query |-> FollowUpQuery[t],
                          sent |-> Sent[FollowUpQuery[t]]]
        BY <3>1 DEF Searches
      <3>3. ASSUME NEW s \in searched' \ searched
            PROVE  \A x \in searched : x.query # s.query
        BY <3>1, <3>2
      <3>4. ASSUME NEW s \in searched' \ searched, NEW x \in searched' \ searched, x.query = s.query
            PROVE  x = s
        BY <3>1, <3>2, <3>4
      <3> QED BY <3>3, <3>4
    <2>2. CASE RetrySearch
      <3>1. found \subseteq tasks \X Page /\ TypeOK
        BY <1>1 DEF IInv, EvidenceStands
      <3>2. /\ \A s \in searched : s.query \in Executed
            /\ wanted \cap Executed = {}
        BY <1>1, <2>2 DEF RetrySearch, QueriesStand, PoolOf
      <3>3. \/ searched' = searched
            \/ \E Q \in SUBSET wanted : \E home \in [Q -> tasks] :
                 searched' = searched \cup Searches("retry", {<<home[q], q>> : q \in Q})
        BY <2>2, <3>1, RetrySearchFiled DEF Targeted
      <3>4. ASSUME NEW Q \in SUBSET wanted, NEW home \in [Q -> tasks],
                   searched' = searched \cup Searches("retry", {<<home[q], q>> : q \in Q})
            PROVE  Fresh
        <4>1. \A s \in searched : s.query \notin Q
          BY <3>2
        <4>2. ASSUME NEW s \in searched' \ searched
              PROVE  /\ s.query \in Q
                     /\ s = [stage |-> "retry", task |-> home[s.query], query |-> s.query,
                             sent |-> Sent[s.query]]
          BY <3>4 DEF Searches
        <4> QED BY <4>1, <4>2
      <3>5. CASE searched' = searched
        BY <3>5
      <3> HIDE DEF Fresh
      <3> QED BY <3>3, <3>4, <3>5
    <2>3. CASE searched' = searched
      BY <2>3
    <2>4. CASE SimpleSearch \/ SearchAll
      <3>1. \A s \in searched' : s.stage = "search"
        BY <1>1, <2>4 DEF SimpleSearch, SearchAll, Searches, IInv, EvidenceStands, Early
      <3> QED BY <3>1
    <2> QED
      BY <1>1, <2>1, <2>2, <2>3, <2>4 DEF Next, CacheHit, CacheMiss, Classify, SourceRagHit,
        SourceRagMiss, Plan, CollectEvidence, DetectGaps, Synthesize, Criticize, RetrySynthesis,
        RetryReview, FormatResponse, evidenceVars, PoolOf, Response
  <1>2. ASSUME IInv, QueriesStand, IInv', QueriesStand', Next PROVE New
    <2>1. \A s \in searched' : s.query \in Query /\ s.sent = Sent[s.query]
      BY <1>2 DEF IInv, TypeOK, QueriesStand
    <2>2. Fresh
      BY <1>1, <1>2
    <2> QED BY <2>1, <2>2 DEF RewrittenAlike
  <1>3. IInv /\ QueriesStand /\ IInv' /\ QueriesStand' /\ [Next]_vars => [New]_vars
    BY <1>2
  <1> QED BY <1>3, RunInvariance, QueriesInvariance, PTL DEF Spec, RepeatsAreRewritten

-----------------------------------------------------------------------------
(* The cost of a run *)

SearchesOf(stage) == {s \in searched : s.stage = stage}
LimitOf(stage)    == IF stage = "search" THEN MaxSubQuestions ELSE MaxTargeted

WithinLimits ==
  \A stage \in Stage :
    IsFiniteSet(SearchesOf(stage)) /\ Cardinality(SearchesOf(stage)) <= LimitOf(stage)

BeforeGapSearch == Early \cup {"evidence_collection", "gap_detection", "targeted_search"}
BeforeRetry     == BeforeGapSearch \cup {"synthesis_node", "critic_node", "retry_node"}

\* Each stage searches once: before it runs there is no search of its own.
CostStands ==
  /\ IsFiniteSet(tasks) /\ Cardinality(tasks) <= MaxSubQuestions
  /\ IsFiniteSet(followUps) /\ Cardinality(followUps) <= MaxTargeted
  /\ WithinLimits
  /\ node \in Early => searched = {}
  /\ node \in BeforeGapSearch => SearchesOf("gap_search") = {}
  /\ node \in BeforeRetry => SearchesOf("retry") = {}

\* A list cut to its first n has at most n members.
LEMMA FirstOfSize ==
  ASSUME NEW S, IsFiniteSet(S), NEW n \in Nat, NEW U \in FirstOf(S, n)
  PROVE  IsFiniteSet(U) /\ Cardinality(U) <= n
  <1>1. Cardinality(S) \in Nat
    BY FS_CardinalityType
  <1>2. \E x \in {n, Cardinality(S)} : \A y \in {n, Cardinality(S)} : x <= y
    BY <1>1
  <1>3. Min({n, Cardinality(S)}) <= n
    BY <1>2 DEF Min
  <1>4. U \subseteq S /\ Cardinality(U) = Min({n, Cardinality(S)})
    BY DEF FirstOf
  <1> QED BY <1>3, <1>4, FS_Subset

\* The values of a function on a finite set are no more than its arguments.
LEMMA ValuesSize ==
  ASSUME NEW S, IsFiniteSet(S), NEW f, f = [x \in S |-> f[x]]
  PROVE  IsFiniteSet({f[x] : x \in S}) /\ Cardinality({f[x] : x \in S}) <= Cardinality(S)
  <1> DEFINE V == {f[x] : x \in S}
  <1>1. f \in Surjection(S, V)
    BY DEF Surjection
  <1> QED BY <1>1, FS_Surjection

\* A round makes at most one search for each of its pairs of a task and a query, all of its stage.
LEMMA RoundSize ==
  ASSUME NEW P, IsFiniteSet(P), NEW stage \in Stage, Cardinality(P) <= LimitOf(stage)
  PROVE  /\ IsFiniteSet(Searches(stage, P)) /\ Cardinality(Searches(stage, P)) <= LimitOf(stage)
         /\ \A s \in Searches(stage, P) : s.stage = stage
  <1> DEFINE f == [p \in P |-> [stage |-> stage, task |-> p[1], query |-> p[2], sent |-> Sent[p[2]]]]
             R == {f[p] : p \in P}
  <1>1. IsFiniteSet(R) /\ Cardinality(R) <= Cardinality(P)
    <2>1. f = [p \in P |-> f[p]]
      OBVIOUS
    <2> HIDE DEF f
    <2> QED BY <2>1, ValuesSize
  <1>2. R = Searches(stage, P)
    BY DEF Searches
  <1>3. \A s \in Searches(stage, P) : s.stage = stage
    BY DEF Searches
  <1> HIDE DEF R
  <1>4. /\ Cardinality(R) \in Nat /\ Cardinality(P) \in Nat /\ LimitOf(stage) \in Nat
    BY <1>1, SettingsAssumption, FS_CardinalityType DEF LimitOf
  <1>5. Cardinality(R) <= LimitOf(stage)
    BY <1>1, <1>4
  <1> QED BY <1>1, <1>2, <1>3, <1>5

\* The queries of a round are as many pairs as there are tasks, or queries, it makes them for.
LEMMA PairsSize ==
  ASSUME NEW K, IsFiniteSet(K), NEW f, NEW stage \in Stage, Cardinality(K) <= LimitOf(stage),
         f = [k \in K |-> f[k]]
  PROVE  IsFiniteSet({f[k] : k \in K}) /\ Cardinality({f[k] : k \in K}) <= LimitOf(stage)
  <1> DEFINE P == {f[k] : k \in K}
  <1>1. IsFiniteSet(P) /\ Cardinality(P) <= Cardinality(K)
    BY ValuesSize
  <1> HIDE DEF P
  <1>2. /\ Cardinality(P) \in Nat /\ Cardinality(K) \in Nat /\ LimitOf(stage) \in Nat
    BY <1>1, SettingsAssumption, FS_CardinalityType DEF LimitOf
  <1>3. IsFiniteSet(P) /\ Cardinality(P) <= LimitOf(stage)
    BY <1>1, <1>2
  <1> QED BY <1>3 DEF P

\* A stage that has not searched yet may search once, within its limit.
LEMMA RoundWithinLimits ==
  ASSUME WithinLimits, NEW stage \in Stage, SearchesOf(stage) = {},
         NEW R, IsFiniteSet(R), Cardinality(R) <= LimitOf(stage),
         \A s \in R : s.stage = stage, searched' = searched \cup R
  PROVE  WithinLimits' /\ \A other \in Stage \ {stage} : SearchesOf(other)' = SearchesOf(other)
  <1>1. SearchesOf(stage)' = R
    BY DEF SearchesOf
  <1>2. \A other \in Stage \ {stage} : SearchesOf(other)' = SearchesOf(other)
    BY DEF SearchesOf
  <1>3. WithinLimits'
    <2> SUFFICES ASSUME NEW x \in Stage
                 PROVE  /\ IsFiniteSet(SearchesOf(x)')
                        /\ Cardinality(SearchesOf(x)') <= LimitOf(x)
      BY DEF WithinLimits, LimitOf, SearchesOf
    <2>1. CASE x = stage
      BY <1>1, <2>1
    <2>2. CASE x # stage
      BY <1>2, <2>2 DEF WithinLimits
    <2> QED BY <2>1, <2>2
  <1> QED BY <1>2, <1>3

\* Every step keeps each stage within its limit.
LEMMA CostStep ==
  TypeOK /\ CostStands /\ [Next]_vars => CostStands'
  <1> SUFFICES ASSUME TypeOK, CostStands, [Next]_vars PROVE CostStands'
    OBVIOUS
  <1> USE DEF BeforeGapSearch, BeforeRetry, Early
  <1>0. MaxSubQuestions \in Nat \ {0} /\ MaxTargeted \in Nat
    BY SettingsAssumption
  <1>a. ASSUME searched' = searched
        PROVE  WithinLimits' /\ \A stage : SearchesOf(stage)' = SearchesOf(stage)
    BY <1>a DEF CostStands, WithinLimits, SearchesOf, LimitOf
  <1>1. CASE CacheHit \/ CacheMiss \/ Classify \/ SourceRagMiss
    <2>1. UNCHANGED <<tasks, followUps, searched>> /\ node \in Early
      BY <1>1 DEF CacheHit, CacheMiss, Classify, SourceRagMiss, evidenceVars
    <2> QED BY <2>1, <1>a DEF CostStands
  <1>2. CASE SourceRagHit
    <2>1. tasks' = {Question} /\ UNCHANGED <<followUps, searched>> /\ node \in Early
      BY <1>2 DEF SourceRagHit
    <2>2. IsFiniteSet(tasks') /\ Cardinality(tasks') = 1
      BY <2>1, FS_Singleton
    <2> QED BY <2>1, <2>2, <1>0, <1>a DEF CostStands
  <1>3. CASE SimpleSearch
    <2>0. node \in Early /\ followUps' = followUps
      BY <1>3 DEF SimpleSearch
    <2>1. CASE UNCHANGED <<tasks, searched>>
      BY <2>0, <2>1, <1>a DEF CostStands
    <2>2. CASE /\ tasks' = {Question} /\ node' = "evidence_collection"
               /\ searched' = Searches("search", {<<Question, OwnQuery[Question]>>})
      <3> DEFINE P == {<<Question, OwnQuery[Question]>>}
                 R == Searches("search", P)
      <3>2. searched' = searched \cup R
        BY <2>0, <2>2 DEF CostStands
      <3>3. /\ IsFiniteSet({Question}) /\ Cardinality({Question}) = 1
            /\ IsFiniteSet(P) /\ Cardinality(P) = 1
        BY FS_Singleton
      <3>4. SearchesOf("search") = {} /\ "search" \in Stage /\ WithinLimits
        BY <2>0 DEF CostStands, SearchesOf, Stage
      <3>5. Cardinality(P) <= LimitOf("search")
        BY <3>3, <1>0 DEF LimitOf
      <3> HIDE DEF P
      <3>a. IsFiniteSet(R) /\ Cardinality(R) <= LimitOf("search") /\ \A s \in R : s.stage = "search"
        BY <3>3, <3>4, <3>5, RoundSize
      <3> HIDE DEF R
      <3>6. WithinLimits' /\ \A other \in Stage \ {"search"} : SearchesOf(other)' = SearchesOf(other)
        BY <3>a, <3>2, <3>4, RoundWithinLimits
      <3> QED BY <2>0, <2>2, <3>3, <3>6, <1>0 DEF CostStands, Stage
    <2> QED BY <1>3, <2>1, <2>2 DEF SimpleSearch
  <1>4. CASE Plan
    <2>1. UNCHANGED <<followUps, searched>> /\ node \in Early
      BY <1>4 DEF Plan
    <2>2. IsFiniteSet(tasks') /\ Cardinality(tasks') <= MaxSubQuestions
      BY <1>4, <1>0, PageAssumption, FS_Subset, FS_EmptySet DEF Plan
    <2> QED BY <2>1, <2>2, <1>a DEF CostStands
  <1>5. CASE SearchAll
    <2>1. UNCHANGED <<tasks, followUps>> /\ node \in Early
      BY <1>5 DEF SearchAll
    <2>2. CASE UNCHANGED searched
      BY <2>1, <2>2, <1>a DEF CostStands
    <2>3. CASE /\ node' = "evidence_collection"
               /\ searched' = Searches("search", {<<t, OwnQuery[t]>> : t \in tasks})
      <3> DEFINE f == [t \in tasks |-> <<t, OwnQuery[t]>>]
                 P == {f[t] : t \in tasks}
                 R == Searches("search", P)
      <3>1. P = {<<t, OwnQuery[t]>> : t \in tasks} /\ f = [t \in tasks |-> f[t]]
        OBVIOUS
      <3>2. searched' = searched \cup R
        BY <2>1, <2>3, <3>1 DEF CostStands
      <3>3. SearchesOf("search") = {} /\ "search" \in Stage /\ WithinLimits
        BY <2>1 DEF CostStands, SearchesOf, Stage
      <3>4. IsFiniteSet(tasks) /\ Cardinality(tasks) <= LimitOf("search")
        BY DEF CostStands, LimitOf
      <3> HIDE DEF f
      <3>p. IsFiniteSet(P) /\ Cardinality(P) <= LimitOf("search")
        BY <3>1, <3>3, <3>4, PairsSize
      <3> HIDE DEF P
      <3>a. IsFiniteSet(R) /\ Cardinality(R) <= LimitOf("search") /\ \A s \in R : s.stage = "search"
        BY <3>3, <3>p, RoundSize
      <3> HIDE DEF R
      <3>5. WithinLimits' /\ \A other \in Stage \ {"search"} : SearchesOf(other)' = SearchesOf(other)
        BY <3>a, <3>2, <3>3, RoundWithinLimits
      <3> QED BY <2>1, <2>3, <3>5 DEF CostStands, Stage
    <2> QED BY <1>5, <2>2, <2>3 DEF SearchAll
  <1>6. CASE CollectEvidence
    <2>1. UNCHANGED <<tasks, followUps, searched>> /\ node = "evidence_collection"
          /\ node' = "gap_detection"
      BY <1>6 DEF CollectEvidence
    <2> QED BY <2>1, <1>a DEF CostStands
  <1>7. CASE DetectGaps
    <2>1. /\ UNCHANGED <<tasks, searched>>
          /\ node = "gap_detection" /\ node' \in {"targeted_search", "synthesis_node"}
          /\ followUps' \in NewQueriesFor(Missing(pool)) \cup {{}}
      BY <1>7 DEF DetectGaps
    <2>2. IsFiniteSet(followUps') /\ Cardinality(followUps') <= MaxTargeted
      <3>1. ASSUME NEW F \in NewQueriesFor(Missing(pool))
            PROVE  F \subseteq Task /\ Cardinality(F) <= MaxTargeted
        <4>1. pool.tasks \subseteq Task
          BY DEF TypeOK
        <4>2. F \subseteq Missing(pool)
          BY DEF NewQueriesFor
        <4>3. Cardinality(F) <= IF GapSearch THEN MaxTargeted ELSE 0
          BY DEF NewQueriesFor
        <4>4. F \subseteq Task
          BY <4>1, <4>2 DEF Missing
        <4>5. Cardinality(F) \in Nat
          BY <4>4, PageAssumption, FS_Subset, FS_CardinalityType
        <4> QED BY <4>3, <4>4, <4>5, <1>0
      <3> QED BY <2>1, <3>1, <1>0, PageAssumption, FS_Subset, FS_EmptySet
    <2> QED BY <2>1, <2>2, <1>a DEF CostStands
  <1>8. CASE TargetedSearch
    <2>1. /\ UNCHANGED <<tasks, followUps>>
          /\ node = "targeted_search" /\ node' = "synthesis_node"
          /\ searched' = searched
                 \cup Searches("gap_search", {<<t, FollowUpQuery[t]>> : t \in followUps})
      BY <1>8 DEF TargetedSearch, Targeted, PoolOf
    <2> DEFINE f == [t \in followUps |-> <<t, FollowUpQuery[t]>>]
               P == {f[t] : t \in followUps}
               R == Searches("gap_search", P)
    <2>2. P = {<<t, FollowUpQuery[t]>> : t \in followUps} /\ f = [t \in followUps |-> f[t]]
      OBVIOUS
    <2>3. searched' = searched \cup R
      BY <2>1, <2>2
    <2>4. SearchesOf("gap_search") = {} /\ "gap_search" \in Stage /\ WithinLimits
      BY <2>1 DEF CostStands, Stage
    <2>5. IsFiniteSet(followUps) /\ Cardinality(followUps) <= LimitOf("gap_search")
      BY DEF CostStands, LimitOf
    <2> HIDE DEF f
    <2>c. IsFiniteSet(P) /\ Cardinality(P) <= LimitOf("gap_search")
      BY <2>2, <2>4, <2>5, PairsSize
    <2> HIDE DEF P
    <2>a. IsFiniteSet(R) /\ Cardinality(R) <= LimitOf("gap_search") /\ \A s \in R : s.stage = "gap_search"
      BY <2>4, <2>c, RoundSize
    <2> HIDE DEF R
    <2>6. WithinLimits' /\ \A other \in Stage \ {"gap_search"} : SearchesOf(other)' = SearchesOf(other)
      BY <2>a, <2>3, <2>4, RoundWithinLimits
    <2> QED BY <2>1, <2>6 DEF CostStands, Stage
  <1>9. CASE Synthesize \/ Criticize
    <2>1. UNCHANGED <<tasks, followUps, searched>>
      BY <1>9 DEF Synthesize, Criticize, evidenceVars
    <2>2. node \in {"synthesis_node", "critic_node"}
          /\ node' \in {"critic_node", "retry_node", "format_response"}
      BY <1>9 DEF Synthesize, Criticize
    <2> QED BY <2>1, <2>2, <1>a DEF CostStands
  <1>10. CASE RetrySearch
    <2>1. /\ UNCHANGED <<tasks, followUps>>
          /\ node = "retry_node" /\ node' \in {"retry_synthesis", "failed"}
      BY <1>10 DEF RetrySearch, PoolOf
    <2>2. PICK Q \in FirstOf(wanted, MaxTargeted) :
            \/ UNCHANGED searched
            \/ \E home : searched' = searched \cup Searches("retry", {<<home[q], q>> : q \in Q})
      BY <1>10 DEF RetrySearch, PoolOf, Targeted
    <2>3. IsFiniteSet(Q) /\ Cardinality(Q) <= MaxTargeted
      BY <1>0, FirstOfSize, PageAssumption, FS_Subset DEF TypeOK
    <2>4. CASE UNCHANGED searched
      BY <2>1, <2>4, <1>a DEF CostStands
    <2>5. ASSUME NEW home, searched' = searched \cup Searches("retry", {<<home[q], q>> : q \in Q})
          PROVE  CostStands'
      <3> DEFINE f == [q \in Q |-> <<home[q], q>>]
                 P == {f[q] : q \in Q}
                 R == Searches("retry", P)
      <3>1. P = {<<home[q], q>> : q \in Q} /\ f = [q \in Q |-> f[q]]
        OBVIOUS
      <3>2. searched' = searched \cup R
        BY <2>5, <3>1
      <3>3. SearchesOf("retry") = {} /\ "retry" \in Stage /\ WithinLimits
        BY <2>1 DEF CostStands, Stage
      <3>4. Cardinality(Q) <= LimitOf("retry")
        BY <2>3 DEF LimitOf
      <3> HIDE DEF f
      <3>6. IsFiniteSet(P) /\ Cardinality(P) <= LimitOf("retry")
        BY <2>3, <3>1, <3>3, <3>4, PairsSize
      <3> HIDE DEF P
      <3>a. IsFiniteSet(R) /\ Cardinality(R) <= LimitOf("retry") /\ \A s \in R : s.stage = "retry"
        BY <3>3, <3>6, RoundSize
      <3> HIDE DEF R
      <3>5. WithinLimits'
        BY <3>a, <3>2, <3>3, RoundWithinLimits
      <3> QED BY <2>1, <3>5 DEF CostStands
    <2> QED BY <2>2, <2>4, <2>5
  <1>11. CASE RetrySynthesis \/ RetryReview \/ FormatResponse
    <2>1. UNCHANGED <<tasks, followUps, searched>>
          /\ node' \in {"retry_critic", "format_response", "END"}
      BY <1>11 DEF RetrySynthesis, RetryReview, FormatResponse, evidenceVars
    <2> QED BY <2>1, <1>a DEF CostStands
  <1>12. CASE UNCHANGED vars
    BY <1>12, <1>a DEF vars, evidenceVars, CostStands
  <1> QED
    BY <1>1, <1>2, <1>3, <1>4, <1>5, <1>6, <1>7, <1>8, <1>9, <1>10, <1>11, <1>12 DEF Next

\* The searches of each stage of a run have this bound, for any plan and any settings.
THEOREM RunIsAffordable == Spec => []SearchesBounded
<1>1. Init => CostStands
  <2> SUFFICES ASSUME Init PROVE CostStands
    OBVIOUS
  <2>1. \A stage : SearchesOf(stage) = {}
    BY DEF Init, SearchesOf
  <2> QED BY <2>1, SettingsAssumption, FS_EmptySet DEF Init, CostStands, WithinLimits, LimitOf
<1>2. IInv /\ CostStands /\ [Next]_vars => CostStands'
  BY CostStep DEF IInv
<1>3. CostStands => SearchesBounded
  BY DEF CostStands, WithinLimits, SearchesOf, LimitOf, SearchesBounded
<1> QED BY <1>1, <1>2, <1>3, RunInvariance, PTL DEF Spec

-----------------------------------------------------------------------------
(* The refinement *)

Phase == IF node = "failed" THEN "failed" ELSE IF node = "END" THEN "answered" ELSE "gathering"

\* A step that goes on without an answer gathers.
LEMMA StepGathers ==
  ASSUME TypeOK, Phase = "gathering", Phase' = "gathering", answer' = answer,
         pool.pairs \subseteq pool'.pairs, pool'.pairs \in SUBSET (Task \X Page)
  PROVE  Grounded!Next
  <1> DEFINE more == PagesOf(pool.pairs)'
  <1>1. more \in SUBSET Page
    BY PagesType
  <1>2. PagesOf(pool.pairs)' = PagesOf(pool.pairs) \cup more
    BY PagesMonotone
  <1> HIDE DEF more
  <1>3. Grounded!Gather(more)
    BY <1>2 DEF Grounded!Gather, Phase
  <1> QED BY <1>1, <1>3 DEF Grounded!Next

\* Every step of a run is one of GroundedAnswer, or stutters.
LEMMA GroundedStep ==
  ASSUME IInv, IInv', [Next]_vars
  PROVE  [Grounded!Next]_(Grounded!vars)
  <1>0. /\ TypeOK /\ TypeOK' /\ EvidenceStands
        /\ pool.pairs \subseteq found
    BY DEF IInv, EvidenceStands, Whole, EmptyPool, PoolOf
  <1>1. CASE CacheHit
    <2>1. PICK C \in SUBSET Page, c \in Confidence :
            answer' = [cites |-> C, conf |-> c, verdict |-> "cached"]
      BY <1>1 DEF CacheHit, Response
    <2>2. Phase = "gathering" /\ Phase' = "answered" /\ pool' = pool
      BY <1>1 DEF CacheHit, Phase, evidenceVars, Response
    <2>3. Grounded!Answer(C, "cached", c)
      BY <2>1, <2>2 DEF Grounded!Answer, Phase, PagesOf
    <2> QED BY <2>3 DEF Grounded!Next, Grounded!Verdict, Grounded!Confidence, Confidence
  <1>2. CASE FormatResponse
    <2>1. /\ Phase = "gathering" /\ Phase' = "answered" /\ pool' = pool
          /\ answer' = [cites |-> draft.cites, conf |-> Settled(draft, review),
                        verdict |-> review.verdict]
          /\ draft \in Attempt /\ review \in Review
      BY <1>0, <1>2 DEF FormatResponse, Phase, evidenceVars, TypeOK, Response
    <2>2. draft.cites \subseteq PagesOf(pool.pairs) /\ draft.cites \in SUBSET Page
      BY <1>2, <2>1 DEF IInv, AttemptStands, Reviewed, Keeps, FormatResponse, Attempt, Response
    <2>3. /\ review.verdict = "bad" => Settled(draft, review) = "low"
          /\ review.verdict = "needs_improvement" => Settled(draft, review) # "high"
      BY DEF Settled
    <2>4. Settled(draft, review) \in Confidence /\ review.verdict \in Verdict
      BY <2>1, SettledType DEF Review
    <2>5. Grounded!Answer(draft.cites, review.verdict, Settled(draft, review))
      BY <2>1, <2>2, <2>3, <2>4 DEF Grounded!Answer, Phase, PagesOf, Confidence
    <2> QED
      BY <2>2, <2>4, <2>5 DEF Grounded!Next, Grounded!Verdict, Grounded!Confidence, Confidence, Verdict
  <1>3. CASE SimpleSearch \/ SearchAll
    <2>1. Phase = "gathering" /\ pool' = pool /\ answer' = answer
          /\ Phase' \in {"gathering", "failed"}
      BY <1>3 DEF SimpleSearch, SearchAll, Phase
    <2>2. CASE Phase' = "gathering"
      BY <1>0, <2>1, <2>2, StepGathers DEF TypeOK
    <2>3. CASE Phase' = "failed"
      <3>1. Grounded!Fail
        BY <2>1, <2>3 DEF Grounded!Fail, Phase, PagesOf
      <3> QED BY <3>1 DEF Grounded!Next
    <2> QED BY <2>1, <2>2, <2>3
  <1>4. CASE \/ CacheMiss \/ Classify \/ SourceRagHit \/ SourceRagMiss \/ Plan \/ DetectGaps
             \/ Synthesize \/ Criticize \/ RetrySynthesis \/ RetryReview
    <2>1. Phase = "gathering" /\ Phase' = "gathering" /\ pool' = pool /\ answer' = answer
      BY <1>4 DEF CacheMiss, Classify, SourceRagHit, SourceRagMiss, ResearchRoute, Plan, DetectGaps,
                  Synthesize, Criticize, RetrySynthesis, RetryReview, Phase, evidenceVars
    <2> QED BY <1>0, <2>1, StepGathers DEF TypeOK
  <1>5. CASE CollectEvidence
    <2>1. Phase = "gathering" /\ Phase' = "gathering" /\ answer' = answer /\ pool.pairs = {}
      BY <1>0, <1>5 DEF CollectEvidence, Phase, EvidenceStands, EmptyPool, PoolOf
    <2> QED BY <1>0, <2>1, StepGathers DEF TypeOK
  <1>6. CASE TargetedSearch
    <2>1. /\ Phase = "gathering" /\ Phase' = "gathering" /\ answer' = answer
          /\ found \subseteq found' /\ pool'.pairs = found'
      BY <1>6 DEF TargetedSearch, Targeted, Phase, PoolOf
    <2> QED BY <1>0, <2>1, StepGathers DEF TypeOK
  <1>7. CASE RetrySearch
    <2>1. tasks # {} /\ found \subseteq tasks \X Page /\ Phase = "gathering" /\ answer' = answer
      BY <1>0, <1>7 DEF IInv, AttemptStands, Retrying, RetrySearch, EvidenceStands, Phase, PoolOf
    <2>2. /\ node' = "retry_synthesis" /\ pool' = [tasks |-> tasks, pairs |-> found']
          /\ \E stage, S : Targeted(stage, S)
      BY <1>0, <1>7, <2>1, RetrySearchFiled
    <2>3. found \subseteq found'
      BY <2>2 DEF Targeted
    <2>4. pool'.pairs = found'
      BY <2>2
    <2> QED BY <1>0, <2>1, <2>2, <2>3, <2>4, StepGathers DEF TypeOK, Phase
  <1>8. CASE UNCHANGED vars
    BY <1>8 DEF vars, evidenceVars, Grounded!vars, PagesOf
  <1> QED BY <1>1, <1>2, <1>3, <1>4, <1>5, <1>6, <1>7, <1>8 DEF Next

\* A run, through all its fallbacks, only gathers evidence, and then gives one answer that cites
\* nothing else and whose confidence follows its verdict, or fails.
THEOREM RunImplementsGroundedAnswer == Spec => RunIsGrounded
  <1>1. Init => Grounded!Init
    BY DEF Init, Grounded!Init, EmptyPool, NoAnswer, PagesOf, PoolOf
  <1>2. IInv /\ IInv' /\ [Next]_vars => [Grounded!Next]_(Grounded!vars)
    BY GroundedStep
  <1> QED BY <1>1, <1>2, RunInvariance, PTL DEF Spec, RunIsGrounded, Grounded!Spec
=============================================================================
