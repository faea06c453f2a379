---------------------------- MODULE ResearchRun ----------------------------
(***************************************************************************)
(* One run of the research graph (agent/graph.py): from the question to    *)
(* the answer, through every fallback of its nodes.                        *)
(*                                                                         *)
(* LangGraph runs a node, or the parallel search_nodes of a plan, as one   *)
(* superstep and merges what they return at its end; the model takes one   *)
(* action per superstep.  Only retry_node is split, at its awaits.         *)
(*                                                                         *)
(* A page is a document with text.  Which pages are relevant to which      *)
(* sub-question (word overlap) is a constant; what a search finds, what    *)
(* the language model writes and what it thinks of an answer are free.     *)
(***************************************************************************)
EXTENDS Integers, FiniteSets, FiniteSetsExt

CONSTANTS
  Task,            \* the sub-questions a plan may hold
  Question,        \* the one that is the resolved question itself
  Page,            \* documents with text, by URL
  Official,        \* the pages of official documentation
  Reddit,          \* the pages from Reddit
  Site,            \* Site[p]: the domain of page p
  Relevant,        \* Relevant[t]: the pages with enough of the words of sub-question t
  Query,           \* search queries
  OwnQuery,        \* OwnQuery[t]: what a planned task is searched with
  TextQuery,       \* TextQuery[t]: the words of the sub-question itself
  FollowUpQuery,   \* FollowUpQuery[t]: its key terms, after its technology if it has one
  MissedQuery,     \* MissedQuery[t]: its key terms as the critic suggests them
  Sent,            \* Sent[q]: query q cut to length and with its stale years refreshed
  MaxSubQuestions, \* state.MAX_SUB_QUESTIONS
  MaxTargeted,     \* PipelineSettings.max_targeted_queries
  MaxRetries,      \* PipelineSettings.max_critic_retries
  GapSearch,       \* PipelineSettings.gap_search_enabled
  SourceRag        \* RagSettings.source_rag_enabled

ASSUME TaskAssumption ==
  /\ Question \in Task
  /\ OwnQuery \in [Task -> Query] /\ TextQuery \in [Task -> Query]
  /\ FollowUpQuery \in [Task -> Query] /\ MissedQuery \in [Task -> Query]
  /\ Sent \in [Query -> Query]
ASSUME PageAssumption ==
  /\ IsFiniteSet(Page) /\ IsFiniteSet(Query) /\ IsFiniteSet(Task)
  /\ Official \subseteq Page /\ Reddit \subseteq Page \ Official
  /\ Relevant \in [Task -> SUBSET Page]
ASSUME SettingsAssumption ==
  /\ MaxSubQuestions \in Nat \ {0} /\ MaxTargeted \in Nat /\ MaxRetries \in {0, 1}
  /\ GapSearch \in BOOLEAN /\ SourceRag \in BOOLEAN

VARIABLES
  empty,       \* is the question empty
  node,        \* the node that runs next
  technical,   \* does the intent of the question or of a task call for technical sources
  tasks,       \* research_tasks
  found,       \* source_documents, as the pairs of the task searched for and the page found
  pool,        \* evidence_pool: its tasks and its pairs
  followUps,   \* gap_analysis.follow_up_tasks
  draft,       \* synthesis
  review,      \* critic_result, without the suggestions
  wanted,      \* the new queries among its suggestions, until they are searched
  redraft,     \* the second attempt, inside retry_node
  retried,     \* retry_performed
  answer,      \* what the run returns
  searched     \* history: the searches made, [stage, task, query, sent]

evidenceVars == <<tasks, found, pool, followUps, searched>>
reviewVars   == <<draft, review, wanted, redraft, retried>>

vars == <<empty, node, technical, evidenceVars, reviewVars, answer>>

-----------------------------------------------------------------------------
(* Evidence (pipeline/evidence.py) *)

PagesOf(pairs) == {e[2] : e \in pairs}

\* Variant: relevance is not asked
EvidenceOfAnyPage(pl, t) == {p \in PagesOf(pl.pairs) : <<t, p>> \in pl.pairs}

\* EvidencePool.evidence_for
Evidence(pl, t) == {p \in Relevant[t] : <<t, p>> \in pl.pairs}

\* EvidencePool.coverage
Missing(pl) == {t \in pl.tasks : Evidence(pl, t) = {}}

\* add_documents: a page that was found for several tasks is kept once, with all its owners.
PoolOf(t, pairs) == [tasks |-> t, pairs |-> pairs]

EmptyPool == PoolOf({}, {})

-----------------------------------------------------------------------------
(* Synthesis (pipeline/synthesis.py) *)

\* is_technical
Technical(P) == technical \/ P \cap Official # {}

\* assess_confidence
ConfidenceOf(cites, missed, P, fallback) ==
  IF fallback \/ cites = {} THEN "low"
  ELSE IF /\ Cardinality(cites) >= 3
          /\ Cardinality({Site[p] : p \in cites}) >= 2
          /\ missed = {}
          /\ Technical(P) => cites \cap Official # {}
       THEN "high" ELSE "medium"

\* n of the members of S, or all of them: a list cut to its first n, in an order left open
FirstOf(S, n) == {U \in SUBSET S : Cardinality(U) = Min({n, Cardinality(S)})}

\* _no_evidence_answer
NoSourceText == [cites |-> {}, orphans |-> FALSE, fallback |-> FALSE]

\* The texts a synthesis may end with: the pages it cites, and whether it names a number that
\* is no source.  Without a source the model is not called; if it fails, or replies in a line,
\* the first five sources are listed.
Texts(P) ==
  IF P = {}
    THEN {NoSourceText}
    ELSE      [cites : SUBSET P, orphans : BOOLEAN, fallback : {FALSE}]
         \cup [cites : FirstOf(P, 5), orphans : BOOLEAN, fallback : {TRUE}]

\* run_synthesis
Draft(pl, text) ==
  LET P == PagesOf(pl.pairs) IN
  [cites   |-> text.cites,
   orphans |-> text.orphans,
   conf    |-> ConfidenceOf(text.cites, Missing(pl), P, text.fallback),
   missed  |-> Missing(pl),
   sourced |-> P # {}]                  \* history: was there anything to cite

NoDraft == Draft(EmptyPool, NoSourceText)

-----------------------------------------------------------------------------
(* The critic (pipeline/critic.py).  A kind of issue is at most once high. *)

\* Of the sub-questions the answer covers or misses, most are missed.
MostlyMissed(d, pl) == 2 * Cardinality(d.missed) > Cardinality(pl.tasks)

\* deterministic_issues, and the report's "does not address the question"
HighIssues(d, pl, report) ==
  LET P == PagesOf(pl.pairs) IN
  {k \in {"orphan", "uncited", "weak", "incomplete", "coverage"} :
     \/ k = "orphan"     /\ d.orphans
     \/ k = "uncited"    /\ P # {} /\ d.cites = {}
     \/ k = "weak"       /\ Technical(P) /\ d.cites # {} /\ d.cites \subseteq Reddit
     \/ k = "incomplete" /\ d.missed # {} /\ (P = {} \/ MostlyMissed(d, pl))
     \/ k = "coverage"   /\ report.misses}

\* ... and the claims that no source supports
MediumIssue(d, pl, report) ==
  LET P == PagesOf(pl.pairs) IN
  \/ /\ Technical(P) /\ d.cites # {} /\ ~ d.cites \subseteq Reddit
     /\ P \cap Official # {} /\ d.cites \cap Official = {}
  \/ d.missed # {} /\ P # {} /\ ~ MostlyMissed(d, pl)
  \/ report.claims

\* _verdict
VerdictOf(highs, medium, d, P) ==
  IF Cardinality(highs) >= 2 \/ (P # {} /\ d.cites = {}) THEN "bad"
  ELSE IF highs # {} \/ medium THEN "needs_improvement"
  ELSE "good"

\* Variant: the model is asked about an answer without citations too
AskedAlways(d) == TRUE

\* Is the model asked what it thinks of an answer?
Asked(d) == d.cites # {}

Silent == [misses |-> FALSE, claims |-> FALSE]

\* _llm_report: no answer counts as a silent one.  The claims are three unsupported ones, or
\* two paragraphs, most of the answer, that cite nothing.
Reports(d) == IF Asked(d) THEN [misses : BOOLEAN, claims : BOOLEAN] ELSE {Silent}

\* The queries of a report: those the model suggests, and the key terms of what it finds
\* missing.
QueriesOf(d) == IF Asked(d) THEN SUBSET Query ELSE {{}}

Unavailable == [verdict |-> "unavailable", high |-> FALSE]

\* run_critic: the review of d that comes with a report
ReviewOf(d, pl, report) ==
  LET highs == HighIssues(d, pl, report) IN
  [verdict |-> VerdictOf(highs, MediumIssue(d, pl, report), d, PagesOf(pl.pairs)),
   high    |-> highs # {}]

\* _suggestions: at most five
Suggestions(d, queries) == FirstOf(queries \cup {MissedQuery[t] : t \in d.missed}, 5)

\* worth_retrying
WorthRetrying(rv) ==
  rv.verdict = "bad" \/ (rv.verdict = "needs_improvement" /\ rv.high)

\* VERDICT_RANK
Rank(v) == CASE v = "good" -> 3 [] v = "bad" -> 1 [] OTHER -> 2

-----------------------------------------------------------------------------
Nodes == {"semantic_cache_node", "classify_node", "source_rag_node", "simple_search_node",
          "planner_node", "search_node", "evidence_collection", "gap_detection",
          "targeted_search", "synthesis_node", "critic_node", "retry_node", "retry_synthesis",
          "retry_critic", "format_response", "END", "failed"}

Confidence == {"low", "medium", "high"}
Verdict    == {"good", "needs_improvement", "bad", "unavailable"}
Attempt    == [cites : SUBSET Page, orphans : BOOLEAN, conf : Confidence,
               missed : SUBSET Task, sourced : BOOLEAN]
Review     == [verdict : Verdict, high : BOOLEAN]
Answer     == [cites : SUBSET Page, conf : Confidence, verdict : Verdict \cup {"cached"}]
NoAnswer   == [cites |-> {}, conf |-> "low", verdict |-> "unavailable"]
Stage      == {"search", "gap_search", "retry"}

TypeOK ==
  /\ empty \in BOOLEAN
  /\ node \in Nodes
  /\ technical \in BOOLEAN
  /\ tasks \in SUBSET Task
  /\ found \in SUBSET (Task \X Page)
  /\ pool \in [tasks : SUBSET Task, pairs : SUBSET (Task \X Page)]
  /\ followUps \in SUBSET Task
  /\ draft \in Attempt /\ redraft \in Attempt
  /\ review \in Review
  /\ wanted \in SUBSET Query
  /\ retried \in BOOLEAN
  /\ answer \in Answer
  /\ searched \in SUBSET [stage : Stage, task : Task, query : Query, sent : Query]

Init ==
  /\ empty \in BOOLEAN
  /\ node = "semantic_cache_node"
  /\ technical = FALSE
  /\ tasks = {} /\ found = {} /\ pool = EmptyPool /\ followUps = {}
  /\ draft = NoDraft /\ redraft = NoDraft
  /\ review = Unavailable /\ wanted = {}
  /\ retried = FALSE
  /\ answer = NoAnswer
  /\ searched = {}

\* _executed_queries: by the plan and by the gap round.  A task counts as searched for even
\* when its pages came from the stored sources.
Executed ==
  {OwnQuery[t] : t \in tasks} \cup {TextQuery[t] : t \in tasks}
    \cup {FollowUpQuery[t] : t \in followUps}

\* A query is told from others as it was written, and rewritten when it is sent.
Searches(stage, S) ==
  {[stage |-> stage, task |-> s[1], query |-> s[2], sent |-> Sent[s[2]]] : s \in S}

\* classify_router.  Nothing else reads the class of the question, so it is chosen here.
ResearchRoute == {"simple_search_node", "planner_node"}

-----------------------------------------------------------------------------
(* From the question to the documents *)

\* build_response: how a run is described to its user; a hit says so in place of a verdict.
Response(hit, cites, conf, verdict) ==
  [cites |-> cites, conf |-> conf, verdict |-> IF hit THEN "cached" ELSE verdict]

\* An empty question is not looked up.  The sources and the confidence are those stored with
\* the answer, or none and "medium" if it is found without its extras.
CacheHit ==
  /\ node = "semantic_cache_node"
  /\ ~empty
  /\ \E C \in SUBSET Page, c \in Confidence : answer' = Response(TRUE, C, c, "unavailable")
  /\ node' = "END"
  /\ UNCHANGED <<empty, technical, evidenceVars, reviewVars>>

CacheMiss ==
  /\ node = "semantic_cache_node"
  /\ node' = "classify_node"
  /\ UNCHANGED <<empty, technical, evidenceVars, reviewVars, answer>>

\* With rag_gate_router: a question about today goes past the stored sources.
Classify ==
  /\ node = "classify_node"
  /\ technical' \in BOOLEAN
  /\ node' \in ResearchRoute \cup IF SourceRag THEN {"source_rag_node"} ELSE {}
  /\ UNCHANGED <<empty, evidenceVars, reviewVars, answer>>

\* Enough relevant chunks become the documents of the one task.
SourceRagHit ==
  /\ node = "source_rag_node"
  /\ ~empty
  /\ \E P \in SUBSET Page \ {{}} : found' = {Question} \X P
  /\ tasks' = {Question}
  /\ node' = "evidence_collection"
  /\ UNCHANGED <<empty, technical, pool, followUps, searched, reviewVars, answer>>

SourceRagMiss ==
  /\ node = "source_rag_node"
  /\ node' \in ResearchRoute
  /\ UNCHANGED <<empty, technical, evidenceVars, reviewVars, answer>>

\* The task is the question itself; there is no task for an empty one.  A web search that
\* raises fails the run.
SimpleSearch ==
  /\ node = "simple_search_node"
  /\ \/ /\ node' = "failed"
        /\ UNCHANGED <<tasks, found, searched>>
     \/ /\ ~empty
        /\ tasks' = {Question}
        /\ \E P \in SUBSET Page : found' = {Question} \X P
        /\ searched' = Searches("search", {<<Question, OwnQuery[Question]>>})
        /\ node' = "evidence_collection"
  /\ UNCHANGED <<empty, technical, pool, followUps, reviewVars, answer>>

\* The plan of the model, or the question itself.  An empty question is no task, so that a
\* failure leaves a plan without tasks.
Plan ==
  /\ node = "planner_node"
  /\ \/ \E P \in SUBSET Task \ {{}} :
          /\ Cardinality(P) <= MaxSubQuestions
          /\ empty => Question \notin P
          /\ tasks' = P
     \/ empty /\ tasks' = {}
  /\ \E t \in BOOLEAN : technical' = (technical \/ t)
  /\ node' = "search_node"
  /\ UNCHANGED <<empty, found, pool, followUps, searched, reviewVars, answer>>

\* All search_nodes of the plan.  If one raises, so does the run; a plan without tasks
\* searches for the empty query, and finds nothing.
SearchAll ==
  /\ node = "search_node"
  /\ \/ /\ node' = "failed"
        /\ UNCHANGED <<found, searched>>
     \/ /\ \E hits \in [tasks -> SUBSET Page] :
             found' = {e \in tasks \X Page : e[2] \in hits[e[1]]}
        /\ searched' = Searches("search", {<<t, OwnQuery[t]>> : t \in tasks})
        /\ node' = "evidence_collection"
  /\ UNCHANGED <<empty, technical, tasks, pool, followUps, reviewVars, answer>>

-----------------------------------------------------------------------------
(* Evidence and gaps *)

CollectEvidence ==
  /\ node = "evidence_collection"
  /\ pool' \in {PoolOf(tasks, found), EmptyPool}
  /\ node' = "gap_detection"
  /\ UNCHANGED <<empty, technical, tasks, found, followUps, searched, reviewVars, answer>>

\* detect_gaps: one new query for each sub-question without evidence, in the order of the
\* tasks, until there are enough
NewQueriesFor(missing) ==
  LET max == IF GapSearch THEN MaxTargeted ELSE 0
      fresh(t, F) == FollowUpQuery[t] \notin Executed \cup {FollowUpQuery[f] : f \in F} IN
  {F \in SUBSET missing :
     /\ Cardinality(F) <= max
     /\ \A t \in F : fresh(t, F \ {t})
     /\ Cardinality(F) = max \/ \A t \in missing \ F : ~fresh(t, F)}

DetectGaps ==
  /\ node = "gap_detection"
  /\ followUps' \in NewQueriesFor(Missing(pool)) \cup {{}}
  /\ node' = IF followUps' # {} THEN "targeted_search" ELSE "synthesis_node"
  /\ UNCHANGED <<empty, technical, tasks, found, pool, searched, reviewVars, answer>>

\* run_targeted_searches: those that raise are skipped, the others are merged.
Targeted(stage, S) ==
  /\ \E raised \in SUBSET S : \E hits \in [S \ raised -> SUBSET Page] :
        found' = found \cup {e \in Task \X Page :
                               \E s \in S \ raised : s[1] = e[1] /\ e[2] \in hits[s]}
  /\ searched' = searched \cup Searches(stage, S)

\* Variant: a pool of what this round found
TargetedSearchAnew ==
  /\ node = "targeted_search"
  /\ Targeted("gap_search", {<<t, FollowUpQuery[t]>> : t \in followUps})
  /\ pool' = PoolOf(tasks, found' \ found)
  /\ node' = "synthesis_node"
  /\ UNCHANGED <<empty, technical, tasks, followUps, reviewVars, answer>>

TargetedSearch ==
  /\ node = "targeted_search"
  /\ Targeted("gap_search", {<<t, FollowUpQuery[t]>> : t \in followUps})
  /\ pool' = PoolOf(tasks, found')
  /\ node' = "synthesis_node"
  /\ UNCHANGED <<empty, technical, tasks, followUps, reviewVars, answer>>

-----------------------------------------------------------------------------
(* Synthesis, review, one retry *)

Synthesize ==
  /\ node = "synthesis_node"
  /\ \E text \in Texts(PagesOf(pool.pairs)) : draft' = Draft(pool, text)
  /\ node' = "critic_node"
  /\ UNCHANGED <<empty, technical, evidenceVars, review, wanted, redraft, retried, answer>>

\* _retry_queries, before the cut to max_targeted_queries
NewSuggestions(S) == S \ Executed

\* critic_node and critic_router: a retry needs a new query, or evidence to write from again.
\* A critic that breaks down leaves the answer unreviewed.
Criticize ==
  /\ node = "critic_node"
  /\ \/ /\ review' = Unavailable
        /\ node' = "format_response"
        /\ UNCHANGED wanted
     \/ \E report \in Reports(draft), queries \in QueriesOf(draft) :
        \E S \in Suggestions(draft, queries) :
          LET new == IF MaxTargeted > 0 THEN NewSuggestions(S) ELSE {} IN
          /\ review' = ReviewOf(draft, pool, report)
          /\ IF /\ MaxRetries >= 1 /\ ~retried /\ WorthRetrying(review')
                /\ new # {} \/ pool.pairs # {}
               THEN node' = "retry_node" /\ wanted' = new
               ELSE node' = "format_response" /\ UNCHANGED wanted
  /\ UNCHANGED <<empty, technical, evidenceVars, draft, redraft, retried, answer>>

\* _retry_tasks: a query is filed under the sub-questions without evidence in turn, else under
\* the first; without any task there is nowhere to file it, and the division by their number
\* raises.
RetrySearch ==
  /\ node = "retry_node"
  /\ \E Q \in FirstOf(wanted, MaxTargeted) :
       \/ /\ Q # {} /\ tasks = {}
          /\ node' = "failed"
          /\ UNCHANGED <<found, pool, searched>>
       \/ /\ Q = {} \/ tasks # {}
          /\ LET open == Missing(pool) \cap tasks IN
             \E homes \in IF open # {} THEN {open} ELSE FirstOf(tasks, 1) :
             \E home \in [Q -> homes] : Targeted("retry", {<<home[q], q>> : q \in Q})
          /\ pool' = PoolOf(tasks, found')
          /\ node' = "retry_synthesis"
  /\ wanted' = {}
  /\ UNCHANGED <<empty, technical, tasks, followUps, draft, review, redraft, retried, answer>>

RetrySynthesis ==
  /\ node = "retry_synthesis"
  /\ \E text \in Texts(PagesOf(pool.pairs)) : redraft' = Draft(pool, text)
  /\ node' = "retry_critic"
  /\ UNCHANGED <<empty, technical, evidenceVars, draft, review, wanted, retried, answer>>

SecondReviews ==
  {Unavailable} \cup {ReviewOf(redraft, pool, report) : report \in Reports(redraft)}

\* The better-reviewed attempt is kept; the retry wins a tie.
Better(second) == Rank(second.verdict) >= Rank(review.verdict)

\* Variant: the second review goes with the first answer
RetryReviewMixed ==
  /\ node = "retry_critic"
  /\ \E second \in SecondReviews : review' = IF Better(second) THEN second ELSE review
  /\ redraft' = NoDraft
  /\ retried' = TRUE
  /\ node' = "format_response"
  /\ UNCHANGED <<empty, technical, evidenceVars, draft, wanted, answer>>

\* Variant: the retry always wins
RetryReviewLatest ==
  /\ node = "retry_critic"
  /\ review' \in SecondReviews /\ draft' = redraft
  /\ redraft' = NoDraft
  /\ retried' = TRUE
  /\ node' = "format_response"
  /\ UNCHANGED <<empty, technical, evidenceVars, wanted, answer>>

\* Variant: back to the critic, without a word of the retry
RetryReviewAgain ==
  /\ node = "retry_critic"
  /\ \E second \in SecondReviews :
       IF Better(second) THEN draft' = redraft /\ review' = second
                         ELSE UNCHANGED <<draft, review>>
  /\ redraft' = NoDraft
  /\ node' = "critic_node"
  /\ UNCHANGED <<empty, technical, evidenceVars, wanted, retried, answer>>

RetryReview ==
  /\ node = "retry_critic"
  /\ \E second \in SecondReviews :
       IF Better(second) THEN draft' = redraft /\ review' = second
                         ELSE UNCHANGED <<draft, review>>
  /\ redraft' = NoDraft                  \* retry_node returns
  /\ retried' = TRUE
  /\ node' = "format_response"
  /\ UNCHANGED <<empty, technical, evidenceVars, wanted, answer>>

-----------------------------------------------------------------------------
(* The answer *)

\* Variant: a bad verdict is returned in place of a confidence
SettledAsVerdict(d, rv) == IF rv.verdict = "bad" THEN rv.verdict ELSE d.conf

\* Variant: a low verdict leaves the confidence alone
SettledAsWritten(d, rv) == d.conf

\* format_response: what the verdict makes of the confidence
Settled(d, rv) ==
  IF rv.verdict = "bad" THEN "low"
  ELSE IF rv.verdict = "needs_improvement" /\ d.conf = "high" THEN "medium"
  ELSE d.conf

\* The nodes that follow store the documents and the answer, and leave the answer alone.
FormatResponse ==
  /\ node = "format_response"
  /\ answer' = Response(FALSE, draft.cites, Settled(draft, review), review.verdict)
  /\ node' = "END"
  /\ UNCHANGED <<empty, technical, evidenceVars, reviewVars>>

-----------------------------------------------------------------------------
Next ==
  \/ CacheHit \/ CacheMiss \/ Classify \/ SourceRagHit \/ SourceRagMiss
  \/ SimpleSearch \/ Plan \/ SearchAll \/ CollectEvidence \/ DetectGaps \/ TargetedSearch
  \/ Synthesize \/ Criticize \/ RetrySearch \/ RetrySynthesis \/ RetryReview
  \/ FormatResponse

Spec == Init /\ [][Next]_vars

-----------------------------------------------------------------------------
(* Properties *)

Reviewed == node \in {"retry_node", "retry_synthesis", "retry_critic", "format_response"}
Answered == node = "END" /\ answer.verdict # "cached"

\* The review kept with an answer is a review of that answer, also after a retry: "good" means
\* that it names no source that does not exist, leaves no sub-question without evidence, and
\* cites something if there was anything to cite; an answer that cites nothing although there
\* was is bad.
ReviewFitsDraft ==
  Reviewed =>
    /\ review.verdict = "good" => ~draft.orphans /\ draft.missed = {}
    /\ draft.cites = {} /\ draft.sourced => review.verdict \in {"bad", "unavailable"}

\* Once an answer is reviewed, what the run does next never puts a worse one in its place
\* (retry_node: "keep whichever attempt reviewed better"), and it is replaced only if its
\* review was worth a retry.
RetryNeverWorse ==
  [][Reviewed =>
       /\ Rank(review'.verdict) >= Rank(review.verdict)
       /\ draft' # draft => WorthRetrying(review)]_vars

\* "high" is earned by the answer and by its review together: three sources, no sub-question
\* without evidence, and no issue found by a critic, unless no critic answered.
HighConfidenceIsEarned ==
  Answered /\ answer.conf = "high" =>
    /\ Cardinality(answer.cites) >= 3
    /\ \A t \in pool.tasks : \E p \in Relevant[t] : <<t, p>> \in found
    /\ answer.verdict \in {"good", "unavailable"}

\* A sub-question that nothing relevant was found for, in any round, is among those the answer
\* is said to miss, whichever attempt is kept.
GapsAreReported ==
  Reviewed \/ Answered =>
    \A t \in pool.tasks : (\A p \in Relevant[t] : <<t, p>> \notin found) => t \in draft.missed

\* Whatever is planned, missed and suggested, a run makes no more searches than those of one
\* plan, one gap round and one retry, each within its limit ("at most a few follow-up
\* queries", "one retry").
SearchesBounded ==
  \A stage \in Stage :
    Cardinality({s \in searched : s.stage = stage})
      <= IF stage = "search" THEN MaxSubQuestions ELSE MaxTargeted

\* Only the first round of searches can fail a run: "every new stage degrades instead of
\* failing the run".
FailsOnlyInFirstSearch ==
  [][node' = "failed" => node \in {"simple_search_node", "search_node"}]_vars

\* The run as one that gathers evidence and then gives one answer grounded in it.
Grounded == INSTANCE GroundedAnswer WITH
  phase      <- IF node = "failed" THEN "failed"
                ELSE IF node = "END" THEN "answered" ELSE "gathering",
  evidence   <- PagesOf(pool.pairs),
  citations  <- answer.cites,
  judged     <- answer.verdict,
  confidence <- answer.conf

RunIsGrounded == Grounded!Spec

\* The nodes in the order of the graph, retry_node's own steps in its place
Place(n) ==
  CASE n = "semantic_cache_node" -> 1
    [] n = "classify_node" -> 2
    [] n = "source_rag_node" -> 3
    [] n = "planner_node" -> 4
    [] n \in {"simple_search_node", "search_node"} -> 5
    [] n = "evidence_collection" -> 6
    [] n = "gap_detection" -> 7
    [] n = "targeted_search" -> 8
    [] n = "synthesis_node" -> 9
    [] n = "critic_node" -> 10
    [] n = "retry_node" -> 11
    [] n = "retry_synthesis" -> 12
    [] n = "retry_critic" -> 13
    [] n = "format_response" -> 14
    [] OTHER -> 15

\* "No edge leads back to an earlier node."
NoEdgeLeadsBack == [][Place(node') > Place(node)]_vars

\* Every run comes to an end: until it has an answer or has failed there is a step to take,
\* whatever failed before, and each one brings it nearer to the end.
RunEnds ==
  /\ [](node \notin {"END", "failed"} => ENABLED Next)
  /\ NoEdgeLeadsBack
=============================================================================
