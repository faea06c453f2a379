# A formal model of the research agent

TLA+ modules, TLC configurations and TLAPS proofs for the program under `src/research_app`: a
FastAPI service that answers questions by running a LangGraph research graph over web,
documentation and community searches, and keeps the answers as conversations in PostgreSQL.

Paths below are relative to `src/research_app` unless they start with `src/`.

## 1. Inventory

| Component | State it keeps | Operations | Talks to |
|---|---|---|---|
| **Conversation store** `db/conversations.py`, `db/crud.py`, `db/models.py`, `db/database.py` | tables `sessions`, `queries`, `research_conversations`, `research_citations` | load recent turns, last number, save a turn (one retry), save a query, create / rename / soft delete / hard delete a session, clear everything | called by the routes and by the background save |
| **Routes** `main.py`, `research_service.py` | one record per request (session, turn number, context); one pending background task | `/api/research`, `/api/research/stream`, session routes, admin clear | store, graph |
| **Conversation context** `conversation/` | none | turns to context text, topics, summaries | read by the graph's understanding step |
| **Answer cache** `agent/vectordb.py` | two process-wide dictionaries: answers by question, extras by answer | look up (exact, then most similar), store, store extras | graph nodes, run in worker threads |
| **Research graph** `agent/graph.py`, `agent/state.py`, `agent/pipeline/nodes.py`, `agent/pipeline/rag_nodes.py` | the graph state of one run | cache look-up, classify, source RAG gate, plan, search, evidence, gap round, synthesis, critic, retry, format, index, save to cache | everything below |
| **Evidence, gaps, critic** `agent/pipeline/{evidence,gaps,critic,response}.py` | none | pool results per task, find tasks without evidence, judge an answer, describe a run | graph |
| **Synthesis and citations** `agent/pipeline/synthesis.py` | none | number the sources, renumber markers, strip orphans | graph |
| **Source search** `agent/state.py`, `agent/pipeline/search.py`, `sources/routing/{executor,adapters}.py` | a process-wide semaphore of `CONCURRENCY_LIMIT` slots; one outcome per selected source | search web, documentation, communities concurrently; time out; report | Tavily |
| **Source routing** `sources/routing/{router,task_router}.py` | none | choose the sources of one sub-question | planner |
| **Official documentation planning** `sources/official_docs/` | none | which documentation domains to search | source search |
| **Result normalisation** `sources/{normalizer,tavily}.py` | none | clean URLs and texts of single results | source search |
| **Source RAG** `rag/` | a Qdrant collection of chunks | index a page, retrieve chunks | graph; threads that outlive their timeout |
| **Accounts** `auth/`, `main.py` | table `users` | register, log in | routes |
| **Clients** `stream.py`, `templates/chat.html` | presentation | - | routes |

What is hard here:

* **Minutes pass between a read and the write that relies on it.** A request reads its context and
  its turn number, runs the graph, and saves after the response. Other requests of the session,
  renames, deletes and an admin's clear fall in between; nothing holds a lock.
* **The turn is saved after the response**, by a background task that dies with the process.
* **Conflicts are resolved by constraints**: `UNIQUE (session_id, turn_number)` and one retry;
  foreign keys with and without `ON DELETE CASCADE`.
* **Threads share two dictionaries** that are written in two steps and read while written.
* **Searches compete** for slots, time out while waiting, and are cancelled.
* **Everything degrades instead of failing**: each node of the graph has its own fallback, and what
  a later node sees depends on which of them were taken.

What makes each component correct: turns are numbered without holes or duplicates, never rewritten
and in the order of what they were written from; nobody sees another user's history; no row
outlives its session; a save ends (store). One answer per run with the citations its text uses,
one gap round, one retry, the better attempt kept (graph). An answer is never shown with another's
sources, and a follow-up's wording is never a cache key (cache). A slot always comes back, each
selected source has exactly one outcome (search). A cap is a cap (routing). Markers and citations
agree (synthesis). No stale chunk of an older page (RAG).

## 2. Plan

The order puts the persistent, concurrent state first and the pure algorithms last.

| | Module | Abstractly | State |
|---|---|---|---|
| 1 | `ConversationStore`: sessions, queries and turns under concurrent requests, edits and crashes | `TurnLog` | checked, proved |
| 2 | `ResearchRun`: one run of the graph with the fallbacks of every node | `GroundedAnswer` | checked, proved |
| 3 | `SourceSearch`: the concurrent searches of one event loop, slots, time limits, cancellation | `StructuredSearch` | checked, proved |
| 4 | `AnswerCache`: the two dictionaries under several threads and the turns behind them | `AtomicCache` | checked, proved |
| 5 | `TaskRouter`: which sources a sub-question is sent to | - | checked, proved |
| 6 | `SourceChunks`: indexing threads over a shared collection | `PageArchive` | checked, proved |

`AnswerCache` took in what was planned as a module of its own for follow-ups: the turns of a
conversation are part of its state, and the question whether a follow-up may meet the cache is its
run `answer_cache_followup`. The citation algorithm and the accounts were planned and left out
(see section 9).

Each component has one passing run, the conversation store two, on different instances. Five runs must
fail: each takes a sentence of the repository that can be stated as a property and shows that the code
does otherwise. Disagreements without such a sentence are listed as observations in the sections below,
without a run of their own. What the runs check of
safety is proved: type correctness, the invariants and action properties from an inductive
invariant, and the five refinements. Some theorems say more than any run: a run of TLC has no
cheap way to count steps (`SavesAreFinite`), and some properties are finer than the
abstract specification next to them (`SourcesComeSoon`, `CancellationIsExact`,
`ChunksStayInPlace`). The modules are independent: where one reads what another
writes, it has the other one's result as a free choice that covers it (`ResearchRun` a cache hit or
miss, `AnswerCache` a researched answer, `SourceSearch` a routing decision).

## 3. ConversationStore

`ConversationStore.tla` models the whole life of a research request around the graph, and every
other route that writes `sessions`, `queries` or `research_conversations`.

**Grain.** PostgreSQL's READ COMMITTED: an action is one reading statement or one commit. A
transaction's statements take effect at its commit, and a failed commit takes none of them.

| State | Code |
|---|---|
| `present`, `owner`, `active`, `title` | rows of `sessions`; `issued` is the id sequence, which never repeats an id |
| `queries`, `turns` | rows of `queries` and `research_conversations` |
| `pc[r]`, `sess[r]`, `ctx[r]`, `num[r]` | where request `r` is in `main.research` / `research_stream`, its session, the turns it loaded, the number it will store |
| `reported[r]` | the turn number its response (or `done` event) carries |
| `titleSeen[r]`, `attempt[r]` | the loop variables of `save_turn` |
| `edit[e]`, `editSess[e]`, `editSeen[e]` | a rename, delete or clear between its look-up and its commit |

| Actions | Code |
|---|---|
| `ResolveSession`, `ResolveNewSession` | `main._resolve_session` |
| `LoadContext`, `ChooseNumber`, `LoadFails` | `research_service.load_conversation`: two statements, and the fallback to turn 1 without history |
| `RunAnswers`, `RunEndsWithoutAnswer`, `Disconnect` | the graph, seen from the route; a client that leaves |
| `SaveQuery`, `Respond` | `main._persist` and the response |
| `BeginSave`, `CommitTurn`, `RejectTurn`, `NextNumber`, `SaveFails` | `conversations.save_turn` in `save_conversation_turn`, with rollback and the single retry |
| `CreateSession`, `Begin...`/`Commit...` | the session routes and `clear_all_data` |
| `Crash` | the process dies; rows stay, requests, pending saves and open transactions do not |

The definitions called *Variant* are plausible bugs of the action next to them (a missing
constraint, an off-by-one, no second attempt). No behaviour uses them; replacing the action by its
variant shows that a property notices.

### What the runs check

| Run | Instance | Properties |
|---|---|---|
| `conversation_contention` | three requests of one user in one session, one edit at a time, one database error | `TypeOK`, `DenseTurnNumbers`, `StoredInOrder`, `TurnHasQuery`, `LostToTwoOthers`; `StoreIsTurnLog`, `TurnsOnlyLeaveWithSession`, `AutoTitleComesWithFirstTurn` |
| `conversation_pair` | two requests of one or two users, one of them with a blank question, in one session | `HistoryStaysPrivate`, `NoOrphanRows`; `SaveSettles` under `FairSpec` |
| `conversation_lost` | three requests, nothing else | `LostOnlyWithSession` **fails** |
| `conversation_inactive` | one request, one edit at a time | `InactiveIsNotFound` **fails** |

* `DenseTurnNumbers`: whatever races, fails or crashes, a session's turns are numbered 1..n.
* `StoredInOrder`: a renumbered turn still comes after everything its answer was written from, and
  never before the number its response reported.
* `TurnHasQuery`: what a follow-up builds on is in the chat that is reloaded from `queries`.
* `StoreIsTurnLog`: the table is an append-only log per session; a request is stored at most once.
* `AutoTitleComesWithFirstTurn`: a rolled-back attempt leaves no title behind.
* `HistoryStaysPrivate`, `NoOrphanRows`: ownership is checked once and children are loaded before a
  delete, yet what is written minutes later keeps to the session's owner and to sessions that exist.
* `LostToTwoOthers`: in a session that is still there, a turn is given up only after two other
  requests took its numbers, the one its response reported and then the next free one. A rename, a
  clear, a crash or a database error of another request never costs a turn.
* `LostOnlyWithSession`: so one retry is enough for two requests. **With three it is not**:
  the third save loses number 1 to the first and number 2 to the second. Its response was sent and
  its query is in the chat, but the turn is only mentioned in a log. `docs/phases/
  PHASE-06-COMPLETE-RESEARCH-SYSTEM.md:8` says "every turn is stored".
* `InactiveIsNotFound`: `db/models.py:64` says that inactive sessions are treated as not found;
  `DELETE /api/sessions/{id}` does not ask, and deletes a soft-deleted session for good.

**Bounds.** Two requests show every race of a read with a write; the third is what exhausts the
retry. One session id is enough for the numbering, since no statement touches two sessions but the
clear; the theorems are for any number. `HistoryLimit = 1` makes the context a proper part of the
session's turns. `MaxFaults = 1` bounds the errors that are nobody's race. `Edit = {e1}` allows
one edit in flight at a time, any number after each other. Deadlock is not checked: a system whose
requests have all been made and whose ids are used up has nothing left to do.

**Fairness.** `FairSpec` adds weak fairness of each request's background save only. The task runs
on the worker's event loop right after the response, nothing in it waits for a user, and only the
death of the process ends it early, which settles the request too. Nothing makes a user send,
rename or delete, so nothing else is fair.

### What is proved

`ConversationStoreProofs.tla`; TLAPS checks every step, for every number of requests, users,
sessions and edits and every bound.

| Theorem | Says |
|---|---|
| `Invariance` | `Spec => []IInv` |
| `TypeCorrect`, `DenseNumbering`, `TurnsStoredInOrder`, `TurnsHaveQueries`, `NoOrphans`, `HistoryIsPrivate` | the invariants of the runs |
| `TurnsAreKept`, `AutoTitleOnce` | the two action properties |
| `StoreImplementsTurnLog` | the refinement of `TurnLog` |
| `LostOnlyToTwoOthers` | a turn is lost to two others or with its session, for any number of requests |
| `OneRetryIsEnoughForTwo` | hence, with at most two requests, only with its session |
| `SavesAreFinite` | after its response a request takes at most six steps of its own, and no step of another adds to them |

Assumed: there is a user, blank requests are requests, `NoSession` is no session,
`HistoryLimit >= 1`, `MaxFaults` is a natural number.

The numbering is not inductive by itself. A save inserts the number it read long ago, and finding
that number free does not say that the one below it is taken. The argument is this: while the row of
a session exists, none of its turns is removed, and ids are not reused. So what a request read about
a session whose row still exists remains a lower bound: all numbers below the one it chose are still
taken (`ReadsStand`), and if its own is free it is the next one. `IInv` adds to this which rows each
stage of a request implies (`RowsHaveRequest`), so that a request is stored once and with its query,
and who owns what it reads (`Owned`).

To whom a turn is lost needs more: a request stores one turn (`OneTurn`), and a save in its second
attempt knows a turn with the number it was refused, below the number it tries now (`Retries`). If a
delete takes that turn away in between, it takes the session with it, and ids are not reused. So two
refusals in a living session are two turns with different numbers, of two other requests. With two
requests there is no second other one; run `conversation_lost` shows that this bound is sharp.

`SavesAreFinite` is the part of `SaveSettles` that needs no fairness: a rank made of the attempt and
the place in it, which each step of the save lowers and no step of another request raises. That the
steps are taken is fairness, and stays with TLC.

Only model-checked: `SaveSettles` (liveness under fairness is out of the prover's reach) and the
two violations.

### Left out, and observations

* Time columns, citation rows (part of the turn's transaction) and texts.
* `schemas/schemas.py` says "Auto-use latest session if not provided"; `main._resolve_session`
  creates a new session instead, as its own docstring says. The model follows the code.
* `PATCH /api/sessions/{id}` with `{"title": null}` commits NULL: `main.py:495` takes what the body
  holds, and the column is nullable in the migrated schema (`db/migrations/versions/0001_baseline.py`,
  line 38), though `db/models.py` types it `str`. In the model it is one of the titles a user may
  set (`"custom"`): `save_turn` replaces neither, and no property says that a title is a text.
* `save_turn` judges the title it read and then writes; a rename that commits in between is
  overwritten. The property about titles therefore speaks of what the save may write, not of keeping
  the user's title.

## 4. ResearchRun

`ResearchRun.tla` follows one question through `agent/graph.py`, node by node, with every fallback
the nodes have. `GroundedAnswer.tla` says what a run promises without saying how.

**Grain.** LangGraph runs one superstep at a time and merges what its nodes return, so an action is
a node together with the router behind it (the parallel `search_node`s of a plan are one step).
`retry_node` is split at its three awaits.

| State | Code |
|---|---|
| `node` | the node that runs next; `"failed"` is a run whose exception reached the route |
| `tasks`, `found`, `pool`, `followUps` | `research_tasks`, `source_documents`, `evidence_pool`, `gap_analysis.follow_up_tasks` |
| `draft`, `review`, `wanted` | `synthesis`, `critic_result`, and the new queries among its suggestions |
| `redraft`, `retried` | the second attempt inside `retry_node`; `retry_performed` |
| `answer` | `citations`, `confidence` and the verdict the route reports |
| `searched`, `draft.sourced` | history: every search made, with its stage, its task, the query as it was written and as it was sent; was there anything to cite |

Queries are constants where the code builds them: what a task is planned with (`OwnQuery`), its own
words (`TextQuery`), its key terms with its technology as the gap round searches them
(`FollowUpQuery`, `pipeline/gaps.py`), the same without it as the critic suggests them
(`MissedQuery`, `pipeline/critic.py`). `Sent` is what `_fit_query` and `refresh_stale_years` make of a
query after it was compared with the ones already run.

| Actions | Code |
|---|---|
| `CacheHit`, `CacheMiss`, `Classify`, `SourceRagHit`, `SourceRagMiss` | `semantic_cache_node`, `classify_node`, `rag_gate_router`, `source_rag_node` |
| `SimpleSearch`, `Plan`, `SearchAll` | `simple_search_node`, `planner_node`, all its `search_node`s |
| `CollectEvidence`, `DetectGaps`, `TargetedSearch` | `pipeline/nodes.py`, `pipeline/gaps.py`, `pipeline/search.py` |
| `Synthesize`, `Criticize` | `run_synthesis`; `run_critic` with `critic_router` |
| `RetrySearch`, `RetrySynthesis`, `RetryReview` | `retry_node` |
| `FormatResponse` | `format_response`; the two nodes after it store things and leave the answer alone |

What the language model and the searches return is free: any plan, any pages, any citations, any
report, any failure. Fixed are the rules the code applies to them: which pages count as evidence of
a sub-question, when confidence is high, which issues make which verdict, what deserves a retry.

| Run | Instance | Properties |
|---|---|---|
| `research_gaps` | two sub-questions, three pages, two targeted queries per round | `TypeOK`, `ReviewFitsDraft`, `HighConfidenceIsEarned`, `GapsAreReported`, `SearchesBounded`; `FailsOnlyInFirstSearch`, `RetryNeverWorse`, `RunIsGrounded`, `RunEnds` |

* `ReviewFitsDraft`: the retry leaves two answers, two reviews and two pools behind; the review that
  is kept is a review of the answer that is kept.
* `RetryNeverWorse`: an unreviewed second attempt counts as "needs improvement", no more and no less.
* `HighConfidenceIsEarned`: confidence is judged at synthesis, corrected after the review; in the end
  "high" needs sources, full coverage and no issue.
* `GapsAreReported`: a first attempt that is kept after a retry lists what its own, smaller pool
  missed, which is never too little.
* `SearchesBounded`: one gap round ("at most a few follow-up queries", `pipeline/nodes.py:72`) and one
  retry, each within `max_targeted_queries`, whatever is missed and suggested.
* `FailsOnlyInFirstSearch`: `docs/phases/PHASE-06-COMPLETE-RESEARCH-SYSTEM.md` says "Every new stage
  degrades instead of failing the run". `retry_node` files queries modulo the number of
  sub-questions and would divide by zero without any; the run shows that such a run, that of an
  empty question, is never worth a retry, because an answer without citations is not sent to the
  critic's model (`Asked`, `QueriesOf`).
* `RunIsGrounded`: evidence is never lost, the one answer cites nothing but evidence, and a
  bad verdict means low confidence.
* `RunEnds`: while a run has no answer and has not failed there is a step it can take, and every step
  leads to a later place of the graph (`NoEdgeLeadsBack`; `agent/graph.py:100` says so of its edges).

**Bounds.** Two sub-questions allow one to be covered and the other not, and a retry query to be
filed under either. Three pages are what high confidence needs, with an official page, a Reddit page
and another; the key terms of one sub-question repeat its own query, so that a gap can be left
without a follow-up. `CHECK_DEADLOCK FALSE`: a finished run stops.

**Fairness.** None is assumed: `RunEnds` says that a run cannot get stuck and cannot go in circles. That
the executor takes the step, and that every await in a node ends with an answer or an exception, is
up to LangGraph and the HTTP clients (`agent/llms.py` sets no time limit of its own).

**Abstractions.** A page is a (URL, text) pair, so a duplicate is the same page, as in
`EvidencePool.add_documents`; documents without text, which are no evidence, are left out. The cut to
`MAX_PROMPT_SOURCES` only narrows what may be cited. The pages of a retry are filed under any
sub-question without evidence, not strictly in turn. A paragraph-level complaint of the critic and
three unsupported claims have the same weight and are one flag of the report. Which questions the
cache may answer or keep is the subject of `AnswerCache`, what a search step does that of
`SourceSearch`.

Observations: a first attempt without any evidence ("needs improvement") is kept over a second one
that found evidence but cites none of it ("bad"), so the answer may say that there are no sources
although the pool has some; the fallback list of sources has citations and is therefore cached. Two
queries that differ may be the same search: they are compared before `_research_update` cuts them to
length and refreshes their years (`agent/state.py:599-609`), so a search may be made twice although
no query is (in the instance, `Sent` maps `c2` to `k2`). No document promises otherwise.

### What is proved

`ResearchRunProofs.tla`, for any sub-questions, pages, relevance, queries and settings:

| Theorem | Says |
|---|---|
| `RunInvariance` | `Spec => []IInv` |
| `TypeCorrect`, `ReviewIsOfAnswer`, `HighConfidenceEarned`, `GapsReported` | the invariants of `research_gaps` |
| `RetryKeepsTheBetter`, `NoLateFailure` | its action properties |
| `RunImplementsGroundedAnswer` | the refinement of `GroundedAnswer` |
| `RunIsAffordable` | `SearchesBounded`: a run makes at most `MaxSubQuestions` searches for its plan and `MaxTargeted` in each of the gap round and the retry |
| `StepsMoveOn` | `NoEdgeLeadsBack` |
| `RepeatsOnlyByRewriting` | the gap round and the retry repeat a search only if two different queries were rewritten alike |

Assumed: the named assumptions of `ResearchRun`, that is, the types of the constants, and
`MaxRetries` 0 or 1 (`PipelineSettings` clamps it).

The invariant is built in layers. The pool is all that was found or, if collecting it failed, empty
(`EvidenceStands`). A fresh attempt fits the pool it was written from; after more searches only part
of that is left, since the pool has grown and the attempt has not (`Fits`, `Keeps`). That part
would not survive a retry after a lost pool, whose sub-questions come back with the retry's searches
while the attempt knows of none. The layer `AttemptStands` therefore says that such a run is never
worth a retry (`NothingToRetry`): an empty pool makes an answer without citations, nothing missed and
nothing to object to. The same fact keeps the division in `_retry_tasks` from dividing by zero.
`QueriesStand` accounts for the queries, up to the retry.

`RunIsAffordable` is about cost. `CostStands` gives every node the number of searches that may have
been made in each stage when it is next: none, the plan's, those and the gap round's, those and the
retry's.

`RepeatsOnlyByRewriting` is about what is sent (`Sent`), not about what is compared: a search can be made
twice, but only where two queries that differ as they were written are cut or refreshed to the same
words. What is compared is new, which is the local `Fresh` of its proof.

Only model-checked: the `ENABLED` half of `RunEnds`, that a run has a step to take until it is over.

## 5. SourceSearch

`SourceSearch.tla` is what happens inside a search step: `_research_update` of `agent/state.py`,
run by several sub-questions and requests of one event loop at the same time, over the semaphore of
`_search_slot`.

**Grain.** asyncio switches tasks only at an await, so an action is the code between two of them. A
call is a pair of a search and a source.

| State | Code |
|---|---|
| `phase[u]` | the search before its web call, in it, gathering the background tasks, or at an end |
| `sources[u]`, `dated[u]` | the routing decision; whether the pending web call has a date filter |
| `call[c]`, `result[c]` | the task of a source and what it came back with |
| `queue`, `free` | waiters and value of the semaphore |
| `dying` | tasks that were cancelled and have not run since |
| `merged[u]`, `report[u]` | the documents returned, by source; the outcomes in the routing report |

| Actions | Code |
|---|---|
| `Begin` | routing (`Route`), the documentation plan (`Askable`, `DocsPlans`), `create_task`, the web request |
| `Finish` | the two merges (`Merges`: `_add_official_docs`, `_add_community`) and `_finish_task_update` |
| `WebAnswer`, `RetryUndated`, `WebRaises` | the web call, its second try without dates, its exception |
| `Cancel` | the task of the search is cancelled at an await |
| `Start`, `Answer`, `Timeout`, `Unwind` | an adapter's task: its first step, the provider's reply, `wait_for`, `CancelledError` |
| `Grant`, `Leave` | `_tavily_invoke` enters and leaves the semaphore |

| Run | Instance | Properties |
|---|---|---|
| `source_search` | two searches, two slots; one selects documentation and GitHub, the routing of the other fails | `TypeOK`, `SlotsConserved`, `ReportIsTrue`; `SearchIsStructured`, `SearchEnds` under `FairSpec` |

* `SlotsConserved`: a slot comes back from an answer, an exception, a time limit and a cancellation,
  also when a waiter is granted the slot after it was cancelled.
* `SearchIsStructured`: the searches implement `StructuredSearch`. A search waits for every call it
  made and returns, of what came back, the web's documents always and those of the other sources
  unless merging them raises; or it is given up by a web call that raises or a client that leaves,
  and then nothing more comes back to it, also from a task that was cancelled and has not run since.
  No step of one search touches another's calls or documents.
* `ReportIsTrue`: what is returned came back, and what came back from the web is returned. The report,
  if there is one, has one outcome for every selected source, "ok" of exactly those that came back
  with documents, "skipped" of exactly those that were not searched. Only documentation of a search
  of the web alone is returned without being reported.
* `SearchEnds`: searches compete for slots that hanging calls hold, and still all end.

**Bounds.** Two searches are what it takes to compete. Up to five calls over two slots fill the
queue, and waiting calls time out, are cancelled and are granted their slot too late. With more
slots fewer calls wait; the theorems are for any number of both.

**Fairness.** The event loop runs what is ready (`Start`, `Unwind`, `Finish`, `Grant`) and its
timers fire (`Timeout`). The web call has no time limit in the code; its HTTP client ends it, and
`SearchEnds` relies on that. Of a documentation or community call nothing is assumed: it may never
be answered.

**Abstractions.** The semaphore is that of Python 3.11 and later: first come, first served. A search
has a sub-question or none; without one it takes the same steps and writes no report (`NoReport`),
like one whose report cannot be built (`agent/state.py:583`). The time limit of an adapter starts
with its call, so the wait for a slot counts: under load a source is reported as timed out although
it was never asked. The report does not tell the two apart.

Three paths of failure matter here. If the routing of a sub-question and that of its question both
fail, the route is the web alone, but the question still decides about the documentation
(`agent/state.py:630-634`): it is searched and returned, and no report names it (`Askable`). If merging
the documentation or the community results raises (`agent/state.py:404`, `:482`) they are dropped
although the report says "ok" of them (`Merges`). If the report itself cannot be built, there is none.

**Proved** (`SourceSearchProofs.tla`, for any searches, routes and limits): `BooksKept`, and from it
`SearchTypeCorrect`, `SlotsNeverLeak`, `CancellationIsExact`, `ReportsAreTrue`; and
`SearchesAreStructured`, the refinement. `CancellationIsExact` (`CancelledExactly`) is finer than
the abstract specification, which lets the calls of a given-up search end in their own time: they
are all told to, and no other search's are. Assumed: the web is in every route, the limit is from 1
to 20 (`PipelineSettings` clamps it). `Books` adds to the properties that the queue holds each
waiting call once and that free slots and calls in flight make up the limit over finite sets
(`Slots`); where the web call is in each phase (`WebOK`); and that documents come from sources that
may be asked, were asked and went well (`Known`), without which the report could contradict what
came back. In the refinement a grant of a slot, a second try and the cancellation of a task are
steps the abstract search does not see; that documents come only from calls that are over is an
invariant of its own (`Quiet`). Only model-checked: `SearchEnds`.

## 6. AnswerCache

`AnswerCache.tla` is the cache of `agent/vectordb.py` with the two nodes that use it. They run in
worker threads, so requests interleave between any two accesses of a dictionary.

| State | Code |
|---|---|
| `cache`, `extras` | `_exact_cache`; the keys of `_extras` whose entry has citations |
| `stored` | conversations with a row in `research_conversations` |
| `pc`, `asked`, `context`, `follow` | where a request stands, its question, whether it loaded turns, `is_follow_up` |
| `keys` | the questions in the dictionary when the iteration of `lookup_cache` began |
| `answer`, `cited`, `origin` | its answer, whether it has citations, and (history) where it came from |

| Actions | Code |
|---|---|
| `Begin` | `load_conversation` and the guards of `semantic_cache_node` |
| `ExactHit`, `ExactMiss`, `BeginScan`, `ScanHit`, `ScanMiss` | `lookup_cache`: the exact test, then the iteration, which may find what was stored in between |
| `TakeExtras` | `get_cache_extras` |
| `Research` | the rest of the graph: any answer, judged a follow-up only with earlier turns |
| `StoreAnswer`, `SkipStore`, `StoreExtras` | `save_to_cache_node`: `store_cache`, then `store_cache_extras` |
| `SaveTurn` | `save_conversation_turn` after the response |

| Run | Instance | Properties |
|---|---|---|
| `answer_cache` | three requests of two conversations, three questions, two answers | `TypeOK`, `HitWasEarned`; `CacheIsAtomic` |
| `answer_cache_followup` | the same | `FollowUpIsResearched` **fails** |

* `HitWasEarned`: whatever is stored and overwritten during a scan, a hit is what a live run wrote,
  with citations and not as a follow-up, for a question close enough; neither asks about today.
* `CacheIsAtomic`: the look-up iterates over a dictionary that other requests write to. It still
  implements `AtomicCache`, where a look-up is one step and finds the answer of the closest question
  stored at that moment. A question stored during the iteration is not compared, but then the
  iteration raises and the look-up finds nothing. And a hit lacks its sources only while its writer
  is between its two stores (`SourcesComeWithHit`). That window exists: the reader's chat then shows
  an answer with markers and no sources.
* `FollowUpIsResearched`: `agent/state.py:171` says that a follow-up "must not be answered with what
  someone else's ... meant". The guard asks for stored turns, and a turn is stored after the
  response. A follow-up that is sent in between is looked up in the shared cache.

**Bounds.** Two questions overlap by exactly the threshold, the third asks about today. Three
requests are a writer, one that overwrites or joins during a scan, and a reader; two answers tell an
overwritten entry from the first. Nothing evicts from the dictionaries, so their size has no bound
in the code; here it is the number of questions. Deadlock is checked: only finished requests stop.

**Abstractions.** A blank question is not looked up and is left out. The extras are keyed by the
answer's text, so two questions with the same answer share them; whose citations these are is not
told apart. A dictionary that grows during the iteration makes it raise, which `lookup_cache`
catches and counts as a miss. The minimum length of an answer and the model's own judgement of time
sensitivity are the free choice of `SkipStore`.

**Proved** (`AnswerCacheProofs.tla`): `CacheInvariant`, `CacheTypeCorrect`, `HitsAreEarned`,
`SourcesComeSoon`, and the refinement `CacheImplementsAtomic`. Assumed: the types of the constants,
and that a question overlaps fully with itself. A hit carries no trace of who wrote it. The
invariant `Earned` therefore gives every entry and every answer taken from one a run that vouches
for it: a live, cited run that is no follow-up and has either stored the extras or is about to.
Entries may be overwritten, but a run once finished goes on vouching, which is what an answer that
was taken earlier needs. The abstract look-up happens when the iteration reads the entry it will
return: the keys are then still those of its beginning, so the closest of them is the closest of
all, and an exact hit is the closest there can be. Only model-checked: the violation.

## 7. TaskRouter

`TaskRouter.tla` is a decision procedure: what the planner suggests, what the text and the question
signal, what is switched on and how many sources are allowed, in the order of the rules in
`sources/routing/task_router.py`.

| State | Code |
|---|---|
| `task` | a `ResearchTask` with the question, what was understood of it, and `RouterSettings` |
| `sources`, `dropped` | `RoutingDecision.sources` and `.dropped` |
| `docsPlan` | whether `_research_update` has a plan for the documentation |

| Actions | Code |
|---|---|
| `Plan`, `PlanFails`, `Simple` | `planner_node` with any hints; without a plan; `simple_search_node` |
| `RouteAdvice`, `RoutePlanned`, `RouteQuestion` | the branches of `route_task` |
| `RouteFails` | the fallback of `_decide_route` |
| `PlanDocs` | `plan_official_docs`, `plan_technology_docs` |

A text is the record of what the regular expressions find in it; which words they match is not
modelled. `Naming` and `DocsText` say what joining two texts does to these findings.

Run `task_router` goes through 7 texts, 7 questions, 4 sets of suggestions (unknown values
included), all intents, caps of 1 and out of range, and three settings of the switches.

* `DocsForTechnicalTask`, `NonTechnicalStaysOnWeb`, `CapTrimsInOrder`: each rule is stated of
  the final decision, not of the step that applies it. A later rule could undo an earlier one: the
  cap could take the documentation that rule 1 added, rule 1 could add what rule 2 removed.
* `SuggestionsAccountedFor`: every suggestion is searched or reported, never both, across four rules
  that each report their own.
* `CapTrimsInOrder`: a route that lost a source to the cap has as many as the cap allows, or the
  documentation and the web alone; community and code give way in the order the question asks for.
* `SwitchesHonoured`: also in the fallback.
* `DocsSearchIsPlanned`: the decision is made from `signal_text`, the plan from `docs_text`, which
  contains the resolved question as well, and that question may veto. The plan is found
  nevertheless.

Seven texts have one or two signals each, so that every rule is decided by one of them alone; a cap
of 1 is the smallest, and a cap of 0 stands for the values that fall back to 3. The router stops
after the plan, hence `CHECK_DEADLOCK FALSE`.

Run `task_router_cap` checks `CapHolds` on the same instance, and it **fails**:
`sources/routing/settings.py:8` calls the cap "the most sources one sub-question is sent to. Official
documentation and web are never trimmed by it." The branch for advice questions returns before the
cap (`sources/routing/task_router.py:218`), so a planned sub-question goes to Reddit and the web with a
cap of 1. `CapHolds` is about planner-led routes only: that a task without a hint gets its route
uncapped is said in the code (`task_router.py:209`).

**Proved** (`TaskRouterProofs.tla`, for any texts, questions, suggestions and caps):
`DecisionExplained`, `RouterTypeCorrect` and one theorem for each property of `task_router` (that of
`CapTrimsInOrder` is `CapTrims`); `CapHoldsOffAdvice`: the advice branch is the only one that breaks the
cap. The invariant
`Explained` says by which branch a decision came about and that it is the value of that branch's
rules; the properties are then facts about the rules, proved as lemmas without state. Nothing of the
safety of this module is only model-checked but the violation.

Observations: the fallback of a failed routing may select documentation for a
technology under a weak alias, for which no plan is made; it is then reported as skipped. What
happens when that routing fails as well is in section 5.

## 8. SourceChunks

`SourceChunks.tla` is the source RAG: one Qdrant collection that outlives the process, one store
object per process, and indexing threads that a run stops waiting for but cannot stop.

| State | Code |
|---|---|
| `live` | the texts on the web, as versions; the length of each is its number of pieces |
| `exists`, `indexes`, `points` | the collection, its payload indexes, its points by id |
| `ready` | `SourceChunkStore._ready` |
| `pc`, `docs`, `reported` | a run, its `source_documents`, what `index()` returned to it |
| `thread`, `todo`, `written` | its indexing thread: next request, chunks to write, chunks written |

| Actions | Code |
|---|---|
| `Retrieve`, `NotRetrieved` | `rag_gate_router`, `source_rag_node`, `_retrieve_sync` with search, rerank and threshold |
| `Fetch`, `Publish` | a run fetches a page; the page changes |
| `Ingest`, `SkipIngest`, `Return`, `GiveUp` | `index_sources_node`, `SourceIndexer.index` with `wait_for` |
| `Ensure`, `CheckExists`, `Create`, `CreateIndex`, `Upsert` | `ensure_collection` and `upsert`, request by request |
| `RequestFails`, `CreateUnanswered`, `IndexUnanswered`, `UpsertUnanswered`, `Crash` | a failed request, not executed or executed; the end of the process |

| Run | Instance | Properties |
|---|---|---|
| `source_chunks` | two runs, a page whose text has 2, then 1, then 3 pieces, two payload indexes, two faults | `TypeOK`, `CollectionIsMadeOnce`, `ReportedIsStored`; `StoreIsArchive`, `RunsEnd` |
| `source_chunks_indexes` | the same with the code's four indexes | `ReadyHasIndexes` **fails** |

* `StoreIsArchive`: the store implements `PageArchive`. Each id holds its own piece of a text of its
  page that the writing run saw whole, and is never emptied, whatever late threads, overwriting,
  failures and crashes do. A document made from a stored chunk is not indexed again; if it were, its
  text would become chunk 1 of its page.
* `CollectionIsMadeOnce`: without a lock, two threads may both find the collection missing. One of
  them is refused by the server; it never takes the other's half-made collection for its own.
* `ReportedIsStored`: the number of chunks a run reports is stored completely, and stays.
* `RunsEnd`: indexing holds up no run, even if its thread hangs.
* `ReadyHasIndexes`: `rag/store.py:101` says of `ensure_collection` "Create ... and its payload
  indexes if missing. Idempotent." It creates the indexes only together with the collection. After a
  failure in between the store becomes ready without them, for good.

**Bounds.** Two runs are one that writes late and one that writes or reads meanwhile. A text that
gets shorter leaves the tail of the older one, one that gets longer writes beyond it. `Batch = 1`
puts every chunk into a request of its own; two documents per run show the same id written twice by
one thread. Two faults are a failure and a second one while recovering. Two indexes have a state in
between; the violation uses the code's four. A process whose runs are over stops, hence
`CHECK_DEADLOCK FALSE`.

**Fairness.** A run's own steps and its timer, on the event loop. Nothing is assumed of the thread
and of the server.

**Abstractions.** The embedded local engine and the lock around the creation of the client are left
out, and so are the vectors: any stored chunks may be candidates and any of them relevant. The two legs
of the fallback fusion (`rag/store.py:196-201`) are two requests, read here as one: each candidate is a
point of one of them, and no property relates two candidates of a run. `SourceIndexer` builds its store
without a lock (`rag/ingest.py:33-36`), so the first two threads of a process may build one each, with
a `_ready` of its own; the model has one. A second object adds one more look at the server before
it is ready, which the interleavings of `Ensure` and `CheckExists` of a shared one contain.

**Proved** (`SourceChunksProofs.tla`, for any runs, pages, texts, batch sizes and faults):
`BaseInvariant`, `ChunksTypeCorrect`, `CollectionMadeOnce`, `ChunksStayInPlace`, `ReportedStored`;
`StoreImplementsArchive`, the refinement; `IndexesUnlessFaults`. Assumed: texts have at least one
piece, and the limits are positive. `Base` adds what a thread still has to write (placed chunks
only) and that a creator has an index left to create. For the report, `Progress` says of a waiting
run that its chunks are written up to a point and are to be written from there on, and that the
written ones are stored; an upsert moves that point. That a list of lists can be flattened at all is
shown with the least number for which it would fail, since the library's induction rules cannot be
used here. For the refinement a thread's chunks are pieces of documents its run has seen, also after
the run stopped waiting for it. `IndexesUnlessFaults` says how far the violation goes: without a
failed or unanswered request and without a crash, `ReadyHasIndexes` holds, however many threads race
to create the collection. Only model-checked: `RunsEnd` and the violation.

Observations: the chunks that a longer older text had beyond the new one are never removed and are
retrieved like the others; a thread that outlives its time limit may overwrite the text of a newer
one, and is reported as 0 chunks although it goes on writing; the thread that loses the race for the
collection indexes nothing.

## 9. Not modelled

* **Accounts** (`auth/`): registration is a check and an insert, login a look-up; hashing and tokens
  are library calls. That two registrations of one name may race is visible in two lines.
* **Citation markers** in `agent/pipeline/synthesis.py`: a rewriting of one text, without state.
  Which sources an answer may cite, and what is left if none is cited, is in `ResearchRun`.
* **What texts match**: the registry of technologies, the regular expressions of router and
  detector, time sensitivity, word overlap. Their verdicts are inputs or constants of the modules
  above.
* **Result normalisation** beyond what a reply counts as: the clean-up of one result at a time,
  which unit tests reach.
* **Domain models**: records without behaviour. **Clients, server-sent events, logging, migrations,
  scripts**: presentation and configuration. **The language model**: it may answer anything or fail.
* **The composition of all modules**: a run is one process in each of them. Where they meet is
  stated in section 2; a joint state space is beyond TLC, and each interface is covered by a free
  choice.
