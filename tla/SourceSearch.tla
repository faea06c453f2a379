---------------------------- MODULE SourceSearch ----------------------------
(***************************************************************************)
(* The concurrent searches of one event loop (agent/state.py,              *)
(* _research_update): each searches the web and, beside it, the            *)
(* documentation and community sources that were selected, every call      *)
(* taking one of the process's slots (_tavily_invoke).                     *)
(*                                                                         *)
(* An action is the code between two awaits.  asyncio and the search       *)
(* provider are external: a slot is granted first come, first served; the  *)
(* provider answers anything, late or never.                               *)
(***************************************************************************)
EXTENDS Integers, FiniteSets, SequencesExt

CONSTANTS
  Search,           \* the calls of _research_update
  Route,            \* Route[u]: the sets of sources the routing of u may select; {"web"} if it fails
  ConcurrencyLimit  \* PipelineSettings.concurrency_limit

Background == {"official_docs", "github", "reddit"}
Source     == Background \cup {"web"}
Community  == {"github", "reddit"}

ASSUME SearchAssumption ==
  /\ \A u \in Search : Route[u] \subseteq {S \in SUBSET Source : "web" \in S}
  /\ ConcurrencyLimit \in 1..20

Call == Search \X Source

VARIABLES
  phase,     \* phase[u]: where search u stands
  sources,   \* decision.sources
  dated,     \* is the pending web search restricted to recent dates
  call,      \* call[c]: where the call c, a pair of a search and a source, stands
  result,    \* result[c]: what it came back with
  queue,     \* the calls that wait for a slot
  free,      \* the value of the semaphore
  dying,     \* the calls whose task was cancelled and has not yet noticed
  merged,    \* update["source_documents"], by source
  report     \* the outcomes of the routing decision, once it is finished

callVars   == <<call, queue, free>>
searchVars == <<phase, sources, dated, merged, report>>
vars       == <<searchVars, callVars, result, dying>>

-----------------------------------------------------------------------------
(* What comes back *)

\* What the provider may do: usable documents, documents of other sites only, an empty list,
\* the message "No search results", something unusable, or an exception
Reply == {"documents", "off_site", "nothing", "no_results", "unusable", "raises"}

\* A result; "empty" is the failure of a search that found nothing (its error code)
Result == [status : {"ok", "empty", "failed", "timeout"}, docs : BOOLEAN]

Res(st, docs) == [status |-> st, docs |-> docs]
NoResult      == Res("failed", FALSE)
TimedOut      == Res("timeout", FALSE)

\* normalize_tavily_response, with the codes of _is_empty_not_failed
Normalized(reply) ==
  CASE reply \in {"documents", "off_site"} -> Res("ok", TRUE)
    [] reply = "nothing"    -> Res("ok", FALSE)
    [] reply = "no_results" -> Res("empty", FALSE)
    [] OTHER                -> Res("failed", FALSE)

\* DomainSourceAdapter.search and OfficialDocsAdapter.search, when the call came back in time:
\* documents of other sites are dropped
Adapted(reply) == IF reply = "off_site" THEN Res("empty", FALSE) ELSE Normalized(reply)

\* Variant: a search that worked is "ok"
OutcomeByStatus(r) == r.status

\* _outcome_from_result
Outcome(r) == IF r.status # "ok" THEN r.status ELSE IF r.docs THEN "ok" ELSE "empty"

-----------------------------------------------------------------------------
Phase     == {"new", "web", "gather", "done", "failed", "cancelled"}
CallState == {"none", "created", "queued", "calling", "over"}
Status    == {"ok", "empty", "failed", "timeout", "skipped"}
Reports   == UNION {[S -> Status] : S \in SUBSET Source}
NoReport  == [s \in {} |-> ""]

InFlight == {c \in Call : call[c] = "calling"}
Pending  == {c \in Call : call[c] \in {"created", "queued", "calling"}}
CallsOf(u) == {u} \X Source

TypeOK ==
  /\ phase \in [Search -> Phase]
  /\ sources \in [Search -> SUBSET Source]
  /\ dated \in [Search -> BOOLEAN]
  /\ call \in [Call -> CallState]
  /\ result \in [Call -> Result]
  /\ queue \in Seq(Call)
  /\ free \in Nat
  /\ dying \subseteq Call
  /\ merged \in [Search -> SUBSET Source]
  /\ report \in [Search -> Reports]

Init ==
  /\ phase = [u \in Search |-> "new"]
  /\ sources = [u \in Search |-> {}]
  /\ dated = [u \in Search |-> FALSE]
  /\ call = [c \in Call |-> "none"]
  /\ result = [c \in Call |-> NoResult]
  /\ queue = <<>>
  /\ free = ConcurrencyLimit
  /\ dying = {}
  /\ merged = [u \in Search |-> {}]
  /\ report = [u \in Search |-> NoReport]

-----------------------------------------------------------------------------
(* Slots: _search_slot, _tavily_invoke, and the asyncio semaphore below them *)

\* Variant: a slot is returned only after an answer
LeaveQueue(c) ==
  /\ UNCHANGED free
  /\ IF call[c] = "queued"
       THEN \E i \in DOMAIN queue : queue[i] = c /\ queue' = RemoveAt(queue, i)
       ELSE UNCHANGED queue

\* The call c ends: it gives back its slot, or its place in the queue.
Leave(c) ==
  \/ /\ call[c] = "queued"
     /\ \E i \in DOMAIN queue : queue[i] = c /\ queue' = RemoveAt(queue, i)
     /\ UNCHANGED free
  \/ /\ call[c] = "calling"
     /\ free' = free + 1
     /\ UNCHANGED queue
  \/ /\ call[c] \notin {"queued", "calling"}
     /\ UNCHANGED <<queue, free>>

\* A background task runs for the first time: the adapter calls the provider.
Start(c) ==
  /\ call[c] = "created"
  /\ c \notin dying
  /\ call' = [call EXCEPT ![c] = "queued"]
  /\ queue' = Append(queue, c)
  /\ UNCHANGED <<searchVars, free, result, dying>>

\* A task cancelled while it waits may still be granted a slot before it notices.
Grant ==
  /\ queue # <<>> /\ free > 0
  /\ free' = free - 1
  /\ call' = [call EXCEPT ![Head(queue)] = "calling"]
  /\ queue' = Tail(queue)
  /\ UNCHANGED <<searchVars, result, dying>>

Over(c, r) ==
  /\ call' = [call EXCEPT ![c] = "over"]
  /\ result' = [result EXCEPT ![c] = r]
  /\ Leave(c)

\* The provider answers a documentation or community call.
Answer(c) ==
  /\ c[2] \in Background
  /\ call[c] = "calling" /\ c \notin dying
  /\ \E reply \in Reply : Over(c, Adapted(reply))
  /\ UNCHANGED <<searchVars, dying>>

\* wait_for gives up.  The wait for a slot counts.
Timeout(c) ==
  /\ c[2] \in Background
  /\ call[c] \in {"queued", "calling"} /\ c \notin dying
  /\ Over(c, TimedOut)
  /\ UNCHANGED <<searchVars, dying>>

\* A cancelled task gets its CancelledError.
Unwind(c) ==
  /\ c \in dying
  /\ dying' = dying \ {c}
  /\ call' = [call EXCEPT ![c] = "over"]
  /\ Leave(c)
  /\ UNCHANGED <<searchVars, result>>

-----------------------------------------------------------------------------
(* _research_update *)

\* build_request: a blank query makes no request to any of the sources.
Requests(S) == {S, {}}

\* The sources a search may ask when S is selected.  When routing fails (_route_for: WEB_ONLY) the
\* question alone decides about the documentation, so that it is asked though not selected.
Askable(S) == IF S = {"web"} THEN {"web", "official_docs"} ELSE S

\* There may be no plan for the documentation.
DocsPlans(S)     == Requests(Askable(S) \cap {"official_docs"})
CommunityJobs(S) == Requests(S \cap Community)

\* Route (_decide_route: by the sub-question, else by the question, else the web alone), plan, create
\* the background tasks and begin the web search.
Begin(u) ==
  /\ phase[u] = "new"
  /\ \E S \in Route[u] : \E D \in DocsPlans(S), J \in CommunityJobs(S) :
       /\ sources' = [sources EXCEPT ![u] = S]
       /\ call' = [c \in Call |-> IF c[1] # u THEN call[c]
                                  ELSE IF c[2] = "web" THEN "queued"
                                  ELSE IF c[2] \in D \cup J THEN "created" ELSE "none"]
  /\ \E d \in BOOLEAN : dated' = [dated EXCEPT ![u] = d]
  /\ queue' = Append(queue, <<u, "web">>)
  /\ phase' = [phase EXCEPT ![u] = "web"]
  /\ UNCHANGED <<free, result, dying, merged, report>>

\* Variant: the date filter stays
RetryDated(u) ==
  LET c == <<u, "web">> IN
  /\ phase[u] = "web" /\ call[c] = "calling"
  /\ dated[u]
  /\ call' = [call EXCEPT ![c] = "queued"]
  /\ queue' = Append(queue, c)
  /\ free' = free + 1
  /\ UNCHANGED <<searchVars, result, dying>>

\* The reply holds no document inside the date window: once more, without it.
RetryUndated(u) ==
  LET c == <<u, "web">> IN
  /\ phase[u] = "web" /\ call[c] = "calling"
  /\ dated[u]
  /\ dated' = [dated EXCEPT ![u] = FALSE]
  /\ call' = [call EXCEPT ![c] = "queued"]
  /\ queue' = Append(queue, c)
  /\ free' = free + 1
  /\ UNCHANGED <<phase, sources, merged, report, result, dying>>

WebAnswer(u) ==
  LET c == <<u, "web">> IN
  /\ phase[u] = "web" /\ call[c] = "calling"
  /\ \E reply \in Reply \ {"raises"} :
       /\ dated[u] => Normalized(reply).docs
       /\ Over(c, Normalized(reply))
       /\ merged' = [merged EXCEPT ![u] = IF Normalized(reply).docs THEN {"web"} ELSE {}]
  /\ phase' = [phase EXCEPT ![u] = "gather"]
  /\ UNCHANGED <<sources, dated, report, dying>>

\* Variant: only the documentation task is cancelled
CancelDocs(u) == dying' = dying \cup {c \in Pending \cap CallsOf(u) : c[2] = "official_docs"}

\* The except branch: whatever still runs for u is cancelled.
CancelBackground(u) ==
  dying' = dying \cup {c \in Pending \cap CallsOf(u) : c[2] \in Background}

\* The web search raises: so does the search.
WebRaises(u) ==
  LET c == <<u, "web">> IN
  /\ phase[u] = "web" /\ call[c] = "calling"
  /\ Over(c, NoResult)
  /\ CancelBackground(u)
  /\ phase' = [phase EXCEPT ![u] = "failed"]
  /\ UNCHANGED <<sources, dated, merged, report>>

\* The graph cancels the search: the client is gone, or another search of the plan raised.
Cancel(u) ==
  LET c == <<u, "web">> IN
  /\ phase[u] \in {"web", "gather"}
  /\ call' = [call EXCEPT ![c] = "over"]
  /\ Leave(c)
  /\ CancelBackground(u)
  /\ phase' = [phase EXCEPT ![u] = "cancelled"]
  /\ UNCHANGED <<sources, dated, merged, report, result>>

\* Variant: an unsearched source keeps the state of its call
OutcomeOfState(c) == IF call[c] = "over" THEN Outcome(result[c]) ELSE call[c]

\* What the sources S found is put beside the pages of M, or, if merging it raises, is not.
Merges(u, M, S) == {M, M \cup {s \in S : result[<<u, s>>].docs}}

OutcomeOf(c) == IF call[c] = "none" THEN "skipped" ELSE Outcome(result[c])

\* _add_official_docs, _add_community, _finish_task_update: every selected source gets its outcome,
\* unless there is no task to report on or the report cannot be built.
Finish(u) ==
  /\ phase[u] = "gather"
  /\ Pending \cap CallsOf(u) = {}
  /\ \E M \in Merges(u, merged[u], {"official_docs"}) : \E N \in Merges(u, M, Community) :
       merged' = [merged EXCEPT ![u] = N]
  /\ \E f \in {NoReport, [s \in sources[u] |-> OutcomeOf(<<u, s>>)]} :
       report' = [report EXCEPT ![u] = f]
  /\ phase' = [phase EXCEPT ![u] = "done"]
  /\ UNCHANGED <<sources, dated, callVars, result, dying>>

-----------------------------------------------------------------------------
Settled == \A u \in Search : phase[u] \in {"done", "failed", "cancelled"}

\* Every search has ended and its tasks are gone.
Done == Settled /\ Pending = {} /\ UNCHANGED vars

CallStep(c) == Start(c) \/ Answer(c) \/ Timeout(c) \/ Unwind(c)
WebStep(u)  == RetryUndated(u) \/ WebAnswer(u) \/ WebRaises(u)

Next ==
  \/ \E c \in Call : CallStep(c)
  \/ Grant
  \/ \E u \in Search : Begin(u) \/ WebStep(u) \/ Cancel(u) \/ Finish(u)
  \/ Done

Spec == Init /\ [][Next]_vars

\* The event loop runs what is ready and the timers fire.  A web search has no timer of its
\* own: the HTTP client ends it.  Other calls may hang at the provider.
Fairness ==
  /\ WF_vars(Grant)
  /\ \A c \in Call : WF_vars(Start(c) \/ Timeout(c) \/ Unwind(c))
  /\ \A u \in Search : WF_vars(WebStep(u) \/ Finish(u))

FairSpec == Spec /\ Fairness

-----------------------------------------------------------------------------
(* Properties *)

\* Every slot is free or held by a call in flight, however calls end: answered, timed out,
\* cancelled while waiting or while calling (_tavily_invoke).
SlotsConserved == free + Cardinality(InFlight) = ConcurrencyLimit

\* When a search has failed or was cancelled, exactly the calls it left unfinished are being
\* cancelled; a finished search left none, and no other search loses a call
\* (the except branch of _research_update).
CancelledExactly ==
  /\ dying = {c \in Pending : phase[c[1]] \in {"failed", "cancelled"}}
  /\ \A c \in Pending : phase[c[1]] # "done"

\* A search that ends returns documents that came back to it, those of the web always.  Its routing
\* report, if there is one, has one outcome for each selected source and tells the truth: "ok" is
\* said of exactly the sources that came back with documents, "skipped" of exactly those that were
\* not searched; and only documentation, of a search of the web alone, is returned without being
\* reported (_finish_task_update).
ReportIsTrue ==
  \A u \in Search : phase[u] = "done" =>
    LET back == {s \in Source : result[<<u, s>>].docs} IN
    /\ merged[u] \subseteq back
    /\ "web" \in back => "web" \in merged[u]
    /\ merged[u] \subseteq Askable(sources[u])
    /\ report[u] # NoReport =>
         /\ DOMAIN report[u] = sources[u]
         /\ \A s \in sources[u] :
              /\ report[u][s] = "ok" <=> s \in back
              /\ report[u][s] = "skipped" <=> call[<<u, s>>] = "none"

\* The searches as structured concurrency: a search waits for all it asked and returns nothing but
\* what came back, or it is given up and nothing more comes back to it; none disturbs another
\* (_research_update, _finish_task_update).
Structured == INSTANCE StructuredSearch WITH
  stage    <- [u \in Search |-> IF phase[u] \in {"web", "gather"} THEN "open" ELSE phase[u]],
  selected <- sources,
  asked    <- {c \in Call : call[c] # "none"},
  running  <- Pending,
  found    <- {c \in Call : result[c].docs},
  returned <- [u \in Search |-> IF phase[u] = "done" THEN merged[u] ELSE {}]

SearchIsStructured == Structured!Spec

\* A search that begins ends, and leaves nothing running, even if the documentation and
\* community sources never answer: the queue for the slots cannot stop.
SearchEnds ==
  \A u \in Search :
    phase[u] # "new" ~> /\ phase[u] \in {"done", "failed", "cancelled"}
                        /\ Pending \cap CallsOf(u) = {}
=============================================================================
