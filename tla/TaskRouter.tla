----------------------------- MODULE TaskRouter -----------------------------
(***************************************************************************)
(* Which sources one sub-question is sent to: the planner proposes, the    *)
(* router decides (sources/routing/task_router.py over the rules of        *)
(* router.py and the detector of official_docs), and the search then plans *)
(* its documentation part (_research_update).                              *)
(*                                                                         *)
(* A text is the record of what the regular expressions find in it.  The   *)
(* order of suggestions plays no part: sources are put in SOURCE_ORDER.    *)
(* The origin of a source is "planner" exactly when it was suggested.      *)
(***************************************************************************)
EXTENDS Integers, FiniteSets

CONSTANTS
  Text,         \* the texts of sub-questions
  Question,     \* the texts of (resolved) questions
  Known,        \* the technologies query understanding finds
  Asked,        \* and the intents
  Suggestions,  \* sets of sources a planner may suggest, some of them no sources
  Cap,          \* values of MAX_SOURCES_PER_TASK, some of them out of range
  Settings      \* which of the two switches are on: [router, docs]

\* SOURCE_ORDER
DOCS == "official_docs"
GITHUB == "github"
REDDIT == "reddit"
WEB == "web"
Source == {DOCS, GITHUB, REDDIT, WEB}

\* A technology of the registry, under an alias that is one word among others or unmistakable
Tech == {"none", "weak", "strong"}
Cue  == {"none", "generic", "specific"}

Signals ==
  [tech : Tech, cue : Cue, veto : BOOLEAN, github : BOOLEAN, codeSoft : BOOLEAN,
   experience : BOOLEAN, problems : BOOLEAN, trouble : BOOLEAN, anchor : BOOLEAN]

TechnicalIntent == {"technical_howto", "library_usage", "code_implementation", "troubleshooting"}
Intent == TechnicalIntent \cup
  {"community_experience", "general_research", "comparison", "current_events"}

\* The question's intent, and that of a sub-question
QueryIntent == {"unknown", "factual", "research", "comparison", "technical_howto", "troubleshooting",
                "code", "current_events", "advice"}

ASSUME RouterAssumption ==
  /\ Text \subseteq Signals /\ Question \subseteq Signals
  /\ Known \subseteq Tech /\ Asked \subseteq QueryIntent
  /\ Cap \subseteq Nat
  /\ Settings \subseteq [router : BOOLEAN, docs : BOOLEAN]

VARIABLES
  task,      \* what the router is given
  pc,        \* "new", "task", then "routed" or "failed", then "planned"
  sources,   \* decision.sources
  dropped,   \* decision.dropped: sources with reasons
  docsPlan   \* is there a plan for the documentation search

vars == <<task, pc, sources, dropped, docsPlan>>

\* text, own, suggested, intent: the sub-question, did the planner name a technology in it, which
\* sources and what intent; question, known, asked: the question and what was understood of it.
Task ==
  [text : Signals, own : BOOLEAN, suggested : Suggestions \cup {{}}, intent : Intent \cup {"none"},
   question : Question, known : Known, asked : Asked, cap : Cap, on : Settings]

\* Every decision has the web.
TypeOK ==
  /\ task \in Task
  /\ pc \in {"new", "task", "routed", "failed", "planned"}
  /\ sources \subseteq Source
  /\ pc \notin {"new", "task"} => WEB \in sources
  /\ docsPlan \in BOOLEAN

\* A question that is not yet divided is its own sub-question, without hints.
Init ==
  /\ \E q \in Question, k \in Known, a \in Asked, c \in Cap, o \in Settings :
       task = [text |-> q, own |-> FALSE, suggested |-> {}, intent |-> "none",
               question |-> q, known |-> k, asked |-> a, cap |-> c, on |-> o]
  /\ pc = "new"
  /\ sources = {}
  /\ dropped = {}
  /\ docsPlan = FALSE

-----------------------------------------------------------------------------
(* The sub-questions *)

Stronger(t, u) == IF "strong" \in {t, u} THEN "strong" ELSE IF "weak" \in {t, u} THEN "weak" ELSE "none"

\* The text with the technology t in it
Naming(text, t) == [text EXCEPT !.tech = Stronger(@, t)]

Becomes(t) ==
  /\ pc = "new"
  /\ pc' = "task"
  /\ task' = t
  /\ UNCHANGED <<sources, dropped, docsPlan>>

\* planner_node, tasks_from_plan: any sub-question with any hints
Plan ==
  \E text \in Text, own \in BOOLEAN, S \in Suggestions, i \in Intent \cup {"none"} :
    Becomes([task EXCEPT !.text = text, !.own = own, !.suggested = S, !.intent = i])

\* The planner fails or plans nothing: the question itself is researched.
PlanFails == Becomes(task)

SourceIntentFor(asked) ==
  CASE asked \in {"technical_howto", "troubleshooting", "comparison", "current_events"} -> asked
    [] asked = "code"   -> "code_implementation"
    [] asked = "advice" -> "community_experience"
    [] OTHER            -> "none"

\* simple_search_node
Simple ==
  Becomes([task EXCEPT !.text = Naming(task.question, task.known), !.own = TRUE,
                       !.intent = SourceIntentFor(task.asked)])

-----------------------------------------------------------------------------
(* The detector and the question-level rules *)

\* detect_docs_intent: a technology and a cue, a specific one if the alias is weak, and no
\* comparing or opinion.
IsDocsQuery(text) ==
  /\ text.tech # "none" /\ ~text.veto
  /\ text.cue = "specific" \/ (text.cue = "generic" /\ text.tech = "strong")

\* RouteSignals.technical
IsTechnical(text) == text.tech # "none" \/ text.anchor

HasProblem(text) == text.problems \/ (text.trouble /\ IsTechnical(text))

\* Variant: documentation for a problem is not asked whether it is enabled
RouteSourcesAnyDocs(text, on) ==
  {WEB}
  \cup {s \in {DOCS} : (on.docs /\ IsDocsQuery(text)) \/ (on.router /\ text.tech = "strong" /\ HasProblem(text))}
  \cup {s \in {GITHUB} : on.router /\ (text.github \/ (HasProblem(text) /\ IsTechnical(text)))}
  \cup {s \in {REDDIT} : on.router /\ (text.experience \/ HasProblem(text))}

\* route_sources
RouteSources(text, on) ==
  {WEB}
  \cup {s \in {DOCS} : on.docs /\ (\/ IsDocsQuery(text)
                                   \/ on.router /\ text.tech = "strong" /\ HasProblem(text))}
  \cup {s \in {GITHUB} : on.router /\ (\/ text.github
                                       \/ text.codeSoft /\ text.tech = "strong"
                                       \/ HasProblem(text) /\ IsTechnical(text))}
  \cup {s \in {REDDIT} : on.router /\ (text.experience \/ HasProblem(text))}

-----------------------------------------------------------------------------
(* The texts of a task *)

\* task_technology: what query understanding found is for technical sub-questions, and those
\* without intent, that name no technology of their own.
Inherits(t) == ~t.own /\ t.intent \in TechnicalIntent \cup {"none"}

\* signal_text: the sub-question with the technology
SignalText(t) == IF Inherits(t) THEN Naming(t.text, t.known) ELSE t.text

\* docs_text: that, and the resolved question
DocsText(t) ==
  LET u == SignalText(t)
      q == t.question
  IN [Naming(u, q.tech) EXCEPT
               !.cue = IF "specific" \in {u.cue, q.cue} THEN "specific"
                       ELSE IF "generic" \in {u.cue, q.cue} THEN "generic" ELSE "none",
               !.veto = u.veto \/ q.veto]

\* _validate_suggestions
Suggested(t) == t.suggested \cap Source
Rejected(t) == {<<s, "unknown_source_type">> : s \in t.suggested \ Source}

PlannerLed(t) == t.on.router /\ (Suggested(t) # {} \/ t.intent # "none")

\* wants_community
WantsCommunity(t) == t.question.experience \/ t.question.problems

IsAdvice(t) ==
  t.on.router /\ t.asked = "advice" /\ t.intent \notin TechnicalIntent /\ ~IsDocsQuery(SignalText(t))

-----------------------------------------------------------------------------
(* route_task *)

IntentDefaults(intent) ==
  CASE intent = "technical_howto"      -> {DOCS, WEB}
    [] intent = "library_usage"        -> {DOCS, GITHUB}
    [] intent = "code_implementation"  -> {DOCS, GITHUB, WEB}
    [] intent = "troubleshooting"      -> {DOCS, GITHUB, REDDIT, WEB}
    [] intent = "community_experience" -> {REDDIT, WEB}
    [] OTHER                           -> {WEB}

\* Where the sources come from: the planner, its intent or the question
Proposed(t) ==
  IF t.on.router /\ Suggested(t) # {} THEN Suggested(t)
  ELSE IF t.on.router /\ t.intent # "none" THEN IntentDefaults(t.intent)
  ELSE RouteSources(t.question, t.on)

IsNonTechnical(t) ==
  /\ SignalText(t).tech # "strong" /\ ~IsTechnical(SignalText(t)) /\ ~SignalText(t).github
  /\ t.intent \notin TechnicalIntent

\* Variant: the sub-question decides about Reddit too
OffTopicBySubQuestion(t, S) ==
  IF IsNonTechnical(t) THEN S \ RouteSources(SignalText(t), t.on) ELSE {}

\* Rule 2: what a non-technical task may not have.  For Reddit the user's question decides.
OffTopic(t, S) ==
  IF IsNonTechnical(t)
  THEN {s \in S : s # WEB /\ s \notin RouteSources(IF s = REDDIT THEN t.question ELSE SignalText(t), t.on)}
  ELSE {}

\* Variant: the planner's intent decides alone
NeedsDocsByIntent(t) == SignalText(t).tech = "strong" /\ t.intent \in TechnicalIntent \cup {"comparison"}

\* Rule 1: a technical task about a technology of the registry
NeedsDocs(t) ==
  /\ SignalText(t).tech = "strong"
  /\ t.intent \in TechnicalIntent \cup {"comparison"} \/ IsDocsQuery(SignalText(t))

\* Variant: only the switch counts
UnsearchableOff(t) == ~t.on.docs

\* Documentation cannot be searched when switched off or without such a technology.
Unsearchable(t) == ~t.on.docs \/ SignalText(t).tech # "strong"

\* RouterSettings.from_env: what is no number from 1 to 4 falls back to 3.
CapOf(t) == IF t.cap \in 1..4 THEN t.cap ELSE 3

TrimOrder(t) == IF WantsCommunity(t) THEN <<GITHUB, REDDIT>> ELSE <<REDDIT, GITHUB>>

\* Variant: the number is looked at once
TrimmedOnce(t, S) == IF Cardinality(S) > CapOf(t) THEN S \ {TrimOrder(t)[1]} ELSE S

\* Rule 3: the cap, one source at a time
Trimmed(t, S) ==
  LET Trim(R, s) == IF Cardinality(R) > CapOf(t) THEN R \ {s} ELSE R
  IN Trim(Trim(S, TrimOrder(t)[1]), TrimOrder(t)[2])

\* The rules a planner-led decision goes through, one after the other
OnTopic(t) == Proposed(t) \ OffTopic(t, Proposed(t))
WithDocs(t) == OnTopic(t) \cup (IF NeedsDocs(t) THEN {DOCS} ELSE {})
Searchable(t) == WithDocs(t) \ (IF Unsearchable(t) THEN {DOCS} ELSE {})

\* Variant: the planner may leave the web out
BaselineOptional(t) == Searchable(t)

Baseline(t) == Searchable(t) \cup {WEB}

Reported(S, reason) == {<<s, reason>> : s \in S}

\* Variant: sources that are off topic are not reported
DropsSilently(t) ==
  Rejected(t)
  \cup Reported(Suggested(t) \cap (WithDocs(t) \ Searchable(t)), "unsearchable")
  \cup Reported(Baseline(t) \ Trimmed(t, Baseline(t)), "over_cap")

\* What a planner-led decision reports: suggestions that were not followed, and the cap
Drops(t) ==
  Rejected(t)
  \cup Reported(Suggested(t) \cap OffTopic(t, Proposed(t)), "non_technical")
  \cup Reported(Suggested(t) \cap (WithDocs(t) \ Searchable(t)), "unsearchable")
  \cup Reported(Baseline(t) \ Trimmed(t, Baseline(t)), "over_cap")

Decide(S, D) ==
  /\ pc = "task"
  /\ pc' = "routed"
  /\ sources' = S
  /\ dropped' = D
  /\ UNCHANGED <<task, docsPlan>>

\* _advice_decision: the technologies named are the user's project, not the subject.
RouteAdvice ==
  /\ IsAdvice(task)
  /\ Decide({REDDIT, WEB}, Rejected(task) \cup Reported(Suggested(task) \cap {DOCS, GITHUB}, "advice_question"))

RoutePlanned ==
  /\ PlannerLed(task) /\ ~IsAdvice(task)
  /\ Decide(Trimmed(task, Baseline(task)), Drops(task))

\* Without a hint, or with the router switched off, the question is routed.
RouteQuestion ==
  /\ ~PlannerLed(task) /\ ~IsAdvice(task)
  /\ Decide(Proposed(task), IF task.on.router THEN Rejected(task)
                            ELSE Reported(task.suggested, "router_disabled"))

-----------------------------------------------------------------------------
(* The plan of the documentation search: _research_update *)

\* plan_official_docs
PlansOfficialDocs(text, on) == on.docs /\ IsDocsQuery(text)

\* plan_technology_docs
PlansTechnologyDocs(text, on) == on.docs /\ text.tech = "strong"

\* No plan is made unasked.
PlanDocs ==
  /\ pc = "routed"
  /\ pc' = "planned"
  /\ docsPlan' = (/\ DOCS \in sources
                  /\ \/ PlansOfficialDocs(DocsText(task), task.on)
                     \/ PlansTechnologyDocs(DocsText(task), task.on))
  /\ UNCHANGED <<task, sources, dropped>>

\* _decide_route: route_task raised.  The question, as asked or as resolved, is routed; when that
\* raises too the web alone is searched.  Its documentation is then planned from the question.
RouteFails ==
  /\ pc = "task"
  /\ pc' = "failed"
  /\ \E q \in Question : \E S \in {{WEB}, RouteSources(q, task.on)} :
       /\ sources' = S
       /\ docsPlan' = (\/ PlansOfficialDocs(q, task.on)
                       \/ DOCS \in S /\ PlansTechnologyDocs(q, task.on))
  /\ UNCHANGED <<task, dropped>>

Next == Plan \/ PlanFails \/ Simple \/ RouteAdvice \/ RoutePlanned \/ RouteQuestion \/ RouteFails \/ PlanDocs

Spec == Init /\ [][Next]_vars

-----------------------------------------------------------------------------
(* Properties *)

IsDecided == pc \in {"routed", "planned"}

\* Rule 1: a technical sub-question about a known technology reaches the documentation, whatever
\* the planner suggested and however small the cap (route_task, rules 1 to 3 in turn).
DocsForTechnicalTask ==
  LET text == SignalText(task) IN
  /\ IsDecided /\ PlannerLed(task) /\ task.on.docs /\ text.tech = "strong"
  /\ task.intent \in TechnicalIntent \/ IsDocsQuery(text)
  => DOCS \in sources

\* Rule 2: a task with no technical signal stays on the web, except that Reddit is asked when the
\* user, not the planner, asks for experience, for problems or for advice.
NonTechnicalStaysOnWeb ==
  IsDecided /\ PlannerLed(task) /\ IsNonTechnical(task) =>
    /\ sources \subseteq {WEB, REDDIT}
    /\ REDDIT \in sources => task.asked = "advice" \/ task.question.experience \/ HasProblem(task.question)

\* Rule 3: a route that the cap took something from has as many sources as the cap allows, no fewer,
\* and more only when documentation and the web alone exceed it; and the community goes before the
\* code exactly when the user did not ask for it.
CapTrimsInOrder ==
  IsDecided =>
    /\ (\E s \in Source : <<s, "over_cap">> \in dropped) =>
         Cardinality(sources) = CapOf(task) \/ sources = {DOCS, WEB}
    /\ <<GITHUB, "over_cap">> \in dropped /\ REDDIT \in sources => WantsCommunity(task)
    /\ <<REDDIT, "over_cap">> \in dropped /\ GITHUB \in sources => ~WantsCommunity(task)

\* What settings.py says of MAX_SOURCES_PER_TASK, of the routes the cap applies to: no sub-question is
\* sent to more sources, documentation and the web apart.
CapHolds ==
  IsDecided /\ PlannerLed(task) => Cardinality(sources) <= CapOf(task) \/ sources \subseteq {DOCS, WEB}

\* Unknown values are reported, never trusted; what the planner suggested is either searched or
\* reported as dropped, never both (_validate_suggestions and every rule after it).
SuggestionsAccountedFor ==
  IsDecided /\ task.on.router =>
    \A s \in task.suggested :
      (s \in sources) <=> ~\E d \in dropped : d[1] = s

\* Rule 4: no route of any branch, the failed one included, and no plan uses what is switched off.
SwitchesHonoured ==
  /\ ~task.on.router => sources \subseteq {DOCS, WEB}
  /\ ~task.on.docs => DOCS \notin sources /\ ~docsPlan

\* Documentation that a planner-led decision, or the question after a failure, selects can be
\* searched: the text the plan is made from, which is not the one the decision was made from,
\* still names a technology.
DocsSearchIsPlanned ==
  pc = "failed" \/ (pc = "planned" /\ PlannerLed(task)) => (DOCS \in sources => docsPlan)
=============================================================================
