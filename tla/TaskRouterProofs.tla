-------------------------- MODULE TaskRouterProofs --------------------------
(***************************************************************************)
(* Proofs about TaskRouter, for all texts, questions, suggestions, caps    *)
(* and settings.                                                           *)
(*                                                                         *)
(* A decision is made once and never changed, so that one invariant,       *)
(* Explained, says of every state which branch of route_task its sources,  *)
(* its dropped sources and its documentation plan come from.  The          *)
(* properties then are about the operators of that branch.                 *)
(***************************************************************************)
EXTENDS TaskRouter, FiniteSetTheorems, TLAPS

-----------------------------------------------------------------------------
(* The invariant *)

ByAdvice ==
  /\ IsAdvice(task)
  /\ sources = {REDDIT, WEB}
  /\ dropped = Rejected(task) \cup Reported(Suggested(task) \cap {DOCS, GITHUB}, "advice_question")

ByPlan ==
  /\ PlannerLed(task) /\ ~IsAdvice(task)
  /\ sources = Trimmed(task, Baseline(task))
  /\ dropped = Drops(task)

ByQuestion ==
  /\ ~PlannerLed(task) /\ ~IsAdvice(task)
  /\ sources = Proposed(task)
  /\ dropped = IF task.on.router THEN Rejected(task) ELSE Reported(task.suggested, "router_disabled")

ByFailure ==
  \E q \in Question : \E S \in {{WEB}, RouteSources(q, task.on)} :
    /\ sources = S
    /\ docsPlan = (\/ PlansOfficialDocs(q, task.on)
                   \/ DOCS \in S /\ PlansTechnologyDocs(q, task.on))

Explained ==
  /\ pc \in {"new", "task"} => sources = {} /\ dropped = {}
  /\ pc \in {"new", "task", "routed"} => docsPlan = FALSE
  /\ pc \in {"routed", "planned"} => ByAdvice \/ ByPlan \/ ByQuestion
  /\ pc = "planned" =>
       docsPlan = (/\ DOCS \in sources
                   /\ \/ PlansOfficialDocs(DocsText(task), task.on)
                      \/ PlansTechnologyDocs(DocsText(task), task.on))
  /\ pc = "failed" => ByFailure

-----------------------------------------------------------------------------
(* The texts *)

\* The stronger of two aliases is one of them.
LEMMA StrongerType ==
  ASSUME NEW t, NEW u
  PROVE  /\ Stronger(t, u) \in Tech
         /\ t = "strong" \/ u = "strong" => Stronger(t, u) = "strong"
  BY DEF Stronger, Tech

\* Naming a technology changes nothing else of a text.
LEMMA NamingType ==
  ASSUME NEW text \in Signals, NEW t
  PROVE  /\ Naming(text, t) \in Signals
         /\ Naming(text, t).tech = Stronger(text.tech, t)
  BY StrongerType DEF Naming, Signals

\* The text of a task is a text.
LEMMA SignalTextType ==
  ASSUME NEW t \in Task, RouterAssumption
  PROVE  SignalText(t) \in Signals
  BY NamingType DEF SignalText, Task, RouterAssumption

\* The text the plan is made from names every technology of the text the decision is made from.
LEMMA DocsTextStrong ==
  ASSUME NEW t \in Task, SignalText(t) \in Signals, SignalText(t).tech = "strong"
  PROVE  DocsText(t).tech = "strong"
<1>1. /\ Naming(SignalText(t), t.question.tech) \in Signals
      /\ Naming(SignalText(t), t.question.tech).tech = "strong"
  BY NamingType, StrongerType
<1> QED
  BY <1>1 DEF DocsText, Signals

-----------------------------------------------------------------------------
(* The sources *)

\* route_sources selects known sources, the web among them.
LEMMA RouteSourcesType ==
  ASSUME NEW text, NEW on
  PROVE  /\ RouteSources(text, on) \subseteq Source
         /\ WEB \in RouteSources(text, on)
         /\ ~on.router => RouteSources(text, on) \subseteq {DOCS, WEB}
         /\ ~on.docs => DOCS \notin RouteSources(text, on)
  BY DEF RouteSources, Source, DOCS, GITHUB, REDDIT, WEB

\* What is proposed are known sources.
LEMMA ProposedType ==
  ASSUME NEW t
  PROVE  Proposed(t) \subseteq Source
<1>1. IntentDefaults(t.intent) \subseteq Source
  BY DEF IntentDefaults, Source, DOCS, GITHUB, REDDIT, WEB
<1> QED
  BY <1>1, RouteSourcesType DEF Proposed, Suggested

\* Before the cap a planner-led decision has known sources, the web among them.
LEMMA BaselineType ==
  ASSUME NEW t
  PROVE  /\ Baseline(t) \subseteq Source
         /\ WEB \in Baseline(t)
  BY ProposedType DEF Baseline, Searchable, WithDocs, OnTopic, Source, DOCS, GITHUB, REDDIT, WEB

\* The cap takes community and code sources only.
LEMMA TrimmedType ==
  ASSUME NEW t, NEW S
  PROVE  /\ Trimmed(t, S) \subseteq S
         /\ S \ Trimmed(t, S) \subseteq {GITHUB, REDDIT}
<1>1. TrimOrder(t) \in {<<GITHUB, REDDIT>>, <<REDDIT, GITHUB>>}
  BY DEF TrimOrder
<1>2. TrimOrder(t)[1] \in {GITHUB, REDDIT} /\ TrimOrder(t)[2] \in {GITHUB, REDDIT}
  BY <1>1
<1> QED
  BY <1>2 DEF Trimmed

\* A set of sources is finite.
LEMMA SourcesFinite ==
  ASSUME NEW S, S \subseteq Source
  PROVE  IsFiniteSet(S) /\ Cardinality(S) \in Nat
<1>1. IsFiniteSet({DOCS, GITHUB, REDDIT, WEB})
  <2>1. IsFiniteSet({})
    BY FS_EmptySet
  <2>2. IsFiniteSet({} \cup {DOCS})
    BY <2>1, FS_AddElement
  <2>3. IsFiniteSet({} \cup {DOCS} \cup {GITHUB})
    BY <2>2, FS_AddElement
  <2>4. IsFiniteSet({} \cup {DOCS} \cup {GITHUB} \cup {REDDIT})
    BY <2>3, FS_AddElement
  <2>5. IsFiniteSet({} \cup {DOCS} \cup {GITHUB} \cup {REDDIT} \cup {WEB})
    BY <2>4, FS_AddElement
  <2>6. {DOCS, GITHUB, REDDIT, WEB} = {} \cup {DOCS} \cup {GITHUB} \cup {REDDIT} \cup {WEB}
    OBVIOUS
  <2> QED
    BY <2>5, <2>6
<1>2. IsFiniteSet(S)
  BY <1>1, FS_Subset DEF Source
<1> QED
  BY <1>2, FS_CardinalityType

\* After the cap has been applied, the number of sources is within it, or only documentation and
\* the web are left; the second source of the order goes only after the first.
LEMMA TrimmedToCap ==
  ASSUME NEW t, NEW S, S \subseteq Source, CapOf(t) \in Nat
  PROVE  /\ Cardinality(Trimmed(t, S)) <= CapOf(t) \/ Trimmed(t, S) \subseteq {DOCS, WEB}
         /\ TrimOrder(t)[2] \in S \ Trimmed(t, S) => TrimOrder(t)[1] \notin Trimmed(t, S)
<1> DEFINE a == TrimOrder(t)[1]
           b == TrimOrder(t)[2]
           R == IF Cardinality(S) > CapOf(t) THEN S \ {a} ELSE S
           Q == IF Cardinality(R) > CapOf(t) THEN R \ {b} ELSE R
<1>1. TrimOrder(t) \in {<<GITHUB, REDDIT>>, <<REDDIT, GITHUB>>}
  BY DEF TrimOrder
<1>2. {a, b} = {GITHUB, REDDIT} /\ a # b
  BY <1>1 DEF GITHUB, REDDIT
<1>3. Trimmed(t, S) = Q
  BY DEF Trimmed
<1>4. R \subseteq S /\ Q \subseteq R
  OBVIOUS
<1>5. /\ Cardinality(S) \in Nat /\ Cardinality(R) \in Nat /\ Cardinality(Q) \in Nat
      /\ Cardinality(Q) <= Cardinality(R) /\ Cardinality(R) <= Cardinality(S)
  <2>1. IsFiniteSet(S) /\ IsFiniteSet(R) /\ IsFiniteSet(Q)
    BY <1>4, SourcesFinite
  <2> HIDE DEF R, Q
  <2> QED
    BY <2>1, <1>4, FS_Subset, FS_CardinalityType
<1>6. CASE Cardinality(Q) > CapOf(t)
  <2>1. Cardinality(R) > CapOf(t) /\ Cardinality(S) > CapOf(t)
    BY <1>5, <1>6
  <2>2. Q = (S \ {a}) \ {b}
    BY <2>1
  <2>3. Q \subseteq {DOCS, WEB}
    BY <2>2, <1>2 DEF Source
  <2> QED
    BY <2>2, <2>3, <1>3
<1>7. CASE ~(Cardinality(Q) > CapOf(t))
  <2>1. Cardinality(Q) <= CapOf(t)
    BY <1>5, <1>7
  <2>2. ASSUME b \in S \ Q
        PROVE  a \notin Q
    <3>1. Cardinality(R) > CapOf(t)
      BY <2>2, <1>2
    <3>2. Cardinality(S) > CapOf(t)
      BY <3>1, <1>5
    <3> QED
      BY <3>1, <3>2
  <2> QED
    BY <2>1, <2>2, <1>3
<1> QED
  BY <1>6, <1>7

\* Nothing is taken from a set that is within the cap.
LEMMA TrimmedNotBelow ==
  ASSUME NEW t, NEW S, S \subseteq Source, CapOf(t) \in Nat, Trimmed(t, S) # S
  PROVE  Cardinality(Trimmed(t, S)) >= CapOf(t)
<1> DEFINE a == TrimOrder(t)[1]
           b == TrimOrder(t)[2]
           R == IF Cardinality(S) > CapOf(t) THEN S \ {a} ELSE S
           Q == IF Cardinality(R) > CapOf(t) THEN R \ {b} ELSE R
<1>1. Trimmed(t, S) = Q
  BY DEF Trimmed
<1>2. ASSUME NEW X, X \subseteq Source, NEW x, Cardinality(X) > CapOf(t)
      PROVE  Cardinality(X \ {x}) >= CapOf(t)
  <2>1. IsFiniteSet(X)
    BY <1>2, SourcesFinite
  <2>2. Cardinality(X) \in Nat
    BY <2>1, FS_CardinalityType
  <2>3. Cardinality(X \ {x}) = IF x \in X THEN Cardinality(X) - 1 ELSE Cardinality(X)
    BY <2>1, FS_RemoveElement
  <2> QED
    BY <1>2, <2>2, <2>3
<1>3. CASE Cardinality(R) > CapOf(t)
  <2>1. R \subseteq Source
    OBVIOUS
  <2> HIDE DEF R
  <2> QED
    BY <1>1, <1>2, <1>3, <2>1
<1>4. CASE ~(Cardinality(R) > CapOf(t))
  <2>1. Q = R
    BY <1>4
  <2>2. Cardinality(S) > CapOf(t) /\ R = S \ {a}
    BY <1>1, <2>1
  <2> QED
    BY <1>1, <1>2, <2>1, <2>2
<1> QED
  BY <1>3, <1>4

\* The cap is a number from 1 to 4.
LEMMA CapType ==
  ASSUME NEW t
  PROVE  CapOf(t) \in 1..4
  BY DEF CapOf

-----------------------------------------------------------------------------
(* The invariant holds *)

\* The tasks of the sub-questions are tasks.
LEMMA TaskType ==
  ASSUME RouterAssumption, NEW t \in Task, NEW text \in Signals, NEW own \in BOOLEAN,
         NEW S \in Suggestions \cup {{}}, NEW i \in Intent \cup {"none"}
  PROVE  [t EXCEPT !.text = text, !.own = own, !.suggested = S, !.intent = i] \in Task
  BY DEF Task

\* The task of a simple question is a task.
LEMMA SimpleTaskType ==
  ASSUME RouterAssumption, NEW t \in Task
  PROVE  [t EXCEPT !.text = Naming(t.question, t.known), !.own = TRUE,
                   !.intent = SourceIntentFor(t.asked)] \in Task
<1>1. t.question \in Signals
  BY DEF Task, RouterAssumption
<1>2. Naming(t.question, t.known) \in Signals
  BY <1>1, NamingType
<1>3. SourceIntentFor(t.asked) \in Intent \cup {"none"}
  BY DEF SourceIntentFor, Intent, TechnicalIntent
<1> QED
  BY <1>2, <1>3 DEF Task

\* It holds at the beginning.
LEMMA RouterInit ==
  ASSUME RouterAssumption, Init
  PROVE  TypeOK /\ Explained
<1>1. PICK q \in Question, k \in Known, a \in Asked, c \in Cap, o \in Settings :
        task = [text |-> q, own |-> FALSE, suggested |-> {}, intent |-> "none",
                question |-> q, known |-> k, asked |-> a, cap |-> c, on |-> o]
  BY DEF Init
<1>2. task \in Task
  BY <1>1 DEF Task, RouterAssumption
<1> QED
  BY <1>2 DEF Init, TypeOK, Explained

\* A task takes the place of the question.
LEMMA BecomesStep ==
  ASSUME TypeOK, Explained, NEW t \in Task, Becomes(t)
  PROVE  TypeOK' /\ Explained'
  BY DEF TypeOK, Explained, Becomes

\* A decision with known sources, the web among them, is of the right type.
LEMMA DecideType ==
  ASSUME TypeOK, NEW S, NEW D, S \subseteq Source, WEB \in S, Decide(S, D)
  PROVE  TypeOK'
  BY DEF TypeOK, Decide

\* Every step keeps it.
LEMMA RouterStep ==
  ASSUME RouterAssumption, TypeOK, Explained, [Next]_vars
  PROVE  TypeOK' /\ Explained'
<1>t. task \in Task
  BY DEF TypeOK
<1>1. CASE Plan
  <2>1. PICK text \in Text, own \in BOOLEAN, S \in Suggestions, i \in Intent \cup {"none"} :
          Becomes([task EXCEPT !.text = text, !.own = own, !.suggested = S, !.intent = i])
    BY <1>1 DEF Plan
  <2>2. [task EXCEPT !.text = text, !.own = own, !.suggested = S, !.intent = i] \in Task
    BY <2>1, <1>t, TaskType DEF RouterAssumption
  <2> QED
    BY <2>1, <2>2, BecomesStep
<1>2. CASE PlanFails
  BY <1>2, <1>t, BecomesStep DEF PlanFails
<1>3. CASE Simple
  BY <1>3, <1>t, SimpleTaskType, BecomesStep DEF Simple
<1>4. CASE RouteAdvice
  <2>1. TypeOK'
    <3>1. {REDDIT, WEB} \subseteq Source /\ WEB \in {REDDIT, WEB}
      BY DEF Source
    <3> QED
      BY <1>4, <3>1, DecideType DEF RouteAdvice
  <2>2. ByAdvice'
    BY <1>4 DEF RouteAdvice, Decide, ByAdvice
  <2> QED
    BY <1>4, <2>1, <2>2 DEF RouteAdvice, Decide, Explained
<1>5. CASE RoutePlanned
  <2>1. Trimmed(task, Baseline(task)) \subseteq Source /\ WEB \in Trimmed(task, Baseline(task))
    BY BaselineType, TrimmedType DEF GITHUB, REDDIT, WEB
  <2>2. TypeOK'
    BY <1>5, <2>1, DecideType DEF RoutePlanned
  <2>3. ByPlan'
    BY <1>5 DEF RoutePlanned, Decide, ByPlan
  <2> QED
    BY <1>5, <2>2, <2>3 DEF RoutePlanned, Decide, Explained
<1>6. CASE RouteQuestion
  <2>1. Proposed(task) = RouteSources(task.question, task.on)
    BY <1>6 DEF RouteQuestion, PlannerLed, Proposed
  <2>2. TypeOK'
    BY <1>6, <2>1, RouteSourcesType, DecideType DEF RouteQuestion
  <2>3. ByQuestion'
    BY <1>6 DEF RouteQuestion, Decide, ByQuestion
  <2> QED
    BY <1>6, <2>2, <2>3 DEF RouteQuestion, Decide, Explained
<1>7. CASE RouteFails
  <2>1. sources' \subseteq Source /\ WEB \in sources'
    BY <1>7, RouteSourcesType DEF RouteFails, Source
  <2>2. docsPlan' \in BOOLEAN
    BY <1>7 DEF RouteFails
  <2>3. ByFailure'
    BY <1>7 DEF RouteFails, ByFailure
  <2> QED
    BY <1>7, <2>1, <2>2, <2>3 DEF RouteFails, TypeOK, Explained
<1>8. CASE PlanDocs
  <2>1. ByAdvice \/ ByPlan \/ ByQuestion
    BY <1>8 DEF PlanDocs, Explained
  <2>2. (ByAdvice \/ ByPlan \/ ByQuestion)'
    BY <2>1, <1>8 DEF PlanDocs, ByAdvice, ByPlan, ByQuestion
  <2>3. docsPlan' = (/\ DOCS \in sources
                     /\ \/ PlansOfficialDocs(DocsText(task), task.on)
                        \/ PlansTechnologyDocs(DocsText(task), task.on))'
    BY <1>8, Zenon DEF PlanDocs
  <2> QED
    BY <1>8, <2>2, <2>3 DEF PlanDocs, TypeOK, Explained
<1>9. CASE UNCHANGED vars
  BY <1>9 DEF vars, TypeOK, Explained, ByAdvice, ByPlan, ByQuestion, ByFailure
<1> QED
  BY <1>1, <1>2, <1>3, <1>4, <1>5, <1>6, <1>7, <1>8, <1>9 DEF Next

\* The types are kept, and every decision is one of a branch of route_task.
THEOREM DecisionExplained == Spec => [](TypeOK /\ Explained)
<1>1. Init => TypeOK /\ Explained
  BY RouterAssumption, RouterInit
<1>2. (TypeOK /\ Explained) /\ [Next]_vars => (TypeOK /\ Explained)'
  BY RouterAssumption, RouterStep
<1> QED
  BY <1>1, <1>2, PTL DEF Spec

\* TypeOK is an invariant: every decision has the web.
THEOREM RouterTypeCorrect == Spec => []TypeOK
  BY DecisionExplained, PTL

-----------------------------------------------------------------------------
(* The properties *)

\* Rule 1 follows from the order of the rules: documentation is added after the off-topic rule,
\* what rule 1 adds can be searched, and the cap does not take it.
LEMMA DocsSelected ==
  ASSUME TypeOK, Explained
  PROVE  DocsForTechnicalTask
<1> SUFFICES ASSUME IsDecided, PlannerLed(task), task.on.docs, SignalText(task).tech = "strong",
                    task.intent \in TechnicalIntent \/ IsDocsQuery(SignalText(task))
             PROVE  DOCS \in sources
  BY DEF DocsForTechnicalTask
<1>1. ByPlan
  BY DEF IsDecided, Explained, ByAdvice, ByQuestion, IsAdvice
<1>2. DOCS \in Baseline(task)
  BY DEF Baseline, Searchable, WithDocs, NeedsDocs, Unsearchable
<1> QED
  BY <1>1, <1>2, TrimmedType DEF ByPlan, DOCS, GITHUB, REDDIT

\* Whatever the planner suggested and whatever the cap, a technical sub-question about a technology
\* of the registry is sent to the documentation (rule 1 of route_task).
THEOREM TechnicalTaskReachesDocs == Spec => []DocsForTechnicalTask
  BY DecisionExplained, DocsSelected, PTL

\* Rule 2: nothing that rule 2 rejects is added again, and what passes it for a task without a
\* technical signal is the web, or Reddit for the user's question.
LEMMA NonTechnical ==
  ASSUME TypeOK, Explained
  PROVE  NonTechnicalStaysOnWeb
<1> SUFFICES ASSUME IsDecided, PlannerLed(task), IsNonTechnical(task)
             PROVE  /\ sources \subseteq {WEB, REDDIT}
                    /\ REDDIT \in sources =>
                         task.asked = "advice" \/ task.question.experience \/ HasProblem(task.question)
  BY DEF NonTechnicalStaysOnWeb
<1>1. CASE ByAdvice
  BY <1>1 DEF ByAdvice, IsAdvice
<1>2. CASE ByPlan
  <2>1. sources \subseteq OnTopic(task) \cup {WEB}
    BY <1>2, TrimmedType DEF ByPlan, Baseline, Searchable, WithDocs, NeedsDocs, IsNonTechnical
  <2>2. OnTopic(task) \subseteq {WEB, REDDIT}
    <3>1. DOCS \notin RouteSources(SignalText(task), task.on)
      BY DEF RouteSources, IsDocsQuery, IsNonTechnical, IsTechnical, DOCS, GITHUB, REDDIT, WEB
    <3>2. GITHUB \notin RouteSources(SignalText(task), task.on)
      BY DEF RouteSources, HasProblem, IsNonTechnical, IsTechnical, DOCS, GITHUB, REDDIT, WEB
    <3> QED
      BY <3>1, <3>2, ProposedType DEF OnTopic, OffTopic, Source, DOCS, GITHUB, REDDIT, WEB
  <2>3. ASSUME REDDIT \in OnTopic(task)
        PROVE  task.question.experience \/ HasProblem(task.question)
    <3>1. REDDIT \in RouteSources(task.question, task.on)
      BY <2>3 DEF OnTopic, OffTopic, REDDIT, WEB
    <3> QED
      BY <3>1 DEF RouteSources, DOCS, GITHUB, REDDIT, WEB
  <2> QED
    BY <2>1, <2>2, <2>3 DEF REDDIT, WEB
<1>3. CASE ByQuestion
  BY <1>3 DEF ByQuestion
<1> QED
  BY <1>1, <1>2, <1>3 DEF IsDecided, Explained

\* A task without technical signal is sent to the web, and to Reddit only if the user's question
\* asks for it (rule 2 of route_task).
THEOREM NonTechnicalStays == Spec => []NonTechnicalStaysOnWeb
  BY DecisionExplained, NonTechnical, PTL

\* Rule 3: what is reported as over the cap is what the cap took, and off the advice branch it takes
\* all that exceeds it.
LEMMA CapKept ==
  ASSUME TypeOK, Explained
  PROVE  CapTrimsInOrder /\ (~IsAdvice(task) => CapHolds)
<1> SUFFICES ASSUME IsDecided
             PROVE  CapTrimsInOrder /\ (~IsAdvice(task) => CapHolds)
  BY DEF CapTrimsInOrder, CapHolds
<1>1. CASE ByAdvice
  <2>1. \A s : <<s, "over_cap">> \notin dropped
    BY <1>1 DEF ByAdvice, Rejected, Reported
  <2> QED
    BY <1>1, <2>1 DEF ByAdvice, CapTrimsInOrder
<1>2. CASE ByPlan
  <2> DEFINE B == Baseline(task)
             T == Trimmed(task, B)
  <2>1. sources = T /\ dropped = Drops(task)
    BY <1>2 DEF ByPlan
  <2>2. B \subseteq Source /\ CapOf(task) \in 1..4
    BY BaselineType, CapType
  <2>3. /\ Cardinality(T) <= CapOf(task) \/ T \subseteq {DOCS, WEB}
        /\ TrimOrder(task)[2] \in B \ T => TrimOrder(task)[1] \notin T
    BY <2>2, TrimmedToCap
  <2>4. ASSUME NEW s, <<s, "over_cap">> \in dropped
        PROVE  s \in B \ T
    BY <2>1, <2>4 DEF Drops, Rejected, Reported
  <2>5. WantsCommunity(task) => TrimOrder(task)[1] = GITHUB /\ TrimOrder(task)[2] = REDDIT
    BY DEF TrimOrder
  <2>6. ~WantsCommunity(task) => TrimOrder(task)[1] = REDDIT /\ TrimOrder(task)[2] = GITHUB
    BY DEF TrimOrder
  <2>7. ASSUME NEW s, <<s, "over_cap">> \in dropped
        PROVE  Cardinality(T) = CapOf(task) \/ T = {DOCS, WEB}
    <3>1. Cardinality(T) >= CapOf(task)
      BY <2>2, <2>4, <2>7, TrimmedNotBelow
    <3>2. WEB \in T /\ T \subseteq Source
      BY <1>2, <2>1 DEF TypeOK, IsDecided, ByPlan
    <3>3. Cardinality(T) \in Nat
      BY <3>2, SourcesFinite, FS_CardinalityType
    <3>4. CASE Cardinality(T) <= CapOf(task)
      BY <2>2, <3>1, <3>3, <3>4
    <3>5. CASE T \subseteq {DOCS, WEB} /\ T # {DOCS, WEB}
      <4>1. T = {WEB}
        BY <3>2, <3>5
      <4>2. Cardinality(T) = 1
        BY <4>1, FS_Singleton
      <4> QED
        BY <2>2, <3>1, <4>2
    <3> QED
      BY <2>3, <3>4, <3>5
  <2> HIDE DEF B, T
  <2> QED
    BY <2>1, <2>3, <2>4, <2>5, <2>6, <2>7 DEF CapTrimsInOrder, CapHolds
<1>3. CASE ByQuestion
  <2>1. \A s : <<s, "over_cap">> \notin dropped
    BY <1>3 DEF ByQuestion, Rejected, Reported
  <2> QED
    BY <1>3, <2>1 DEF ByQuestion, CapTrimsInOrder, CapHolds
<1> QED
  BY <1>1, <1>2, <1>3 DEF IsDecided, Explained

\* The cap takes as many sources as it must, no more, and first what the user did not ask for (rule 3
\* of route_task).
THEOREM CapTrims == Spec => []CapTrimsInOrder
  BY DecisionExplained, CapKept, PTL

\* What settings.py says of the cap is true of every route but advice, which alone disagrees with it.
THEOREM CapHoldsOffAdvice == Spec => [](~IsAdvice(task) => CapHolds)
  BY DecisionExplained, CapKept, PTL

\* A planner's known sources are, in a planner-led decision that follows them, either kept or
\* taken by one of the reported rules.
LEMMA SuggestionKeptOrDropped ==
  ASSUME NEW t, t.on.router, Suggested(t) # {}, NEW s \in Suggested(t)
  PROVE  s \in Trimmed(t, Baseline(t)) <=> ~\E d \in Drops(t) : d[1] = s
<1> DEFINE B == Baseline(t)
           T == Trimmed(t, B)
           Off == OffTopic(t, Proposed(t))
           Un == WithDocs(t) \ Searchable(t)
<1>1. s \in Source /\ s \in Proposed(t)
  BY DEF Suggested, Proposed
<1>2. (\E d \in Drops(t) : d[1] = s) <=> s \in Off \/ s \in Un \/ s \in B \ T
  <2>1. ASSUME NEW d \in Drops(t), d[1] = s
        PROVE  s \in Off \/ s \in Un \/ s \in B \ T
    <3>1. d \notin Rejected(t)
      BY <2>1, <1>1 DEF Rejected
    <3> QED
      BY <2>1, <3>1 DEF Drops, Reported
  <2>2. ASSUME s \in Off
        PROVE  <<s, "non_technical">> \in Drops(t)
    BY <2>2 DEF Drops, Reported
  <2>3. ASSUME s \in Un
        PROVE  <<s, "unsearchable">> \in Drops(t)
    BY <2>3 DEF Drops, Reported
  <2>4. ASSUME s \in B \ T
        PROVE  <<s, "over_cap">> \in Drops(t)
    BY <2>4 DEF Drops, Reported
  <2>5. ASSUME NEW reason, <<s, reason>> \in Drops(t)
        PROVE  \E d \in Drops(t) : d[1] = s
    <3> <<s, reason>>[1] = s
      OBVIOUS
    <3> QED
      BY <2>5
  <2> HIDE DEF B, T, Off, Un
  <2> QED
    BY <2>1, <2>2, <2>3, <2>4, <2>5
<1>3. s \in Off => s # WEB
  BY DEF OffTopic
<1>4. s \in Off => s \notin B \/ (s = DOCS /\ NeedsDocs(t))
  BY <1>3 DEF Baseline, Searchable, WithDocs, OnTopic
<1>5. s \in Off => ~NeedsDocs(t)
  BY DEF OffTopic, IsNonTechnical, NeedsDocs
<1>6. s \in B <=> s \notin Off /\ s \notin Un
  BY <1>1, <1>3, <1>4, <1>5 DEF Baseline, Searchable, WithDocs, OnTopic, Unsearchable, DOCS, WEB
<1>7. T \subseteq B
  BY TrimmedType
<1> HIDE DEF B, T, Off, Un
<1>8. s \in T <=> ~(s \in Off \/ s \in Un \/ s \in B \ T)
  BY <1>6, <1>7
<1> QED
  BY <1>2, <1>8 DEF T, B

\* Every suggestion is searched or reported.
LEMMA Accounted ==
  ASSUME TypeOK, Explained
  PROVE  SuggestionsAccountedFor
<1> SUFFICES ASSUME IsDecided, task.on.router, NEW s \in task.suggested
             PROVE  (s \in sources) <=> ~\E d \in dropped : d[1] = s
  BY DEF SuggestionsAccountedFor
<1>1. sources \subseteq Source
  BY DEF TypeOK
<1>2. CASE s \notin Source
  <2>1. <<s, "unknown_source_type">> \in Rejected(task)
    BY <1>2 DEF Rejected
  <2>2. Rejected(task) \subseteq dropped
    BY DEF IsDecided, Explained, ByAdvice, ByPlan, ByQuestion, Drops
  <2>3. <<s, "unknown_source_type">>[1] = s
    OBVIOUS
  <2> QED
    BY <1>1, <1>2, <2>1, <2>2, <2>3
<1>3. CASE s \in Source
  <2>1. s \in Suggested(task)
    BY <1>3 DEF Suggested
  <2>2. \A d \in Rejected(task) : d[1] # s
    BY <1>3 DEF Rejected
  <2>3. CASE ByAdvice
    <3>1. (\E d \in dropped : d[1] = s) <=> s \in {DOCS, GITHUB}
      <4>1. ASSUME NEW d \in dropped, d[1] = s
            PROVE  s \in {DOCS, GITHUB}
        BY <2>2, <2>3, <4>1 DEF ByAdvice, Reported
      <4>2. ASSUME s \in {DOCS, GITHUB}
            PROVE  <<s, "advice_question">> \in dropped
        BY <2>1, <2>3, <4>2 DEF ByAdvice, Reported
      <4>3. <<s, "advice_question">>[1] = s
        OBVIOUS
      <4> QED
        BY <4>1, <4>2, <4>3
    <3> QED
      BY <1>3, <2>3, <3>1 DEF ByAdvice, Source, DOCS, GITHUB, REDDIT, WEB
  <2>4. CASE ByPlan
    BY <2>1, <2>4, SuggestionKeptOrDropped DEF ByPlan
  <2>5. CASE ByQuestion
    BY <2>1, <2>5 DEF ByQuestion, PlannerLed
  <2> QED
    BY <2>3, <2>4, <2>5 DEF IsDecided, Explained
<1> QED
  BY <1>2, <1>3

\* Each suggestion of the planner is either searched or reported as dropped, whatever the branch of
\* route_task.
THEOREM SuggestionsAccounted == Spec => []SuggestionsAccountedFor
  BY DecisionExplained, Accounted, PTL

\* After a failure the web alone or what the question asks for is searched.
LEMMA FailureSources ==
  ASSUME ByFailure
  PROVE  \E q : sources \in {{WEB}, RouteSources(q, task.on)}
  BY Zenon DEF ByFailure

\* What is switched off is used by no branch.
LEMMA Switches ==
  ASSUME TypeOK, Explained
  PROVE  SwitchesHonoured
<1>1. pc \in {"new", "task"} => sources = {} /\ docsPlan = FALSE
  BY DEF Explained
<1>2. ASSUME ~task.on.router, pc \notin {"new", "task"}
      PROVE  sources \subseteq {DOCS, WEB}
  <2>1. CASE pc = "failed"
    <3>1. ByFailure
      BY <2>1 DEF Explained
    <3>2. PICK q : sources \in {{WEB}, RouteSources(q, task.on)}
      BY <3>1, FailureSources
    <3> QED
      BY <1>2, <3>2, RouteSourcesType
  <2>2. CASE pc # "failed"
    <3>1. ByQuestion
      BY <1>2, <2>2 DEF TypeOK, Explained, ByAdvice, ByPlan, IsAdvice, PlannerLed
    <3>2. sources = RouteSources(task.question, task.on)
      BY <1>2, <3>1 DEF ByQuestion, Proposed
    <3> QED
      BY <1>2, <3>2, RouteSourcesType
  <2> QED
    BY <2>1, <2>2
<1>3. ASSUME ~task.on.docs, pc \notin {"new", "task"}
      PROVE  DOCS \notin sources
  <2>1. CASE pc = "failed"
    <3>1. ByFailure
      BY <2>1 DEF Explained
    <3>2. PICK q : sources \in {{WEB}, RouteSources(q, task.on)}
      BY <3>1, FailureSources
    <3> QED
      BY <1>3, <3>2, RouteSourcesType DEF DOCS, WEB
  <2>2. CASE ByAdvice
    BY <2>2 DEF ByAdvice, DOCS, REDDIT, WEB
  <2>3. CASE ByPlan
    BY <1>3, <2>3, TrimmedType DEF ByPlan, Baseline, Searchable, Unsearchable, DOCS, WEB
  <2>4. CASE ByQuestion
    <3>1. CASE PlannerLed(task)
      BY <2>4, <3>1 DEF ByQuestion
    <3>2. CASE ~PlannerLed(task)
      <4>1. sources = RouteSources(task.question, task.on)
        BY <2>4, <3>2 DEF ByQuestion, PlannerLed, Proposed
      <4> QED
        BY <1>3, <4>1, RouteSourcesType
    <3> QED
      BY <3>1, <3>2
  <2> QED
    BY <1>3, <2>1, <2>2, <2>3, <2>4 DEF TypeOK, Explained
<1>4. ASSUME ~task.on.docs
      PROVE  ~docsPlan
  BY <1>4 DEF TypeOK, Explained, ByFailure, PlansOfficialDocs, PlansTechnologyDocs
<1> QED
  BY <1>1, <1>2, <1>3, <1>4 DEF SwitchesHonoured

\* Neither a branch of route_task nor the fallback of _decide_route uses what is switched off
\* (rule 4).
THEOREM SwitchedOffUnused == Spec => []SwitchesHonoured
  BY DecisionExplained, Switches, PTL

\* The text a plan is made from is another than the one of the decision, and names its technology.
LEMMA Planned ==
  ASSUME RouterAssumption, TypeOK, Explained
  PROVE  DocsSearchIsPlanned
<1>1. ASSUME pc = "failed", DOCS \in sources
      PROVE  docsPlan
  <2>1. PICK q \in Question : \E S \in {{WEB}, RouteSources(q, task.on)} :
          /\ sources = S
          /\ docsPlan = (\/ PlansOfficialDocs(q, task.on)
                         \/ DOCS \in S /\ PlansTechnologyDocs(q, task.on))
    BY <1>1 DEF Explained, ByFailure
  <2>2. DOCS \in RouteSources(q, task.on)
    BY <1>1, <2>1 DEF DOCS, WEB
  <2>3. PlansOfficialDocs(q, task.on) \/ PlansTechnologyDocs(q, task.on)
    BY <2>2 DEF RouteSources, PlansOfficialDocs, PlansTechnologyDocs, DOCS, GITHUB, REDDIT, WEB
  <2> QED
    BY <1>1, <2>1, <2>3, Zenon
<1>2. ASSUME pc = "planned", PlannerLed(task), DOCS \in sources
      PROVE  docsPlan
  <2>1. ByPlan
    BY <1>2 DEF Explained, ByAdvice, ByQuestion, DOCS, REDDIT, WEB
  <2>2. ~Unsearchable(task)
    BY <1>2, <2>1, TrimmedType DEF ByPlan, Baseline, Searchable, DOCS, WEB
  <2>3. task \in Task
    BY DEF TypeOK
  <2>4. PlansTechnologyDocs(DocsText(task), task.on)
    BY <2>2, <2>3, SignalTextType, DocsTextStrong DEF Unsearchable, PlansTechnologyDocs
  <2> QED
    BY <1>2, <2>4, Zenon DEF Explained
<1> QED
  BY <1>1, <1>2 DEF DocsSearchIsPlanned

\* Documentation that a planner-led decision selects can be searched: its plan is made from another
\* text, which names the technology too (docs_text).
THEOREM SelectedDocsPlanned == Spec => []DocsSearchIsPlanned
<1>1. (TypeOK /\ Explained) => DocsSearchIsPlanned
  BY RouterAssumption, Planned
<1> QED
  BY <1>1, DecisionExplained, PTL
=============================================================================
