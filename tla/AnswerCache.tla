---------------------------- MODULE AnswerCache ----------------------------
(***************************************************************************)
(* The answer cache every user shares (agent/vectordb.py), as the requests *)
(* of several conversations use it: semantic_cache_node looks a question   *)
(* up, save_to_cache_node stores an answer and then its extras, and the    *)
(* turn of a finished request is stored behind its back.                   *)
(*                                                                         *)
(* The two nodes run in worker threads, so that requests interleave        *)
(* between the accesses to the two dictionaries.  A question stands for    *)
(* its normalized text; what the texts have in common, and which ask about *)
(* today, are constants.                                                   *)
(***************************************************************************)
EXTENDS Integers, FiniteSets

CONSTANTS
  Run,        \* the requests
  Session,    \* the conversations
  SessionOf,  \* SessionOf[r]: the conversation of request r
  Question,   \* normalized questions
  Score,      \* Score[p][q]: the word overlap of two questions, in percent
  Threshold,  \* CACHE_SCORE_THRESHOLD, in percent
  Timely,     \* the questions whose wording is time-sensitive
  Answer,     \* the texts of answers
  NoAnswer    \* none of them

ASSUME CacheAssumption ==
  /\ SessionOf \in [Run -> Session]
  /\ Score \in [Question -> [Question -> 0..100]]
  /\ \A q \in Question : Score[q][q] = 100
  /\ Threshold \in 1..100
  /\ Timely \subseteq Question
  /\ NoAnswer \notin Answer

VARIABLES
  cache,     \* _exact_cache: answers by question
  extras,    \* _extras: the answers with extras, and the citations in them
  stored,    \* the conversations with a stored turn
  pc,        \* where a request stands
  asked,     \* the question it asks
  context,   \* does it see earlier turns of its conversation
  keys,      \* the questions in the cache when its scan began
  answer,    \* its answer
  cited,     \* does it return citations with the answer
  follow,    \* state["is_follow_up"]
  origin     \* history: "live" if it was researched, "cache" if it was looked up

cacheVars == <<cache, extras>>
runVars   == <<asked, context, keys, answer, cited, follow, origin>>
vars      == <<cacheVars, stored, pc, runVars>>

PC == {"new", "lookup", "missed", "scan", "hit", "research", "save", "extras", "done", "over"}

\* Variant: a missing entry counts as an entry
CachedAtAny(q) == cache[q] \in Answer \cup {NoAnswer}

CachedAt(q) == cache[q] # NoAnswer
Keys == {q \in Question : CachedAt(q)}

\* The types, and that a request has an answer exactly from its hit or its research on
TypeOK ==
  /\ cache \in [Question -> Answer \cup {NoAnswer}]
  /\ extras \subseteq Answer
  /\ stored \subseteq Session
  /\ pc \in [Run -> PC]
  /\ asked \in [Run -> Question]
  /\ context \in [Run -> BOOLEAN]
  /\ keys \in [Run -> SUBSET Question]
  /\ answer \in [Run -> Answer \cup {NoAnswer}]
  /\ cited \in [Run -> BOOLEAN]
  /\ follow \in [Run -> BOOLEAN]
  /\ origin \in [Run -> {"none", "live", "cache"}]
  /\ \A r \in Run : (answer[r] = NoAnswer) <=> pc[r] \in {"new", "lookup", "missed", "scan", "research"}

Init ==
  /\ cache = [q \in Question |-> NoAnswer]
  /\ extras = {}
  /\ stored = {}
  /\ pc = [r \in Run |-> "new"]
  /\ asked \in [Run -> Question]
  /\ context = [r \in Run |-> FALSE]
  /\ keys = [r \in Run |-> {}]
  /\ answer = [r \in Run |-> NoAnswer]
  /\ cited = [r \in Run |-> FALSE]
  /\ follow = [r \in Run |-> FALSE]
  /\ origin = [r \in Run |-> "none"]

Goto(r, from, to) ==
  /\ pc[r] = from
  /\ pc' = [pc EXCEPT ![r] = to]

-----------------------------------------------------------------------------
(* semantic_cache_node *)

\* A question in a conversation, or about today, is not looked up.
MustResearch(q, seen) == seen \/ q \in Timely

\* A request arrives and reads its conversation; if that fails it sees no turns
\* (load_conversation).
Begin(r) ==
  /\ pc[r] = "new"
  /\ \E seen \in {SessionOf[r] \in stored, FALSE} :
       /\ context' = [context EXCEPT ![r] = seen]
       /\ pc' = [pc EXCEPT ![r] = IF MustResearch(asked[r], seen) THEN "research" ELSE "lookup"]
  /\ UNCHANGED <<cacheVars, stored, asked, keys, answer, cited, follow, origin>>

Hit(r, q) ==
  /\ answer' = [answer EXCEPT ![r] = cache[q]]
  /\ origin' = [origin EXCEPT ![r] = "cache"]

\* lookup_cache: the question itself ...
ExactHit(r) ==
  /\ Goto(r, "lookup", "hit")
  /\ CachedAt(asked[r])
  /\ Hit(r, asked[r])
  /\ UNCHANGED <<cacheVars, stored, asked, context, keys, cited, follow>>

\* ... or, when it is not there,
ExactMiss(r) ==
  /\ Goto(r, "lookup", "missed")
  /\ ~CachedAt(asked[r])
  /\ UNCHANGED <<cacheVars, stored, runVars>>

\* a scan of all that are, the question itself by now perhaps among them
BeginScan(r) ==
  /\ Goto(r, "missed", "scan")
  /\ keys' = [keys EXCEPT ![r] = Keys]
  /\ UNCHANGED <<cacheVars, stored, asked, context, answer, cited, follow, origin>>

\* The questions close enough, none of them closer
Best(r) ==
  {q \in keys[r] : /\ Score[asked[r]][q] >= Threshold
                   /\ \A p \in keys[r] : Score[asked[r]][q] >= Score[asked[r]][p]}

\* Variant: the scan goes over a copy of the keys
ScanHitOfKeys(r) ==
  /\ Goto(r, "scan", "hit")
  /\ \E q \in Best(r) : Hit(r, q)
  /\ UNCHANGED <<cacheVars, stored, asked, context, keys, cited, follow>>

\* The first of the best is taken, with the answer stored under it when the iteration reads it.
\* That moment is this step: the rest of the iteration only compares, or raises (ScanMiss).
ScanHit(r) ==
  /\ Goto(r, "scan", "hit")
  /\ Keys = keys[r]
  /\ \E q \in Best(r) : Hit(r, q)
  /\ UNCHANGED <<cacheVars, stored, asked, context, keys, cited, follow>>

\* A question stored meanwhile makes the iteration raise, which counts as a miss.
ScanMiss(r) ==
  /\ Goto(r, "scan", "research")
  /\ Best(r) = {} \/ Keys # keys[r]
  /\ UNCHANGED <<cacheVars, stored, runVars>>

\* get_cache_extras; the request is answered.
TakeExtras(r) ==
  /\ Goto(r, "hit", "done")
  /\ cited' = [cited EXCEPT ![r] = answer[r] \in extras]
  /\ UNCHANGED <<cacheVars, stored, asked, context, keys, answer, follow, origin>>

-----------------------------------------------------------------------------
(* The run, save_to_cache_node and the turn *)

\* Any answer, with or without citations; only a request that sees earlier turns can be judged
\* a follow-up (_understanding_state).
Research(r) ==
  /\ Goto(r, "research", "save")
  /\ \E a \in Answer, c, f \in BOOLEAN :
       /\ f => context[r]
       /\ answer' = [answer EXCEPT ![r] = a]
       /\ cited' = [cited EXCEPT ![r] = c]
       /\ follow' = [follow EXCEPT ![r] = f]
  /\ origin' = [origin EXCEPT ![r] = "live"]
  /\ UNCHANGED <<cacheVars, stored, asked, context, keys>>

\* Variant: follow-ups are stored too
CacheableAny(r) == cited[r] /\ asked[r] \notin Timely

Cacheable(r) == cited[r] /\ ~follow[r] /\ asked[r] \notin Timely

\* store_cache
StoreAnswer(r) ==
  /\ Goto(r, "save", "extras")
  /\ Cacheable(r)
  /\ cache' = [cache EXCEPT ![asked[r]] = answer[r]]
  /\ UNCHANGED <<extras, stored, runVars>>

\* A short answer, or a question the model judges time-sensitive, is not stored either.
SkipStore(r) ==
  /\ Goto(r, "save", "done")
  /\ UNCHANGED <<cacheVars, stored, runVars>>

\* Variant: the extras are forgotten
StoreNoExtras(r) ==
  /\ Goto(r, "extras", "done")
  /\ UNCHANGED <<cacheVars, stored, runVars>>

\* store_cache_extras
StoreExtras(r) ==
  /\ Goto(r, "extras", "done")
  /\ extras' = extras \cup {answer[r]}
  /\ UNCHANGED <<cache, stored, runVars>>

\* The background task: the turn is stored, or given up (save_conversation_turn).
SaveTurn(r) ==
  /\ Goto(r, "done", "over")
  /\ stored' \in {stored, stored \cup {SessionOf[r]}}
  /\ UNCHANGED <<cacheVars, runVars>>

-----------------------------------------------------------------------------
Finished == (\A r \in Run : pc[r] = "over") /\ UNCHANGED vars

Step(r) ==
  \/ Begin(r) \/ ExactHit(r) \/ ExactMiss(r) \/ BeginScan(r) \/ ScanHit(r) \/ ScanMiss(r)
  \/ TakeExtras(r) \/ Research(r) \/ StoreAnswer(r) \/ SkipStore(r) \/ StoreExtras(r) \/ SaveTurn(r)

Next == (\E r \in Run : Step(r)) \/ Finished

Spec == Init /\ [][Next]_vars

-----------------------------------------------------------------------------
(* Properties *)

\* The answer r may be shared: it was researched, with citations, and is not a follow-up's.
Shareable(r) == origin[r] = "live" /\ cited[r] /\ ~follow[r]

\* Whoever is answered from the cache gets what a live run wrote, with citations and not as a
\* follow-up, for the same question or one close enough, and neither question asks about today
\* (semantic_cache_node, save_to_cache_node), however many requests store in between.
HitWasEarned ==
  \A r \in Run : origin[r] = "cache" =>
    /\ asked[r] \notin Timely
    /\ \E w \in Run : /\ Shareable(w) /\ answer[w] = answer[r]
                      /\ asked[w] \notin Timely
                      /\ Score[asked[r]][asked[w]] >= Threshold

\* An answer from the cache comes without its sources only while the run that stored it has not
\* stored them yet (store_cache, then store_cache_extras).
SourcesComeWithHit ==
  [][\A r \in Run : pc[r] = "hit" /\ pc'[r] = "done" /\ ~cited'[r] =>
       \E w \in Run : pc[w] = "extras" /\ answer[w] = answer[r]]_vars

\* What a request that stands at p has of the cache: nothing yet, a found or a live answer, ...
StageAt(p) ==
  CASE p \in {"new", "lookup", "missed", "scan", "research"} -> "open"
    [] p = "hit" -> "found"
    [] p = "save" -> "live"
    [] p = "extras" -> "publishing"
    [] OTHER -> "closed"

\* The cache as one whose look-ups are single steps: however other requests store during a scan,
\* it gives the answer of the closest question at some moment of it, or none; and an answer comes
\* without its sources only while who stored it is about to add them.
Atomic == INSTANCE AtomicCache WITH
  stage   <- [r \in Run |-> StageAt(pc[r])],
  sourced <- cited,
  entry   <- cache

CacheIsAtomic == Atomic!Spec

\* "deploy it" after a FastAPI turn must not be answered with what someone else's "deploy it"
\* meant (agent/state.py:171): once a conversation has an answer, no later request of it is
\* answered from the cache.
FollowUpIsResearched ==
  [][\A r, w \in Run :
       /\ SessionOf[r] = SessionOf[w] /\ pc[w] \in {"done", "over"}
       /\ pc[r] = "new" /\ pc'[r] # "new"
       => pc'[r] = "research"]_vars
=============================================================================
