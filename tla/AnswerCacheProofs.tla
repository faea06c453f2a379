------------------------- MODULE AnswerCacheProofs -------------------------
(***************************************************************************)
(* Proofs about AnswerCache, for all requests, conversations, questions    *)
(* and answers.                                                            *)
(*                                                                         *)
(* The invariant gives every entry of the cache, and every answer taken    *)
(* from it, a run that vouches for it: one that researched the answer, has *)
(* citations, is no follow-up, and has stored its extras or is about to.   *)
(* Nothing evicts an entry, and a run that vouches goes on vouching.       *)
(***************************************************************************)
EXTENDS AnswerCache, TLAPS

Stored == {"extras", "done", "over"}

\* Run w vouches for the answer a.
Vouches(w, a) ==
  /\ Shareable(w) /\ answer[w] = a /\ asked[w] \notin Timely
  /\ pc[w] \in Stored
  /\ pc[w] = "extras" \/ a \in extras

\* Every entry has a run that asked its question and vouches for its answer.
EntriesEarned ==
  \A q \in Question, a \in Answer : cache[q] = a =>
    \E w \in Run : Vouches(w, a) /\ asked[w] = q

\* Every answer that was looked up has a run that vouches for it, with a question close enough.
HitsEarned ==
  \A r \in Run, a \in Answer : origin[r] = "cache" /\ answer[r] = a =>
    \E w \in Run : Vouches(w, a) /\ Score[asked[r]][asked[w]] >= Threshold

\* Where a request stands tells what it is.
Standing ==
  \A r \in Run :
    /\ pc[r] \in {"lookup", "missed", "scan"} => asked[r] \notin Timely
    /\ origin[r] = "cache" => asked[r] \notin Timely /\ pc[r] \in {"hit", "done", "over"}
    /\ pc[r] = "hit" => origin[r] = "cache"
    /\ pc[r] \in {"save", "extras"} => origin[r] = "live"
    /\ pc[r] = "extras" => Shareable(r) /\ asked[r] \notin Timely

Earned == EntriesEarned /\ HitsEarned /\ Standing

-----------------------------------------------------------------------------
(* Types *)

\* What is best among known questions is a known question.
LEMMA BestType ==
  ASSUME TypeOK, NEW r \in Run
  PROVE  Best(r) \subseteq keys[r] /\ keys[r] \subseteq Question
  BY DEF Best, TypeOK

\* The types hold at the beginning.
LEMMA CacheInit ==
  ASSUME CacheAssumption, Init
  PROVE  TypeOK /\ Earned
<1>1. TypeOK
  BY DEF CacheAssumption, Init, TypeOK, PC
<1>2. EntriesEarned
  BY DEF CacheAssumption, Init, EntriesEarned
<1>3. HitsEarned
  BY DEF Init, HitsEarned
<1>4. Standing
  BY DEF Init, Standing
<1> QED
  BY <1>1, <1>2, <1>3, <1>4 DEF Earned

\* A hit takes an answer that is there.
LEMMA HitType ==
  ASSUME TypeOK, CacheAssumption, NEW r \in Run, NEW q \in Question, CachedAt(q), Hit(r, q),
         pc[r] \in {"lookup", "scan"}, pc' = [pc EXCEPT ![r] = "hit"],
         UNCHANGED <<cacheVars, stored, asked, context, keys, cited, follow>>
  PROVE  TypeOK'
<1>1. cache[q] \in Answer /\ cache[q] # NoAnswer
  BY DEF TypeOK, CachedAt, CacheAssumption
<1> QED
  BY <1>1 DEF TypeOK, Hit, PC, cacheVars

\* Every step keeps the types.
LEMMA TypeStep ==
  ASSUME TypeOK, CacheAssumption, [Next]_vars
  PROVE  TypeOK'
<1> USE DEF cacheVars, runVars, PC, Goto
<1>1. ASSUME NEW r \in Run, Begin(r)
      PROVE  TypeOK'
  <2>1. PICK seen \in BOOLEAN :
          /\ context' = [context EXCEPT ![r] = seen]
          /\ pc' = [pc EXCEPT ![r] = IF MustResearch(asked[r], seen) THEN "research" ELSE "lookup"]
    <3>1. (SessionOf[r] \in stored) \in BOOLEAN
      OBVIOUS
    <3>2. {SessionOf[r] \in stored, FALSE} \subseteq BOOLEAN
      BY <3>1, Zenon
    <3> QED
      BY <1>1, <3>2, Zenon DEF Begin
  <2>2. context' \in [Run -> BOOLEAN]
    BY <2>1, Zenon DEF TypeOK
  <2>3. PICK p \in {"research", "lookup"} : pc' = [pc EXCEPT ![r] = p]
    BY <2>1
  <2> QED
    BY <1>1, <2>2, <2>3 DEF TypeOK, Begin
<1>2. ASSUME NEW r \in Run, ExactHit(r)
      PROVE  TypeOK'
  <2>1. asked[r] \in Question
    BY DEF TypeOK
  <2> QED
    BY <1>2, <2>1, HitType DEF ExactHit
<1>3. ASSUME NEW r \in Run, BeginScan(r)
      PROVE  TypeOK'
  BY <1>3 DEF TypeOK, BeginScan, Keys
<1>4. ASSUME NEW r \in Run, ScanHit(r)
      PROVE  TypeOK'
  <2>1. PICK q \in Best(r) : Hit(r, q)
    BY <1>4 DEF ScanHit
  <2>2. q \in Question /\ CachedAt(q)
    BY <1>4, <2>1, BestType DEF ScanHit, Keys
  <2> QED
    BY <1>4, <2>1, <2>2, HitType DEF ScanHit
<1>5. ASSUME NEW r \in Run, ScanMiss(r)
      PROVE  TypeOK'
  BY <1>5 DEF TypeOK, ScanMiss
<1>6. ASSUME NEW r \in Run, TakeExtras(r)
      PROVE  TypeOK'
  BY <1>6 DEF TypeOK, TakeExtras
<1>7. ASSUME NEW r \in Run, Research(r)
      PROVE  TypeOK'
  BY <1>7 DEF TypeOK, Research, CacheAssumption
<1>8. ASSUME NEW r \in Run, StoreAnswer(r)
      PROVE  TypeOK'
  BY <1>8 DEF TypeOK, StoreAnswer
<1>9. ASSUME NEW r \in Run, SkipStore(r)
      PROVE  TypeOK'
  BY <1>9 DEF TypeOK, SkipStore
<1>10. ASSUME NEW r \in Run, StoreExtras(r)
       PROVE  TypeOK'
  BY <1>10, CacheAssumption DEF TypeOK, StoreExtras, CacheAssumption
<1>11. ASSUME NEW r \in Run, SaveTurn(r)
       PROVE  TypeOK'
  BY <1>11 DEF TypeOK, SaveTurn, CacheAssumption
<1>12. CASE UNCHANGED vars
  BY <1>12 DEF TypeOK, vars
<1>13. ASSUME NEW r \in Run, ExactMiss(r)
       PROVE  TypeOK'
  BY <1>13 DEF TypeOK, ExactMiss
<1> QED
  BY <1>1, <1>2, <1>3, <1>4, <1>5, <1>6, <1>7, <1>8, <1>9, <1>10, <1>11, <1>12, <1>13
     DEF Next, Step, Finished

-----------------------------------------------------------------------------
(* Vouching *)

\* Standing is kept.
LEMMA StandingStep ==
  ASSUME TypeOK, Standing, [Next]_vars
  PROVE  Standing'
<1> USE DEF cacheVars, runVars, PC, Goto, Shareable
<1>1. ASSUME NEW r \in Run, Begin(r)
      PROVE  Standing'
  BY <1>1 DEF TypeOK, Standing, Begin, MustResearch
<1>2. ASSUME NEW r \in Run, ExactHit(r)
      PROVE  Standing'
  BY <1>2 DEF TypeOK, Standing, ExactHit, Hit
<1>3. ASSUME NEW r \in Run, BeginScan(r)
      PROVE  Standing'
  BY <1>3 DEF TypeOK, Standing, BeginScan
<1>4. ASSUME NEW r \in Run, ScanHit(r)
      PROVE  Standing'
  BY <1>4 DEF TypeOK, Standing, ScanHit, Hit
<1>5. ASSUME NEW r \in Run, ScanMiss(r)
      PROVE  Standing'
  BY <1>5 DEF TypeOK, Standing, ScanMiss
<1>6. ASSUME NEW r \in Run, TakeExtras(r)
      PROVE  Standing'
  BY <1>6 DEF TypeOK, Standing, TakeExtras
<1>7. ASSUME NEW r \in Run, Research(r)
      PROVE  Standing'
  BY <1>7 DEF TypeOK, Standing, Research
<1>8. ASSUME NEW r \in Run, StoreAnswer(r)
      PROVE  Standing'
  BY <1>8 DEF TypeOK, Standing, StoreAnswer, Cacheable
<1>9. ASSUME NEW r \in Run, SkipStore(r)
      PROVE  Standing'
  BY <1>9 DEF TypeOK, Standing, SkipStore
<1>10. ASSUME NEW r \in Run, StoreExtras(r)
       PROVE  Standing'
  BY <1>10 DEF TypeOK, Standing, StoreExtras
<1>11. ASSUME NEW r \in Run, SaveTurn(r)
       PROVE  Standing'
  BY <1>11 DEF TypeOK, Standing, SaveTurn
<1>12. CASE UNCHANGED vars
  BY <1>12 DEF Standing, vars
<1>13. ASSUME NEW r \in Run, ExactMiss(r)
       PROVE  Standing'
  BY <1>13 DEF TypeOK, Standing, ExactMiss
<1> QED
  BY <1>1, <1>2, <1>3, <1>4, <1>5, <1>6, <1>7, <1>8, <1>9, <1>10, <1>11, <1>12, <1>13
     DEF Next, Step, Finished

\* Who vouches for an answer goes on doing so, and questions do not change.
LEMMA VouchesStep ==
  ASSUME TypeOK, [Next]_vars, NEW w \in Run, NEW a \in Answer, Vouches(w, a)
  PROVE  Vouches(w, a)' /\ asked' = asked
<1> USE DEF cacheVars, runVars, PC, Goto, Shareable, Stored
<1>1. ASSUME NEW r \in Run, Begin(r) \/ ExactMiss(r) \/ BeginScan(r) \/ ScanMiss(r) \/ TakeExtras(r)
      PROVE  Vouches(w, a)' /\ asked' = asked
  BY <1>1 DEF TypeOK, Vouches, Begin, ExactMiss, BeginScan, ScanMiss, TakeExtras
<1>2. ASSUME NEW r \in Run, ExactHit(r) \/ ScanHit(r)
      PROVE  Vouches(w, a)' /\ asked' = asked
  BY <1>2 DEF TypeOK, Vouches, ExactHit, ScanHit, Hit
<1>3. ASSUME NEW r \in Run, Research(r)
      PROVE  Vouches(w, a)' /\ asked' = asked
  BY <1>3 DEF TypeOK, Vouches, Research
<1>4. ASSUME NEW r \in Run, StoreAnswer(r) \/ SkipStore(r) \/ SaveTurn(r)
      PROVE  Vouches(w, a)' /\ asked' = asked
  BY <1>4 DEF TypeOK, Vouches, StoreAnswer, SkipStore, SaveTurn
<1>5. ASSUME NEW r \in Run, StoreExtras(r)
      PROVE  Vouches(w, a)' /\ asked' = asked
  BY <1>5 DEF TypeOK, Vouches, StoreExtras
<1>6. CASE UNCHANGED vars
  BY <1>6 DEF Vouches, vars
<1> QED
  BY <1>1, <1>2, <1>3, <1>4, <1>5, <1>6 DEF Next, Step, Finished

-----------------------------------------------------------------------------
(* The cache *)

\* Only StoreAnswer writes an entry, and only Hit and Research give an answer.
LEMMA EntriesStep ==
  ASSUME TypeOK, CacheAssumption, Earned, [Next]_vars
  PROVE  EntriesEarned'
<1> SUFFICES ASSUME NEW q \in Question, NEW a \in Answer, cache'[q] = a
             PROVE  \E w \in Run : Vouches(w, a)' /\ asked'[w] = q
  BY DEF EntriesEarned
<1>1. CASE cache[q] = a
  <2>1. PICK w \in Run : Vouches(w, a) /\ asked[w] = q
    BY <1>1 DEF Earned, EntriesEarned
  <2> QED
    BY <2>1, VouchesStep
<1>2. CASE cache[q] # a
  <2>1. PICK r \in Run : StoreAnswer(r)
    BY <1>2 DEF Next, Step, Finished, Begin, ExactHit, ExactMiss, BeginScan, ScanHit, ScanMiss,
                TakeExtras, Research, SkipStore, StoreExtras, SaveTurn, cacheVars, vars
  <2>2. q = asked[r] /\ a = answer[r]
    BY <1>2, <2>1 DEF StoreAnswer, TypeOK
  <2>3. /\ Shareable(r) /\ asked[r] \notin Timely
    BY <2>1 DEF StoreAnswer, Cacheable, Goto, Earned, Standing, Shareable
  <2>4. Vouches(r, a)' /\ asked'[r] = q
    BY <2>1, <2>2, <2>3 DEF StoreAnswer, Goto, TypeOK, Vouches, Shareable, Stored, runVars
  <2> QED
    BY <2>4
<1> QED
  BY <1>1, <1>2

\* An entry that is looked up has a run that vouches for it.
LEMMA HitEarned ==
  ASSUME TypeOK, CacheAssumption, Earned, [Next]_vars,
         NEW r \in Run, NEW q \in Question, CachedAt(q), Score[asked[r]][q] >= Threshold,
         NEW a \in Answer, cache[q] = a
  PROVE  \E w \in Run : Vouches(w, a)' /\ Score[asked'[r]][asked'[w]] >= Threshold
<1>1. PICK w \in Run : Vouches(w, a) /\ asked[w] = q
  BY DEF Earned, EntriesEarned
<1>2. Vouches(w, a)' /\ asked' = asked
  BY <1>1, VouchesStep
<1> QED
  BY <1>1, <1>2

\* Answers from the cache are vouched for, the new ones by the run that vouches for the entry.
LEMMA HitsStep ==
  ASSUME TypeOK, CacheAssumption, Earned, [Next]_vars
  PROVE  HitsEarned'
<1> SUFFICES ASSUME NEW r \in Run, NEW a \in Answer, origin'[r] = "cache" /\ answer'[r] = a
             PROVE  \E w \in Run : Vouches(w, a)' /\ Score[asked'[r]][asked'[w]] >= Threshold
  BY DEF HitsEarned
<1>1. CASE origin[r] = "cache" /\ answer[r] = a
  <2>1. PICK w \in Run : Vouches(w, a) /\ Score[asked[r]][asked[w]] >= Threshold
    BY <1>1 DEF Earned, HitsEarned
  <2> QED
    BY <2>1, VouchesStep
<1>2. CASE ~(origin[r] = "cache" /\ answer[r] = a)
  <2>1. PICK s \in Run : ExactHit(s) \/ ScanHit(s) \/ Research(s)
    BY <1>2 DEF Next, Step, Finished, Begin, ExactMiss, BeginScan, ScanMiss, TakeExtras,
                StoreAnswer, SkipStore, StoreExtras, SaveTurn, runVars, vars
  <2>2. CASE Research(s)
    BY <1>2, <2>2 DEF Research, TypeOK
  <2>3. CASE ExactHit(s)
    <3>1. s = r /\ cache[asked[r]] = a /\ CachedAt(asked[r])
      BY <1>2, <2>3 DEF ExactHit, Hit, TypeOK
    <3>2. asked[r] \in Question /\ Score[asked[r]][asked[r]] >= Threshold
      BY DEF TypeOK, CacheAssumption
    <3> QED
      BY <3>1, <3>2, HitEarned
  <2>4. CASE ScanHit(s)
    <3>1. PICK q \in Best(s) : Hit(s, q)
      BY <2>4 DEF ScanHit
    <3>2. s = r /\ cache[q] = a
      BY <1>2, <3>1 DEF Hit, TypeOK
    <3>3. q \in Question /\ CachedAt(q) /\ Score[asked[r]][q] >= Threshold
      BY <2>4, <3>1, <3>2, BestType DEF ScanHit, Best, Keys
    <3> QED
      BY <3>2, <3>3, HitEarned
  <2> QED
    BY <2>1, <2>2, <2>3, <2>4
<1> QED
  BY <1>1, <1>2

\* The invariant: types, and who vouches for what.
THEOREM CacheInvariant == Spec => [](TypeOK /\ Earned)
<1>1. Init => TypeOK /\ Earned
  BY CacheAssumption, CacheInit
<1>2. (TypeOK /\ Earned) /\ [Next]_vars => (TypeOK /\ Earned)'
  BY CacheAssumption, TypeStep, StandingStep, EntriesStep, HitsStep DEF Earned
<1> QED
  BY <1>1, <1>2, PTL DEF Spec

\* TypeOK is an invariant: a request has an answer exactly from its hit or its research on.
THEOREM CacheTypeCorrect == Spec => []TypeOK
  BY CacheInvariant, PTL

-----------------------------------------------------------------------------
(* The properties *)

\* Who is answered from the cache has an answer, and somebody vouches for it.
LEMMA Voucher ==
  ASSUME TypeOK, Earned, NEW r \in Run, origin[r] = "cache"
  PROVE  /\ answer[r] \in Answer
         /\ \E w \in Run : Vouches(w, answer[r]) /\ Score[asked[r]][asked[w]] >= Threshold
<1>1. pc[r] \notin {"new", "lookup", "missed", "scan", "research"}
  BY DEF Earned, Standing
<1>2. answer[r] \in Answer
  BY <1>1 DEF TypeOK
<1> QED
  BY <1>2 DEF Earned, HitsEarned

\* A request answered from the cache gets what a live run with citations wrote, for the same
\* question or one close enough, and not about today.
THEOREM HitsAreEarned == Spec => []HitWasEarned
<1>1. ASSUME TypeOK, Earned
      PROVE  HitWasEarned
  BY <1>1, Voucher DEF Earned, Standing, HitWasEarned, Vouches
<1> QED
  BY <1>1, CacheInvariant, PTL

\* A request is answered without sources only while the run that stored the answer has yet to
\* store them.
THEOREM SourcesComeSoon == Spec => SourcesComeWithHit
<1>1. ASSUME TypeOK, Earned, [Next]_vars,
             NEW r \in Run, pc[r] = "hit", pc'[r] = "done", ~cited'[r]
      PROVE  \E w \in Run : pc[w] = "extras" /\ answer[w] = answer[r]
  <2>1. origin[r] = "cache"
    BY <1>1 DEF Earned, Standing
  <2>2. PICK w \in Run : Vouches(w, answer[r])
    BY <1>1, <2>1, Voucher
  <2>3. PICK s \in Run : Step(s)
    BY <1>1 DEF Next, Finished, vars
  <2>4. s = r /\ TakeExtras(r)
    BY <1>1, <2>3 DEF TypeOK, Step, Goto, Begin, ExactHit, ExactMiss, BeginScan, ScanHit, ScanMiss,
                      TakeExtras, Research, StoreAnswer, SkipStore, StoreExtras, SaveTurn
  <2>5. answer[r] \notin extras
    BY <1>1, <2>4, Zenon DEF TakeExtras, TypeOK
  <2> QED
    BY <2>2, <2>5 DEF Vouches
<1>2. (TypeOK /\ Earned) /\ [Next]_vars =>
        [\A r \in Run : pc[r] = "hit" /\ pc'[r] = "done" /\ ~cited'[r] =>
           \E w \in Run : pc[w] = "extras" /\ answer[w] = answer[r]]_vars
  BY <1>1
<1> QED
  BY <1>2, CacheInvariant, PTL DEF Spec, SourcesComeWithHit
-----------------------------------------------------------------------------
(* The cache is atomic *)

Stage == [r \in Run |-> StageAt(pc[r])]

\* A request that moves on moves on in the abstract cache.
LEMMA StageStep ==
  ASSUME pc \in [Run -> PC], NEW r \in Run, NEW from, NEW to, Goto(r, from, to)
  PROVE  Stage[r] = StageAt(from) /\ Stage' = [Stage EXCEPT ![r] = StageAt(to)]
<1>1. Stage[r] = StageAt(from)
  BY DEF Goto, Stage
<1>2. \A x \in Run : StageAt(pc'[x]) = IF x = r THEN StageAt(to) ELSE StageAt(pc[x])
  BY DEF Goto
<1>3. Stage' = [x \in Run |-> StageAt(pc'[x])]
  BY DEF Stage, StageAt
<1> QED
  BY <1>1, <1>2, <1>3 DEF Stage

\* The stages, one by one
LEMMA Stages ==
  /\ StageAt("new") = "open" /\ StageAt("lookup") = "open" /\ StageAt("missed") = "open"
  /\ StageAt("scan") = "open"
  /\ StageAt("research") = "open" /\ StageAt("hit") = "found" /\ StageAt("save") = "live"
  /\ StageAt("extras") = "publishing" /\ StageAt("done") = "closed" /\ StageAt("over") = "closed"
BY DEF StageAt

\* A hit is a look-up: of the question itself, which no other is closer to ...
LEMMA ExactHitIsLookUp ==
  ASSUME TypeOK, CacheAssumption, Standing, NEW r \in Run, ExactHit(r)
  PROVE  Atomic!LookUp(r)
<1>1. Stage[r] = "open" /\ Stage' = [Stage EXCEPT ![r] = "found"]
  BY StageStep, Stages DEF TypeOK, ExactHit
<1>2. asked[r] \in Question /\ asked[r] \notin Timely
  BY DEF TypeOK, Standing, ExactHit, Goto
<1>3. asked[r] \in Atomic!Closest(r)
  <2>1. \A p \in Question : Score[asked[r]][p] \in 0..100
    BY <1>2 DEF CacheAssumption
  <2>2. Score[asked[r]][asked[r]] = 100 /\ Threshold \in 1..100
    BY <1>2 DEF CacheAssumption
  <2>3. \A n \in 0..100 : 100 >= n
    OBVIOUS
  <2>4. \A p \in Question : Score[asked[r]][asked[r]] >= Score[asked[r]][p]
    BY <2>1, <2>2, <2>3, Zenon
  <2>5. Score[asked[r]][asked[r]] >= Threshold
    BY <2>2
  <2> QED
    BY <1>2, <2>4, <2>5 DEF ExactHit, CachedAt, Atomic!Closest
<1> QED
  BY <1>1, <1>2, <1>3 DEF ExactHit, Hit, cacheVars, Atomic!LookUp, Atomic!Goto, Stage

\* ... or of the best of the scanned questions, which are still all there are.
LEMMA ScanHitIsLookUp ==
  ASSUME TypeOK, CacheAssumption, Standing, NEW r \in Run, ScanHit(r)
  PROVE  Atomic!LookUp(r)
<1>1. Stage[r] = "open" /\ Stage' = [Stage EXCEPT ![r] = "found"]
  BY StageStep, Stages DEF TypeOK, ScanHit
<1>2. asked[r] \notin Timely
  BY DEF Standing, ScanHit, Goto
<1>3. PICK q \in Best(r) : Hit(r, q)
  BY DEF ScanHit
<1>4. q \in Atomic!Closest(r)
  BY <1>3 DEF ScanHit, Keys, CachedAt, Best, Atomic!Closest
<1> QED
  BY <1>1, <1>2, <1>3, <1>4 DEF ScanHit, Hit, cacheVars, Atomic!LookUp, Atomic!Goto, Stage

\* Sources are missing only while who vouches for the answer is about to publish them.
LEMMA TakeExtrasIsTakeSources ==
  ASSUME TypeOK, Earned, NEW r \in Run, TakeExtras(r)
  PROVE  Atomic!TakeSources(r)
<1>1. Stage[r] = "found" /\ Stage' = [Stage EXCEPT ![r] = "closed"]
  BY StageStep, Stages DEF TypeOK, TakeExtras
<1>2. answer[r] \in extras \/ \E w \in Run : Stage[w] = "publishing" /\ answer[w] = answer[r]
  <2>1. origin[r] = "cache"
    BY DEF Earned, Standing, TakeExtras, Goto
  <2>2. PICK w \in Run : Vouches(w, answer[r])
    BY <2>1, Voucher
  <2> QED
    BY <2>2, Stages DEF Vouches, Stage, Shareable
<1>3. \E s \in BOOLEAN : /\ s \/ \E w \in Run : Stage[w] = "publishing" /\ answer[w] = answer[r]
                        /\ cited' = [cited EXCEPT ![r] = s]
  <2>1. PICK s \in BOOLEAN : s <=> answer[r] \in extras
    OBVIOUS
  <2>2. cited' = [cited EXCEPT ![r] = s]
    BY <2>1 DEF TakeExtras
  <2> QED
    BY <1>2, <2>1, <2>2, Zenon
<1> QED
  BY <1>1, <1>3 DEF TakeExtras, cacheVars, Atomic!TakeSources, Atomic!Goto, Stage

\* Every step is a step of the abstract cache, or none.
LEMMA AtomicStep ==
  ASSUME TypeOK, CacheAssumption, Earned, [Next]_vars
  PROVE  [Atomic!Next]_(Atomic!vars)
<1> USE DEF cacheVars, runVars
<1>1. ASSUME NEW r \in Run, Begin(r)
      PROVE  UNCHANGED Atomic!vars
  <2>1. PICK to \in {"research", "lookup"} : pc' = [pc EXCEPT ![r] = to]
    BY <1>1 DEF Begin
  <2>2. Goto(r, "new", to)
    BY <1>1, <2>1 DEF Begin, Goto
  <2>3. Stage' = [Stage EXCEPT ![r] = "open"] /\ Stage[r] = "open"
    BY <2>2, StageStep, Stages DEF TypeOK
  <2> QED
    BY <1>1, <2>3 DEF Begin, Atomic!vars, Stage
<1>2. ASSUME NEW r \in Run, ExactMiss(r) \/ BeginScan(r) \/ ScanMiss(r) \/ SaveTurn(r)
      PROVE  UNCHANGED Atomic!vars
  <2>1. Stage' = [Stage EXCEPT ![r] = Stage[r]]
    BY <1>2, StageStep, Stages DEF TypeOK, ExactMiss, BeginScan, ScanMiss, SaveTurn
  <2> QED
    BY <1>2, <2>1 DEF ExactMiss, BeginScan, ScanMiss, SaveTurn, Atomic!vars, Stage
<1>3. ASSUME NEW r \in Run, ExactHit(r) \/ ScanHit(r)
      PROVE  Atomic!Next
  BY <1>3, ExactHitIsLookUp, ScanHitIsLookUp DEF Earned, Atomic!Next
<1>4. ASSUME NEW r \in Run, TakeExtras(r)
      PROVE  Atomic!Next
  BY <1>4, TakeExtrasIsTakeSources DEF Atomic!Next
<1>5. ASSUME NEW r \in Run, Research(r)
      PROVE  Atomic!Next
  <2>1. Stage[r] = "open" /\ Stage' = [Stage EXCEPT ![r] = "live"]
    BY <1>5, StageStep, Stages DEF TypeOK, Research
  <2>2. Atomic!Research(r)
    BY <1>5, <2>1 DEF Research, Atomic!Research, Atomic!Goto, Stage
  <2> QED
    BY <2>2 DEF Atomic!Next
<1>6. ASSUME NEW r \in Run, StoreAnswer(r)
      PROVE  Atomic!Next
  <2>1. Stage[r] = "live" /\ Stage' = [Stage EXCEPT ![r] = "publishing"]
    BY <1>6, StageStep, Stages DEF TypeOK, StoreAnswer
  <2>2. Atomic!Publish(r)
    BY <1>6, <2>1 DEF StoreAnswer, Cacheable, Atomic!Publish, Atomic!Goto, Stage
  <2> QED
    BY <2>2 DEF Atomic!Next
<1>7. ASSUME NEW r \in Run, SkipStore(r) \/ StoreExtras(r)
      PROVE  Atomic!Next
  <2>1. Stage[r] \in {"live", "publishing"} /\ Stage' = [Stage EXCEPT ![r] = "closed"]
    BY <1>7, StageStep, Stages DEF TypeOK, SkipStore, StoreExtras
  <2>2. Atomic!Close(r)
    BY <1>7, <2>1 DEF SkipStore, StoreExtras, Atomic!Close, Atomic!Goto, Stage
  <2> QED
    BY <2>2 DEF Atomic!Next
<1>8. CASE UNCHANGED vars
  <2>1. Stage' = Stage
    BY <1>8 DEF vars, Stage
  <2> QED
    BY <1>8, <2>1 DEF vars, Atomic!vars, Stage
<1> QED
  BY <1>1, <1>2, <1>3, <1>4, <1>5, <1>6, <1>7, <1>8 DEF Next, Step, Finished

\* The cache implements the atomic one: a look-up, scan and all, is as good as one step, whatever
\* other requests store while it goes on.
THEOREM CacheImplementsAtomic == Spec => CacheIsAtomic
<1>1. Init => Atomic!Init
  <2> SUFFICES ASSUME Init PROVE Atomic!Init
    OBVIOUS
  <2>1. Stage = [r \in Run |-> "open"]
    BY Stages DEF Init, Stage
  <2> QED
    BY <2>1 DEF Init, Atomic!Init, Stage
<1>2. (TypeOK /\ Earned) /\ [Next]_vars => [Atomic!Next]_(Atomic!vars)
  BY CacheAssumption, AtomicStep
<1> QED
  BY <1>1, <1>2, CacheInvariant, PTL DEF Spec, CacheIsAtomic, Atomic!Spec
=============================================================================
