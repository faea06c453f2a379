---------------------------- MODULE AtomicCache ----------------------------
(***************************************************************************)
(* What the shared answer cache promises, without saying how: a look-up is *)
(* one step, and takes the answer of the closest question that is stored   *)
(* at that moment.  An answer is stored under its own question, and is     *)
(* given out without its sources only while whoever stored it is about to  *)
(* add them.                                                               *)
(***************************************************************************)
EXTENDS Integers

CONSTANTS
  Run, Question,
  Score,      \* how close two questions are
  Threshold,  \* how close is close enough
  Timely,     \* the questions that have to be researched
  Answer, NoAnswer

VARIABLES
  asked,      \* asked[r]: the question of r
  stage,      \* "open"; "found" or "live", by where its answer is from; "publishing"; "closed"
  answer,     \* its answer
  sourced,    \* does it have the sources of its answer
  entry       \* entry[q]: the answer that is stored for q

vars == <<asked, stage, answer, sourced, entry>>

Init ==
  /\ asked \in [Run -> Question]
  /\ stage = [r \in Run |-> "open"]
  /\ answer = [r \in Run |-> NoAnswer]
  /\ sourced = [r \in Run |-> FALSE]
  /\ entry = [q \in Question |-> NoAnswer]

\* The stored questions closest to that of r, if they are close enough
Closest(r) ==
  {q \in Question : /\ entry[q] # NoAnswer
                    /\ Score[asked[r]][q] >= Threshold
                    /\ \A p \in Question : entry[p] # NoAnswer => Score[asked[r]][q] >= Score[asked[r]][p]}

Goto(r, from, to) == stage[r] = from /\ stage' = [stage EXCEPT ![r] = to]

LookUp(r) ==
  /\ Goto(r, "open", "found")
  /\ asked[r] \notin Timely
  /\ \E q \in Closest(r) : answer' = [answer EXCEPT ![r] = entry[q]]
  /\ UNCHANGED <<asked, sourced, entry>>

TakeSources(r) ==
  /\ Goto(r, "found", "closed")
  /\ \E s \in BOOLEAN : /\ s \/ \E w \in Run : stage[w] = "publishing" /\ answer[w] = answer[r]
                        /\ sourced' = [sourced EXCEPT ![r] = s]
  /\ UNCHANGED <<asked, answer, entry>>

Research(r) ==
  /\ Goto(r, "open", "live")
  /\ \E a \in Answer : answer' = [answer EXCEPT ![r] = a]
  /\ \E s \in BOOLEAN : sourced' = [sourced EXCEPT ![r] = s]
  /\ UNCHANGED <<asked, entry>>

\* Only answers with sources are stored.
Publish(r) ==
  /\ Goto(r, "live", "publishing")
  /\ sourced[r] /\ asked[r] \notin Timely
  /\ entry' = [entry EXCEPT ![asked[r]] = answer[r]]
  /\ UNCHANGED <<asked, answer, sourced>>

Close(r) ==
  /\ Goto(r, "live", "closed") \/ Goto(r, "publishing", "closed")
  /\ UNCHANGED <<asked, answer, sourced, entry>>

Next ==
  \E r \in Run : LookUp(r) \/ TakeSources(r) \/ Research(r) \/ Publish(r) \/ Close(r)

Spec == Init /\ [][Next]_vars
=============================================================================
