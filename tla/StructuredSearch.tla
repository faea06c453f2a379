-------------------------- MODULE StructuredSearch --------------------------
(***************************************************************************)
(* What concurrent searches promise, without saying how: a search asks     *)
(* sources it selected, waits for all of them and then returns and reports *)
(* what came back; or it is given up, and then nothing more comes back to  *)
(* it.  No search disturbs another.                                        *)
(***************************************************************************)
CONSTANTS Search, Source

VARIABLES
  stage,     \* "new", "open", then "done", "failed" or "cancelled"
  selected,  \* the sources of the search
  asked,     \* the calls made, pairs of a search and a source
  running,   \* those under way
  found,     \* those that came back with documents
  returned,  \* the sources whose documents the search returns
  report     \* what it says of each selected source, if anything

vars == <<stage, selected, asked, running, found, returned, report>>

Of(u, S) == {u} \X S

NoReport == [s \in {} |-> ""]

Init ==
  /\ stage = [u \in Search |-> "new"]
  /\ selected = [u \in Search |-> {}]
  /\ asked = {} /\ running = {} /\ found = {}
  /\ returned = [u \in Search |-> {}]
  /\ report = [u \in Search |-> NoReport]

\* A search of the web alone may ask for the documentation too.
Askable(S) == IF S = {"web"} THEN {"web", "official_docs"} ELSE S

Open(u) ==
  /\ stage[u] = "new"
  /\ UNCHANGED <<found, returned, report>>
  /\ stage' = [stage EXCEPT ![u] = "open"]
  /\ \E S \in SUBSET Source : \E A \in SUBSET Askable(S) :
       /\ "web" \in A
       /\ selected' = [selected EXCEPT ![u] = S]
       /\ asked' = asked \cup Of(u, A)
       /\ running' = running \cup Of(u, A)

\* A call of an open search comes back.
Return(c) ==
  /\ stage[c[1]] = "open"
  /\ UNCHANGED <<stage, selected, asked, returned, report>>
  /\ running' = running \ {c}
  /\ found' \in {found, found \cup {c}}

Word == {"ok", "empty", "failed", "timeout", "skipped"}

\* The reports that are true: "ok" for the sources with documents, "skipped" for those not asked
Truthful(u) ==
  {f \in [selected[u] -> Word] :
     \A s \in selected[u] : /\ f[s] = "ok" <=> <<u, s>> \in found
                            /\ f[s] = "skipped" <=> <<u, s>> \notin asked}

\* What a search may return: what was found, and all of it that is from the web
Returnable(u) ==
  {R \in SUBSET Source : /\ \A s \in R : <<u, s>> \in found
                         /\ <<u, "web">> \in found => "web" \in R}

Close(u) ==
  /\ stage[u] = "open"
  /\ UNCHANGED <<selected, asked, running, found>>
  /\ \A s \in Source : <<u, s>> \notin running
  /\ stage' = [stage EXCEPT ![u] = "done"]
  /\ \E R \in Returnable(u) : returned' = [returned EXCEPT ![u] = R]
  /\ \E f \in Truthful(u) \cup {NoReport} : report' = [report EXCEPT ![u] = f]

\* A search is given up with its web call; its other calls are told to end.
Abort(u) ==
  /\ stage[u] = "open"
  /\ UNCHANGED <<selected, asked, found, returned, report>>
  /\ \E end \in {"failed", "cancelled"} : stage' = [stage EXCEPT ![u] = end]
  /\ running' = running \ {<<u, "web">>}

\* They do, and bring nothing.
Reap(c) ==
  /\ stage[c[1]] \in {"failed", "cancelled"}
  /\ UNCHANGED <<stage, selected, asked, found, returned, report>>
  /\ running' = running \ {c}

Next ==
  \/ \E u \in Search : Open(u) \/ Close(u) \/ Abort(u)
  \/ \E c \in running : Return(c) \/ Reap(c)

Spec == Init /\ [][Next]_vars
=============================================================================
