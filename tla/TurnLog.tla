------------------------------ MODULE TurnLog ------------------------------
(***************************************************************************)
(* What the conversation store promises, without saying how: every session *)
(* holds a log of the requests whose turns were stored in it.  A log grows *)
(* at its end, by one request at a time, and a request is stored at most   *)
(* once.  The only other thing that may happen to a log is that it goes    *)
(* away entirely, because its session was deleted or all data was cleared. *)
(*                                                                         *)
(* A reader of the chat therefore never sees a hole in the numbering, two  *)
(* turns with one number, or an old turn replaced by another.              *)
(***************************************************************************)
EXTENDS Naturals, Sequences

CONSTANTS Request,   \* the research requests
          Session    \* the session ids

VARIABLES log,       \* log[s]: the requests stored in session s, oldest first
          logged     \* the requests that were stored, whether or not their log still exists

vars == <<log, logged>>

Init ==
  /\ log = [s \in Session |-> <<>>]
  /\ logged = {}

Store(r, s) ==
  /\ r \notin logged
  /\ log' = [log EXCEPT ![s] = Append(@, r)]
  /\ logged' = logged \cup {r}

Forget(S) ==
  /\ log' = [s \in Session |-> IF s \in S THEN <<>> ELSE log[s]]
  /\ UNCHANGED logged

Next ==
  \/ \E r \in Request, s \in Session : Store(r, s)
  \/ \E S \in SUBSET Session : Forget(S)

Spec == Init /\ [][Next]_vars
=============================================================================
