------------------------- MODULE SourceSearchProofs -------------------------
(***************************************************************************)
(* Proofs about SourceSearch, for any searches, routes and number of       *)
(* slots.                                                                  *)
(*                                                                         *)
(* Two invariants.  Slots is about the semaphore: its queue holds waiting  *)
(* calls, none of them twice, and its value and the calls in flight make   *)
(* up the limit.  Books is about the searches: where the web call of a     *)
(* search stands in each phase, which calls are being cancelled, and what  *)
(* is known of the sources when the report is written.                     *)
(***************************************************************************)
EXTENDS SourceSearch, FiniteSetTheorems, SequenceTheorems, TLAPS

-----------------------------------------------------------------------------
(* The semaphore *)

QueueOK ==
  /\ \A i \in 1..Len(queue) : call[queue[i]] = "queued"
  /\ \A i, j \in 1..Len(queue) : queue[i] = queue[j] => i = j

Slots ==
  /\ queue \in Seq(Call) /\ free \in Nat
  /\ QueueOK
  /\ IsFiniteSet(InFlight) /\ SlotsConserved

\* Removing the i-th element moves those behind it.
LEMMA RemoveAtProperties ==
  ASSUME NEW S, NEW s \in Seq(S), NEW i \in 1..Len(s)
  PROVE  /\ RemoveAt(s, i) \in Seq(S)
         /\ Len(RemoveAt(s, i)) = Len(s) - 1
         /\ \A k \in 1..(Len(s) - 1) : RemoveAt(s, i)[k] = IF k < i THEN s[k] ELSE s[k + 1]
<1> DEFINE a == SubSeq(s, 1, i - 1)
           b == SubSeq(s, i + 1, Len(s))
<1>1. Len(s) \in Nat /\ \A k \in 1..Len(s) : s[k] \in S
  OBVIOUS
<1>2. a \in Seq(S) /\ Len(a) = i - 1 /\ \A k \in 1..(i-1) : a[k] = s[k]
  <2>1. \A k \in 1..(i-1) : s[k] \in S
    BY <1>1
  <2>2. /\ a \in Seq(S)
        /\ Len(a) = IF 1 <= i - 1 THEN (i - 1) - 1 + 1 ELSE 0
        /\ \A k \in 1..((i - 1) - 1 + 1) : a[k] = s[1 + k - 1]
    BY <1>1, <2>1, SubSeqProperties
  <2> QED
    BY <2>2, <1>1
<1>3. b \in Seq(S) /\ Len(b) = Len(s) - i /\ \A k \in 1..(Len(s) - i) : b[k] = s[i + k]
  <2>1. \A k \in (i+1)..Len(s) : s[k] \in S
    BY <1>1
  <2>2. /\ b \in Seq(S)
        /\ Len(b) = IF i + 1 <= Len(s) THEN Len(s) - (i + 1) + 1 ELSE 0
        /\ \A k \in 1..(Len(s) - (i + 1) + 1) : b[k] = s[i + 1 + k - 1]
    BY <1>1, <2>1, SubSeqProperties
  <2> QED
    BY <2>2, <1>1
<1> HIDE DEF a, b
<1>4. /\ a \o b \in Seq(S) /\ Len(a \o b) = Len(a) + Len(b)
      /\ \A k \in 1..(Len(a) + Len(b)) : (a \o b)[k] = IF k <= Len(a) THEN a[k] ELSE b[k - Len(a)]
  BY <1>2, <1>3, ConcatProperties
<1>5. ASSUME NEW k \in 1..(Len(s) - 1)
      PROVE  (a \o b)[k] = IF k < i THEN s[k] ELSE s[k + 1]
  <2>1. k \in 1..(Len(a) + Len(b)) /\ (k <= Len(a) <=> k < i)
    BY <1>1, <1>2, <1>3
  <2>2. CASE k < i
    BY <2>1, <2>2, <1>1, <1>2, <1>4
  <2>3. CASE ~(k < i)
    <3>1. k - Len(a) \in 1..(Len(s) - i) /\ i + (k - Len(a)) = k + 1
      BY <2>3, <1>1, <1>2
    <3> QED
      BY <2>1, <2>3, <3>1, <1>3, <1>4
  <2> QED
    BY <2>2, <2>3
<1>6. RemoveAt(s, i) = a \o b
  BY DEF RemoveAt, a, b
<1> QED
  BY <1>1, <1>2, <1>3, <1>4, <1>5, <1>6

\* Only calls in flight count.
LEMMA InFlightUnchanged ==
  ASSUME Slots, free' = free, \A c \in Call : call'[c] = "calling" <=> call[c] = "calling"
  PROVE  IsFiniteSet(InFlight)' /\ SlotsConserved'
<1>1. InFlight' = InFlight
  BY DEF InFlight
<1> QED
  BY <1>1 DEF Slots, SlotsConserved

\* A call that is no longer in flight has given its slot back.
LEMMA SlotReturned ==
  ASSUME Slots, NEW c \in Call, call[c] = "calling", call'[c] # "calling", free' = free + 1,
         \A d \in Call : d # c => call'[d] = call[d]
  PROVE  free' \in Nat /\ IsFiniteSet(InFlight)' /\ SlotsConserved'
<1>1. InFlight' = InFlight \ {c} /\ c \in InFlight
  BY DEF InFlight
<1>2. IsFiniteSet(InFlight \ {c}) /\ Cardinality(InFlight \ {c}) = Cardinality(InFlight) - 1
  BY <1>1, FS_RemoveElement DEF Slots
<1>3. Cardinality(InFlight) \in Nat
  BY FS_CardinalityType DEF Slots
<1> QED
  BY <1>1, <1>2, <1>3 DEF Slots, SlotsConserved

\* A call that leaves, leaves the semaphore in order.
LEMMA LeaveSlots ==
  ASSUME Slots, call \in [Call -> CallState], NEW c \in Call, Leave(c), call' = [call EXCEPT ![c] = "over"]
  PROVE  Slots'
<1>0. \A d \in Call : d # c => call'[d] = call[d]
  OBVIOUS
<1>1. CASE call[c] = "queued"
  <2>1. PICK i \in DOMAIN queue : queue[i] = c /\ queue' = RemoveAt(queue, i)
    BY <1>1 DEF Leave
  <2>2. i \in 1..Len(queue) /\ Len(queue) \in Nat
    BY <2>1 DEF Slots
  <2>3. /\ queue' \in Seq(Call) /\ Len(queue') = Len(queue) - 1
        /\ \A k \in 1..(Len(queue) - 1) : queue'[k] = IF k < i THEN queue[k] ELSE queue[k + 1]
    BY <2>1, <2>2, RemoveAtProperties DEF Slots
  <2>4. QueueOK'
    <3>1. ASSUME NEW k \in 1..Len(queue')
          PROVE  call'[queue'[k]] = "queued"
      <4>1. PICK j \in 1..Len(queue) : queue'[k] = queue[j] /\ j # i
        BY <2>2, <2>3, <3>1
      <4>2. queue[j] # c /\ call[queue[j]] = "queued" /\ queue[j] \in Call
        BY <4>1, <2>1, <2>2 DEF Slots, QueueOK
      <4> QED
        BY <4>1, <4>2, <1>0
    <3>2. ASSUME NEW k \in 1..Len(queue'), NEW l \in 1..Len(queue'), queue'[k] = queue'[l]
          PROVE  k = l
      <4>1. /\ k \in 1..(Len(queue) - 1) /\ l \in 1..(Len(queue) - 1)
            /\ k \in 1..Len(queue) /\ k + 1 \in 1..Len(queue)
            /\ l \in 1..Len(queue) /\ l + 1 \in 1..Len(queue)
        BY <2>2, <2>3
      <4>2. \A m, n \in 1..Len(queue) : queue[m] = queue[n] => m = n
        BY DEF Slots, QueueOK
      <4>3. (IF k < i THEN k ELSE k + 1) = (IF l < i THEN l ELSE l + 1)
        BY <4>1, <4>2, <2>3, <3>2
      <4> QED
        BY <4>1, <4>3, <2>2
    <3> QED
      BY <3>1, <3>2 DEF QueueOK
  <2>5. free' = free
    BY <1>1 DEF Leave
  <2>6. IsFiniteSet(InFlight)' /\ SlotsConserved'
    BY <1>1, <2>5, InFlightUnchanged
  <2> QED
    BY <2>3, <2>4, <2>5, <2>6 DEF Slots
<1>2. CASE call[c] # "queued"
  <2>1. queue' = queue
    BY <1>2 DEF Leave
  <2>2. QueueOK'
    <3>1. ASSUME NEW k \in 1..Len(queue)
          PROVE  call'[queue[k]] = "queued"
      <4>1. call[queue[k]] = "queued" /\ queue[k] \in Call
        BY DEF Slots, QueueOK
      <4> QED
        BY <4>1, <1>0, <1>2
    <3> QED
      BY <2>1, <3>1 DEF QueueOK, Slots
  <2>3. CASE call[c] = "calling"
    <3>1. free' = free + 1
      BY <2>3 DEF Leave
    <3>2. call'[c] # "calling"
      OBVIOUS
    <3> QED
      BY <1>0, <2>1, <2>2, <2>3, <3>1, <3>2, SlotReturned DEF Slots
  <2>4. CASE call[c] # "calling"
    <3>1. free' = free
      BY <1>2, <2>4 DEF Leave
    <3>2. IsFiniteSet(InFlight)' /\ SlotsConserved'
      BY <2>4, <3>1, InFlightUnchanged
    <3> QED
      BY <2>1, <2>2, <3>1, <3>2 DEF Slots
  <2> QED
    BY <2>3, <2>4
<1> QED
  BY <1>1, <1>2

\* Calls that join the queue were not in it.
LEMMA JoinQueue ==
  ASSUME Slots, NEW c \in Call, call[c] # "queued", call'[c] = "queued",
         queue' = Append(queue, c), \A d \in Call : call[d] = "queued" => call'[d] = "queued"
  PROVE  queue' \in Seq(Call) /\ QueueOK'
<1>1. queue \in Seq(Call) /\ Len(queue) \in Nat
  BY DEF Slots
<1>2. /\ queue' \in Seq(Call) /\ Len(queue') = Len(queue) + 1
      /\ \A k \in 1..Len(queue) : queue'[k] = queue[k]
      /\ queue'[Len(queue) + 1] = c
  BY <1>1, AppendProperties
<1>3. \A k \in 1..Len(queue) : queue[k] \in Call /\ call[queue[k]] = "queued" /\ queue[k] # c
  BY <1>1 DEF Slots, QueueOK
<1>4. ASSUME NEW k \in 1..Len(queue')
      PROVE  call'[queue'[k]] = "queued"
  BY <1>1, <1>2, <1>3
<1>5. ASSUME NEW k \in 1..Len(queue'), NEW l \in 1..Len(queue'), queue'[k] = queue'[l]
      PROVE  k = l
  <2>1. \A m, n \in 1..Len(queue) : queue[m] = queue[n] => m = n
    BY DEF Slots, QueueOK
  <2>2. (k \in 1..Len(queue) \/ k = Len(queue) + 1) /\ (l \in 1..Len(queue) \/ l = Len(queue) + 1)
    BY <1>1, <1>2
  <2> QED
    BY <1>2, <1>3, <1>5, <2>1, <2>2
<1> QED
  BY <1>2, <1>4, <1>5 DEF QueueOK

\* The first of the queue gets a slot.
LEMMA GrantSlots ==
  ASSUME Slots, call \in [Call -> CallState], Grant
  PROVE  Slots'
<1> DEFINE c == Head(queue)
<1>1. queue \in Seq(Call) /\ queue # <<>> /\ Len(queue) \in Nat /\ Len(queue) >= 1 /\ c = queue[1]
  BY DEF Slots, Grant
<1>2. c \in Call /\ call[c] = "queued"
  BY <1>1 DEF Slots, QueueOK
<1>3. /\ queue' \in Seq(Call) /\ Len(queue') = Len(queue) - 1
      /\ \A k \in 1..Len(queue') : queue'[k] = queue[k + 1]
  BY <1>1, HeadTailProperties DEF Grant
<1>4. \A m, n \in 1..Len(queue) : queue[m] = queue[n] => m = n
  BY DEF Slots, QueueOK
<1> HIDE DEF c
<1>5. call' = [call EXCEPT ![c] = "calling"]
  BY DEF Grant, c
<1>6. ASSUME NEW k \in 1..Len(queue')
      PROVE  call'[queue'[k]] = "queued"
  <2>1. k + 1 \in 1..Len(queue) /\ 1 \in 1..Len(queue) /\ k + 1 # 1
    BY <1>1, <1>3
  <2>2. queue[k + 1] # c /\ queue[k + 1] \in Call /\ call[queue[k + 1]] = "queued"
    BY <2>1, <1>1, <1>4 DEF Slots, QueueOK
  <2> QED
    BY <2>2, <1>3, <1>5
<1>7. ASSUME NEW k \in 1..Len(queue'), NEW l \in 1..Len(queue'), queue'[k] = queue'[l]
      PROVE  k = l
  <2>1. k + 1 \in 1..Len(queue) /\ l + 1 \in 1..Len(queue)
    BY <1>1, <1>3
  <2>2. k + 1 = l + 1
    BY <2>1, <1>3, <1>4, <1>7
  <2> QED
    BY <2>2
<1>8. QueueOK'
  BY <1>6, <1>7 DEF QueueOK
<1>9. free' = free - 1 /\ free' \in Nat
  BY DEF Slots, Grant
<1>10. InFlight' = InFlight \cup {c} /\ c \notin InFlight
  BY <1>2, <1>5 DEF InFlight
<1>11. IsFiniteSet(InFlight \cup {c}) /\ Cardinality(InFlight \cup {c}) = Cardinality(InFlight) + 1
  BY <1>10, FS_AddElement DEF Slots
<1>12. Cardinality(InFlight) \in Nat
  BY FS_CardinalityType DEF Slots
<1> QED
  BY <1>3, <1>8, <1>9, <1>10, <1>11, <1>12 DEF Slots, SlotsConserved

-----------------------------------------------------------------------------
(* The searches *)

\* Where the web call stands.
WebOK ==
  \A u \in Search :
    /\ phase[u] = "new" => \A s \in Source : call[<<u, s>>] = "none"
    /\ phase[u] = "web" => call[<<u, "web">>] \in {"queued", "calling"}
    /\ phase[u] \in {"gather", "done", "failed", "cancelled"} => call[<<u, "web">>] = "over"

\* What is known of the sources: documents come from calls that went well, calls are made for
\* sources that may be asked, and of the documents only those of the web are merged at first.
Known ==
  \A u \in Search :
    /\ \A s \in Source : result[<<u, s>>].docs => /\ call[<<u, s>>] # "none"
                                                  /\ result[<<u, s>>].status = "ok"
    /\ phase[u] # "new" => /\ "web" \in sources[u]
                           /\ \A s \in Source : call[<<u, s>>] # "none" => s \in Askable(sources[u])
    /\ phase[u] = "gather" => merged[u] = {s \in {"web"} : result[<<u, s>>].docs}

Books == TypeOK /\ Slots /\ WebOK /\ CancelledExactly /\ Known

\* A call is a pair.
LEMMA CallPairs ==
  ASSUME NEW c \in Call
  PROVE  c[1] \in Search /\ c[2] \in Source /\ c = <<c[1], c[2]>>
  BY DEF Call

\* A search and a source make a call.
LEMMA PairCalls ==
  ASSUME NEW u \in Search, NEW s \in Source
  PROVE  /\ <<u, s>> \in Call /\ <<u, s>>[1] = u /\ <<u, s>>[2] = s
         /\ <<u, "web">> \in Call
  BY DEF Call, Source

\* The calls of a search
LEMMA OwnCalls ==
  ASSUME NEW u \in Search, NEW c \in Call
  PROVE  c \in CallsOf(u) <=> c[1] = u
  BY DEF CallsOf, Call

\* It holds at the beginning.
LEMMA BooksInit ==
  ASSUME SearchAssumption, Init
  PROVE  Books
<1>1. ConcurrencyLimit \in Nat
  BY DEF SearchAssumption
<1>2. NoResult \in Result /\ NoResult.docs = FALSE
  BY DEF NoResult, Res, Result
<1>3. <<>> \in Seq(Call) /\ Len(<<>>) = 0
  OBVIOUS
<1>4. NoReport \in Reports
  <2>1. NoReport \in [{} -> Status]
    BY DEF NoReport
  <2>2. {} \in SUBSET Source
    OBVIOUS
  <2>3. [{} -> Status] \in {[S -> Status] : S \in SUBSET Source}
    BY <2>2
  <2> QED
    BY <2>1, <2>3 DEF Reports
<1>5. TypeOK
  <2>1. call \in [Call -> CallState] /\ result \in [Call -> Result]
    BY <1>2 DEF Init, CallState
  <2>2. report \in [Search -> Reports]
    BY <1>4 DEF Init
  <2> QED
    BY <1>1, <1>3, <2>1, <2>2 DEF Init, TypeOK, Phase
<1>6. Slots
  <2>1. InFlight = {}
    BY DEF Init, InFlight
  <2>2. IsFiniteSet({}) /\ Cardinality({}) = 0
    BY FS_EmptySet
  <2>3. QueueOK
    BY <1>3 DEF Init, QueueOK
  <2> QED
    BY <1>1, <1>3, <2>1, <2>2, <2>3 DEF Init, Slots, SlotsConserved
<1>7. WebOK
  BY PairCalls DEF Init, WebOK
<1>8. CancelledExactly
  BY DEF Init, CancelledExactly, Pending
<1>9. Known
  BY <1>2, PairCalls DEF Init, Known
<1> QED
  BY <1>5, <1>6, <1>7, <1>8, <1>9 DEF Books

\* A background call that goes on, or ends, changes nothing else of what is known.
LEMMA CallGoesOn ==
  ASSUME Books, NEW c \in Call, c[2] \in Background, NEW x \in CallState \ {"none"},
         call[c] # "none", call' = [call EXCEPT ![c] = x], UNCHANGED searchVars,
         \A d \in Call : d # c => result'[d] = result[d],
         result'[c].docs => result'[c].status = "ok"
  PROVE  WebOK' /\ Known'
<1>1. /\ call \in [Call -> CallState]
      /\ \A d \in Call : d # c => call'[d] = call[d]
      /\ call'[c] = x
  BY DEF Books, TypeOK
<1>2. ASSUME NEW u \in Search
      PROVE  <<u, "web">> # c /\ <<u, "web">> \in Call
  <2>1. "web" \in Source /\ "web" \notin Background
    BY DEF Source, Background
  <2>2. <<u, "web">>[2] = "web"
    OBVIOUS
  <2> QED
    BY <2>1, <2>2, PairCalls
<1>3. WebOK'
  <2> SUFFICES ASSUME NEW u \in Search
               PROVE  /\ phase[u] = "new" => \A s \in Source : call'[<<u, s>>] = "none"
                      /\ phase[u] = "web" => call'[<<u, "web">>] \in {"queued", "calling"}
                      /\ phase[u] \in {"gather", "done", "failed", "cancelled"} => call'[<<u, "web">>] = "over"
    BY DEF WebOK, searchVars
  <2>1. call'[<<u, "web">>] = call[<<u, "web">>]
    BY <1>1, <1>2
  <2>2. ASSUME phase[u] = "new", NEW s \in Source
        PROVE  call'[<<u, s>>] = "none"
    <3>1. WebOK
      BY DEF Books
    <3>2. call[<<u, s>>] = "none"
      BY <2>2, <3>1 DEF WebOK
    <3>3. <<u, s>> \in Call
      BY PairCalls
    <3> QED
      BY <1>1, <3>2, <3>3
  <2> QED
    BY <2>1, <2>2 DEF Books, WebOK
<1>4. Known'
  <2> SUFFICES ASSUME NEW u \in Search
               PROVE  /\ \A s \in Source : result'[<<u, s>>].docs => /\ call'[<<u, s>>] # "none"
                                                                     /\ result'[<<u, s>>].status = "ok"
                      /\ phase[u] # "new" =>
                           /\ "web" \in sources[u]
                           /\ \A s \in Source : call'[<<u, s>>] # "none" => s \in Askable(sources[u])
                      /\ phase[u] = "gather" => merged[u] = {s \in {"web"} : result'[<<u, s>>].docs}
    BY DEF Known, searchVars
  <2>1. ASSUME NEW s \in Source
        PROVE  /\ result'[<<u, s>>].docs => /\ call'[<<u, s>>] # "none"
                                            /\ result'[<<u, s>>].status = "ok"
               /\ call'[<<u, s>>] # "none" <=> call[<<u, s>>] # "none"
    <3>1. <<u, s>> \in Call
      BY PairCalls
    <3>2. CASE <<u, s>> = c
      BY <1>1, <3>2
    <3>3. CASE <<u, s>> # c
      BY <1>1, <3>1, <3>3 DEF Books, Known
    <3> QED
      BY <3>2, <3>3
  <2>2. result'[<<u, "web">>] = result[<<u, "web">>]
    BY <1>2
  <2> QED
    BY <2>1, <2>2 DEF Books, Known
<1> QED
  BY <1>3, <1>4

\* A result is of the right type, and has documents only if the search went well.
LEMMA ResultTypes ==
  ASSUME NEW reply \in Reply
  PROVE  /\ Normalized(reply) \in Result /\ (Normalized(reply).docs => Normalized(reply).status = "ok")
         /\ Adapted(reply) \in Result /\ (Adapted(reply).docs => Adapted(reply).status = "ok")
         /\ NoResult \in Result /\ ~NoResult.docs /\ TimedOut \in Result /\ ~TimedOut.docs
  BY DEF Reply, Normalized, Adapted, NoResult, TimedOut, Res, Result

-----------------------------------------------------------------------------
(* The calls *)

\* A call that is still to be cancelled belongs to a search that is over, and is not a web call.
LEMMA DyingCalls ==
  ASSUME Books, NEW c \in dying
  PROVE  /\ c \in Call /\ c[2] \in Background
         /\ call[c] \in {"created", "queued", "calling"}
         /\ phase[c[1]] \in {"failed", "cancelled"}
<1>1. c \in Pending /\ phase[c[1]] \in {"failed", "cancelled"}
  BY DEF Books, CancelledExactly
<1>2. c \in Call /\ call[c] \in {"created", "queued", "calling"}
  BY <1>1 DEF Pending
<1>3. c[1] \in Search /\ c[2] \in Source /\ c = <<c[1], c[2]>>
  BY <1>2, CallPairs
<1>4. WebOK
  BY DEF Books
<1>5. c[2] # "web"
  BY <1>1, <1>2, <1>3, <1>4 DEF WebOK
<1> QED
  BY <1>1, <1>2, <1>3, <1>5 DEF Source

\* A call that goes on, or one that nobody is cancelling, does not change who is to be cancelled.
LEMMA CancelledKept ==
  ASSUME Books, NEW c \in Call, NEW x \in CallState, call' = [call EXCEPT ![c] = x],
         phase' = phase, dying' = dying, c \in Pending,
         x \in {"created", "queued", "calling"} \/ c \notin dying
  PROVE  CancelledExactly'
<1>1. call \in [Call -> CallState] /\ CancelledExactly
  BY DEF Books, TypeOK
<1>2. CASE x \in {"created", "queued", "calling"}
  <2>1. Pending' = Pending
    BY <1>1, <1>2 DEF Pending
  <2> QED
    BY <1>1, <2>1 DEF CancelledExactly
<1>3. CASE x \notin {"created", "queued", "calling"} /\ c \notin dying
  <2>1. Pending' = Pending \ {c}
    BY <1>1, <1>3 DEF Pending
  <2> QED
    BY <1>1, <1>3, <2>1 DEF CancelledExactly
<1> QED
  BY <1>2, <1>3

\* A background call starts.
LEMMA StartKeeps ==
  ASSUME Books, NEW c \in Call, Start(c)
  PROVE  Books'
<1>0. call \in [Call -> CallState] /\ Slots /\ WebOK
  BY DEF Books, TypeOK
<1>1. call[c] = "created" /\ call' = [call EXCEPT ![c] = "queued"] /\ queue' = Append(queue, c)
  BY DEF Start
<1>2. c[2] \in Background
  <2>1. c[1] \in Search /\ c[2] \in Source /\ c = <<c[1], c[2]>>
    BY CallPairs
  <2>2. phase[c[1]] \in Phase
    BY <2>1 DEF Books, TypeOK
  <2>3. c[2] # "web"
    BY <1>0, <1>1, <2>1, <2>2 DEF WebOK, Phase
  <2> QED
    BY <2>1, <2>3 DEF Source
<1>3. WebOK' /\ Known'
  <2>1. \A d \in Call : result'[d] = result[d]
    BY DEF Start
  <2>2. result'[c].docs => result'[c].status = "ok"
    BY <2>1, CallPairs DEF Books, Known
  <2>3. UNCHANGED searchVars
    BY DEF Start
  <2>4. "queued" \in CallState \ {"none"}
    BY DEF CallState
  <2> QED
    BY <1>1, <1>2, <2>1, <2>2, <2>3, <2>4, CallGoesOn
<1>4. CancelledExactly'
  <2>1. c \in Pending /\ "queued" \in CallState
    BY <1>1 DEF Pending, CallState
  <2>2. phase' = phase /\ dying' = dying
    BY DEF Start, searchVars
  <2> QED
    BY <1>1, <2>1, <2>2, CancelledKept
<1>5. Slots'
  <2>1. free' = free
    BY DEF Start
  <2>2. \A d \in Call : call[d] = "queued" => call'[d] = "queued"
    BY <1>0, <1>1
  <2>3. queue' \in Seq(Call) /\ QueueOK'
    BY <1>0, <1>1, <2>2, JoinQueue
  <2>4. IsFiniteSet(InFlight)' /\ SlotsConserved'
    BY <1>0, <1>1, <2>1, InFlightUnchanged
  <2> QED
    BY <1>0, <2>1, <2>3, <2>4 DEF Slots
<1>6. TypeOK'
  <2>1. call' \in [Call -> CallState]
    BY <1>0, <1>1 DEF CallState
  <2>2. queue' \in Seq(Call)
    BY <1>5 DEF Slots
  <2> QED
    BY <2>1, <2>2 DEF Books, TypeOK, Start, searchVars
<1> QED
  BY <1>3, <1>4, <1>5, <1>6 DEF Books

\* A slot is granted.
LEMMA GrantKeeps ==
  ASSUME Books, Grant
  PROVE  Books'
<1> DEFINE c == Head(queue)
<1>0. call \in [Call -> CallState] /\ Slots /\ WebOK
  BY DEF Books, TypeOK
<1>1. c \in Call /\ call[c] = "queued"
  <2>1. queue \in Seq(Call) /\ queue # <<>> /\ Len(queue) \in Nat /\ Len(queue) >= 1 /\ c = queue[1]
    BY <1>0 DEF Slots, Grant
  <2> QED
    BY <1>0, <2>1 DEF Slots, QueueOK
<1>2. call' = [call EXCEPT ![c] = "calling"] /\ UNCHANGED <<searchVars, result, dying>>
  BY DEF Grant
<1> HIDE DEF c
<1>3. Slots'
  BY <1>0, GrantSlots
<1>4. CancelledExactly'
  <2>1. c \in Pending /\ "calling" \in CallState
    BY <1>1 DEF Pending, CallState
  <2>2. phase' = phase /\ dying' = dying
    BY <1>2 DEF searchVars
  <2> QED
    BY <1>1, <1>2, <2>1, <2>2, CancelledKept
<1>5. ASSUME NEW d \in Call
      PROVE  /\ (call'[d] = "none") <=> (call[d] = "none")
             /\ call[d] \in {"queued", "calling"} => call'[d] \in {"queued", "calling"}
             /\ call[d] = "over" => call'[d] = "over"
  <2>1. CASE d = c
    BY <1>0, <1>1, <1>2, <2>1
  <2>2. CASE d # c
    <3>1. call'[d] = call[d]
      BY <1>0, <1>2, <2>2
    <3> QED
      BY <3>1
  <2> QED
    BY <2>1, <2>2
<1>6. WebOK'
  <2> SUFFICES ASSUME NEW u \in Search
               PROVE  /\ phase[u] = "new" => \A s \in Source : call'[<<u, s>>] = "none"
                      /\ phase[u] = "web" => call'[<<u, "web">>] \in {"queued", "calling"}
                      /\ phase[u] \in {"gather", "done", "failed", "cancelled"} => call'[<<u, "web">>] = "over"
    BY <1>2 DEF WebOK, searchVars
  <2>1. \A s \in Source : <<u, s>> \in Call
    BY PairCalls
  <2>2. <<u, "web">> \in Call
    BY <2>1 DEF Source
  <2>3. /\ phase[u] = "new" => \A s \in Source : call[<<u, s>>] = "none"
        /\ phase[u] = "web" => call[<<u, "web">>] \in {"queued", "calling"}
        /\ phase[u] \in {"gather", "done", "failed", "cancelled"} => call[<<u, "web">>] = "over"
    BY <1>0 DEF WebOK
  <2>5. \A s \in Source : call[<<u, s>>] = "none" => call'[<<u, s>>] = "none"
    BY <1>5, <2>1, Zenon
  <2>6. /\ call[<<u, "web">>] \in {"queued", "calling"} => call'[<<u, "web">>] \in {"queued", "calling"}
        /\ call[<<u, "web">>] = "over" => call'[<<u, "web">>] = "over"
    BY <1>5, <2>2, Zenon
  <2> QED
    BY <2>3, <2>5, <2>6, Zenon
<1>7. Known'
  <2> SUFFICES ASSUME NEW u \in Search
               PROVE  /\ \A s \in Source : result[<<u, s>>].docs => /\ call'[<<u, s>>] # "none"
                                                                    /\ result[<<u, s>>].status = "ok"
                      /\ phase[u] # "new" =>
                           /\ "web" \in sources[u]
                           /\ \A s \in Source : call'[<<u, s>>] # "none" => s \in Askable(sources[u])
                      /\ phase[u] = "gather" => merged[u] = {s \in {"web"} : result[<<u, s>>].docs}
    BY <1>2 DEF Known, searchVars
  <2>1. \A s \in Source : <<u, s>> \in Call
    BY PairCalls
  <2>2. Known
    BY DEF Books
  <2>3. \A s \in Source : (call'[<<u, s>>] = "none") <=> (call[<<u, s>>] = "none")
    BY <1>5, <2>1, Zenon
  <2> QED
    BY <2>2, <2>3 DEF Known
<1>8. TypeOK'
  <2>1. call' \in [Call -> CallState]
    BY <1>0, <1>2 DEF CallState
  <2>2. queue' \in Seq(Call) /\ free' \in Nat
    BY <1>3 DEF Slots
  <2> QED
    BY <1>2, <2>1, <2>2 DEF Books, TypeOK, searchVars
<1> QED
  BY <1>3, <1>4, <1>6, <1>7, <1>8 DEF Books

\* A background call ends, answered or given up.
LEMMA EndKeeps ==
  ASSUME Books, NEW c \in Call, c[2] \in Background, call[c] \in {"queued", "calling"}, c \notin dying,
         NEW r \in Result, r.docs => r.status = "ok", Over(c, r), UNCHANGED <<searchVars, dying>>
  PROVE  Books'
<1>0. call \in [Call -> CallState] /\ result \in [Call -> Result] /\ Slots
  BY DEF Books, TypeOK
<1>1. call' = [call EXCEPT ![c] = "over"] /\ result' = [result EXCEPT ![c] = r] /\ Leave(c)
  BY DEF Over
<1>2. WebOK' /\ Known'
  <2>1. "over" \in CallState \ {"none"} /\ call[c] # "none"
    BY DEF CallState
  <2>2. result'[c] = r /\ \A d \in Call : d # c => result'[d] = result[d]
    BY <1>0, <1>1
  <2>3. UNCHANGED searchVars
    OBVIOUS
  <2>4. result'[c].docs => result'[c].status = "ok"
    BY <2>2
  <2> QED
    BY <1>1, <2>1, <2>2, <2>3, <2>4, CallGoesOn
<1>3. CancelledExactly'
  <2>1. c \in Pending /\ "over" \in CallState
    BY DEF Pending, CallState
  <2>2. phase' = phase /\ dying' = dying
    BY DEF searchVars
  <2> QED
    BY <1>1, <2>1, <2>2, CancelledKept
<1>4. Slots'
  BY <1>0, <1>1, LeaveSlots
<1>5. TypeOK'
  <2>1. call' \in [Call -> CallState] /\ result' \in [Call -> Result]
    BY <1>0, <1>1 DEF CallState
  <2>2. queue' \in Seq(Call) /\ free' \in Nat
    BY <1>4 DEF Slots
  <2> QED
    BY <2>1, <2>2 DEF Books, TypeOK, searchVars
<1> QED
  BY <1>2, <1>3, <1>4, <1>5 DEF Books

\* A cancelled call unwinds.
LEMMA UnwindKeeps ==
  ASSUME Books, NEW c \in Call, Unwind(c)
  PROVE  Books'
<1>0. call \in [Call -> CallState] /\ result \in [Call -> Result] /\ Slots /\ CancelledExactly
  BY DEF Books, TypeOK
<1>1. /\ call' = [call EXCEPT ![c] = "over"] /\ Leave(c) /\ dying' = dying \ {c}
      /\ c \in dying /\ UNCHANGED <<searchVars, result>>
  BY DEF Unwind
<1>2. c[2] \in Background /\ call[c] \in {"created", "queued", "calling"}
  BY <1>1, DyingCalls
<1>3. WebOK' /\ Known'
  <2>1. "over" \in CallState \ {"none"} /\ call[c] # "none"
    BY <1>2 DEF CallState
  <2>2. \A d \in Call : result'[d] = result[d]
    BY <1>1
  <2>3. UNCHANGED searchVars
    BY <1>1
  <2>4. result'[c].docs => result'[c].status = "ok"
    BY <2>2, CallPairs DEF Books, Known
  <2> QED
    BY <1>1, <1>2, <2>1, <2>2, <2>3, <2>4, CallGoesOn
<1>4. CancelledExactly'
  <2>1. Pending' = Pending \ {c}
    BY <1>0, <1>1 DEF Pending
  <2>2. phase' = phase
    BY <1>1 DEF searchVars
  <2> QED
    BY <1>0, <1>1, <2>1, <2>2 DEF CancelledExactly
<1>5. Slots'
  BY <1>0, <1>1, LeaveSlots
<1>6. TypeOK'
  <2>1. call' \in [Call -> CallState]
    BY <1>0, <1>1 DEF CallState
  <2>2. queue' \in Seq(Call) /\ free' \in Nat
    BY <1>5 DEF Slots
  <2> QED
    BY <1>1, <2>1, <2>2 DEF Books, TypeOK, searchVars
<1> QED
  BY <1>3, <1>4, <1>5, <1>6 DEF Books

-----------------------------------------------------------------------------
(* The searches *)

\* Other searches do not notice what search u does.
OthersKept(u) ==
  /\ \A c \in Call : c[1] # u => call'[c] = call[c] /\ result'[c] = result[c]
  /\ \A v \in Search : v # u => /\ phase'[v] = phase[v] /\ sources'[v] = sources[v]
                                /\ merged'[v] = merged[v]

\* What has to be shown of a step of search u.
WebOf(u) ==
  /\ phase[u] = "new" => \A s \in Source : call[<<u, s>>] = "none"
  /\ phase[u] = "web" => call[<<u, "web">>] \in {"queued", "calling"}
  /\ phase[u] \in {"gather", "done", "failed", "cancelled"} => call[<<u, "web">>] = "over"

KnownOf(u) ==
  /\ \A s \in Source : result[<<u, s>>].docs => /\ call[<<u, s>>] # "none"
                                                /\ result[<<u, s>>].status = "ok"
  /\ phase[u] # "new" => /\ "web" \in sources[u]
                         /\ \A s \in Source : call[<<u, s>>] # "none" => s \in Askable(sources[u])
  /\ phase[u] = "gather" => merged[u] = {s \in {"web"} : result[<<u, s>>].docs}

\* A step of search u keeps WebOK and Known of the others.
LEMMA OwnSearch ==
  ASSUME Books, NEW u \in Search, OthersKept(u), WebOf(u)', KnownOf(u)'
  PROVE  WebOK' /\ Known'
<1>1. ASSUME NEW v \in Search, v # u
      PROVE  WebOf(v)' /\ KnownOf(v)'
  <2>1. WebOf(v) /\ KnownOf(v)
    BY DEF Books, WebOK, Known, WebOf, KnownOf
  <2>2. /\ phase'[v] = phase[v] /\ sources'[v] = sources[v] /\ merged'[v] = merged[v]
        /\ \A s \in Source : call'[<<v, s>>] = call[<<v, s>>] /\ result'[<<v, s>>] = result[<<v, s>>]
    BY <1>1, PairCalls DEF OthersKept
  <2>3. "web" \in Source
    BY DEF Source
  <2>4. WebOf(v)'
    BY <2>1, <2>2, <2>3 DEF WebOf
  <2>5. KnownOf(v)'
    BY <2>1, <2>2, <2>3 DEF KnownOf
  <2> QED
    BY <2>4, <2>5
<1>2. \A v \in Search : WebOf(v)' /\ KnownOf(v)'
  BY <1>1
<1> QED
  BY <1>2 DEF WebOK, Known, WebOf, KnownOf

\* A search begins.
LEMMA BeginKeeps ==
  ASSUME SearchAssumption, Books, NEW u \in Search, Begin(u)
  PROVE  Books'
<1> DEFINE w == <<u, "web">>
<1>0. /\ call \in [Call -> CallState] /\ phase \in [Search -> Phase] /\ sources \in [Search -> SUBSET Source]
      /\ Slots /\ WebOK /\ Known /\ CancelledExactly
  BY DEF Books, TypeOK
<1>1. w \in Call /\ w[1] = u /\ w[2] = "web"
  BY DEF Call, Source
<1>2. PICK S \in Route[u] : \E D \in DocsPlans(S), J \in CommunityJobs(S) :
        /\ sources' = [sources EXCEPT ![u] = S]
        /\ call' = [c \in Call |-> IF c[1] # u THEN call[c]
                                   ELSE IF c[2] = "web" THEN "queued"
                                   ELSE IF c[2] \in D \cup J THEN "created" ELSE "none"]
  BY DEF Begin
<1>3. PICK D \in DocsPlans(S), J \in CommunityJobs(S) :
        /\ sources' = [sources EXCEPT ![u] = S]
        /\ call' = [c \in Call |-> IF c[1] # u THEN call[c]
                                   ELSE IF c[2] = "web" THEN "queued"
                                   ELSE IF c[2] \in D \cup J THEN "created" ELSE "none"]
  BY <1>2
<1>4. S \subseteq Source /\ "web" \in S /\ S \subseteq Askable(S) /\ D \subseteq Askable(S) /\ J \subseteq S
  BY <1>2, <1>3 DEF SearchAssumption, Askable, DocsPlans, CommunityJobs, Requests
<1>5. /\ phase[u] = "new" /\ phase' = [phase EXCEPT ![u] = "web"]
      /\ queue' = Append(queue, w) /\ UNCHANGED <<free, result, dying, merged, report>>
  BY DEF Begin
<1>6. \A c \in Call : c[1] = u => call[c] = "none"
  <2> SUFFICES ASSUME NEW c \in Call, c[1] = u
               PROVE  call[c] = "none"
    OBVIOUS
  <2>1. c[2] \in Source /\ c = <<u, c[2]>>
    BY CallPairs
  <2>2. \A s \in Source : call[<<u, s>>] = "none"
    BY <1>0, <1>5 DEF WebOK
  <2> QED
    BY <2>1, <2>2
<1>7. /\ \A c \in Call : c[1] # u => call'[c] = call[c]
      /\ call'[w] = "queued"
      /\ \A c \in Call : c[1] = u => call'[c] \in {"none", "created", "queued"}
      /\ \A c \in Call : c[1] = u /\ call'[c] # "none" => c[2] \in Askable(S)
  BY <1>1, <1>3, <1>4
<1> HIDE DEF w
<1>8. OthersKept(u)
  BY <1>0, <1>3, <1>5, <1>7 DEF OthersKept
<1>9. WebOf(u)'
  BY <1>0, <1>5, <1>7 DEF WebOf, w
<1>10. KnownOf(u)'
  <2>1. \A s \in Source : ~result[<<u, s>>].docs
    <3> SUFFICES ASSUME NEW s \in Source
                 PROVE  ~result[<<u, s>>].docs
      OBVIOUS
    <3>1. <<u, s>> \in Call /\ <<u, s>>[1] = u
      BY PairCalls
    <3>2. call[<<u, s>>] = "none"
      BY <1>6, <3>1
    <3> QED
      BY <1>0, <3>2 DEF Known
  <2>2. sources'[u] = S /\ phase'[u] = "web"
    BY <1>0, <1>3, <1>5
  <2>3. \A s \in Source : call'[<<u, s>>] # "none" => s \in Askable(S)
    <3> SUFFICES ASSUME NEW s \in Source, call'[<<u, s>>] # "none"
                 PROVE  s \in Askable(S)
      OBVIOUS
    <3>1. <<u, s>> \in Call /\ <<u, s>>[1] = u /\ <<u, s>>[2] = s
      BY PairCalls
    <3> QED
      BY <1>7, <3>1, Zenon
  <2>4. result' = result
    BY <1>5
  <2> QED
    BY <1>4, <2>1, <2>2, <2>3, <2>4 DEF KnownOf
<1>11. WebOK' /\ Known'
  BY <1>8, <1>9, <1>10, OwnSearch
<1>12. CancelledExactly'
  <2>1. \A c \in Call : c[1] # u => (c \in Pending' <=> c \in Pending)
    BY <1>7 DEF Pending
  <2>2. \A c \in Call : c[1] = u => c \notin Pending
    BY <1>6 DEF Pending
  <2>3. \A c \in Call : c[1] \in Search
    BY CallPairs
  <2>4. phase'[u] = "web" /\ \A v \in Search : v # u => phase'[v] = phase[v]
    BY <1>0, <1>5
  <2>5. Pending \subseteq Call /\ Pending' \subseteq Call
    BY DEF Pending
  <2>6. dying' = {c \in Pending' : phase'[c[1]] \in {"failed", "cancelled"}}
    BY <1>0, <1>5, <2>1, <2>2, <2>3, <2>4, <2>5 DEF CancelledExactly
  <2>7. \A c \in Pending' : phase'[c[1]] # "done"
    BY <1>0, <2>1, <2>2, <2>3, <2>4, <2>5 DEF CancelledExactly
  <2> QED
    BY <2>6, <2>7 DEF CancelledExactly
<1>13. Slots'
  <2>1. \A c \in Call : call[c] = "queued" => call'[c] = "queued"
    BY <1>6, <1>7
  <2>2. call[w] # "queued"
    BY <1>1, <1>6
  <2>3. queue' \in Seq(Call) /\ QueueOK'
    BY <1>0, <1>1, <1>5, <1>7, <2>1, <2>2, JoinQueue
  <2>4. \A c \in Call : call'[c] = "calling" <=> call[c] = "calling"
    BY <1>6, <1>7
  <2>5. free' = free
    BY <1>5
  <2>6. IsFiniteSet(InFlight)' /\ SlotsConserved'
    BY <1>0, <2>4, <2>5, InFlightUnchanged
  <2> QED
    BY <1>0, <2>3, <2>5, <2>6 DEF Slots
<1>14. TypeOK'
  <2>1. call' \in [Call -> CallState]
    BY <1>0, <1>3 DEF CallState
  <2>2. sources' \in [Search -> SUBSET Source] /\ phase' \in [Search -> Phase]
    BY <1>0, <1>3, <1>4, <1>5 DEF Phase
  <2>3. queue' \in Seq(Call) /\ free' \in Nat
    BY <1>13 DEF Slots
  <2>4. dated' \in [Search -> BOOLEAN]
    <3>1. PICK d \in BOOLEAN : dated' = [dated EXCEPT ![u] = d]
      BY DEF Begin
    <3>2. dated \in [Search -> BOOLEAN]
      BY DEF Books, TypeOK
    <3> QED
      BY <3>1, <3>2, Zenon
  <2> QED
    BY <1>5, <2>1, <2>2, <2>3, <2>4 DEF Books, TypeOK
<1> QED
  BY <1>11, <1>12, <1>13, <1>14 DEF Books

\* The web call of a search ends: the search gathers, or has failed, or was cancelled.
LEMMA WebEnds ==
  ASSUME Books, NEW u \in Search, phase[u] \in {"web", "gather"},
         NEW p \in {"gather", "failed", "cancelled"}, phase' = [phase EXCEPT ![u] = p],
         call' = [call EXCEPT ![<<u, "web">>] = "over"], Leave(<<u, "web">>),
         (p = "gather" /\ dying' = dying) \/ (p # "gather" /\ CancelBackground(u)),
         NEW r \in Result, r.docs => r.status = "ok",
         result' = [result EXCEPT ![<<u, "web">>] = r],
         merged' \in [Search -> SUBSET Source], \A v \in Search : v # u => merged'[v] = merged[v],
         p = "gather" => merged'[u] = {s \in {"web"} : r.docs},
         UNCHANGED <<sources, dated, report>>
  PROVE  Books'
<1> DEFINE w == <<u, "web">>
<1>0. /\ call \in [Call -> CallState] /\ phase \in [Search -> Phase] /\ result \in [Call -> Result]
      /\ dying \subseteq Call /\ Slots /\ WebOK /\ Known /\ CancelledExactly
  BY DEF Books, TypeOK
<1>1. w \in Call /\ w[1] = u /\ w[2] = "web"
  BY DEF Call, Source
<1>2. /\ call' = [call EXCEPT ![w] = "over"] /\ Leave(w) /\ result' = [result EXCEPT ![w] = r]
      /\ \A s \in Source : s # "web" => <<u, s>> # w
  OBVIOUS
<1> HIDE DEF w
<1>3. /\ call'[w] = "over" /\ \A c \in Call : c # w => call'[c] = call[c]
      /\ result'[w] = r /\ \A c \in Call : c # w => result'[c] = result[c]
      /\ phase'[u] = p /\ \A v \in Search : v # u => phase'[v] = phase[v]
  BY <1>0, <1>1, <1>2
<1>4. OthersKept(u)
  BY <1>1, <1>3 DEF OthersKept
<1>5. WebOf(u)'
  BY <1>3 DEF WebOf, w
<1>6. KnownOf(u)'
  <2>1. /\ "web" \in sources[u] /\ "web" \in Askable(sources[u])
        /\ \A s \in Source : call[<<u, s>>] # "none" => s \in Askable(sources[u])
        /\ \A s \in Source : result[<<u, s>>].docs => /\ call[<<u, s>>] # "none"
                                                      /\ result[<<u, s>>].status = "ok"
    BY <1>0 DEF Known, Askable
  <2>2. ASSUME NEW s \in Source
        PROVE  /\ result'[<<u, s>>].docs => /\ call'[<<u, s>>] # "none"
                                            /\ result'[<<u, s>>].status = "ok"
               /\ call'[<<u, s>>] # "none" => s \in Askable(sources[u])
    <3>1. CASE s = "web"
      BY <1>3, <2>1, <3>1 DEF w
    <3>2. CASE s # "web"
      <4>1. <<u, s>> \in Call /\ <<u, s>> # w
        BY <1>2, <3>2, PairCalls
      <4>2. call'[<<u, s>>] = call[<<u, s>>] /\ result'[<<u, s>>] = result[<<u, s>>]
        BY <1>3, <4>1
      <4> QED
        BY <2>1, <4>2
    <3> QED
      BY <3>1, <3>2
  <2>3. p = "gather" => merged'[u] = {s \in {"web"} : result'[<<u, s>>].docs}
    BY <1>3 DEF w
  <2> QED
    BY <1>3, <2>1, <2>2, <2>3 DEF KnownOf
<1>7. WebOK' /\ Known'
  BY <1>4, <1>5, <1>6, OwnSearch
<1>8. CancelledExactly'
  <2>1. Pending' = Pending \ {w} /\ Pending \subseteq Call
    BY <1>0, <1>1, <1>3 DEF Pending
  <2>2. \A c \in Call : c[1] = u => c \notin dying
    BY <1>0 DEF CancelledExactly
  <2>3. \A c \in Call : c[1] = u => (c # w <=> c[2] \in Background)
    <3> SUFFICES ASSUME NEW c \in Call, c[1] = u
                 PROVE  c # w <=> c[2] \in Background
      OBVIOUS
    <3>1. c[2] \in Source /\ c = <<u, c[2]>>
      BY CallPairs
    <3> QED
      BY <3>1 DEF w, Source, Background
  <2>4. \A c \in Call : c[1] \in Search /\ (c \in CallsOf(u) <=> c[1] = u)
    BY CallPairs, OwnCalls
  <2>5. \A c \in Pending' : phase'[c[1]] # "done"
    BY <1>0, <1>3, <2>1, <2>4 DEF CancelledExactly
  <2>6. CASE p = "gather" /\ dying' = dying
    <3>1. \A c \in Call : c \in dying' <=> c \in Pending' /\ phase'[c[1]] \in {"failed", "cancelled"}
      BY <1>0, <1>1, <1>3, <2>1, <2>2, <2>4, <2>6 DEF CancelledExactly
    <3> QED
      BY <1>0, <2>1, <2>5, <2>6, <3>1 DEF CancelledExactly
  <2>7. CASE p # "gather" /\ CancelBackground(u)
    <3>1. /\ \A c \in Call : c \in dying' <=> \/ c \in dying
                                              \/ c \in Pending /\ c[1] = u /\ c[2] \in Background
          /\ dying' \subseteq Call
      BY <1>0, <2>1, <2>4, <2>7 DEF CancelBackground
    <3>2. ASSUME NEW c \in Call
          PROVE  c \in dying' <=> c \in Pending' /\ phase'[c[1]] \in {"failed", "cancelled"}
      <4>1. CASE c[1] = u
        BY <1>1, <1>3, <2>1, <2>2, <2>3, <2>7, <3>1, <4>1
      <4>2. CASE c[1] # u
        <5>1. c # w /\ phase'[c[1]] = phase[c[1]]
          BY <1>1, <1>3, <2>4, <4>2
        <5> QED
          BY <1>0, <2>1, <3>1, <4>2, <5>1 DEF CancelledExactly
      <4> QED
        BY <4>1, <4>2
    <3> QED
      BY <2>1, <2>5, <3>1, <3>2 DEF CancelledExactly
  <2> QED
    BY <2>6, <2>7
<1>9. Slots'
  BY <1>0, <1>1, <1>2, LeaveSlots
<1>10. TypeOK'
  <2>1. call' \in [Call -> CallState] /\ result' \in [Call -> Result] /\ phase' \in [Search -> Phase]
    BY <1>0, <1>2 DEF CallState, Phase
  <2>2. queue' \in Seq(Call) /\ free' \in Nat
    BY <1>9 DEF Slots
  <2>3. dying' \subseteq Call
    BY <1>0 DEF CancelBackground, Pending
  <2> QED
    BY <2>1, <2>2, <2>3 DEF Books, TypeOK
<1> QED
  BY <1>7, <1>8, <1>9, <1>10 DEF Books

\* The web search is answered.
LEMMA WebAnswerKeeps ==
  ASSUME Books, NEW u \in Search, WebAnswer(u)
  PROVE  Books'
<1>1. PICK reply \in Reply :
        /\ Over(<<u, "web">>, Normalized(reply))
        /\ merged' = [merged EXCEPT ![u] = IF Normalized(reply).docs THEN {"web"} ELSE {}]
  BY DEF WebAnswer
<1>2. Normalized(reply) \in Result /\ (Normalized(reply).docs => Normalized(reply).status = "ok")
  BY ResultTypes
<1>3. /\ phase[u] = "web" /\ phase' = [phase EXCEPT ![u] = "gather"] /\ dying' = dying
      /\ UNCHANGED <<sources, dated, report>>
  BY DEF WebAnswer
<1>4. merged \in [Search -> SUBSET Source]
  BY DEF Books, TypeOK
<1>5. /\ merged' \in [Search -> SUBSET Source] /\ \A v \in Search : v # u => merged'[v] = merged[v]
      /\ merged'[u] = {s \in {"web"} : Normalized(reply).docs}
  <2> DEFINE m == IF Normalized(reply).docs THEN {"web"} ELSE {}
  <2>1. m \in SUBSET Source /\ m = {s \in {"web"} : Normalized(reply).docs}
    BY DEF Source
  <2>2. merged' = [merged EXCEPT ![u] = m]
    BY <1>1
  <2> HIDE DEF m
  <2> QED
    BY <1>4, <2>1, <2>2
<1>6. /\ call' = [call EXCEPT ![<<u, "web">>] = "over"] /\ Leave(<<u, "web">>)
      /\ result' = [result EXCEPT ![<<u, "web">>] = Normalized(reply)]
  BY <1>1 DEF Over
<1> QED
  BY <1>2, <1>3, <1>5, <1>6, WebEnds

\* The web search raises.
LEMMA WebRaisesKeeps ==
  ASSUME Books, NEW u \in Search, WebRaises(u)
  PROVE  Books'
<1>1. /\ phase[u] = "web" /\ phase' = [phase EXCEPT ![u] = "failed"] /\ CancelBackground(u)
      /\ UNCHANGED <<sources, dated, merged, report>>
      /\ call' = [call EXCEPT ![<<u, "web">>] = "over"] /\ Leave(<<u, "web">>)
      /\ result' = [result EXCEPT ![<<u, "web">>] = NoResult]
  BY DEF WebRaises, Over
<1>2. NoResult \in Result /\ ~NoResult.docs
  BY DEF NoResult, Res, Result
<1>3. merged' \in [Search -> SUBSET Source]
  BY <1>1 DEF Books, TypeOK
<1> QED
  BY <1>1, <1>2, <1>3, WebEnds

\* The search is cancelled.
LEMMA CancelKeeps ==
  ASSUME Books, NEW u \in Search, Cancel(u)
  PROVE  Books'
<1>1. /\ phase[u] \in {"web", "gather"} /\ phase' = [phase EXCEPT ![u] = "cancelled"] /\ CancelBackground(u)
      /\ UNCHANGED <<sources, dated, merged, report, result>>
      /\ call' = [call EXCEPT ![<<u, "web">>] = "over"] /\ Leave(<<u, "web">>)
  BY DEF Cancel
<1>2. merged' \in [Search -> SUBSET Source] /\ result \in [Call -> Result]
  BY <1>1 DEF Books, TypeOK
<1>3. <<u, "web">> \in Call /\ "web" \in Source
  BY DEF Call, Source
<1>4. /\ result[<<u, "web">>] \in Result
      /\ result[<<u, "web">>].docs => result[<<u, "web">>].status = "ok"
  BY <1>2, <1>3 DEF Books, Known
<1>5. result' = [result EXCEPT ![<<u, "web">>] = result[<<u, "web">>]]
  BY <1>1, <1>2, <1>3
<1> QED
  BY <1>1, <1>2, <1>4, <1>5, WebEnds

\* The web search is made once more: it gives its slot back and queues again.
LEMMA RetryKeeps ==
  ASSUME Books, NEW u \in Search, RetryUndated(u)
  PROVE  Books'
<1> DEFINE w == <<u, "web">>
<1>0. /\ call \in [Call -> CallState] /\ phase \in [Search -> Phase] /\ result \in [Call -> Result]
      /\ dated \in [Search -> BOOLEAN] /\ Slots /\ WebOK /\ Known /\ CancelledExactly
  BY DEF Books, TypeOK
<1>1. w \in Call /\ w[1] = u /\ w[2] = "web"
  BY DEF Call, Source
<1>2. /\ phase[u] = "web" /\ call[w] = "calling" /\ dated' = [dated EXCEPT ![u] = FALSE]
      /\ call' = [call EXCEPT ![w] = "queued"] /\ queue' = Append(queue, w) /\ free' = free + 1
      /\ UNCHANGED <<phase, sources, merged, report, result, dying>>
  BY DEF RetryUndated
<1> HIDE DEF w
<1>3. call'[w] = "queued" /\ \A c \in Call : c # w => call'[c] = call[c]
  BY <1>0, <1>1, <1>2
<1>4. OthersKept(u)
  BY <1>1, <1>2, <1>3 DEF OthersKept
<1>5. WebOf(u)'
  BY <1>2, <1>3 DEF WebOf, w
<1>6. KnownOf(u)'
  <2>1. KnownOf(u)
    BY <1>0 DEF Known, KnownOf
  <2>2. \A s \in Source : (call'[<<u, s>>] = "none") <=> (call[<<u, s>>] = "none")
    <3> SUFFICES ASSUME NEW s \in Source
                 PROVE  (call'[<<u, s>>] = "none") <=> (call[<<u, s>>] = "none")
      OBVIOUS
    <3>1. <<u, s>> \in Call
      BY PairCalls
    <3>2. CASE <<u, s>> = w
      BY <1>2, <1>3, <3>2
    <3>3. CASE <<u, s>> # w
      BY <1>3, <3>1, <3>3
    <3> QED
      BY <3>2, <3>3
  <2> QED
    BY <1>2, <2>1, <2>2 DEF KnownOf
<1>7. WebOK' /\ Known'
  BY <1>4, <1>5, <1>6, OwnSearch
<1>8. CancelledExactly'
  <2>1. w \in Pending /\ "queued" \in CallState
    BY <1>1, <1>2 DEF Pending, CallState
  <2> QED
    BY <1>1, <1>2, <2>1, CancelledKept
<1>9. Slots'
  <2>1. free' \in Nat /\ IsFiniteSet(InFlight)' /\ SlotsConserved'
    BY <1>0, <1>1, <1>2, <1>3, SlotReturned
  <2>2. \A c \in Call : call[c] = "queued" => call'[c] = "queued"
    BY <1>2, <1>3
  <2>3. queue' \in Seq(Call) /\ QueueOK'
    BY <1>0, <1>1, <1>2, <1>3, <2>2, JoinQueue
  <2> QED
    BY <2>1, <2>3 DEF Slots
<1>10. TypeOK'
  <2>1. call' \in [Call -> CallState]
    BY <1>0, <1>2 DEF CallState
  <2>2. queue' \in Seq(Call) /\ free' \in Nat
    BY <1>9 DEF Slots
  <2>3. dated' \in [Search -> BOOLEAN]
    BY <1>0, <1>2, Zenon
  <2> QED
    BY <1>2, <2>1, <2>2, <2>3 DEF Books, TypeOK
<1> QED
  BY <1>7, <1>8, <1>9, <1>10 DEF Books

-----------------------------------------------------------------------------
(* The report *)

\* The sources that came back to u with documents
Back(u) == {s \in Source : result[<<u, s>>].docs}

\* What u returns and reports, once it is done
ReportOf(u) ==
  /\ merged[u] \subseteq Back(u)
  /\ "web" \in Back(u) => "web" \in merged[u]
  /\ merged[u] \subseteq Askable(sources[u])
  /\ report[u] # NoReport =>
       /\ DOMAIN report[u] = sources[u]
       /\ \A s \in sources[u] :
            /\ report[u][s] = "ok" <=> s \in Back(u)
            /\ report[u][s] = "skipped" <=> call[<<u, s>>] = "none"

\* At its end a search has merged some of what its sources found, and all that the web did.
LEMMA MergedAtEnd ==
  ASSUME Books, NEW u \in Search, Finish(u)
  PROVE  /\ merged' = [merged EXCEPT ![u] = merged'[u]]
         /\ merged'[u] \subseteq Back(u)
         /\ "web" \in Back(u) => "web" \in merged'[u]
<1>1. merged[u] = {s \in {"web"} : result[<<u, s>>].docs}
  BY DEF Books, Known, Finish
<1>2. PICK M \in Merges(u, merged[u], {"official_docs"}) : \E N \in Merges(u, M, Community) :
        merged' = [merged EXCEPT ![u] = N]
  BY DEF Finish
<1>3. PICK N \in Merges(u, M, Community) : merged' = [merged EXCEPT ![u] = N]
  BY <1>2
<1>4. merged[u] \subseteq M /\ M \subseteq N /\ \A s \in N : result[<<u, s>>].docs
  BY <1>1, <1>2, <1>3 DEF Merges
<1>5. N \subseteq Source
  BY <1>1, <1>2, <1>3 DEF Merges, Source, Background, Community
<1>6. merged'[u] = N
  BY <1>3 DEF Books, TypeOK
<1> QED
  BY <1>1, <1>3, <1>4, <1>5, <1>6 DEF Back

\* An outcome says whether the call was made, and whether it found documents.
LEMMA OutcomeSays ==
  ASSUME Books, NEW u \in Search, NEW s \in Source
  PROVE  /\ OutcomeOf(<<u, s>>) \in Status
         /\ (OutcomeOf(<<u, s>>) = "ok") <=> result[<<u, s>>].docs
         /\ (OutcomeOf(<<u, s>>) = "skipped") <=> (call[<<u, s>>] = "none")
<1> DEFINE c == <<u, s>>
<1>1. c \in Call /\ result \in [Call -> Result]
  BY PairCalls DEF Books, TypeOK
<1>2. result[c].docs => call[c] # "none" /\ result[c].status = "ok"
  BY DEF Books, Known
<1> HIDE DEF c
<1>3. result[c].status \in {"ok", "empty", "failed", "timeout"}
  BY <1>1 DEF Result
<1>4. CASE call[c] = "none"
  BY <1>2, <1>4 DEF OutcomeOf, Status, c
<1>5. CASE call[c] # "none"
  <2>1. CASE result[c].docs
    BY <1>2, <1>5, <2>1 DEF OutcomeOf, Outcome, Status, c
  <2>2. CASE ~result[c].docs /\ result[c].status = "ok"
    BY <1>5, <2>2 DEF OutcomeOf, Outcome, Status, c
  <2>3. CASE ~result[c].docs /\ result[c].status # "ok"
    BY <1>3, <1>5, <2>3 DEF OutcomeOf, Outcome, Status, c
  <2> QED
    BY <2>1, <2>2, <2>3
<1> QED
  BY <1>4, <1>5

\* A search finishes.
LEMMA FinishKeeps ==
  ASSUME Books, NEW u \in Search, Finish(u)
  PROVE  Books' /\ ReportOf(u)'
<1>0. /\ call \in [Call -> CallState] /\ phase \in [Search -> Phase] /\ result \in [Call -> Result]
      /\ sources \in [Search -> SUBSET Source] /\ merged \in [Search -> SUBSET Source]
      /\ report \in [Search -> Reports]
      /\ Slots /\ WebOK /\ Known /\ CancelledExactly
  BY DEF Books, TypeOK
<1> DEFINE R == [s \in sources[u] |-> OutcomeOf(<<u, s>>)]
           M == merged'[u]
<1>1. /\ phase[u] = "gather" /\ Pending \cap CallsOf(u) = {} /\ phase' = [phase EXCEPT ![u] = "done"]
      /\ UNCHANGED <<sources, dated, call, queue, free, result, dying>>
  BY DEF Finish, callVars
<1>2. /\ merged' = [merged EXCEPT ![u] = M] /\ M \subseteq Back(u)
      /\ "web" \in Back(u) => "web" \in M
  BY MergedAtEnd
<1>13. PICK f \in {NoReport, R} : report' = [report EXCEPT ![u] = f]
  BY DEF Finish
<1>3. \A v \in Search : v # u => merged'[v] = merged[v]
  BY <1>0 DEF Finish
<1>4. phase'[u] = "done" /\ \A v \in Search : v # u => phase'[v] = phase[v]
  BY <1>0, <1>1
<1>5. \A s \in sources[u] : s \in Source
  BY <1>0
<1>6. R \in [sources[u] -> Status] /\ DOMAIN R = sources[u]
  BY <1>5, OutcomeSays
<1>7. M \in SUBSET Source /\ M \subseteq Askable(sources[u])
  BY <1>0, <1>1, <1>2 DEF Known, Back
<1>8. ReportOf(u)'
  <2>1. report'[u] = f /\ sources'[u] = sources[u] /\ call' = call /\ Back(u)' = Back(u)
    BY <1>0, <1>1, <1>13 DEF Back
  <2>2. ASSUME NEW s \in sources[u]
        PROVE  /\ (R[s] = "ok") <=> (s \in Back(u))
               /\ (R[s] = "skipped") <=> (call[<<u, s>>] = "none")
    <3>1. s \in Source /\ R[s] = OutcomeOf(<<u, s>>)
      BY <1>5
    <3> QED
      BY <3>1, OutcomeSays DEF Back
  <2>3. Askable(sources[u])' = Askable(sources[u])
    BY <2>1 DEF Askable
  <2> HIDE DEF R
  <2> QED
    BY <1>2, <1>6, <1>7, <1>13, <2>1, <2>2, <2>3 DEF ReportOf
<1> HIDE DEF R, M
<1>9. WebOK' /\ Known'
  <2>1. OthersKept(u)
    BY <1>1, <1>3, <1>4 DEF OthersKept
  <2>2. WebOf(u)'
    BY <1>0, <1>1, <1>4 DEF WebOf, WebOK
  <2>3. KnownOf(u)'
    BY <1>0, <1>1, <1>4 DEF KnownOf, Known
  <2> QED
    BY <2>1, <2>2, <2>3, OwnSearch
<1>10. CancelledExactly'
  <2>1. Pending' = Pending /\ dying' = dying
    BY <1>1 DEF Pending
  <2>2. \A c \in Pending : c \in Call /\ c[1] # u /\ c[1] \in Search
    BY <1>1, OwnCalls, CallPairs DEF Pending
  <2>3. \A c \in Pending : phase'[c[1]] = phase[c[1]]
    BY <1>4, <2>2
  <2> QED
    BY <1>0, <2>1, <2>3 DEF CancelledExactly
<1>11. Slots'
  <2>1. InFlight' = InFlight
    BY <1>1 DEF InFlight
  <2> QED
    BY <1>0, <1>1, <2>1 DEF Slots, QueueOK, SlotsConserved
<1>12. TypeOK'
  <2>1. merged' \in [Search -> SUBSET Source]
    BY <1>0, <1>2, <1>7
  <2>2. R \in Reports
    <3>1. sources[u] \in SUBSET Source
      BY <1>0
    <3>2. [sources[u] -> Status] \in {[S -> Status] : S \in SUBSET Source}
      BY <3>1
    <3> QED
      BY <1>6, <3>2, Zenon DEF Reports
  <2>5. NoReport \in Reports
    <3>1. NoReport \in [{} -> Status] /\ {} \in SUBSET Source
      BY DEF NoReport
    <3> QED
      BY <3>1, Zenon DEF Reports
  <2>3. report' \in [Search -> Reports]
    BY <1>0, <1>13, <2>2, <2>5
  <2>4. phase' \in [Search -> Phase]
    BY <1>0, <1>1 DEF Phase
  <2> QED
    BY <1>1, <2>1, <2>3, <2>4 DEF Books, TypeOK
<1> QED
  BY <1>8, <1>9, <1>10, <1>11, <1>12 DEF Books

\* The calls of a finished search are at rest.
LEMMA DoneAtRest ==
  ASSUME Books, NEW u \in Search, phase[u] = "done", NEW c \in Call, c[1] = u
  PROVE  call[c] \notin {"created", "queued", "calling"} /\ c \notin dying
<1>1. c \notin Pending
  BY DEF Books, CancelledExactly
<1> QED
  BY <1>1, DyingCalls DEF Pending

\* A step of a call changes that call only.
LEMMA CallStepChanges ==
  ASSUME Books, NEW c \in Call, CallStep(c)
  PROVE  /\ call[c] \in {"created", "queued", "calling"} /\ UNCHANGED searchVars
         /\ \A d \in Call : d # c => call'[d] = call[d] /\ result'[d] = result[d]
<1>1. call \in [Call -> CallState] /\ result \in [Call -> Result]
  BY DEF Books, TypeOK
<1>2. CASE Start(c)
  BY <1>1, <1>2 DEF Start
<1>3. CASE Answer(c)
  BY <1>1, <1>3 DEF Answer, Over
<1>4. CASE Timeout(c)
  BY <1>1, <1>4 DEF Timeout, Over
<1>5. CASE Unwind(c)
  <2>1. call[c] \in {"created", "queued", "calling"}
    BY <1>5, DyingCalls DEF Unwind
  <2> QED
    BY <1>1, <1>5, <2>1 DEF Unwind
<1> QED
  BY <1>2, <1>3, <1>4, <1>5 DEF CallStep

\* A step of a search changes that search only.
LEMMA SearchStepChanges ==
  ASSUME Books, NEW v \in Search, Begin(v) \/ WebStep(v) \/ Cancel(v) \/ Finish(v)
  PROVE  /\ phase[v] # "done" /\ (phase'[v] = "done" => Finish(v))
         /\ \A c \in Call : c[1] # v => call'[c] = call[c] /\ result'[c] = result[c]
         /\ \A u \in Search : u # v => /\ phase'[u] = phase[u] /\ sources'[u] = sources[u]
                                       /\ merged'[u] = merged[u] /\ report'[u] = report[u]
<1>0. /\ call \in [Call -> CallState] /\ phase \in [Search -> Phase] /\ sources \in [Search -> SUBSET Source]
      /\ merged \in [Search -> SUBSET Source]
      /\ report \in [Search -> Reports] /\ result \in [Call -> Result]
  BY DEF Books, TypeOK
<1>1. <<v, "web">>[1] = v
  OBVIOUS
<1>2. CASE Begin(v)
  <2>1. /\ phase[v] = "new" /\ phase' = [phase EXCEPT ![v] = "web"] /\ UNCHANGED <<merged, report, result>>
    BY <1>2 DEF Begin
  <2>2. PICK S \in Route[v] : \E D \in DocsPlans(S), J \in CommunityJobs(S) :
          /\ sources' = [sources EXCEPT ![v] = S]
          /\ call' = [c \in Call |-> IF c[1] # v THEN call[c]
                                     ELSE IF c[2] = "web" THEN "queued"
                                     ELSE IF c[2] \in D \cup J THEN "created" ELSE "none"]
    BY <1>2 DEF Begin
  <2>3. \A c \in Call : c[1] # v => call'[c] = call[c]
    BY <2>2
  <2>4. \A u \in Search : u # v => sources'[u] = sources[u]
    BY <1>0, <2>2
  <2> QED
    BY <1>0, <2>1, <2>3, <2>4
<1>3. CASE RetryUndated(v)
  BY <1>0, <1>1, <1>3 DEF RetryUndated
<1>4. CASE WebAnswer(v)
  <2>1. \A c \in Call : c[1] # v => call'[c] = call[c] /\ result'[c] = result[c]
    BY <1>0, <1>1, <1>4 DEF WebAnswer, Over
  <2>2. \A u \in Search : u # v => merged'[u] = merged[u]
    BY <1>0, <1>4 DEF WebAnswer
  <2>3. phase[v] = "web" /\ phase' = [phase EXCEPT ![v] = "gather"] /\ UNCHANGED <<sources, report>>
    BY <1>4 DEF WebAnswer
  <2> QED
    BY <1>0, <2>1, <2>2, <2>3
<1>5. CASE WebRaises(v)
  BY <1>0, <1>1, <1>5 DEF WebRaises, Over
<1>6. CASE Cancel(v)
  BY <1>0, <1>1, <1>6 DEF Cancel
<1>7. CASE Finish(v)
  <2>1. \A u \in Search : u # v => merged'[u] = merged[u] /\ report'[u] = report[u]
    BY <1>0, <1>7 DEF Finish
  <2>2. phase[v] = "gather" /\ phase' = [phase EXCEPT ![v] = "done"] /\ UNCHANGED <<sources, callVars, result>>
    BY <1>7 DEF Finish
  <2> QED
    BY <1>0, <1>7, <2>1, <2>2 DEF callVars
<1> QED
  BY <1>2, <1>3, <1>4, <1>5, <1>6, <1>7 DEF WebStep

\* Granting a slot changes the call that waited first.
LEMMA GrantChanges ==
  ASSUME Books, Grant
  PROVE  /\ UNCHANGED searchVars
         /\ \E c \in Call : /\ call[c] = "queued"
                           /\ \A d \in Call : d # c => call'[d] = call[d] /\ result'[d] = result[d]
<1> DEFINE c == Head(queue)
<1>1. queue \in Seq(Call) /\ queue # <<>> /\ Len(queue) \in Nat /\ Len(queue) >= 1 /\ c = queue[1]
  BY DEF Books, Slots, Grant
<1>2. c \in Call /\ call[c] = "queued"
  BY <1>1 DEF Books, Slots, QueueOK
<1>3. call \in [Call -> CallState] /\ call' = [call EXCEPT ![c] = "calling"] /\ UNCHANGED searchVars /\ result' = result
  BY DEF Books, TypeOK, Grant
<1> HIDE DEF c
<1> QED
  BY <1>2, <1>3

\* What the report of u speaks of does not change.
Unmoved(u) ==
  /\ phase'[u] = phase[u] /\ sources'[u] = sources[u] /\ merged'[u] = merged[u]
  /\ report'[u] = report[u]
  /\ \A s \in Source : call'[<<u, s>>] = call[<<u, s>>] /\ result'[<<u, s>>] = result[<<u, s>>]

\* A report that was true stays true.
LEMMA ReportStays ==
  ASSUME Books, NEW u \in Search, phase'[u] = "done", ~Finish(u), Next,
         phase[u] = "done" => ReportOf(u)
  PROVE  ReportOf(u)'
<1>1. ASSUME phase'[u] = phase[u], NEW c \in Call, call[c] \in {"created", "queued", "calling"},
             \A d \in Call : d # c => call'[d] = call[d] /\ result'[d] = result[d]
      PROVE  \A s \in Source : call'[<<u, s>>] = call[<<u, s>>] /\ result'[<<u, s>>] = result[<<u, s>>]
  <2> SUFFICES ASSUME NEW s \in Source
               PROVE  call'[<<u, s>>] = call[<<u, s>>] /\ result'[<<u, s>>] = result[<<u, s>>]
    OBVIOUS
  <2>1. <<u, s>> \in Call /\ <<u, s>>[1] = u
    BY PairCalls
  <2>2. <<u, s>> # c
    BY <1>1, <2>1, DoneAtRest
  <2> QED
    BY <1>1, <2>1, <2>2
<1>2. phase[u] = "done" /\ Unmoved(u)
  <2>1. ASSUME NEW c \in Call, CallStep(c)
        PROVE  Unmoved(u)
    <3>1. /\ call[c] \in {"created", "queued", "calling"} /\ UNCHANGED searchVars
          /\ \A d \in Call : d # c => call'[d] = call[d] /\ result'[d] = result[d]
      BY <2>1, CallStepChanges
    <3> QED
      BY <1>1, <3>1 DEF searchVars, Unmoved
  <2>2. CASE Grant
    <3>1. UNCHANGED searchVars
      BY <2>2, GrantChanges
    <3>2. PICK c \in Call : /\ call[c] = "queued"
                            /\ \A d \in Call : d # c => call'[d] = call[d] /\ result'[d] = result[d]
      BY <2>2, GrantChanges
    <3> QED
      BY <1>1, <3>1, <3>2 DEF searchVars, Unmoved
  <2>3. ASSUME NEW v \in Search, Begin(v) \/ WebStep(v) \/ Cancel(v) \/ Finish(v)
        PROVE  Unmoved(u)
    <3>1. /\ phase[v] # "done" /\ (phase'[v] = "done" => Finish(v))
          /\ \A c \in Call : c[1] # v => call'[c] = call[c] /\ result'[c] = result[c]
          /\ \A t \in Search : t # v => /\ phase'[t] = phase[t] /\ sources'[t] = sources[t]
                                        /\ merged'[t] = merged[t] /\ report'[t] = report[t]
      BY <2>3, SearchStepChanges
    <3>2. u # v
      BY <3>1
    <3>3. \A s \in Source : call'[<<u, s>>] = call[<<u, s>>] /\ result'[<<u, s>>] = result[<<u, s>>]
      BY <3>1, <3>2, PairCalls
    <3> QED
      BY <3>1, <3>2, <3>3 DEF Unmoved
  <2>4. CASE Done
    BY <2>4 DEF Done, vars, searchVars, callVars, Unmoved
  <2> QED
    BY <2>1, <2>2, <2>3, <2>4 DEF Next, Unmoved
<1>3. ReportOf(u)
  BY <1>2
<1>4. sources[u] \subseteq Source
  BY DEF Books, TypeOK
<1>5. \A s \in sources[u] : call'[<<u, s>>] = call[<<u, s>>]
  BY <1>2, <1>4 DEF Unmoved
<1>6. Back(u)' = Back(u)
  BY <1>2 DEF Unmoved, Back
<1>7. Askable(sources[u])' = Askable(sources[u])
  BY <1>2 DEF Unmoved, Askable
<1> QED
  BY <1>2, <1>3, <1>5, <1>6, <1>7 DEF ReportOf, Unmoved

-----------------------------------------------------------------------------
(* The theorems *)

\* Every step keeps the books.
LEMMA NextKeeps ==
  ASSUME SearchAssumption, Books, Next
  PROVE  Books'
<1>1. ASSUME NEW c \in Call, Answer(c)
      PROVE  Books'
  <2>1. PICK reply \in Reply : Over(c, Adapted(reply))
    BY <1>1 DEF Answer
  <2>2. Adapted(reply) \in Result /\ (Adapted(reply).docs => Adapted(reply).status = "ok")
    BY ResultTypes
  <2> QED
    BY <1>1, <2>1, <2>2, EndKeeps DEF Answer
<1>2. ASSUME NEW c \in Call, Timeout(c)
      PROVE  Books'
  <2>1. TimedOut \in Result /\ ~TimedOut.docs
    BY DEF TimedOut, Res, Result
  <2> QED
    BY <1>2, <2>1, EndKeeps DEF Timeout
<1>3. CASE Done
  <2>1. UNCHANGED vars
    BY <1>3 DEF Done
  <2> QED
    BY <2>1 DEF Books, vars, searchVars, callVars, TypeOK, Slots, QueueOK, InFlight, SlotsConserved,
                WebOK, Known, CancelledExactly, Pending
<1>4. ASSUME NEW c \in Call, CallStep(c)
      PROVE  Books'
  BY <1>1, <1>2, <1>4, StartKeeps, UnwindKeeps DEF CallStep
<1>5. ASSUME NEW u \in Search, Begin(u) \/ WebStep(u) \/ Cancel(u) \/ Finish(u)
      PROVE  Books'
  BY <1>5, BeginKeeps, RetryKeeps, WebAnswerKeeps, WebRaisesKeeps, CancelKeeps, FinishKeeps DEF WebStep
<1> QED
  BY <1>3, <1>4, <1>5, GrantKeeps DEF Next

\* Nothing changes in a stuttering step.
LEMMA StutterKeeps ==
  ASSUME Books, ReportIsTrue, UNCHANGED vars
  PROVE  Books' /\ ReportIsTrue'
<1>1. Books'
  BY DEF Books, vars, searchVars, callVars, TypeOK, Slots, QueueOK, InFlight, SlotsConserved,
         WebOK, Known, CancelledExactly, Pending
<1>2. ReportIsTrue'
  BY DEF ReportIsTrue, vars, searchVars, callVars
<1> QED
  BY <1>1, <1>2

\* The semaphore is in order, the calls are where their searches say, and what is being cancelled
\* is what the failed and cancelled searches left running; and the reports are true.
THEOREM BooksKept == Spec => [](Books /\ ReportIsTrue)
<1>1. Init => Books /\ ReportIsTrue
  BY BooksInit, SearchAssumption DEF Init, ReportIsTrue
<1>2. Books /\ ReportIsTrue /\ [Next]_vars => Books' /\ ReportIsTrue'
  <2> SUFFICES ASSUME Books, ReportIsTrue, [Next]_vars
               PROVE  Books' /\ ReportIsTrue'
    OBVIOUS
  <2>1. CASE Next
    <3>1. Books'
      BY <2>1, NextKeeps, SearchAssumption
    <3>2. ASSUME NEW u \in Search, phase'[u] = "done"
          PROVE  ReportOf(u)'
      <4>1. phase[u] = "done" => ReportOf(u)
        BY DEF ReportIsTrue, ReportOf, Back
      <4> QED
        BY <2>1, <3>2, <4>1, ReportStays, FinishKeeps
    <3> QED
      BY <3>1, <3>2 DEF ReportIsTrue, ReportOf, Back
  <2>2. CASE UNCHANGED vars
    BY <2>2, StutterKeeps
  <2> QED
    BY <2>1, <2>2
<1> QED
  BY <1>1, <1>2, PTL DEF Spec

\* Every variable stays in its domain.
THEOREM SearchTypeCorrect == Spec => []TypeOK
<1>1. Books => TypeOK
  BY DEF Books
<1> QED
  BY <1>1, BooksKept, PTL

\* However calls end - answered, timed out, cancelled while they wait or while they call - and
\* however many searches share the loop, no slot is lost or given twice (_tavily_invoke).
THEOREM SlotsNeverLeak == Spec => []SlotsConserved
<1>1. Books => SlotsConserved
  BY DEF Books, Slots
<1> QED
  BY <1>1, BooksKept, PTL

\* A search that fails or is cancelled takes its unfinished calls with it, and no other call is
\* ever cancelled; a finished search leaves none (the except branch of _research_update).
THEOREM CancellationIsExact == Spec => []CancelledExactly
<1>1. Books => CancelledExactly
  BY DEF Books
<1> QED
  BY <1>1, BooksKept, PTL

\* From the moment a search is done it returns what came back, and its routing report, if it has one,
\* names the selected sources and no other and says of each what came back (_finish_task_update).
THEOREM ReportsAreTrue == Spec => []ReportIsTrue
<1> QED
  BY BooksKept, PTL

-----------------------------------------------------------------------------
(* Structured searches *)

Live == {"created", "queued", "calling"}

\* Documents come from calls that are over.
Quiet == \A c \in Call : result[c].docs => call[c] = "over"

\* A step that ends a call, or brings it no documents, keeps this.
LEMMA QuietCall ==
  ASSUME Quiet, NEW c \in Call,
         \A d \in Call : d # c => call'[d] \in {call[d], "over"} /\ result'[d] = result[d],
         call'[c] = "over" \/ ~result'[c].docs
  PROVE  Quiet'
BY DEF Quiet

\* Every step keeps it.
LEMMA QuietStep ==
  ASSUME SearchAssumption, Books, Quiet, [Next]_vars
  PROVE  Quiet'
<1>0. /\ call \in [Call -> CallState] /\ result \in [Call -> Result]
      /\ \A c \in Call : call[c] \in Live => ~result[c].docs
  BY DEF Books, TypeOK, Quiet, Live
<1>1. ASSUME NEW c \in Call, CallStep(c)
      PROVE  Quiet'
  <2>1. call[c] \in Live /\ \A d \in Call : d # c => call'[d] = call[d]
    BY <1>1, CallStepChanges DEF Live
  <2>2. CASE Start(c)
    BY <1>0, <2>1, <2>2, QuietCall DEF Start
  <2>3. CASE Answer(c) \/ Timeout(c)
    BY <1>0, <2>1, <2>3, QuietCall DEF Answer, Timeout, Over
  <2>4. CASE Unwind(c)
    BY <1>0, <2>1, <2>4, QuietCall DEF Unwind
  <2> QED
    BY <1>1, <2>2, <2>3, <2>4 DEF CallStep
<1>2. CASE Grant
  <2>1. PICK c \in Call : call[c] = "queued" /\ \A d \in Call : d # c => call'[d] = call[d]
    BY <1>2, GrantChanges
  <2> QED
    BY <1>0, <1>2, <2>1, QuietCall DEF Grant, Live
<1>3. ASSUME NEW u \in Search, Begin(u)
      PROVE  Quiet'
  <2>1. result' = result /\ \A c \in Call : c[1] # u => call'[c] = call[c]
    BY <1>3, SearchStepChanges DEF Begin
  <2>2. ASSUME NEW c \in Call, c[1] = u
        PROVE  ~result'[c].docs
    <3>1. c = <<u, c[2]>> /\ c[2] \in Source
      BY <2>2, CallPairs
    <3>2. call[c] = "none"
      BY <1>3, <3>1 DEF Begin, Books, WebOK
    <3> QED
      BY <2>1, <3>2 DEF Quiet
  <2> QED
    BY <2>1, <2>2 DEF Quiet
<1>4. ASSUME NEW u \in Search, WebStep(u) \/ Cancel(u)
      PROVE  Quiet'
  <2>1. <<u, "web">> \in Call
    BY PairCalls DEF Source
  <2>2. CASE RetryUndated(u)
    BY <1>0, <2>1, <2>2, QuietCall DEF RetryUndated, Live
  <2>3. CASE WebAnswer(u) \/ WebRaises(u)
    BY <1>0, <2>1, <2>3, QuietCall DEF WebAnswer, WebRaises, Over
  <2>4. CASE Cancel(u)
    BY <1>0, <2>1, <2>4, QuietCall DEF Cancel
  <2> QED
    BY <1>4, <2>2, <2>3, <2>4 DEF WebStep
<1>5. ASSUME UNCHANGED <<call, result>>
      PROVE  Quiet'
  BY <1>5 DEF Quiet
<1> QED
  BY <1>1, <1>2, <1>3, <1>4, <1>5 DEF Next, Done, Finish, vars, callVars

-----------------------------------------------------------------------------
(* What the abstract searches see *)

Stages   == [u \in Search |-> IF phase[u] \in {"web", "gather"} THEN "open" ELSE phase[u]]
Asked    == {c \in Call : call[c] # "none"}
Found    == {c \in Call : result[c].docs}
Returned == [u \in Search |-> IF phase[u] = "done" THEN merged[u] ELSE {}]

\* A search that goes to another phase goes to another stage.
LEMMA StagesStep ==
  ASSUME Books, NEW u \in Search, NEW p \in Phase \ {"done"}, phase[u] # "done",
         phase' = [phase EXCEPT ![u] = p],
         \A v \in Search : v # u => merged'[v] = merged[v]
  PROVE  /\ Stages' = [Stages EXCEPT ![u] = IF p \in {"web", "gather"} THEN "open" ELSE p]
         /\ Stages[u] = IF phase[u] \in {"web", "gather"} THEN "open" ELSE phase[u]
         /\ Returned' = Returned
<1>1. \A v \in Search : phase'[v] = IF v = u THEN p ELSE phase[v]
  BY DEF Books, TypeOK
<1> QED
  BY <1>1 DEF Stages, Returned

\* A call that goes on is no step of the abstract searches.
LEMMA CallGoesOnUnseen ==
  ASSUME Books, NEW c \in Call, call[c] \in Live, NEW x \in Live, call' = [call EXCEPT ![c] = x],
         UNCHANGED <<phase, sources, merged, report, result>>
  PROVE  UNCHANGED Structured!vars
<1>1. \A d \in Call : call'[d] = IF d = c THEN x ELSE call[d]
  BY DEF Books, TypeOK
<1>2. Asked' = Asked /\ Pending' = Pending
  BY <1>1 DEF Asked, Pending, Live
<1>3. Stages' = Stages /\ Found' = Found /\ Returned' = Returned
  BY DEF Stages, Found, Returned
<1> QED
  BY <1>2, <1>3 DEF Structured!vars, Asked, Stages, Found, Returned

\* A call that ends was under way, and is no more.
LEMMA CallEnds ==
  ASSUME Books, NEW c \in Call, call[c] \in Live, call' = [call EXCEPT ![c] = "over"]
  PROVE  c \in Pending /\ Pending' = Pending \ {c} /\ Asked' = Asked
<1>1. \A d \in Call : call'[d] = IF d = c THEN "over" ELSE call[d]
  BY DEF Books, TypeOK
<1> QED
  BY <1>1 DEF Asked, Pending, Live

\* Its result adds its documents, if it has any.
LEMMA ResultFound ==
  ASSUME Books, Quiet, NEW c \in Call, call[c] \in Live, NEW r, result' = [result EXCEPT ![c] = r]
  PROVE  Found' = IF r.docs THEN Found \cup {c} ELSE Found
<1>1. c \notin Found
  BY DEF Quiet, Found, Live
<1>2. \A d \in Call : result'[d] = IF d = c THEN r ELSE result[d]
  BY DEF Books, TypeOK
<1> QED
  BY <1>1, <1>2 DEF Found

\* A background call of an open search comes back.
LEMMA BackgroundReturns ==
  ASSUME Books, Quiet, NEW c \in Call, Answer(c) \/ Timeout(c)
  PROVE  Structured!Next
<1>1. PICK r : Over(c, r)
  BY DEF Answer, Timeout
<1>2. call[c] \in Live /\ c \notin dying /\ UNCHANGED searchVars
  BY DEF Answer, Timeout, Live
<1>3. c \in Pending /\ Pending' = Pending \ {c} /\ Asked' = Asked
  BY <1>1, <1>2, CallEnds DEF Over
<1>4. Found' \in {Found, Found \cup {c}}
  BY <1>1, <1>2, ResultFound DEF Over
<1>5. Stages[c[1]] = "open"
  <2>1. c[1] \in Search /\ c[2] \in Source /\ c = <<c[1], c[2]>>
    BY CallPairs
  <2>2. phase[c[1]] \notin {"failed", "cancelled", "done"}
    BY <1>2, <1>3 DEF Books, CancelledExactly
  <2>3. phase[c[1]] # "new"
    BY <1>2, <2>1 DEF Books, WebOK, Live
  <2> QED
    BY <2>1, <2>2, <2>3 DEF Books, TypeOK, Phase, Stages
<1>6. Stages' = Stages /\ Returned' = Returned
  BY <1>2 DEF searchVars, Stages, Returned
<1>7. Structured!Return(c)
  BY <1>2, <1>3, <1>4, <1>5, <1>6 DEF searchVars, Structured!Return, Asked, Stages, Found, Returned
<1> QED
  BY <1>3, <1>7 DEF Structured!Next

\* A cancelled call is reaped.
LEMMA UnwindReaps ==
  ASSUME Books, NEW c \in Call, Unwind(c)
  PROVE  Structured!Next
<1>1. call[c] \in Live /\ phase[c[1]] \in {"failed", "cancelled"} /\ c[1] \in Search
  BY DyingCalls, CallPairs DEF Unwind, Live
<1>2. c \in Pending /\ Pending' = Pending \ {c} /\ Asked' = Asked
  BY <1>1, CallEnds DEF Unwind
<1>3. Stages[c[1]] \in {"failed", "cancelled"}
  BY <1>1 DEF Stages
<1>4. Stages' = Stages /\ Returned' = Returned /\ Found' = Found
  BY DEF Unwind, searchVars, Stages, Returned, Found
<1>5. Structured!Reap(c)
  BY <1>2, <1>3, <1>4 DEF Unwind, searchVars, Structured!Reap, Asked, Stages, Found, Returned
<1> QED
  BY <1>2, <1>5 DEF Structured!Next

\* A search opens: what it asks is selected, but for the documentation.
LEMMA BeginOpens ==
  ASSUME SearchAssumption, Books, NEW u \in Search, Begin(u)
  PROVE  Structured!Next
<1>1. PICK S \in Route[u] : \E D \in DocsPlans(S), J \in CommunityJobs(S) :
        /\ sources' = [sources EXCEPT ![u] = S]
        /\ call' = [c \in Call |-> IF c[1] # u THEN call[c]
                                   ELSE IF c[2] = "web" THEN "queued"
                                   ELSE IF c[2] \in D \cup J THEN "created" ELSE "none"]
  BY DEF Begin
<1>2. PICK D \in DocsPlans(S), J \in CommunityJobs(S) :
        /\ sources' = [sources EXCEPT ![u] = S]
        /\ call' = [c \in Call |-> IF c[1] # u THEN call[c]
                                   ELSE IF c[2] = "web" THEN "queued"
                                   ELSE IF c[2] \in D \cup J THEN "created" ELSE "none"]
  BY <1>1
<1>3. S \in SUBSET Source /\ "web" \in S
  BY <1>1 DEF SearchAssumption
<1> DEFINE A == {"web"} \cup D \cup J
<1>4. A \in SUBSET Structured!Askable(S) /\ "web" \in A /\ A \subseteq Source
  <2>1. D \subseteq Askable(S) /\ D \subseteq {"official_docs"} /\ J \subseteq S
    BY <1>2 DEF DocsPlans, CommunityJobs, Requests
  <2>2. S \subseteq Askable(S) /\ Structured!Askable(S) = Askable(S)
    BY <1>3 DEF Askable, Structured!Askable
  <2> QED
    BY <1>3, <2>1, <2>2 DEF Source, Background
<1>5. \A c \in Call : c[1] = u => call[c] = "none"
  <2> SUFFICES ASSUME NEW c \in Call, c[1] = u
               PROVE  call[c] = "none"
    OBVIOUS
  <2>1. c[2] \in Source /\ c = <<u, c[2]>>
    BY CallPairs
  <2>2. \A s \in Source : call[<<u, s>>] = "none"
    BY DEF Books, WebOK, Begin
  <2> QED
    BY <2>1, <2>2
<1>6. \A c \in Call : /\ c[1] # u => call'[c] = call[c]
                      /\ c[1] = u => /\ c[2] \in A => call'[c] \in Live
                                     /\ c[2] \notin A => call'[c] = "none"
  BY <1>2 DEF Live
<1>7. \A c : c \in Structured!Of(u, A) <=> c \in Call /\ c[1] = u /\ c[2] \in A
  BY <1>3, <1>4, CallPairs DEF Structured!Of, Call
<1> HIDE DEF A
<1>8. Asked' = Asked \cup Structured!Of(u, A) /\ Pending' = Pending \cup Structured!Of(u, A)
  BY <1>5, <1>6, <1>7 DEF Asked, Pending, Live
<1>9. Stages' = [Stages EXCEPT ![u] = "open"] /\ Stages[u] = "new" /\ Returned' = Returned
  BY StagesStep DEF Begin, Phase
<1>10. Found' = Found /\ report' = report
  BY DEF Begin, Found
<1>11. Structured!Open(u)
  <2>1. /\ sources' = [sources EXCEPT ![u] = S]
        /\ Asked' = Asked \cup Structured!Of(u, A) /\ Pending' = Pending \cup Structured!Of(u, A)
    BY <1>2, <1>8
  <2> QED
    BY <1>3, <1>4, <1>9, <1>10, <2>1 DEF Structured!Open, Asked, Stages, Found, Returned
<1> QED
  BY <1>11 DEF Structured!Next

\* The web call comes back.
LEMMA WebReturns ==
  ASSUME Books, Quiet, NEW u \in Search, WebAnswer(u)
  PROVE  Structured!Next
<1> DEFINE w == <<u, "web">>
<1>1. w \in Call /\ w[1] = u
  BY PairCalls DEF Source
<1>2. PICK r : Over(w, r)
  BY DEF WebAnswer
<1>3. call[w] \in Live
  BY DEF WebAnswer, Live
<1> HIDE DEF w
<1>4. w \in Pending /\ Pending' = Pending \ {w} /\ Asked' = Asked
  BY <1>1, <1>2, <1>3, CallEnds DEF Over
<1>5. Found' \in {Found, Found \cup {w}}
  BY <1>1, <1>2, <1>3, ResultFound DEF Over
<1>6. /\ Stages' = [Stages EXCEPT ![u] = "open"] /\ Stages[u] = "open" /\ Returned' = Returned
  <2>1. \A v \in Search : v # u => merged'[v] = merged[v]
    BY SearchStepChanges DEF WebStep
  <2> QED
    BY <2>1, StagesStep DEF WebAnswer, Phase
<1>7. Stages' = Stages
  BY <1>6 DEF Stages
<1>8. Structured!Return(w)
  BY <1>1, <1>4, <1>5, <1>6, <1>7
     DEF WebAnswer, Structured!Return, Asked, Stages, Found, Returned
<1> QED
  BY <1>4, <1>8 DEF Structured!Next

\* A search is given up, with its web call.
LEMMA GivenUpAborts ==
  ASSUME Books, Quiet, NEW u \in Search, WebRaises(u) \/ Cancel(u)
  PROVE  Structured!Next
<1> DEFINE w == <<u, "web">>
<1>1. w \in Call /\ "web" \in Source
  BY PairCalls DEF Source
<1>2. PICK end \in {"failed", "cancelled"} : phase' = [phase EXCEPT ![u] = end]
  BY DEF WebRaises, Cancel
<1>3. phase[u] \in {"web", "gather"} /\ UNCHANGED <<sources, merged, report>>
  BY DEF WebRaises, Cancel
<1>4. Stages' = [Stages EXCEPT ![u] = end] /\ Stages[u] = "open" /\ Returned' = Returned
  BY <1>2, <1>3, StagesStep DEF Phase
<1>5. call' = [call EXCEPT ![w] = "over"] /\ call[w] # "none"
  BY <1>1, <1>3 DEF WebRaises, Cancel, Over, Books, WebOK
<1>6. Found' = Found
  <2>1. CASE WebRaises(u)
    <3>1. call[w] \in Live /\ result' = [result EXCEPT ![w] = NoResult]
      BY <2>1 DEF WebRaises, Over, Live
    <3>2. ~NoResult.docs
      BY DEF NoResult, Res
    <3> HIDE DEF w
    <3> QED
      BY <1>1, <3>1, <3>2, ResultFound
  <2>2. CASE Cancel(u)
    BY <2>2 DEF Cancel, Found
  <2> QED
    BY <2>1, <2>2
<1>7. Pending' = Pending \ {w} /\ Asked' = Asked
  <2>1. \A d \in Call : call'[d] = IF d = w THEN "over" ELSE call[d]
    BY <1>5 DEF Books, TypeOK
  <2> HIDE DEF w
  <2> QED
    BY <1>5, <2>1 DEF Asked, Pending
<1>8. Structured!Abort(u)
  BY <1>3, <1>4, <1>6, <1>7 DEF Structured!Abort, Asked, Stages, Found, Returned
<1> QED
  BY <1>8 DEF Structured!Next

\* A search closes, with some of what was found and a true report, or none.
LEMMA FinishCloses ==
  ASSUME Books, NEW u \in Search, Finish(u)
  PROVE  Structured!Next
<1>1. Stages[u] = "open" /\ Stages' = [Stages EXCEPT ![u] = "done"]
  <2>1. \A v \in Search : phase'[v] = IF v = u THEN "done" ELSE phase[v]
    BY DEF Finish, Books, TypeOK
  <2>2. phase[u] = "gather"
    BY DEF Finish
  <2>3. Stages' = [v \in Search |-> IF v = u THEN "done"
                                   ELSE IF phase[v] \in {"web", "gather"} THEN "open" ELSE phase[v]]
    BY <2>1 DEF Stages
  <2> QED
    BY <2>2, <2>3 DEF Stages
<1>2. \A s \in Source : <<u, s>> \notin Pending
  BY DEF Finish, CallsOf
<1>3. \E R \in Structured!Returnable(u) : Returned' = [Returned EXCEPT ![u] = R]
  <2>1. /\ merged'[u] \subseteq Back(u) /\ Back(u) \subseteq Source
        /\ "web" \in Back(u) => "web" \in merged'[u]
    BY MergedAtEnd DEF Back
  <2>2. \A s \in Source : s \in Back(u) <=> <<u, s>> \in Found
    BY PairCalls DEF Found, Back
  <2>3. "web" \in Source
    BY DEF Source
  <2>4. merged'[u] \in Structured!Returnable(u)
    BY <2>1, <2>2, <2>3 DEF Structured!Returnable, Found
  <2>5. \A v \in Search : v # u => phase'[v] = phase[v] /\ merged'[v] = merged[v]
    BY SearchStepChanges
  <2>6. phase'[u] = "done"
    BY DEF Finish, Books, TypeOK
  <2>7. Returned' = [Returned EXCEPT ![u] = merged'[u]]
    BY <2>5, <2>6 DEF Returned
  <2> QED
    BY <2>4, <2>7
<1>4. \E f \in Structured!Truthful(u) \cup {Structured!NoReport} : report' = [report EXCEPT ![u] = f]
  <2> DEFINE R == [s \in sources[u] |-> OutcomeOf(<<u, s>>)]
  <2>1. sources[u] \subseteq Source
    BY DEF Books, TypeOK
  <2>2. \A s \in sources[u] : /\ OutcomeOf(<<u, s>>) \in Status
                              /\ (OutcomeOf(<<u, s>>) = "ok") <=> <<u, s>> \in Found
                              /\ (OutcomeOf(<<u, s>>) = "skipped") <=> <<u, s>> \notin Asked
    BY <2>1, OutcomeSays, PairCalls DEF Found, Asked
  <2>3. R \in Structured!Truthful(u)
    BY <2>2 DEF Structured!Truthful, Structured!Word, Status, Found, Asked
  <2>4. PICK f \in {NoReport, R} : report' = [report EXCEPT ![u] = f]
    BY DEF Finish
  <2>5. f \in Structured!Truthful(u) \cup {Structured!NoReport}
    BY <2>3, <2>4 DEF NoReport, Structured!NoReport
  <2> QED
    BY <2>4, <2>5
<1>5. Asked' = Asked /\ Pending' = Pending /\ Found' = Found
  BY DEF Finish, callVars, Asked, Pending, Found
<1>6. Structured!Close(u)
  BY <1>1, <1>2, <1>3, <1>4, <1>5
     DEF Finish, Structured!Close, Asked, Stages, Found, Returned
<1> QED
  BY <1>6 DEF Structured!Next

\* Every step is one of the abstract searches, or none.
LEMMA StructuredStep ==
  ASSUME SearchAssumption, Books, Quiet, [Next]_vars
  PROVE  [Structured!Next]_(Structured!vars)
<1>1. ASSUME NEW c \in Call, Start(c)
      PROVE  UNCHANGED Structured!vars
  BY <1>1, CallGoesOnUnseen DEF Start, searchVars, Live
<1>2. CASE Grant
  <2>1. Head(queue) \in Call /\ call[Head(queue)] = "queued"
    <3>1. queue \in Seq(Call) /\ queue # <<>> /\ 1 \in 1..Len(queue) /\ Head(queue) = queue[1]
      BY <1>2 DEF Books, Slots, Grant
    <3> QED
      BY <3>1 DEF Books, Slots, QueueOK
  <2>2. UNCHANGED Structured!vars
    BY <1>2, <2>1, CallGoesOnUnseen DEF Grant, searchVars, Live
  <2> QED
    BY <2>2
<1>3. ASSUME NEW u \in Search, RetryUndated(u)
      PROVE  UNCHANGED Structured!vars
  <2>1. <<u, "web">> \in Call
    BY PairCalls DEF Source
  <2> QED
    BY <1>3, <2>1, CallGoesOnUnseen DEF RetryUndated, Live
<1>4. ASSUME NEW c \in Call, Answer(c) \/ Timeout(c) \/ Unwind(c)
      PROVE  Structured!Next
  BY <1>4, BackgroundReturns, UnwindReaps
<1>5. ASSUME NEW u \in Search, Begin(u) \/ WebAnswer(u) \/ WebRaises(u) \/ Cancel(u) \/ Finish(u)
      PROVE  Structured!Next
  BY <1>5, BeginOpens, WebReturns, GivenUpAborts, FinishCloses
<1>6. CASE UNCHANGED vars
  <2>1. /\ Stages' = Stages /\ Asked' = Asked /\ Pending' = Pending /\ Found' = Found
        /\ Returned' = Returned
    BY <1>6 DEF vars, searchVars, callVars, Stages, Asked, Pending, Found, Returned
  <2> QED
    BY <1>6, <2>1 DEF vars, searchVars, Structured!vars, Stages, Asked, Found, Returned
<1> QED
  BY <1>1, <1>2, <1>3, <1>4, <1>5, <1>6 DEF Next, CallStep, WebStep, Done

\* The searches are structured: each waits for all it asked and returns only what came back, or
\* is given up and nothing more comes back to it, however the others go (_research_update).
THEOREM SearchesAreStructured == Spec => SearchIsStructured
<1>1. Init => Structured!Init /\ Quiet
  <2> SUFFICES ASSUME Init PROVE Structured!Init /\ Quiet
    OBVIOUS
  <2>1. \A c \in Call : ~result[c].docs
    BY DEF Init, NoResult, Res
  <2>2. Asked = {} /\ Pending = {} /\ Found = {}
    BY <2>1 DEF Init, Asked, Pending, Found
  <2>3. Stages = [u \in Search |-> "new"] /\ Returned = [u \in Search |-> {}]
    BY DEF Init, Stages, Returned
  <2> QED
    BY <2>1, <2>2, <2>3
       DEF Init, NoReport, Structured!NoReport, Structured!Init, Quiet, Asked, Stages, Found, Returned
<1>2. Quiet /\ Books /\ [Next]_vars => Quiet'
  BY SearchAssumption, QuietStep
<1>3. Quiet /\ Books /\ [Next]_vars => [Structured!Next]_(Structured!vars)
  BY SearchAssumption, StructuredStep
<1> QED
  BY <1>1, <1>2, <1>3, BooksKept, PTL DEF Spec, SearchIsStructured, Structured!Spec
=============================================================================
